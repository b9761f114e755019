-------------------------- MODULE StructureProofs --------------------------
(***************************************************************************)
(* TLAPS proofs about Mmu, for any number of processes, pages and frames   *)
(* and any TLB; about Scheduler, for any jobs and each of its schemes; and *)
(* about Memory's allocator and leak checker, for any sizes and any calls. *)
(***************************************************************************)
EXTENDS Mmu, Scheduler, Memory, FiniteSetTheorems, SequenceTheorems, TLAPS

(***************************************************************************)
(* The MMU.                                                                *)
(***************************************************************************)
Entries == [page : Pages, table : Frames]

TypeOK ==
    /\ curr_pid \in Pids \union {0}
    /\ tlb \in Seq(Entries)
    /\ directory \in [Pids -> Frames \union {0}]
    /\ dir \in [Frames -> [DirBits -> Frames \union {0}]]
    /\ table \in [Frames -> [TableBits -> Frames \union {0}]]
    /\ data \in [Frames -> Values \union {Zero}]
    /\ used \subseteq Frames
    /\ truth \in [Pids -> [Pages -> Values \union {Zero}]]

\* The frame that a directory, a table or a page points to is not NULL.
IsDirectory(f) == \E pid \in Pids : directory[pid] = f
InDirectory(f) == \E g \in Frames : \E d \in DirBits : dir[g][d] = f
InTable(f) == \E g \in Frames : \E i \in TableBits : table[g][i] = f

\* Frames that have not been given out are clean, directories only have a
\* first entry, and only tables have entries.
CleanInv ==
    /\ \A f \in Frames \ used : dir[f] = EmptyDir /\ table[f] = EmptyTable /\ data[f] = Zero
    /\ \A f \in Frames : \A d \in DirBits : dir[f][d] # 0 => d = 0 /\ IsDirectory(f)
    /\ \A f \in Frames : table[f] # EmptyTable => ~IsDirectory(f) /\ ~InTable(f)

\* What is pointed to has been given out.
UsedInv ==
    /\ \A pid \in Pids : directory[pid] # 0 => directory[pid] \in used
    /\ \A f \in Frames : \A d \in DirBits : dir[f][d] # 0 => dir[f][d] \in used
    /\ \A f \in Frames : \A i \in TableBits : table[f][i] # 0 => table[f][i] \in used

\* A frame is pointed to once.
OnceInv ==
    /\ \A p, q \in Pids : directory[p] # 0 /\ directory[p] = directory[q] => p = q
    /\ \A f, g \in Frames : \A d, e \in DirBits :
         dir[f][d] # 0 /\ dir[f][d] = dir[g][e] => f = g /\ d = e
    /\ \A f, g \in Frames : \A i, j \in TableBits :
         table[f][i] # 0 /\ table[f][i] = table[g][j] => f = g /\ i = j
    /\ \A f \in Frames : /\ ~(IsDirectory(f) /\ InDirectory(f))
                         /\ ~(IsDirectory(f) /\ InTable(f))
                         /\ ~(InDirectory(f) /\ InTable(f))

\* The table that a process has from the start.
FirstTable(pid) == dir[directory[pid]][0]

\* The TLB holds entries of the process that ran last: those of the first
\* table, and those of tables that only the TLB knows of.
TlbInv ==
    /\ tlb # <<>> => curr_pid \in Pids /\ directory[curr_pid] # 0
    /\ \A i \in DOMAIN tlb :
         LET t == tlb[i].table
         IN /\ t \in used /\ ~IsDirectory(t) /\ ~InTable(t)
            /\ IF tlb[i].page[1] = 0 THEN t = FirstTable(curr_pid) ELSE ~InDirectory(t)
    /\ \A i, j \in DOMAIN tlb : tlb[i].page = tlb[j].page => i = j
    /\ \A i, j \in DOMAIN tlb : tlb[i].table = tlb[j].table => tlb[i].page[1] = tlb[j].page[1]

\* What is in the page of table t that is the page p.
Holds(t, p, v) == IF table[t][p[2]] = 0 THEN v = Zero ELSE data[table[t][p[2]]] = v

\* An entry of the TLB leads to what was written last or, if it is not of the
\* first table, to zero.
TlbData == \A i \in DOMAIN tlb : LET p == tlb[i].page
                                 IN \/ Holds(tlb[i].table, p, truth[curr_pid][p])
                                    \/ p[1] # 0 /\ Holds(tlb[i].table, p, Zero)

\* The first table leads to what was written last.
DataInv ==
    /\ \A pid \in Pids : directory[pid] = 0 => truth[pid] = Untouched
    /\ \A pid \in Pids : \A p \in Pages :
         directory[pid] # 0 /\ p[1] = 0
           => FirstTable(pid) # 0 /\ Holds(FirstTable(pid), p, truth[pid][p])
    /\ TlbData

MmuInv == TypeOK /\ CleanInv /\ UsedInv /\ OnceInv /\ TlbInv /\ DataInv /\ ReadsLastWrite

-----------------------------------------------------------------------------
\* A set of numbers that is not empty has a least one.
LEMMA LeastNumber ==
  ASSUME NEW T, T \subseteq Nat, T # {}
  PROVE  \E x \in T : \A y \in T : x <= y
<1> DEFINE R == OpToRel(<, Nat)
<1>1. IsWellFoundedOn(R, Nat)
  BY NatLessThanWellFounded
<1>2. PICK x \in T : \A y \in T : ~ (<<y, x>> \in R)
  <2> HIDE DEF R
  <2> QED BY <1>1, WFMin
<1>3. \A y \in T : ~(y < x)
  BY <1>2 DEF OpToRel
<1> QED BY <1>3

\* The numbers of S below f.
Below(f, S) == {g \in S : g < f}

\* If a finite set of numbers has an element with k - 1 below it, and more
\* than k elements, it has one with k below it.
LEMMA NextRank ==
  ASSUME NEW S, S \subseteq Nat, IsFiniteSet(S), NEW k \in Nat, k < Cardinality(S),
         k > 0 => \E f \in S : Cardinality(Below(f, S)) = k - 1
  PROVE  \E f \in S : Cardinality(Below(f, S)) = k
<1>1. CASE k = 0
  <2>1. S # {}
    BY <1>1, FS_EmptySet
  <2>2. PICK f \in S : \A g \in S : f <= g
    BY <2>1, LeastNumber
  <2>3. Below(f, S) = {}
    <3>1. \A g \in S : ~(g < f)
      BY <2>2
    <3> QED BY <3>1, Zenon DEF Below
  <2> QED BY <1>1, <2>3, FS_EmptySet
<1>2. CASE k > 0
  <2>1. PICK f \in S : Cardinality(Below(f, S)) = k - 1
    BY <1>2
  <2> DEFINE L == Below(f, S)
             T == S \ (L \union {f})
  <2>2. IsFiniteSet(L) /\ f \notin L
    BY FS_Subset DEF Below
  <2>3. Cardinality(L \union {f}) = k
    <3>1. Cardinality(L \union {f}) = Cardinality(L) + 1
      <4> HIDE DEF L
      <4> QED BY <2>2, FS_AddElement
    <3> QED BY <3>1, <2>1
  <2>4. T # {}
    <3> SUFFICES ASSUME T = {} PROVE FALSE
      OBVIOUS
    <3>1. L \union {f} = S
      BY DEF Below
    <3> QED BY <3>1, <2>3
  <2>5. PICK h \in T : \A y \in T : h <= y
    BY <2>4, LeastNumber
  <2>6. Below(h, S) = L \union {f}
    <3>1. \A g \in S : g < f \/ g = f \/ g \in T
      BY DEF Below
    <3>2. f < h
      <4>1. h \in S /\ ~(h < f) /\ h # f /\ h \in Nat /\ f \in Nat
        BY <2>5 DEF Below
      <4> QED BY <4>1
    <3>3. \A g \in S : g < h <=> g < f \/ g = f
      <4> SUFFICES ASSUME NEW g \in S PROVE g < h <=> g < f \/ g = f
        OBVIOUS
      <4>1. g \in Nat /\ h \in Nat /\ f \in Nat
        BY <2>5
      <4>2. g \in T => h <= g
        BY <2>5
      <4> HIDE DEF T
      <4> QED BY <4>1, <4>2, <3>1, <3>2
    <3>4. \A g : g \in Below(h, S) <=> g \in L \union {f}
      BY <3>3, Zenon DEF Below
    <3> QED BY <3>4, Zenon
  <2> QED BY <2>3, <2>6
<1> QED BY <1>1, <1>2

\* The frame that is given out as number k.
Given(k) == CHOOSE f \in Frames \ used : Cardinality(Below(f, Frames \ used)) = k - 1

\* While there are enough, ask_kernel_for_frame gives out different frames
\* that are not in use.
LEMMA FreshFrames ==
  ASSUME NEW n \in 0..4, Enough(n)
  PROVE  /\ \A k \in 1..n : Fresh(n)[k] = Given(k) /\ Given(k) \in Frames \ used
         /\ \A j, k \in 1..n : Given(j) = Given(k) => j = k
<1> DEFINE S == Frames \ used
<1>1. S \subseteq Nat /\ IsFiniteSet(S)
  BY MmuAssumption, FS_Subset
<1>2. Cardinality(S) \in Nat /\ Cardinality(S) >= n
  BY <1>1, FS_CardinalityType DEF Enough
<1> DEFINE Has(k) == \E f \in S : Cardinality(Below(f, S)) = k
<1>3. \A k \in Nat : k < Cardinality(S) /\ (k > 0 => Has(k - 1)) => Has(k)
  BY <1>1, NextRank
<1>4. \A k \in 1..n : Has(k - 1)
  <2> HIDE DEF Has, S
  <2>1. n > 0 => Has(0)
    BY <1>2, <1>3
  <2>2. n > 1 => Has(1)
    BY <1>2, <1>3, <2>1
  <2>3. n > 2 => Has(2)
    BY <1>2, <1>3, <2>2
  <2>4. n > 3 => Has(3)
    BY <1>2, <1>3, <2>3
  <2> QED BY <2>1, <2>2, <2>3, <2>4
<1>5. \A k \in 1..n : Given(k) \in S /\ Cardinality(Below(Given(k), S)) = k - 1
  BY <1>4 DEF Given
<1>6. \A k \in 1..n : Fresh(n)[k] = Given(k)
  BY DEF Fresh, Given, Below
<1> QED BY <1>5, <1>6

\* The numbers of a page index directories and tables; no frame is NULL.
LEMMA Bits ==
  /\ \A p \in Pages : p[1] \in DirBits /\ p[2] \in TableBits
  /\ 1 \in TableBits /\ 2 \in TableBits
  /\ 0 \notin Frames
  BY MmuAssumption DEF DirBits, TableBits

\* Nothing points to a frame that has not been given out.
LEMMA Unreferenced ==
  ASSUME TypeOK, UsedInv, TlbInv, NEW x \in Frames \ used
  PROVE  /\ ~IsDirectory(x) /\ ~InDirectory(x) /\ ~InTable(x) /\ x # 0
         /\ \A i \in DOMAIN tlb : tlb[i].table # x
  BY Bits DEF TypeOK, UsedInv, TlbInv, IsDirectory, InDirectory, InTable

LEMMA InitInv == Init => MmuInv
<1> SUFFICES ASSUME Init PROVE MmuInv
  OBVIOUS
<1> USE DEF Init, Zero
<1>1. TypeOK
  BY DEF TypeOK, EmptyDir, EmptyTable, Untouched
<1>2. CleanInv
  BY DEF CleanInv, EmptyDir
<1>3. UsedInv
  BY DEF UsedInv, EmptyDir, EmptyTable
<1>4. OnceInv
  BY Bits DEF OnceInv, EmptyDir, EmptyTable, IsDirectory, InDirectory, InTable
<1>5. TlbInv
  BY DEF TlbInv
<1>6. DataInv
  BY DEF DataInv, TlbData
<1>7. ReadsLastWrite
  BY DEF ReadsLastWrite, Nothing
<1> QED BY <1>1, <1>2, <1>3, <1>4, <1>5, <1>6, <1>7 DEF MmuInv

\* mmu_add_process keeps the invariant.
LEMMA AddInv ==
  ASSUME MmuInv, NEW pid \in Pids, mmu_add_process(pid)
  PROVE  MmuInv'
<1> USE DEF Zero
<1>1. PICK a, b, c, d \in Frames \ used :
        /\ a # b /\ a # c /\ a # d /\ b # c /\ b # d /\ c # d
        /\ Fresh(4)[1] = a /\ Fresh(4)[2] = b /\ Fresh(4)[3] = c /\ Fresh(4)[4] = d
  <2>1. Enough(4)
    BY DEF mmu_add_process
  <2>2. /\ \A k \in 1..4 : Fresh(4)[k] = Given(k) /\ Given(k) \in Frames \ used
        /\ \A j, k \in 1..4 : Given(j) = Given(k) => j = k
    BY <2>1, FreshFrames
  <2> QED BY <2>2
<1>2. /\ directory[pid] = 0
      /\ directory' = [directory EXCEPT ![pid] = a]
      /\ dir' = [dir EXCEPT ![a] = [EmptyDir EXCEPT ![0] = b]]
      /\ table' = [table EXCEPT ![b] = [EmptyTable EXCEPT ![1] = c, ![2] = d]]
      /\ used' = used \union {a, b, c, d}
      /\ UNCHANGED <<curr_pid, tlb, data, truth>>
      /\ result' = Nothing
  <2>1. {Fresh(4)[k] : k \in 1..4} = {a, b, c, d}
    <3>1. \A k \in 1..4 : k = 1 \/ k = 2 \/ k = 3 \/ k = 4
      OBVIOUS
    <3>2. 1 \in 1..4 /\ 2 \in 1..4 /\ 3 \in 1..4 /\ 4 \in 1..4
      OBVIOUS
    <3> QED BY <1>1, <3>1, <3>2, Zenon
  <2> QED BY <1>1, <2>1 DEF mmu_add_process
<1>3. /\ ~IsDirectory(a) /\ ~InDirectory(a) /\ ~InTable(a)
      /\ ~IsDirectory(b) /\ ~InDirectory(b) /\ ~InTable(b)
      /\ ~IsDirectory(c) /\ ~InDirectory(c) /\ ~InTable(c)
      /\ ~IsDirectory(d) /\ ~InDirectory(d) /\ ~InTable(d)
      /\ a # 0 /\ b # 0 /\ c # 0 /\ d # 0
      /\ \A i \in DOMAIN tlb : tlb[i].table \notin {a, b, c, d}
  BY <1>1, Unreferenced DEF MmuInv
<1>4. \A q \in Pids : directory'[q] = IF q = pid THEN a ELSE directory[q]
  BY <1>2 DEF MmuInv, TypeOK
<1>5. \A f \in Frames : \A e \in DirBits :
        dir'[f][e] = IF f = a THEN (IF e = 0 THEN b ELSE 0) ELSE dir[f][e]
  BY <1>1, <1>2 DEF MmuInv, TypeOK, EmptyDir
<1>6. \A f \in Frames : \A i \in TableBits :
        table'[f][i] = IF f = b THEN (IF i = 1 THEN c ELSE IF i = 2 THEN d ELSE 0) ELSE table[f][i]
  BY <1>1, <1>2 DEF MmuInv, TypeOK, EmptyTable
<1>7. TypeOK'
  <2>1. [EmptyDir EXCEPT ![0] = b] \in [DirBits -> Frames \union {0}]
    BY <1>1 DEF EmptyDir
  <2>2. [EmptyTable EXCEPT ![1] = c, ![2] = d] \in [TableBits -> Frames \union {0}]
    BY <1>1 DEF EmptyTable
  <2> QED BY <1>1, <1>2, <2>1, <2>2 DEF MmuInv, TypeOK
<1>8. \A f \in Frames : (IsDirectory(f))' <=> IsDirectory(f) \/ f = a
  BY <1>2, <1>4, Bits DEF IsDirectory
<1>9. \A f \in Frames : (InDirectory(f))' => InDirectory(f) \/ f = b
  BY <1>5, Bits DEF InDirectory
<1>10. \A f \in Frames : (InTable(f))' => InTable(f) \/ f = c \/ f = d
  BY <1>6, Bits DEF InTable
<1>11. CleanInv'
  <2>1. \A f \in Frames \ used' : dir'[f] = EmptyDir /\ table'[f] = EmptyTable /\ data'[f] = Zero
    BY <1>1, <1>2 DEF MmuInv, TypeOK, CleanInv
  <2>2. \A f \in Frames : \A e \in DirBits : dir'[f][e] # 0 => e = 0 /\ (IsDirectory(f))'
    BY <1>5, <1>8 DEF MmuInv, CleanInv
  <2>3. \A f \in Frames : table'[f] # EmptyTable => ~(IsDirectory(f))' /\ ~(InTable(f))'
    <3> SUFFICES ASSUME NEW f \in Frames, table'[f] # EmptyTable
                 PROVE  ~(IsDirectory(f))' /\ ~(InTable(f))'
      OBVIOUS
    <3>1. CASE f = b
      BY <3>1, <1>1, <1>3, <1>8, <1>10
    <3>2. CASE f # b
      <4>1. table[f] # EmptyTable
        BY <3>2, <1>1, <1>2 DEF MmuInv, TypeOK
      <4>2. f # a /\ f # c /\ f # d
        BY <4>1, <1>1 DEF MmuInv, CleanInv
      <4> QED BY <4>1, <4>2, <1>8, <1>10 DEF MmuInv, CleanInv
    <3> QED BY <3>1, <3>2
  <2> QED BY <2>1, <2>2, <2>3 DEF CleanInv, EmptyDir, EmptyTable
<1>12. UsedInv'
  <2>1. \A q \in Pids : directory'[q] # 0 => directory'[q] \in used'
    BY <1>2, <1>4 DEF MmuInv, UsedInv
  <2>2. \A f \in Frames : \A e \in DirBits : dir'[f][e] # 0 => dir'[f][e] \in used'
    BY <1>2, <1>5 DEF MmuInv, UsedInv
  <2>3. \A f \in Frames : \A i \in TableBits : table'[f][i] # 0 => table'[f][i] \in used'
    <3> SUFFICES ASSUME NEW f \in Frames, NEW i \in TableBits, table'[f][i] # 0
                 PROVE  table'[f][i] \in used'
      OBVIOUS
    <3>1. CASE f = b
      <4>1. table'[f][i] = c \/ table'[f][i] = d
        BY <3>1, <1>6
      <4> QED BY <4>1, <1>2
    <3>2. CASE f # b
      BY <3>2, <1>2, <1>6 DEF MmuInv, UsedInv
    <3> QED BY <3>1, <3>2
  <2> QED BY <2>1, <2>2, <2>3 DEF UsedInv
<1>13. OnceInv'
  <2>1. \A p, q \in Pids : directory'[p] # 0 /\ directory'[p] = directory'[q] => p = q
    BY <1>1, <1>3, <1>4 DEF MmuInv, OnceInv, IsDirectory
  <2>2. \A f, g \in Frames : \A i, j \in DirBits :
          dir'[f][i] # 0 /\ dir'[f][i] = dir'[g][j] => f = g /\ i = j
    BY <1>3, <1>5 DEF MmuInv, OnceInv, InDirectory
  <2>3. \A f, g \in Frames : \A i, j \in TableBits :
          table'[f][i] # 0 /\ table'[f][i] = table'[g][j] => f = g /\ i = j
    BY <1>1, <1>3, <1>6 DEF MmuInv, OnceInv, InTable
  <2>4. \A f \in Frames : /\ ~((IsDirectory(f))' /\ (InDirectory(f))')
                          /\ ~((IsDirectory(f))' /\ (InTable(f))')
                          /\ ~((InDirectory(f))' /\ (InTable(f))')
    BY <1>1, <1>3, <1>8, <1>9, <1>10 DEF MmuInv, OnceInv
  <2> QED BY <2>1, <2>2, <2>3, <2>4 DEF OnceInv
<1>14. \A q \in Pids : directory[q] # 0 => q # pid /\ directory[q] \in Frames /\ directory[q] # a
  BY <1>2, <1>3 DEF MmuInv, TypeOK, IsDirectory
<1>15. \A q \in Pids : \A e \in DirBits :
         directory[q] # 0 => directory'[q] = directory[q] /\ dir'[directory'[q]][e] = dir[directory[q]][e]
  BY <1>4, <1>5, <1>14
<1>16. TlbInv'
  <2>1. tlb' # <<>> => curr_pid' \in Pids /\ directory'[curr_pid'] # 0
    BY <1>2, <1>3, <1>4 DEF MmuInv, TlbInv
  <2>2. ASSUME NEW i \in DOMAIN tlb
        PROVE  LET t == tlb[i].table
               IN /\ t \in used' /\ ~(IsDirectory(t))' /\ ~(InTable(t))'
                  /\ IF tlb[i].page[1] = 0 THEN t = (FirstTable(curr_pid))' ELSE ~(InDirectory(t))'
    <3>0. PICK t : t = tlb[i].table
      OBVIOUS
    <3>1. t \in Frames /\ tlb[i].page \in Pages /\ curr_pid \in Pids /\ directory[curr_pid] # 0
      <4>1. tlb # <<>> /\ tlb[i] \in Entries
        BY DEF MmuInv, TypeOK
      <4> QED BY <3>0, <4>1 DEF MmuInv, TlbInv, Entries
    <3>2. t \in used /\ ~IsDirectory(t) /\ ~InTable(t) /\ t # a /\ t # b /\ t # c /\ t # d
      BY <3>0, <1>3 DEF MmuInv, TlbInv
    <3>3. tlb[i].page[1] # 0 => ~(InDirectory(t))'
      BY <3>0, <3>1, <3>2, <1>9 DEF MmuInv, TlbInv
    <3>4. tlb[i].page[1] = 0 => t = (FirstTable(curr_pid))'
      <4> SUFFICES ASSUME tlb[i].page[1] = 0 PROVE t = dir'[directory'[curr_pid]][0]
        BY <1>2 DEF FirstTable
      <4>1. t = dir[directory[curr_pid]][0]
        BY <3>0 DEF MmuInv, TlbInv, FirstTable
      <4>2. 0 \in DirBits
        BY <3>1, Bits
      <4> QED BY <4>1, <4>2, <3>1, <1>15
    <3> QED BY <3>0, <3>1, <3>2, <3>3, <3>4, <1>2, <1>8, <1>10
  <2>3. \A i, j \in DOMAIN tlb : tlb[i].page = tlb[j].page => i = j
    BY DEF MmuInv, TlbInv
  <2>4. \A i, j \in DOMAIN tlb : tlb[i].table = tlb[j].table => tlb[i].page[1] = tlb[j].page[1]
    BY DEF MmuInv, TlbInv
  <2>5. tlb' = tlb
    BY <1>2
  <2> QED BY <2>1, <2>2, <2>3, <2>4, <2>5, Zenon DEF TlbInv
<1>17. DataInv'
  <2>1. \A q \in Pids : directory'[q] = 0 => truth'[q] = Untouched
    BY <1>2, <1>3, <1>4 DEF MmuInv, DataInv
  <2>2. ASSUME NEW q \in Pids, NEW p \in Pages, directory'[q] # 0, p[1] = 0
        PROVE  (FirstTable(q))' # 0 /\ (Holds(FirstTable(q), p, truth[q][p]))'
    <3>1. 0 \in DirBits /\ p[2] \in TableBits
      BY <2>2, Bits
    <3>2. CASE q = pid
      <4>1. (FirstTable(q))' = b
        BY <3>1, <3>2, <1>1, <1>4, <1>5 DEF FirstTable
      <4>2. truth'[q][p] = Zero
        BY <3>2, <1>2 DEF MmuInv, DataInv, Untouched
      <4>3. data'[c] = Zero /\ data'[d] = Zero
        BY <1>1, <1>2 DEF MmuInv, CleanInv
      <4>4. table'[b][p[2]] \in {0, c, d}
        BY <3>1, <1>1, <1>6
      <4>5. (Holds(b, p, truth[q][p]))'
        BY <4>2, <4>3, <4>4 DEF Holds
      <4> QED BY <4>1, <4>5, <1>3 DEF Holds
    <3>3. CASE q # pid
      <4>1. directory[q] # 0
        BY <2>2, <3>3, <1>4
      <4>2. (FirstTable(q))' = FirstTable(q)
        BY <4>1, <3>1, <1>15 DEF FirstTable
      <4>3. FirstTable(q) # 0 /\ Holds(FirstTable(q), p, truth[q][p])
        BY <4>1, <2>2 DEF MmuInv, DataInv
      <4>4. FirstTable(q) \in Frames /\ FirstTable(q) # b
        BY <4>1, <4>3, <3>1, <1>3, <1>14 DEF FirstTable, MmuInv, TypeOK, InDirectory
      <4>5. table'[FirstTable(q)][p[2]] = table[FirstTable(q)][p[2]]
        BY <4>4, <3>1, <1>6
      <4> QED BY <4>2, <4>3, <4>5, <1>2 DEF Holds
    <3> QED BY <3>2, <3>3
  <2>3. ASSUME NEW i \in DOMAIN tlb
        PROVE  LET p == tlb[i].page
               IN \/ (Holds(tlb[i].table, p, truth[curr_pid][p]))'
                  \/ p[1] # 0 /\ (Holds(tlb[i].table, p, Zero))'
    <3>1. tlb[i].table \in Frames /\ tlb[i].page \in Pages /\ tlb[i].table # b
      <4>1. tlb[i] \in Entries
        BY DEF MmuInv, TypeOK
      <4> QED BY <4>1, <1>3 DEF Entries
    <3>2. table'[tlb[i].table][tlb[i].page[2]] = table[tlb[i].table][tlb[i].page[2]]
      BY <3>1, <1>6, Bits
    <3> QED BY <3>2, <1>2 DEF MmuInv, DataInv, TlbData, Holds
  <2>4. TlbData'
    BY <2>3, <1>2, Zenon DEF TlbData
  <2> QED BY <2>1, <2>2, <2>4, Zenon DEF DataInv
<1>18. ReadsLastWrite'
  BY <1>2 DEF ReadsLastWrite, Nothing
<1> QED BY <1>7, <1>11, <1>12, <1>13, <1>16, <1>17, <1>18 DEF MmuInv

\* The frames that mmu_remove_process returns: the directory, its tables and
\* their pages.
LEMMA OwnedFrames ==
  ASSUME TypeOK, NEW d \in Frames
  PROVE  /\ Owned(d) \subseteq Frames
         /\ d \in Owned(d)
         /\ \A e \in DirBits : dir[d][e] # 0 => dir[d][e] \in Owned(d)
         /\ \A e \in DirBits : \A i \in TableBits :
              dir[d][e] # 0 /\ table[dir[d][e]][i] # 0 => table[dir[d][e]][i] \in Owned(d)
         /\ \A x \in Owned(d) :
              \/ x = d
              \/ \E e \in DirBits : x = dir[d][e] /\ x # 0
              \/ \E e \in DirBits : \E i \in TableBits :
                   dir[d][e] # 0 /\ x = table[dir[d][e]][i] /\ x # 0
<1>1. \A x : x \in Owned(d) <=>
        \/ x = d
        \/ \E e \in DirBits : x = dir[d][e] /\ x # 0
        \/ \E e \in DirBits : \E i \in TableBits :
             dir[d][e] # 0 /\ x = table[dir[d][e]][i] /\ x # 0
  BY DEF Owned, Reachable, PagesOf
<1>2. Owned(d) \subseteq Frames
  BY <1>1 DEF TypeOK
<1> QED BY <1>1, <1>2

\* mmu_remove_process keeps the invariant.
LEMMA RemoveInv ==
  ASSUME MmuInv, NEW pid \in Pids, mmu_remove_process(pid)
  PROVE  MmuInv'
<1> USE DEF Zero
<1>1. PICK dd : dd = directory[pid]
  OBVIOUS
<1>2. PICK R : R = Owned(dd)
  OBVIOUS
<1>3. dd \in Frames /\ dd # 0
  BY <1>1 DEF mmu_remove_process, MmuInv, TypeOK
<1>4. /\ R \subseteq Frames /\ dd \in R
      /\ \A e \in DirBits : dir[dd][e] # 0 => dir[dd][e] \in R
      /\ \A e \in DirBits : \A i \in TableBits :
           dir[dd][e] # 0 /\ table[dir[dd][e]][i] # 0 => table[dir[dd][e]][i] \in R
      /\ \A x \in R :
           \/ x = dd
           \/ \E e \in DirBits : x = dir[dd][e] /\ x # 0
           \/ \E e \in DirBits : \E i \in TableBits :
                dir[dd][e] # 0 /\ x = table[dir[dd][e]][i] /\ x # 0
  BY <1>2, <1>3, OwnedFrames DEF MmuInv
<1>5. /\ used' = used \ R
      /\ dir' = [f \in Frames |-> IF f \in R THEN EmptyDir ELSE dir[f]]
      /\ table' = [f \in Frames |-> IF f \in R THEN EmptyTable ELSE table[f]]
      /\ data' = [f \in Frames |-> IF f \in R THEN Zero ELSE data[f]]
      /\ directory' = [directory EXCEPT ![pid] = 0]
      /\ truth' = [truth EXCEPT ![pid] = Untouched]
      /\ tlb' = IF curr_pid = pid THEN <<>> ELSE tlb
      /\ curr_pid' = curr_pid
      /\ result' = Nothing
  BY <1>1, <1>2 DEF mmu_remove_process, Return
<1>6. \A q \in Pids : directory'[q] = IF q = pid THEN 0 ELSE directory[q]
  BY <1>5 DEF MmuInv, TypeOK
<1>7. \A f \in Frames : \A e \in DirBits : dir'[f][e] = IF f \in R THEN 0 ELSE dir[f][e]
  BY <1>5 DEF EmptyDir
<1>8. \A f \in Frames : \A i \in TableBits : table'[f][i] = IF f \in R THEN 0 ELSE table[f][i]
  BY <1>5 DEF EmptyTable
<1>9. \A x \in R : x = dd \/ InDirectory(x) \/ InTable(x)
  <2>1. \A e \in DirBits : dir[dd][e] # 0 => dir[dd][e] \in Frames
    BY <1>3 DEF MmuInv, TypeOK
  <2> QED BY <1>3, <1>4, <2>1 DEF InDirectory, InTable
<1>10. IsDirectory(dd)
  BY <1>1 DEF IsDirectory
<1>11. \A q \in Pids : q # pid /\ directory[q] # 0 => directory[q] \notin R
  <2> SUFFICES ASSUME NEW q \in Pids, q # pid, directory[q] # 0, directory[q] \in R PROVE FALSE
    OBVIOUS
  <2>1. directory[q] # dd /\ IsDirectory(directory[q]) /\ directory[q] \in Frames
    BY <1>1, <1>4 DEF MmuInv, OnceInv, IsDirectory
  <2> QED BY <2>1, <1>9 DEF MmuInv, OnceInv
<1>12. \A f \in Frames : \A e \in DirBits : f \notin R /\ dir[f][e] # 0 => dir[f][e] \notin R
  <2> SUFFICES ASSUME NEW f \in Frames, NEW e \in DirBits,
                      f \notin R, dir[f][e] # 0, dir[f][e] \in R
               PROVE  FALSE
    OBVIOUS
  <2>1. InDirectory(dir[f][e]) /\ dir[f][e] \in Frames
    BY <1>4 DEF InDirectory
  <2>2. dir[f][e] # dd /\ ~InTable(dir[f][e])
    BY <2>1, <1>10 DEF MmuInv, OnceInv
  <2>3. PICK g \in DirBits : dir[f][e] = dir[dd][g]
    <3>1. \A i \in TableBits : \A g \in DirBits :
             dir[dd][g] # 0 => dir[f][e] # table[dir[dd][g]][i]
      <4>1. \A g \in DirBits : dir[dd][g] # 0 => dir[dd][g] \in Frames
        BY <1>3 DEF MmuInv, TypeOK
      <4> QED BY <4>1, <2>2 DEF InTable
    <3> QED BY <3>1, <2>2, <1>4
  <2> QED BY <2>3, <1>3, <1>4 DEF MmuInv, OnceInv
<1>13. \A f \in Frames : \A i \in TableBits : f \notin R /\ table[f][i] # 0 => table[f][i] \notin R
  <2> SUFFICES ASSUME NEW f \in Frames, NEW i \in TableBits,
                      f \notin R, table[f][i] # 0, table[f][i] \in R
               PROVE  FALSE
    OBVIOUS
  <2>1. InTable(table[f][i]) /\ table[f][i] \in Frames
    BY <1>4 DEF InTable
  <2>2. table[f][i] # dd /\ ~InDirectory(table[f][i])
    BY <2>1, <1>10 DEF MmuInv, OnceInv
  <2>3. \A e \in DirBits : table[f][i] # dir[dd][e]
    BY <2>2, <1>3 DEF InDirectory
  <2>4. PICK e \in DirBits, j \in TableBits : dir[dd][e] # 0 /\ table[f][i] = table[dir[dd][e]][j]
    BY <2>2, <2>3, <1>4
  <2>5. dir[dd][e] \in Frames /\ dir[dd][e] \in R
    BY <2>4, <1>3, <1>4 DEF MmuInv, TypeOK
  <2> QED BY <2>4, <2>5 DEF MmuInv, OnceInv
<1>14. \A i \in DOMAIN tlb : /\ tlb[i].table \in Frames /\ tlb[i].page \in Pages
                             /\ curr_pid \in Pids /\ directory[curr_pid] # 0
  <2> SUFFICES ASSUME NEW i \in DOMAIN tlb
               PROVE  /\ tlb[i].table \in Frames /\ tlb[i].page \in Pages
                      /\ curr_pid \in Pids /\ directory[curr_pid] # 0
    OBVIOUS
  <2>1. tlb # <<>> /\ tlb[i] \in Entries
    BY DEF MmuInv, TypeOK
  <2> QED BY <2>1 DEF MmuInv, TlbInv, Entries
<1>15. \A i \in DOMAIN tlb : curr_pid # pid => tlb[i].table \notin R
  <2> SUFFICES ASSUME NEW i \in DOMAIN tlb, curr_pid # pid, tlb[i].table \in R PROVE FALSE
    OBVIOUS
  <2>1. PICK t : t = tlb[i].table
    OBVIOUS
  <2>2. t \in Frames /\ ~IsDirectory(t) /\ ~InTable(t)
    BY <2>1, <1>14 DEF MmuInv, TlbInv
  <2>3. t # dd /\ InDirectory(t)
    BY <2>1, <2>2, <1>9, <1>10
  <2>4. tlb[i].page[1] = 0 /\ t = FirstTable(curr_pid)
    BY <2>1, <2>3 DEF MmuInv, TlbInv
  <2>5. directory[curr_pid] \in Frames /\ directory[curr_pid] \notin R /\ 0 \in DirBits
    BY <2>4, <1>11, <1>14, Bits DEF MmuInv, TypeOK
  <2> QED BY <2>1, <2>2, <2>4, <2>5, <1>12, Bits DEF FirstTable
<1>16. /\ \A f \in Frames : (IsDirectory(f))' => IsDirectory(f)
       /\ \A f \in Frames : IsDirectory(f) /\ f \notin R => (IsDirectory(f))'
  BY <1>1, <1>4, <1>6, Bits DEF IsDirectory
<1>17. \A f \in Frames : (InDirectory(f))' => InDirectory(f)
  BY <1>7, Bits DEF InDirectory
<1>18. \A f \in Frames : (InTable(f))' => InTable(f)
  BY <1>8, Bits DEF InTable
<1>19. TypeOK'
  <2>1. dir' \in [Frames -> [DirBits -> Frames \union {0}]]
    BY <1>5 DEF MmuInv, TypeOK, EmptyDir
  <2>2. table' \in [Frames -> [TableBits -> Frames \union {0}]]
    BY <1>5 DEF MmuInv, TypeOK, EmptyTable
  <2>3. data' \in [Frames -> Values \union {Zero}]
    BY <1>5 DEF MmuInv, TypeOK
  <2>4. truth' \in [Pids -> [Pages -> Values \union {Zero}]]
    BY <1>5 DEF MmuInv, TypeOK, Untouched
  <2>5. /\ curr_pid' \in Pids \union {0} /\ tlb' \in Seq(Entries)
        /\ directory' \in [Pids -> Frames \union {0}] /\ used' \subseteq Frames
    BY <1>5 DEF MmuInv, TypeOK
  <2> QED BY <2>1, <2>2, <2>3, <2>4, <2>5 DEF TypeOK
<1>20. CleanInv'
  <2>1. \A f \in Frames \ used' : dir'[f] = EmptyDir /\ table'[f] = EmptyTable /\ data'[f] = Zero
    BY <1>5 DEF MmuInv, CleanInv
  <2>2. \A f \in Frames : \A e \in DirBits : dir'[f][e] # 0 => e = 0 /\ (IsDirectory(f))'
    BY <1>7, <1>16 DEF MmuInv, CleanInv
  <2>3. \A f \in Frames : table'[f] # EmptyTable => ~(IsDirectory(f))' /\ ~(InTable(f))'
    BY <1>5, <1>16, <1>18 DEF MmuInv, CleanInv
  <2> QED BY <2>1, <2>2, <2>3 DEF CleanInv, EmptyDir, EmptyTable
<1>21. UsedInv'
  <2>1. \A q \in Pids : directory'[q] # 0 => directory'[q] \in used'
    BY <1>5, <1>6, <1>11 DEF MmuInv, UsedInv
  <2>2. \A f \in Frames : \A e \in DirBits : dir'[f][e] # 0 => dir'[f][e] \in used'
    BY <1>5, <1>7, <1>12 DEF MmuInv, UsedInv
  <2>3. \A f \in Frames : \A i \in TableBits : table'[f][i] # 0 => table'[f][i] \in used'
    BY <1>5, <1>8, <1>13 DEF MmuInv, UsedInv
  <2> QED BY <2>1, <2>2, <2>3 DEF UsedInv
<1>22. OnceInv'
  <2>1. \A p, q \in Pids : directory'[p] # 0 /\ directory'[p] = directory'[q] => p = q
    BY <1>6 DEF MmuInv, OnceInv
  <2>2. \A f, g \in Frames : \A i, j \in DirBits :
          dir'[f][i] # 0 /\ dir'[f][i] = dir'[g][j] => f = g /\ i = j
    BY <1>7 DEF MmuInv, OnceInv
  <2>3. \A f, g \in Frames : \A i, j \in TableBits :
          table'[f][i] # 0 /\ table'[f][i] = table'[g][j] => f = g /\ i = j
    BY <1>8 DEF MmuInv, OnceInv
  <2>4. \A f \in Frames : /\ ~((IsDirectory(f))' /\ (InDirectory(f))')
                          /\ ~((IsDirectory(f))' /\ (InTable(f))')
                          /\ ~((InDirectory(f))' /\ (InTable(f))')
    BY <1>16, <1>17, <1>18 DEF MmuInv, OnceInv
  <2> QED BY <2>1, <2>2, <2>3, <2>4 DEF OnceInv
<1>23. \A q \in Pids : q # pid /\ directory[q] # 0 =>
         /\ directory'[q] = directory[q]
         /\ \A e \in DirBits : dir'[directory'[q]][e] = dir[directory[q]][e]
  BY <1>6, <1>7, <1>11 DEF MmuInv, TypeOK
<1>24. TlbInv' /\ TlbData'
  <2>1. CASE curr_pid = pid
    <3>1. tlb' = <<>>
      BY <2>1, <1>5
    <3> QED BY <3>1 DEF TlbInv, TlbData
  <2>2. CASE curr_pid # pid
    <3>1. tlb' = tlb /\ curr_pid' = curr_pid
      BY <2>2, <1>5
    <3>2. tlb' # <<>> => curr_pid' \in Pids /\ directory'[curr_pid'] # 0
      BY <2>2, <3>1, <1>6 DEF MmuInv, TlbInv
    <3>3. ASSUME NEW i \in DOMAIN tlb
          PROVE  LET t == tlb[i].table
                 IN /\ t \in used' /\ ~(IsDirectory(t))' /\ ~(InTable(t))'
                    /\ IF tlb[i].page[1] = 0 THEN t = (FirstTable(curr_pid))' ELSE ~(InDirectory(t))'
      <4>1. PICK t : t = tlb[i].table
        OBVIOUS
      <4>2. t \in Frames /\ t \in used' /\ ~(IsDirectory(t))' /\ ~(InTable(t))'
        BY <4>1, <2>2, <1>5, <1>14, <1>15, <1>16, <1>18 DEF MmuInv, TlbInv
      <4>3. tlb[i].page[1] # 0 => ~(InDirectory(t))'
        BY <4>1, <4>2, <1>17 DEF MmuInv, TlbInv
      <4>4. tlb[i].page[1] = 0 => t = (FirstTable(curr_pid))'
        <5> SUFFICES ASSUME tlb[i].page[1] = 0 PROVE t = dir'[directory'[curr_pid]][0]
          BY <3>1 DEF FirstTable
        <5>1. t = dir[directory[curr_pid]][0]
          BY <4>1 DEF MmuInv, TlbInv, FirstTable
        <5>2. 0 \in DirBits
          BY <1>14, Bits
        <5> QED BY <5>1, <5>2, <2>2, <1>14, <1>23
      <4> QED BY <4>1, <4>2, <4>3, <4>4, <3>1
    <3>4. \A i, j \in DOMAIN tlb : tlb[i].page = tlb[j].page => i = j
      BY DEF MmuInv, TlbInv
    <3>5. \A i, j \in DOMAIN tlb : tlb[i].table = tlb[j].table => tlb[i].page[1] = tlb[j].page[1]
      BY DEF MmuInv, TlbInv
    <3>6. TlbInv'
      BY <3>1, <3>2, <3>3, <3>4, <3>5, Zenon DEF TlbInv
    <3>7. ASSUME NEW i \in DOMAIN tlb
          PROVE  LET p == tlb[i].page
                 IN \/ (Holds(tlb[i].table, p, truth[curr_pid][p]))'
                    \/ p[1] # 0 /\ (Holds(tlb[i].table, p, Zero))'
      <4>1. PICK t, p : t = tlb[i].table /\ p = tlb[i].page
        OBVIOUS
      <4>2. t \in Frames /\ t \notin R /\ p \in Pages /\ p[2] \in TableBits
        BY <4>1, <2>2, <1>14, <1>15, Bits
      <4>3. table'[t][p[2]] = table[t][p[2]]
        BY <4>2, <1>8
      <4>4. table[t][p[2]] # 0 => data'[table[t][p[2]]] = data[table[t][p[2]]]
        BY <4>2, <1>5, <1>13 DEF MmuInv, TypeOK
      <4>5. truth'[curr_pid] = truth[curr_pid]
        BY <2>2, <1>5, <1>14 DEF MmuInv, TypeOK
      <4>6. \/ Holds(t, p, truth[curr_pid][p])
            \/ p[1] # 0 /\ Holds(t, p, Zero)
        BY <4>1 DEF MmuInv, DataInv, TlbData
      <4> QED BY <4>1, <4>3, <4>4, <4>5, <4>6, <3>1 DEF Holds
    <3>8. TlbData'
      BY <3>1, <3>7, Zenon DEF TlbData
    <3> QED BY <3>6, <3>8
  <2> QED BY <2>1, <2>2
<1>25. DataInv'
  <2>1. \A q \in Pids : directory'[q] = 0 => truth'[q] = Untouched
    BY <1>5, <1>6 DEF MmuInv, DataInv, TypeOK
  <2>2. ASSUME NEW q \in Pids, NEW p \in Pages, directory'[q] # 0, p[1] = 0
        PROVE  (FirstTable(q))' # 0 /\ (Holds(FirstTable(q), p, truth[q][p]))'
    <3>1. 0 \in DirBits /\ p[2] \in TableBits /\ q # pid /\ directory[q] # 0
      BY <2>2, <1>6, Bits
    <3>2. PICK t : t = FirstTable(q)
      OBVIOUS
    <3>3. (FirstTable(q))' = t
      BY <3>1, <3>2, <1>23 DEF FirstTable
    <3>4. t # 0 /\ Holds(t, p, truth[q][p])
      BY <2>2, <3>1, <3>2 DEF MmuInv, DataInv
    <3>5. t \in Frames /\ t \notin R
      BY <3>1, <3>2, <3>4, <1>11, <1>12 DEF FirstTable, MmuInv, TypeOK
    <3>6. table'[t][p[2]] = table[t][p[2]]
      BY <3>1, <3>5, <1>8
    <3>7. table[t][p[2]] # 0 => data'[table[t][p[2]]] = data[table[t][p[2]]]
      BY <3>1, <3>5, <1>5, <1>13 DEF MmuInv, TypeOK
    <3>8. truth'[q] = truth[q]
      BY <3>1, <1>5 DEF MmuInv, TypeOK
    <3> QED BY <3>3, <3>4, <3>6, <3>7, <3>8 DEF Holds
  <2> QED BY <2>1, <2>2, <1>24, Zenon DEF DataInv
<1>26. ReadsLastWrite'
  BY <1>5 DEF ReadsLastWrite, Nothing
<1> QED BY <1>19, <1>20, <1>21, <1>22, <1>24, <1>25, <1>26 DEF MmuInv

\* RemoveAt keeps the other elements in their order.
LEMMA RemoveAtElements ==
  ASSUME NEW S, NEW s \in Seq(S), NEW k \in 1..Len(s)
  PROVE  /\ RemoveAt(s, k) \in Seq(S)
         /\ Len(RemoveAt(s, k)) = Len(s) - 1
         /\ \A i \in 1..(Len(s) - 1) : RemoveAt(s, k)[i] = IF i < k THEN s[i] ELSE s[i + 1]
<1>1. RemoveAt(s, k) = SubSeq(s, 1, k - 1) \o SubSeq(s, k + 1, Len(s))
  BY DEF RemoveAt
<1>2. /\ SubSeq(s, 1, k - 1) \in Seq(S) /\ Len(SubSeq(s, 1, k - 1)) = k - 1
      /\ \A i \in 1..(k - 1) : SubSeq(s, 1, k - 1)[i] = s[i]
  OBVIOUS
<1>3. /\ SubSeq(s, k + 1, Len(s)) \in Seq(S) /\ Len(SubSeq(s, k + 1, Len(s))) = Len(s) - k
      /\ \A i \in 1..(Len(s) - k) : SubSeq(s, k + 1, Len(s))[i] = s[i + k]
  OBVIOUS
<1>4. PICK x, y : x = SubSeq(s, 1, k - 1) /\ y = SubSeq(s, k + 1, Len(s))
  OBVIOUS
<1>5. /\ x \o y \in Seq(S) /\ Len(x \o y) = Len(s) - 1
      /\ \A i \in 1..(Len(s) - 1) : (x \o y)[i] = IF i < k THEN x[i] ELSE y[i - (k - 1)]
  <2>1. x \in Seq(S) /\ y \in Seq(S) /\ Len(x) = k - 1 /\ Len(y) = Len(s) - k
    BY <1>2, <1>3, <1>4
  <2>2. x \o y \in Seq(S) /\ Len(x \o y) = Len(x) + Len(y)
    BY <2>1
  <2>3. \A i \in 1..(Len(x) + Len(y)) : (x \o y)[i] = IF i <= Len(x) THEN x[i] ELSE y[i - Len(x)]
    BY <2>1
  <2> QED BY <2>1, <2>2, <2>3
<1>6. \A i \in 1..(Len(s) - 1) : i < k => x[i] = s[i]
  BY <1>2, <1>4
<1>7. \A i \in 1..(Len(s) - 1) : ~(i < k) => y[i - (k - 1)] = s[i + 1]
  <2> SUFFICES ASSUME NEW i \in 1..(Len(s) - 1), ~(i < k) PROVE y[i - (k - 1)] = s[i + 1]
    OBVIOUS
  <2>1. i - (k - 1) \in 1..(Len(s) - k) /\ (i - (k - 1)) + k = i + 1
    OBVIOUS
  <2> QED BY <1>3, <1>4, <2>1
<1>8. RemoveAt(s, k) = x \o y
  BY <1>1, <1>4
<1> QED BY <1>5, <1>6, <1>7, <1>8

\* Pages of the entries of a TLB are different.
OncePerPage(cache) == \A i, j \in DOMAIN cache : cache[i].page = cache[j].page => i = j

\* tlb_get_pte and tlb_add_pte leave entries of other pages that were there
\* before, and the entry of the page as the last.
LEMMA TouchEntries ==
  ASSUME NEW cache \in Seq(Entries), OncePerPage(cache), NEW e \in Entries
  PROVE  LET touched == Touch(cache, e)
         IN /\ touched \in Seq(Entries) /\ touched # <<>>
            /\ OncePerPage(touched)
            /\ \A i \in DOMAIN touched :
                 \/ touched[i] = e
                 \/ \E j \in DOMAIN cache : touched[i] = cache[j] /\ cache[j].page # e.page
<1> DEFINE rest == IF Hit(cache, e.page) THEN RemoveAt(cache, EntryOf(cache, e.page)) ELSE cache
           short == IF Len(rest) = TlbSize THEN Tail(rest) ELSE rest
<1>1. /\ rest \in Seq(Entries)
      /\ OncePerPage(rest)
      /\ \A i \in 1..Len(rest) : \E j \in DOMAIN cache : rest[i] = cache[j] /\ cache[j].page # e.page
  <2>1. CASE ~Hit(cache, e.page)
    BY <2>1 DEF Hit
  <2>2. CASE Hit(cache, e.page)
    <3>1. PICK k : k = EntryOf(cache, e.page)
      OBVIOUS
    <3>2. k \in 1..Len(cache) /\ cache[k].page = e.page
      BY <2>2, <3>1 DEF Hit, EntryOf
    <3>3. /\ rest \in Seq(Entries) /\ Len(rest) = Len(cache) - 1
          /\ \A i \in 1..(Len(cache) - 1) : rest[i] = IF i < k THEN cache[i] ELSE cache[i + 1]
      BY <2>2, <3>1, <3>2, RemoveAtElements
    <3> HIDE DEF rest
    <3>4. \A i \in 1..Len(rest) : /\ i \in 1..Len(cache) /\ i + 1 \in 1..Len(cache)
                                  /\ i < k => i # k
                                  /\ ~(i < k) => i + 1 # k
      BY <3>2, <3>3
    <3>5. \A i \in 1..Len(rest) : rest[i] = IF i < k THEN cache[i] ELSE cache[i + 1]
      BY <3>3
    <3>6. \A i \in 1..Len(rest) : \E j \in DOMAIN cache : rest[i] = cache[j] /\ cache[j].page # e.page
      BY <3>2, <3>4, <3>5 DEF OncePerPage
    <3>7. OncePerPage(rest)
      <4> SUFFICES ASSUME NEW i \in 1..Len(rest), NEW j \in 1..Len(rest), rest[i].page = rest[j].page
                   PROVE  i = j
        BY <3>3 DEF OncePerPage
      <4> DEFINE I == IF i < k THEN i ELSE i + 1
                 J == IF j < k THEN j ELSE j + 1
      <4>1. I \in DOMAIN cache /\ J \in DOMAIN cache /\ rest[i] = cache[I] /\ rest[j] = cache[J]
        BY <3>4, <3>5
      <4>2. I = J
        <5> HIDE DEF I, J
        <5> QED BY <4>1 DEF OncePerPage
      <4> QED BY <4>2, <3>2
    <3> QED BY <3>3, <3>6, <3>7
  <2> QED BY <2>1, <2>2
<1> HIDE DEF rest
<1>2. /\ short \in Seq(Entries)
      /\ OncePerPage(short)
      /\ \A i \in 1..Len(short) : \E j \in DOMAIN cache : short[i] = cache[j] /\ cache[j].page # e.page
  <2>1. CASE Len(rest) # TlbSize
    BY <1>1, <2>1
  <2>2. CASE Len(rest) = TlbSize
    <3>1. rest # <<>> /\ Len(rest) \in Nat
      BY <1>1, <2>2, MmuAssumption
    <3>2. /\ short \in Seq(Entries) /\ Len(short) = Len(rest) - 1
          /\ \A i \in 1..Len(short) : short[i] = rest[i + 1]
      BY <1>1, <2>2, <3>1
    <3> HIDE DEF short
    <3>3. \A i \in 1..Len(short) : i + 1 \in 1..Len(rest)
      BY <3>1, <3>2
    <3>4. OncePerPage(short)
      <4> SUFFICES ASSUME NEW i \in 1..Len(short), NEW j \in 1..Len(short), short[i].page = short[j].page
                   PROVE  i = j
        BY <3>2 DEF OncePerPage
      <4>1. i + 1 \in DOMAIN rest /\ j + 1 \in DOMAIN rest
        BY <1>1, <3>3
      <4>2. rest[i + 1].page = rest[j + 1].page
        BY <3>2
      <4>3. i + 1 = j + 1
        BY <1>1, <4>1, <4>2, Zenon DEF OncePerPage
      <4> QED BY <4>3
    <3> QED BY <1>1, <3>2, <3>3, <3>4
  <2> QED BY <2>1, <2>2
<1> HIDE DEF short
<1>3. PICK touched : touched = Append(short, e)
  OBVIOUS
<1>4. Touch(cache, e) = touched
  BY <1>3 DEF Touch, rest, short
<1>5. /\ touched \in Seq(Entries) /\ touched # <<>> /\ Len(touched) = Len(short) + 1
      /\ touched[Len(touched)] = e
      /\ \A i \in 1..Len(short) : touched[i] = short[i]
  BY <1>2, <1>3
<1>6. \A i \in DOMAIN touched : i = Len(touched) \/ i \in 1..Len(short)
  BY <1>2, <1>5
<1>7. \A i \in 1..Len(short) : short[i].page # e.page
  BY <1>2
<1>8. OncePerPage(touched)
  BY <1>2, <1>5, <1>6, <1>7 DEF OncePerPage
<1> QED BY <1>2, <1>4, <1>5, <1>6, <1>8

\* The entries of the TLB are of the process that ran last.
LEMMA TlbEntry ==
  ASSUME TypeOK, TlbInv, NEW i \in DOMAIN tlb
  PROVE  /\ tlb[i] \in Entries /\ tlb[i].table \in Frames /\ tlb[i].page \in Pages
         /\ curr_pid \in Pids /\ directory[curr_pid] # 0
<1>1. tlb # <<>> /\ tlb[i] \in Entries
  BY DEF TypeOK
<1> QED BY <1>1 DEF TlbInv, Entries

\* The table t that a translation for page p of a process uses is not the
\* table of another process or of other pages.
IsTableFor(t, pid, p) ==
    /\ t \in Frames /\ ~IsDirectory(t) /\ ~InTable(t)
    /\ IF p[1] = 0 THEN t = FirstTable(pid) ELSE ~InDirectory(t)
    /\ \A i \in DOMAIN Switched(pid) :
         Switched(pid)[i].table = t => Switched(pid)[i].page[1] = p[1]
    /\ \/ Holds(t, p, truth[pid][p])
       \/ p[1] # 0 /\ Holds(t, p, Zero)

\* The translation of a page that is in the TLB, or in the first table.
LEMMA KnownTable ==
  ASSUME MmuInv, NEW pid \in Pids, NEW p \in Pages, directory[pid] # 0, ~NeedsTable(pid, p)
  PROVE  TableOf(pid, p) \in used /\ IsTableFor(TableOf(pid, p), pid, p)
<1> DEFINE cache == Switched(pid)
<1>1. PICK t : t = TableOf(pid, p)
  OBVIOUS
<1>2. CASE Hit(cache, p)
  <2>1. curr_pid = pid /\ cache = tlb
    BY <1>2 DEF Hit, Switched
  <2>2. PICK k \in DOMAIN tlb : tlb[k].page = p /\ t = tlb[k].table
    BY <1>1, <1>2, <2>1 DEF TableOf, Hit, EntryOf
  <2>3. t \in Frames
    BY <2>2, TlbEntry DEF MmuInv
  <2>4. /\ t \in used /\ ~IsDirectory(t) /\ ~InTable(t)
        /\ IF p[1] = 0 THEN t = FirstTable(pid) ELSE ~InDirectory(t)
    BY <2>1, <2>2 DEF MmuInv, TlbInv
  <2>5. \A i \in DOMAIN tlb : tlb[i].table = t => tlb[i].page[1] = p[1]
    BY <2>2 DEF MmuInv, TlbInv
  <2>6. Holds(t, p, truth[pid][p]) \/ (p[1] # 0 /\ Holds(t, p, Zero))
    BY <2>1, <2>2 DEF MmuInv, DataInv, TlbData
  <2> QED BY <1>1, <2>1, <2>3, <2>4, <2>5, <2>6 DEF IsTableFor
<1>3. CASE ~Hit(cache, p)
  <2>1. t = dir[directory[pid]][p[1]] /\ t # 0
    BY <1>1, <1>3 DEF TableOf, NeedsTable
  <2>2. directory[pid] \in Frames /\ p[1] \in DirBits
    BY Bits DEF MmuInv, TypeOK
  <2>3. p[1] = 0 /\ t \in Frames /\ t \in used /\ t = FirstTable(pid)
    BY <2>1, <2>2 DEF MmuInv, TypeOK, CleanInv, UsedInv, FirstTable
  <2>4. InDirectory(t)
    BY <2>1, <2>2 DEF InDirectory
  <2>5. ~IsDirectory(t) /\ ~InTable(t)
    BY <2>3, <2>4 DEF MmuInv, OnceInv
  <2>6. \A i \in DOMAIN cache : cache[i].table = t => cache[i].page[1] = 0
    BY <2>4 DEF MmuInv, TlbInv, Switched
  <2>7. Holds(t, p, truth[pid][p])
    BY <2>3 DEF MmuInv, DataInv
  <2> QED BY <1>1, <2>3, <2>5, <2>6, <2>7 DEF IsTableFor
<1> QED BY <1>2, <1>3

\* The frame g in which the page p of a process is found, or brought in, in
\* its table t.
IsFrameFor(g, t, pid, p) ==
    /\ g \in Frames /\ g # t /\ ~IsDirectory(g) /\ ~InDirectory(g)
    /\ \/ g = table[t][p[2]]
       \/ g \notin used /\ table[t][p[2]] = 0
    /\ \/ data[g] = truth[pid][p]
       \/ p[1] # 0 /\ data[g] = Zero

LEMMA TranslateFrames ==
  ASSUME MmuInv, NEW pid \in Pids, NEW p \in Pages, Translate(pid, p)
  PROVE  /\ IsTableFor(TableOf(pid, p), pid, p)
         /\ IsFrameFor(PageFrame(pid, p), TableOf(pid, p), pid, p)
         /\ used' = used \union {TableOf(pid, p), PageFrame(pid, p)}
<1> USE DEF Zero
<1>1. PICK t, g, n : t = TableOf(pid, p) /\ g = PageFrame(pid, p) /\ n = NewFrames(pid, p)
  OBVIOUS
<1>2. /\ directory[pid] # 0 /\ Enough(n)
      /\ used' = used \union {Fresh(n)[k] : k \in 1..n}
  BY <1>1 DEF Translate
<1>3. n \in 0..2
  BY <1>1 DEF NewFrames
<1>4. /\ \A k \in 1..n : Fresh(n)[k] = Given(k) /\ Given(k) \in Frames \ used
      /\ \A j, k \in 1..n : Given(j) = Given(k) => j = k
  BY <1>2, <1>3, FreshFrames
<1>5. \A x \in Frames \ used : ~IsDirectory(x) /\ ~InDirectory(x) /\ ~InTable(x) /\ x # 0
  BY Unreferenced DEF MmuInv
<1>6. p[2] \in TableBits /\ p[1] \in DirBits
  BY Bits
<1>7. CASE NeedsTable(pid, p)
  <2>1. n = 2 /\ g = Fresh(2)[2] /\ t = Fresh(1)[1]
    BY <1>1, <1>7 DEF NewFrames, NeedsPage, PageFrame, TableOf, NeedsTable
  <2>2. Enough(1)
    <3>1. IsFiniteSet(Frames \ used)
      BY MmuAssumption, FS_Subset
    <3>2. Cardinality(Frames \ used) \in Nat
      BY <3>1, FS_CardinalityType
    <3> QED BY <1>2, <2>1, <3>2 DEF Enough
  <2>3. Fresh(1)[1] = Given(1)
    BY <2>2, FreshFrames
  <2>4. g = Given(2) /\ t = Given(1) /\ g # t /\ g \in Frames \ used /\ t \in Frames \ used
    BY <1>4, <2>1, <2>3
  <2>5. used' = used \union {t, g}
    <3>1. Fresh(2)[1] = t /\ Fresh(2)[2] = g
      BY <1>4, <2>1, <2>4
    <3>2. {Fresh(2)[k] : k \in 1..2} = {t, g}
      <4>1. \A k \in 1..2 : k = 1 \/ k = 2
        OBVIOUS
      <4>2. 1 \in 1..2 /\ 2 \in 1..2
        OBVIOUS
      <4> QED BY <3>1, <4>1, <4>2, Zenon
    <3> QED BY <1>2, <2>1, <3>2
  <2>6. p[1] # 0
    BY <1>2, <1>7 DEF NeedsTable, MmuInv, DataInv, FirstTable
  <2>7. table[t][p[2]] = 0 /\ data[g] = 0
    BY <1>6, <2>4 DEF MmuInv, CleanInv, EmptyTable
  <2>8. \A i \in DOMAIN Switched(pid) : Switched(pid)[i].table # t
    BY <2>4 DEF Switched, MmuInv, TlbInv
  <2>9. IsTableFor(t, pid, p)
    BY <1>5, <2>4, <2>6, <2>7, <2>8 DEF IsTableFor, Holds
  <2>10. IsFrameFor(g, t, pid, p)
    BY <1>5, <2>4, <2>6, <2>7 DEF IsFrameFor
  <2> QED BY <1>1, <2>5, <2>9, <2>10
<1>8. CASE ~NeedsTable(pid, p)
  <2>1. t \in used /\ IsTableFor(t, pid, p)
    BY <1>1, <1>2, <1>8, KnownTable
  <2>2. t \in Frames /\ ~IsDirectory(t) /\ ~InTable(t)
    BY <2>1 DEF IsTableFor
  <2>3. Holds(t, p, truth[pid][p]) \/ (p[1] # 0 /\ Holds(t, p, Zero))
    BY <2>1 DEF IsTableFor
  <2>4. CASE table[t][p[2]] = 0
    <3>1. n = 1 /\ g = Fresh(1)[1]
      BY <1>1, <1>8, <2>4 DEF NewFrames, NeedsPage, PageFrame
    <3>2. g \in Frames \ used
      BY <1>4, <3>1
    <3>3. used' = used \union {t, g}
      <4>1. {Fresh(1)[k] : k \in 1..1} = {g}
        <5>1. \A k \in 1..1 : k = 1
          OBVIOUS
        <5>2. 1 \in 1..1
          OBVIOUS
        <5> QED BY <3>1, <5>1, <5>2, Zenon
      <4> QED BY <1>2, <2>1, <3>1, <4>1
    <3>4. data[g] = 0
      BY <3>2 DEF MmuInv, CleanInv
    <3>5. IsFrameFor(g, t, pid, p)
      BY <1>5, <2>1, <2>3, <2>4, <3>2, <3>4 DEF IsFrameFor, Holds
    <3> QED BY <1>1, <2>1, <3>3, <3>5
  <2>5. CASE table[t][p[2]] # 0
    <3>1. n = 0 /\ g = table[t][p[2]]
      BY <1>1, <1>8, <2>5 DEF NewFrames, NeedsPage, PageFrame
    <3>2. g \in Frames /\ g \in used /\ InTable(g)
      BY <1>6, <2>2, <2>5, <3>1 DEF MmuInv, TypeOK, UsedInv, InTable
    <3>3. used' = used \union {t, g}
      <4>1. {Fresh(0)[k] : k \in 1..0} = {}
        <5>1. \A k \in 1..0 : FALSE
          OBVIOUS
        <5> QED BY <5>1, Zenon
      <4> QED BY <1>2, <2>1, <3>1, <3>2, <4>1
    <3>4. g # t /\ ~IsDirectory(g) /\ ~InDirectory(g)
      BY <2>2, <3>2 DEF MmuInv, OnceInv
    <3>5. IsFrameFor(g, t, pid, p)
      BY <2>3, <2>5, <3>1, <3>2, <3>4 DEF IsFrameFor, Holds
    <3> QED BY <1>1, <2>1, <3>3, <3>5
  <2> QED BY <2>4, <2>5
<1> QED BY <1>7, <1>8

\* What an access does to the contents of the frames: nothing, or it writes
\* to the frame of the page.
Access(g, pid, p) ==
    \/ UNCHANGED <<data, truth>>
    \/ \E v \in Values : /\ data' = [data EXCEPT ![g] = v]
                         /\ truth' = [truth EXCEPT ![pid][p] = v]

\* A translation and the access after it keep the invariant.
LEMMA AccessInv ==
  ASSUME MmuInv, NEW pid \in Pids, NEW p \in Pages, Translate(pid, p),
         Access(PageFrame(pid, p), pid, p)
  PROVE  TypeOK' /\ CleanInv' /\ UsedInv' /\ OnceInv' /\ TlbInv' /\ DataInv'
<1> USE DEF Zero
<1>1. PICK t, g : t = TableOf(pid, p) /\ g = PageFrame(pid, p)
  OBVIOUS
<1>2. IsTableFor(t, pid, p) /\ IsFrameFor(g, t, pid, p) /\ used' = used \union {t, g}
  BY <1>1, TranslateFrames
<1>3. /\ t \in Frames /\ ~IsDirectory(t) /\ ~InTable(t)
      /\ IF p[1] = 0 THEN t = FirstTable(pid) ELSE ~InDirectory(t)
      /\ \A i \in DOMAIN Switched(pid) :
           Switched(pid)[i].table = t => Switched(pid)[i].page[1] = p[1]
  BY <1>2 DEF IsTableFor
<1>4. /\ g \in Frames /\ g # t /\ ~IsDirectory(g) /\ ~InDirectory(g) /\ g # 0
      /\ \/ g = table[t][p[2]]
         \/ g \notin used /\ table[t][p[2]] = 0
      /\ \/ data[g] = truth[pid][p]
         \/ p[1] # 0 /\ data[g] = Zero
  BY <1>2, Bits DEF IsFrameFor
<1>5. p[1] \in DirBits /\ p[2] \in TableBits
  BY Bits
<1>6. PICK e : e = [page |-> p, table |-> t]
  OBVIOUS
<1>7. /\ directory[pid] # 0
      /\ curr_pid' = pid
      /\ tlb' = Touch(Switched(pid), e)
      /\ table' = [table EXCEPT ![t][p[2]] = g]
      /\ directory' = directory /\ dir' = dir
  BY <1>1, <1>6 DEF Translate
<1>8. e \in Entries /\ e.page = p /\ e.table = t
  BY <1>3, <1>6 DEF Entries
<1>9. /\ tlb' \in Seq(Entries) /\ tlb' # <<>> /\ OncePerPage(tlb')
      /\ \A i \in DOMAIN tlb' :
           \/ tlb'[i] = e
           \/ \E j \in DOMAIN tlb : tlb'[i] = tlb[j] /\ tlb[j].page # p /\ curr_pid = pid
  <2>1. Switched(pid) \in Seq(Entries) /\ OncePerPage(Switched(pid))
    BY DEF MmuInv, TypeOK, TlbInv, OncePerPage, Switched
  <2>2. /\ tlb' \in Seq(Entries) /\ tlb' # <<>> /\ OncePerPage(tlb')
        /\ \A i \in DOMAIN tlb' :
             \/ tlb'[i] = e
             \/ \E j \in DOMAIN Switched(pid) :
                  tlb'[i] = Switched(pid)[j] /\ Switched(pid)[j].page # p
    BY <1>7, <1>8, <2>1, TouchEntries
  <2> QED BY <2>2 DEF Switched
<1>10. \A f \in Frames : \A i \in TableBits :
         table'[f][i] = IF f = t /\ i = p[2] THEN g ELSE table[f][i]
  BY <1>3, <1>5, <1>7 DEF MmuInv, TypeOK
<1>11. /\ \A f : (IsDirectory(f))' <=> IsDirectory(f)
       /\ \A f : (InDirectory(f))' <=> InDirectory(f)
       /\ \A q : (FirstTable(q))' = FirstTable(q)
  BY <1>7 DEF IsDirectory, InDirectory, FirstTable
<1>12. \A f \in Frames : (InTable(f))' => InTable(f) \/ f = g
  BY <1>10 DEF InTable
<1>13. \A f \in Frames : f # g => data'[f] = data[f]
  BY <1>1 DEF Access, MmuInv, TypeOK
<1>14. InTable(g) \/ g \notin used
  BY <1>3, <1>4, <1>5 DEF InTable
<1>15. TypeOK'
  <2>1. table' \in [Frames -> [TableBits -> Frames \union {0}]]
    BY <1>3, <1>4, <1>7 DEF MmuInv, TypeOK
  <2>2. data' \in [Frames -> Values \union {Zero}]
    BY DEF Access, MmuInv, TypeOK
  <2>3. truth' \in [Pids -> [Pages -> Values \union {Zero}]]
    <3>1. ASSUME NEW v \in Values, truth' = [truth EXCEPT ![pid][p] = v]
          PROVE  truth' \in [Pids -> [Pages -> Values \union {Zero}]]
      <4>1. [truth[pid] EXCEPT ![p] = v] \in [Pages -> Values \union {Zero}]
        BY DEF MmuInv, TypeOK
      <4> QED BY <3>1, <4>1 DEF MmuInv, TypeOK
    <3> QED BY <3>1 DEF Access, MmuInv, TypeOK
  <2> QED BY <1>2, <1>3, <1>4, <1>7, <1>9, <2>1, <2>2, <2>3 DEF MmuInv, TypeOK
<1>16. CleanInv'
  <2>1. \A f \in Frames \ used' : dir'[f] = EmptyDir /\ table'[f] = EmptyTable /\ data'[f] = Zero
    <3> SUFFICES ASSUME NEW f \in Frames \ used'
                 PROVE  dir'[f] = EmptyDir /\ table'[f] = EmptyTable /\ data'[f] = Zero
      OBVIOUS
    <3>1. f \notin used /\ f # t /\ f # g
      BY <1>2
    <3> QED BY <3>1, <1>7, <1>13 DEF MmuInv, TypeOK, CleanInv
  <2>2. \A f \in Frames : \A d \in DirBits : dir'[f][d] # 0 => d = 0 /\ (IsDirectory(f))'
    BY <1>7, <1>11 DEF MmuInv, CleanInv
  <2>3. \A f \in Frames : table'[f] # EmptyTable => ~(IsDirectory(f))' /\ ~(InTable(f))'
    <3> SUFFICES ASSUME NEW f \in Frames, table'[f] # EmptyTable
                 PROVE  ~(IsDirectory(f))' /\ ~(InTable(f))'
      OBVIOUS
    <3>1. CASE f = t
      BY <3>1, <1>3, <1>4, <1>11, <1>12
    <3>2. CASE f # t
      <4>1. table[f] # EmptyTable
        BY <3>2, <1>7 DEF MmuInv, TypeOK
      <4>2. ~IsDirectory(f) /\ ~InTable(f) /\ f \in used
        BY <4>1 DEF MmuInv, CleanInv
      <4> QED BY <4>2, <1>11, <1>12, <1>14
    <3> QED BY <3>1, <3>2
  <2> QED BY <2>1, <2>2, <2>3 DEF CleanInv, EmptyDir, EmptyTable
<1>17. UsedInv'
  <2>1. used \subseteq used' /\ g \in used'
    BY <1>2
  <2>2. \A f \in Frames : \A i \in TableBits : table'[f][i] # 0 => table'[f][i] \in used'
    BY <1>10, <2>1 DEF MmuInv, UsedInv
  <2> QED BY <1>7, <2>1, <2>2 DEF MmuInv, UsedInv
<1>18. OnceInv'
  <2>1. \A x, y \in Frames : \A i, j \in TableBits :
          table'[x][i] # 0 /\ table'[x][i] = table'[y][j] => x = y /\ i = j
    <3>1. \A x \in Frames : \A i \in TableBits : table[x][i] = g => x = t /\ i = p[2]
      BY <1>3, <1>4, <1>5 DEF MmuInv, OnceInv, UsedInv
    <3> QED BY <3>1, <1>10 DEF MmuInv, OnceInv
  <2>2. \A f \in Frames : /\ ~((IsDirectory(f))' /\ (InDirectory(f))')
                          /\ ~((IsDirectory(f))' /\ (InTable(f))')
                          /\ ~((InDirectory(f))' /\ (InTable(f))')
    BY <1>4, <1>11, <1>12 DEF MmuInv, OnceInv
  <2>3. /\ \A x, y \in Pids : directory'[x] # 0 /\ directory'[x] = directory'[y] => x = y
        /\ \A x, y \in Frames : \A i, j \in DirBits :
             dir'[x][i] # 0 /\ dir'[x][i] = dir'[y][j] => x = y /\ i = j
    BY <1>7 DEF MmuInv, OnceInv
  <2> QED BY <2>1, <2>2, <2>3 DEF OnceInv
<1>19. \A i \in DOMAIN tlb' :
         \/ tlb'[i].page = p /\ tlb'[i].table = t
         \/ \E j \in DOMAIN tlb : /\ tlb'[i] = tlb[j] /\ tlb[j].page # p /\ curr_pid = pid
                                  /\ tlb[j].table \in Frames /\ tlb[j].page \in Pages
                                  /\ tlb[j].table # g
                                  /\ tlb[j].table = t => tlb[j].page[1] = p[1]
  <2> SUFFICES ASSUME NEW i \in DOMAIN tlb', tlb'[i] # e
               PROVE  \E j \in DOMAIN tlb :
                        /\ tlb'[i] = tlb[j] /\ tlb[j].page # p /\ curr_pid = pid
                        /\ tlb[j].table \in Frames /\ tlb[j].page \in Pages
                        /\ tlb[j].table # g
                        /\ tlb[j].table = t => tlb[j].page[1] = p[1]
    BY <1>8
  <2>1. PICK j \in DOMAIN tlb : tlb'[i] = tlb[j] /\ tlb[j].page # p /\ curr_pid = pid
    BY <1>9
  <2>2. tlb[j].table \in Frames /\ tlb[j].page \in Pages
    BY TlbEntry DEF MmuInv
  <2>3. tlb[j].table # g
    BY <1>14 DEF MmuInv, TlbInv
  <2>4. tlb[j].table = t => tlb[j].page[1] = p[1]
    BY <1>3, <2>1 DEF Switched
  <2> QED BY <2>1, <2>2, <2>3, <2>4
<1>20. TlbInv'
  <2>1. ASSUME NEW i \in DOMAIN tlb'
        PROVE  LET u == tlb'[i].table
               IN /\ u \in used' /\ ~(\E q \in Pids : directory'[q] = u)
                  /\ ~(\E f \in Frames : \E k \in TableBits : table'[f][k] = u)
                  /\ IF tlb'[i].page[1] = 0 THEN u = FirstTable(pid)
                     ELSE ~(\E f \in Frames : \E d \in DirBits : dir'[f][d] = u)
    <3>1. PICK u : u = tlb'[i].table
      OBVIOUS
    <3>2. /\ u \in Frames /\ u \in used' /\ ~IsDirectory(u) /\ ~InTable(u) /\ u # g
          /\ IF tlb'[i].page[1] = 0 THEN u = FirstTable(pid) ELSE ~InDirectory(u)
      <4>1. CASE tlb'[i].page = p /\ tlb'[i].table = t
        BY <3>1, <4>1, <1>2, <1>3, <1>4
      <4>2. ASSUME NEW j \in DOMAIN tlb, tlb'[i] = tlb[j], curr_pid = pid,
                   tlb[j].table \in Frames, tlb[j].table # g
            PROVE  /\ u \in Frames /\ u \in used' /\ ~IsDirectory(u) /\ ~InTable(u) /\ u # g
                   /\ IF tlb'[i].page[1] = 0 THEN u = FirstTable(pid) ELSE ~InDirectory(u)
        BY <3>1, <4>2, <1>2 DEF MmuInv, TlbInv
      <4> QED BY <4>1, <4>2, <1>19
    <3>3. ~(IsDirectory(u))' /\ ~(InTable(u))' /\ ((InDirectory(u))' <=> InDirectory(u))
      BY <3>2, <1>11, <1>12
    <3> QED BY <3>1, <3>2, <3>3 DEF IsDirectory, InDirectory, InTable
  <2>2. \A i, j \in DOMAIN tlb' : tlb'[i].page = tlb'[j].page => i = j
    BY <1>9 DEF OncePerPage
  <2>3. \A i, j \in DOMAIN tlb' : tlb'[i].table = tlb'[j].table => tlb'[i].page[1] = tlb'[j].page[1]
    BY <1>19 DEF MmuInv, TlbInv
  <2>4. curr_pid' \in Pids /\ directory'[curr_pid'] # 0
    BY <1>7
  <2>5. (FirstTable(curr_pid))' = FirstTable(pid)
    BY <1>7 DEF FirstTable
  <2> QED BY <2>1, <2>2, <2>3, <2>4, <2>5 DEF TlbInv, IsDirectory, InDirectory, InTable
<1>21. \A u \in Frames : \A q \in Pages : u = t /\ q[1] = p[1] /\ q[2] = p[2] => q = p
  BY MmuAssumption
\* The contents of other pages, and of every page unless the access writes,
\* are what they were.
<1>22. \A u \in Frames : \A q \in Pages : \A v :
         Holds(u, q, v) /\ (UNCHANGED data \/ u # t \/ q[2] # p[2]) => (Holds(u, q, v))'
  <2> SUFFICES ASSUME NEW u \in Frames, NEW q \in Pages, NEW v, Holds(u, q, v),
                      UNCHANGED data \/ u # t \/ q[2] # p[2]
               PROVE  IF table'[u][q[2]] = 0 THEN v = Zero ELSE data'[table'[u][q[2]]] = v
    BY DEF Holds
  <2>1. q[2] \in TableBits
    BY Bits
  <2>2. CASE u = t /\ q[2] = p[2]
    <3>1. table'[u][q[2]] = g /\ data' = data
      BY <2>1, <2>2, <1>10
    <3>2. g \notin used => data[g] = Zero
      BY <1>4 DEF MmuInv, CleanInv
    <3> QED BY <2>2, <3>1, <3>2, <1>4 DEF Holds
  <2>3. CASE ~(u = t /\ q[2] = p[2])
    <3>1. table'[u][q[2]] = table[u][q[2]]
      BY <2>1, <2>3, <1>10
    <3>2. table[u][q[2]] # 0 => table[u][q[2]] \in Frames /\ table[u][q[2]] # g
      BY <2>1, <2>3, <1>3, <1>4, <1>5 DEF MmuInv, TypeOK, OnceInv, UsedInv
    <3> QED BY <3>1, <3>2, <1>13 DEF Holds
  <2> QED BY <2>2, <2>3
\* The page of the access holds what the process expects there.
<1>23. /\ table'[t][p[2]] = g
       /\ data'[g] = truth'[pid][p] \/ (p[1] # 0 /\ data'[g] = Zero)
       /\ UNCHANGED <<data, truth>> \/ data'[g] = truth'[pid][p]
  BY <1>1, <1>3, <1>4, <1>5, <1>10 DEF Access, MmuInv, TypeOK
<1>24. \A q \in Pids : /\ q # pid => truth'[q] = truth[q]
                       /\ \A r \in Pages : r # p => truth'[q][r] = truth[q][r]
  BY DEF Access, MmuInv, TypeOK
<1>25. ASSUME NEW q \in Pids, NEW r \in Pages, directory'[q] # 0, r[1] = 0
       PROVE  FirstTable(q) # 0 /\ (Holds(FirstTable(q), r, truth[q][r]))'
  <2>1. PICK u : u = FirstTable(q)
    OBVIOUS
  <2>2. (FirstTable(q))' = u
    BY <2>1, <1>11
  <2>3. directory[q] # 0 /\ 0 \in DirBits
    BY <1>7, <1>25, Bits
  <2>4. u # 0 /\ Holds(u, r, truth[q][r])
    BY <1>25, <2>1, <2>3 DEF MmuInv, DataInv
  <2>5. u \in Frames /\ InDirectory(u)
    BY <2>1, <2>3, <2>4 DEF FirstTable, MmuInv, TypeOK, InDirectory
  <2>6. (Holds(FirstTable(q), r, truth[q][r]))' <=>
          IF table'[u][r[2]] = 0 THEN truth'[q][r] = Zero ELSE data'[table'[u][r[2]]] = truth'[q][r]
    BY <2>2 DEF Holds
  <2>7. CASE UNCHANGED <<data, truth>>
    BY <2>1, <2>4, <2>5, <2>6, <2>7, <1>22 DEF Holds
  <2>8. CASE u = t /\ r[2] = p[2] /\ data'[g] = truth'[pid][p]
    <3>1. p[1] = 0 /\ u = FirstTable(pid)
      BY <2>5, <2>8, <1>3
    <3>2. directory[q] = directory[pid]
      BY <2>1, <2>3, <2>4, <3>1, <1>7 DEF FirstTable, MmuInv, TypeOK, OnceInv
    <3>3. q = pid
      BY <2>3, <3>2 DEF MmuInv, OnceInv
    <3>4. r = p
      BY <1>25, <2>8, <3>1, <1>3, <1>21
    <3> QED BY <2>1, <2>4, <2>6, <2>8, <3>3, <3>4, <1>4, <1>23
  <2>9. CASE ~(u = t /\ r[2] = p[2])
    <3>1. q # pid \/ r # p
      BY <1>3, <1>25, <2>1, <2>9
    <3>2. truth'[q][r] = truth[q][r]
      BY <3>1, <1>24
    <3>3. IF table'[u][r[2]] = 0 THEN truth[q][r] = Zero ELSE data'[table'[u][r[2]]] = truth[q][r]
      <4>1. PICK v : v = truth[q][r]
        OBVIOUS
      <4>2. (Holds(u, r, v))'
        BY <2>4, <2>5, <2>9, <4>1, <1>22
      <4> QED BY <4>1, <4>2 DEF Holds
    <3> QED BY <2>1, <2>4, <2>6, <3>2, <3>3
  <2> QED BY <2>7, <2>8, <2>9, <1>23
<1>26. TlbData'
  <2>1. ASSUME NEW i \in DOMAIN tlb'
        PROVE  LET q == tlb'[i].page
                   x == table'[tlb'[i].table][q[2]]
               IN \/ IF x = 0 THEN truth'[pid][q] = Zero ELSE data'[x] = truth'[pid][q]
                  \/ q[1] # 0 /\ (x = 0 \/ data'[x] = Zero)
    <3>1. CASE tlb'[i].page = p /\ tlb'[i].table = t
      BY <3>1, <1>4, <1>23
    <3>2. ASSUME NEW j \in DOMAIN tlb, tlb'[i] = tlb[j], tlb[j].page # p, curr_pid = pid,
                 tlb[j].table \in Frames, tlb[j].page \in Pages,
                 tlb[j].table = t => tlb[j].page[1] = p[1]
          PROVE  LET q == tlb'[i].page
                     x == table'[tlb'[i].table][q[2]]
                 IN \/ IF x = 0 THEN truth'[pid][q] = Zero ELSE data'[x] = truth'[pid][q]
                    \/ q[1] # 0 /\ (x = 0 \/ data'[x] = Zero)
      <4>1. PICK u, q : u = tlb[j].table /\ q = tlb[j].page
        OBVIOUS
      <4>2. u # t \/ q[2] # p[2]
        BY <3>2, <4>1, <1>21
      <4>3. PICK v : v = truth[pid][q]
        OBVIOUS
      <4>4. Holds(u, q, v) \/ (q[1] # 0 /\ Holds(u, q, Zero))
        BY <3>2, <4>1, <4>3 DEF MmuInv, DataInv, TlbData
      <4>5. (Holds(u, q, v))' \/ (q[1] # 0 /\ (Holds(u, q, Zero))')
        BY <3>2, <4>1, <4>2, <4>4, <1>22
      <4>6. truth'[pid][q] = v
        BY <3>2, <4>1, <4>3, <1>24
      <4> QED BY <3>2, <4>1, <4>5, <4>6 DEF Holds
    <3> QED BY <3>1, <3>2, <1>19
  <2> QED BY <1>7, <2>1 DEF TlbData, Holds
<1>27. DataInv'
  <2>1. \A q \in Pids : directory'[q] = 0 => truth'[q] = Untouched
    BY <1>7, <1>24 DEF MmuInv, DataInv
  <2>2. \A q \in Pids : (FirstTable(q))' = FirstTable(q)
    BY <1>11
  <2> QED BY <2>1, <2>2, <1>25, <1>26, Zenon DEF DataInv
<1> QED BY <1>15, <1>16, <1>17, <1>18, <1>20, <1>27

\* Every step keeps the invariant.
LEMMA NextInv == MmuInv /\ [Next]_vars => MmuInv'
<1> SUFFICES ASSUME MmuInv, [Next]_vars PROVE MmuInv'
  OBVIOUS
<1>1. ASSUME NEW pid \in Pids, NEW p \in Pages, mmu_read_from_virtual_address(pid, p)
      PROVE  MmuInv'
  <2>1. Translate(pid, p) /\ Access(PageFrame(pid, p), pid, p)
    BY <1>1 DEF mmu_read_from_virtual_address, Access
  <2>2. IsFrameFor(PageFrame(pid, p), TableOf(pid, p), pid, p)
    BY <2>1, TranslateFrames
  <2>3. ReadsLastWrite'
    BY <1>1, <2>2 DEF mmu_read_from_virtual_address, ReadsLastWrite, Nothing, IsFrameFor
  <2> QED BY <2>1, <2>3, AccessInv DEF MmuInv
<1>2. ASSUME NEW pid \in Pids, NEW p \in Pages, NEW v \in Values, mmu_write_to_virtual_address(pid, p, v)
      PROVE  MmuInv'
  <2>1. Translate(pid, p) /\ Access(PageFrame(pid, p), pid, p)
    BY <1>2 DEF mmu_write_to_virtual_address, Access
  <2>2. ReadsLastWrite'
    BY <1>2 DEF mmu_write_to_virtual_address, ReadsLastWrite, Nothing
  <2> QED BY <2>1, <2>2, AccessInv DEF MmuInv
<1>3. CASE UNCHANGED vars
  <2>1. TypeOK' /\ CleanInv' /\ UsedInv' /\ OnceInv'
    BY <1>3 DEF vars, MmuInv, TypeOK, CleanInv, UsedInv, OnceInv, IsDirectory, InDirectory, InTable
  <2>2. TlbInv' /\ DataInv' /\ ReadsLastWrite'
    BY <1>3 DEF vars, MmuInv, TlbInv, DataInv, TlbData, Holds, FirstTable, ReadsLastWrite,
                IsDirectory, InDirectory, InTable
  <2> QED BY <2>1, <2>2 DEF MmuInv
<1> QED BY <1>1, <1>2, <1>3, AddInv, RemoveInv DEF Next

\* The invariant keeps the frames of the processes apart.
LEMMA InvFramesApart == MmuInv => FramesApart
<1> SUFFICES ASSUME MmuInv PROVE FramesApart
  OBVIOUS
<1>1. \A pid \in Live : pid \in Pids /\ directory[pid] # 0 /\ directory[pid] \in Frames
  BY DEF Live, MmuInv, TypeOK
<1>2. \A d \in Frames : \A e \in DirBits : dir[d][e] # 0 => dir[d][e] \in Frames
  BY DEF MmuInv, TypeOK
<1>3. ASSUME NEW pid \in Live, NEW x \in Owned(directory[pid])
      PROVE  /\ x \in Frames
             /\ \/ x = directory[pid]
                \/ \E e \in DirBits : x = dir[directory[pid]][e] /\ x # 0
                \/ \E e \in DirBits : \E i \in TableBits :
                     /\ dir[directory[pid]][e] # 0
                     /\ x = table[dir[directory[pid]][e]][i] /\ x # 0
  BY <1>1, OwnedFrames DEF MmuInv
<1>4. /\ \A f, g \in Frames : \A d, e \in DirBits :
           dir[f][d] # 0 /\ dir[f][d] = dir[g][e] => f = g /\ d = e
      /\ \A f, g \in Frames : \A i, j \in TableBits :
           table[f][i] # 0 /\ table[f][i] = table[g][j] => f = g /\ i = j
  BY DEF MmuInv, OnceInv
<1>5. ASSUME NEW p \in Live, NEW q \in Live, p # q
      PROVE  Owned(directory[p]) \intersect Owned(directory[q]) = {}
  <2> SUFFICES ASSUME NEW x \in Owned(directory[p]), x \in Owned(directory[q]) PROVE FALSE
    OBVIOUS
  <2>1. directory[p] # directory[q]
    BY <1>1, <1>5 DEF MmuInv, OnceInv
  <2>2. x \in Frames /\ ~(IsDirectory(x) /\ InDirectory(x)) /\ ~(IsDirectory(x) /\ InTable(x))
                     /\ ~(InDirectory(x) /\ InTable(x))
    BY <1>3 DEF MmuInv, OnceInv
  <2>3. CASE x = directory[p]
    <3>1. IsDirectory(x)
      BY <2>3, <1>1 DEF IsDirectory
    <3> QED BY <2>1, <2>2, <2>3, <3>1, <1>1, <1>2, <1>3 DEF InDirectory, InTable
  <2>4. CASE \E e \in DirBits : x = dir[directory[p]][e] /\ x # 0
    <3>1. InDirectory(x)
      BY <2>4, <1>1 DEF InDirectory
    <3>2. x # directory[q] /\ ~InTable(x)
      BY <2>2, <3>1, <1>1 DEF IsDirectory
    <3>3. \E e \in DirBits : x = dir[directory[q]][e] /\ x # 0
      BY <3>2, <1>1, <1>2, <1>3 DEF InTable
    <3>4. PICK e \in DirBits : x = dir[directory[q]][e]
      BY <3>3
    <3>5. PICK d \in DirBits : x = dir[directory[p]][d] /\ x # 0
      BY <2>4
    <3>6. directory[p] \in Frames /\ directory[q] \in Frames
      BY <1>1
    <3>7. PICK D, E : D = directory[p] /\ E = directory[q]
      OBVIOUS
    <3>8. dir[D][d] # 0 /\ dir[D][d] = dir[E][e] /\ D \in Frames /\ E \in Frames
      BY <3>4, <3>5, <3>6, <3>7
    <3>9. D = E
      BY <3>8, <1>4
    <3> QED BY <2>1, <3>7, <3>9
  <2>5. CASE \E e \in DirBits : \E i \in TableBits :
               dir[directory[p]][e] # 0 /\ x = table[dir[directory[p]][e]][i] /\ x # 0
    <3>1. InTable(x)
      BY <2>5, <1>1, <1>2 DEF InTable
    <3>2. ~IsDirectory(x) /\ ~InDirectory(x)
      BY <2>2, <3>1
    <3>3. PICK e \in DirBits, i \in TableBits :
            dir[directory[q]][e] # 0 /\ x = table[dir[directory[q]][e]][i] /\ x # 0
      BY <3>2, <1>1, <1>3 DEF IsDirectory, InDirectory
    <3>4. PICK d \in DirBits, j \in TableBits :
            dir[directory[p]][d] # 0 /\ x = table[dir[directory[p]][d]][j] /\ x # 0
      BY <2>5
    <3>5. dir[directory[p]][d] = dir[directory[q]][e]
      <4>1. dir[directory[p]][d] \in Frames /\ dir[directory[q]][e] \in Frames
        BY <3>3, <3>4, <1>1, <1>2
      <4>2. PICK t, u : t = dir[directory[p]][d] /\ u = dir[directory[q]][e]
        OBVIOUS
      <4>3. table[t][j] # 0 /\ table[t][j] = table[u][i] /\ t \in Frames /\ u \in Frames
        BY <3>3, <3>4, <4>1, <4>2
      <4>4. t = u
        BY <4>3, <1>4
      <4> QED BY <4>2, <4>4
    <3>6. directory[p] \in Frames /\ directory[q] \in Frames
      BY <1>1
    <3> QED BY <2>1, <3>3, <3>5, <3>6, <1>4
  <2> QED BY <2>3, <2>4, <2>5, <1>3
<1>6. ASSUME NEW t \in Tables PROVE PagesOf(t) \intersect Tables = {}
  <2>1. \A u \in Tables : u \in Frames /\ InDirectory(u)
    BY <1>1, <1>2 DEF Tables, Reachable, InDirectory
  <2>2. \A x \in PagesOf(t) : InTable(x)
    BY <1>6, <2>1 DEF PagesOf, InTable
  <2> QED BY <2>1, <2>2 DEF MmuInv, OnceInv
<1>7. ASSUME NEW pid \in Live PROVE Owned(directory[pid]) \subseteq used
  BY <1>1, <1>2, <1>3 DEF MmuInv, UsedInv
<1>8. \A i \in DOMAIN tlb : tlb[i].table \in used
  BY DEF MmuInv, TlbInv
<1> QED BY <1>5, <1>6, <1>7, <1>8 DEF FramesApart

\* The state has its type in every reachable state: in particular, frame
\* numbers are those of frames or NULL, and the TLB is a sequence of entries.
THEOREM MmuTypeCorrect == Spec => []TypeOK
<1>1. MmuInv => TypeOK
  BY DEF MmuInv
<1> QED BY InitInv, NextInv, <1>1, PTL DEF Spec

\* For any number of processes, pages and frames and any size of the TLB, a
\* process reads what it wrote last and no frame serves two purposes, whatever
\* processes are added, removed and switched between.
THEOREM IsolationCorrect == Spec => []ProcessesIsolated
<1>1. MmuInv => ProcessesIsolated
  BY InvFramesApart DEF MmuInv, ProcessesIsolated
<1> QED BY InitInv, NextInv, <1>1, PTL DEF Spec

-----------------------------------------------------------------------------
(***************************************************************************)
(* The scheduler.                                                          *)
(***************************************************************************)
Metadata == [priority : Int, rt : Int, rr_time : Int, xxtime : Int, ut : Int, st : Int]
Totals == [job_count : Int, twt : Int, ttat : Int, trt : Int]

SchedulerTypeOK ==
    /\ pqueue_scheme \in Schemes
    /\ workload \in [Jobs -> [rt : Nat \ {0}, priority : Int]]
    /\ pqueue \in Seq(Jobs)
    /\ info \in [Jobs -> Metadata]
    /\ totals \in Totals /\ sums \in Totals
    /\ time \in Nat \ {0}
    /\ running \in Jobs \union {Idle}
    /\ asked \in BOOLEAN
    /\ came \in [Jobs -> Nat] /\ started \in [Jobs -> Nat]
    /\ ran \in [Jobs -> Nat] /\ waited \in [Jobs -> Nat]
    /\ passed \in [Jobs -> SUBSET Jobs]

\* The jobs that have come and not been counted as finished.
Present(j) == came[j] # 0 /\ (j = running \/ ran[j] # workload[j].rt)

\* The metadata of a job agree with its history.
MetaInv ==
    \A j \in Jobs : Present(j) =>
      /\ info[j].xxtime = came[j] /\ info[j].rt = workload[j].rt
      /\ info[j].priority = workload[j].priority
      /\ info[j].ut = ran[j] - (IF j = running THEN time - info[j].rr_time ELSE 0)
      /\ started[j] # 0 => info[j].st = started[j]
      /\ started[j] = 0 <=> info[j].rr_time = 0
      /\ started[j] = 0 => ran[j] = 0
      /\ j # running /\ started[j] # 0 => ran[j] # 0

\* Every unit of time since a job came it has waited or run, and no job runs
\* longer than its running time.
TimeInv ==
    /\ \A j \in Jobs : /\ came[j] = 0 => info[j] = NoInfo /\ ran[j] = 0 /\ waited[j] = 0 /\ started[j] = 0
                       /\ Present(j) => time = came[j] + waited[j] + ran[j]
                       /\ ran[j] <= workload[j].rt
                       /\ 0 <= info[j].rr_time /\ info[j].rr_time <= time
                       /\ ~asked => info[j].rr_time < time
    /\ running # Idle => came[running] # 0 /\ started[running] # 0
    /\ running # Idle /\ asked => ran[running] < workload[running].rt
    /\ running # Idle /\ ~asked => ran[running] # 0

NoRepeat(s) == \A a, b \in DOMAIN s : s[a] = s[b] => a = b
Sorted(q, m) == \A a, b \in DOMAIN q : a < b => ~Less(Key(m[q[b]]), Key(m[q[a]]))

\* The queue holds the jobs that are ready, once each and in order.
ReadyInv == /\ NoRepeat(pqueue) /\ ToSet(pqueue) = Ready
            /\ Sorted(pqueue, info)

\* Whoever had a turn while another was ready had it after that one's last.
TurnInv == \A j, k \in Jobs : k \in passed[j] =>
             /\ came[k] # 0
             /\ Present(k) => info[k].rr_time > info[j].rr_time

\* The totals are those of the jobs that have finished.
TotalsInv == totals = sums /\ totals.job_count = Cardinality(Finished)

SchedulerInv == SchedulerTypeOK /\ MetaInv /\ TimeInv /\ ReadyInv /\ TurnInv /\ TotalsInv
-----------------------------------------------------------------------------
\* Putting an element into a sequence.
LEMMA InsertIs ==
  ASSUME NEW S, NEW s \in Seq(S), NEW x \in S, NEW i \in 1..(Len(s) + 1)
  PROVE  /\ InsertAt(s, i, x) \in Seq(S) /\ InsertAt(s, i, x) # <<>>
         /\ DOMAIN InsertAt(s, i, x) = 1..(Len(s) + 1) /\ Len(s) \in Nat
         /\ \A n \in 1..(Len(s) + 1) :
              InsertAt(s, i, x)[n] = IF n < i THEN s[n] ELSE IF n = i THEN x ELSE s[n - 1]
<1>0. PICK r : r = InsertAt(s, i, x)
  OBVIOUS
<1>1. Len(s) \in Nat /\ i \in Nat /\ i - 1 \in Nat /\ i <= Len(s) + 1
  OBVIOUS
<1>2. PICK a, b : a = SubSeq(s, 1, i - 1) /\ b = SubSeq(s, i, Len(s))
  OBVIOUS
<1>3. a \in Seq(S) /\ Len(a) = i - 1 /\ \A n \in 1..(i - 1) : a[n] = s[n]
  BY <1>1, <1>2
<1>4. b \in Seq(S) /\ Len(b) = Len(s) - i + 1 /\ \A n \in 1..(Len(s) - i + 1) : b[n] = s[n + i - 1]
  BY <1>1, <1>2
<1>5. PICK c : c = a \o <<x>>
  OBVIOUS
<1>6. /\ c \in Seq(S) /\ Len(c) = i
      /\ \A n \in 1..i : c[n] = IF n < i THEN s[n] ELSE x
  BY <1>1, <1>3, <1>5
<1>7. r = c \o b
  BY <1>0, <1>2, <1>5 DEF InsertAt
<1>8. r \in Seq(S) /\ Len(r) = Len(s) + 1
  <2>1. r \in Seq(S) /\ Len(r) = Len(c) + Len(b)
    BY <1>4, <1>6, <1>7, ConcatProperties
  <2> QED BY <1>1, <1>4, <1>6, <2>1
<1>9. \A n \in 1..(Len(s) + 1) : r[n] = IF n <= i THEN c[n] ELSE b[n - i]
  BY <1>1, <1>4, <1>6, <1>7, <1>8
<1>10. ASSUME NEW n \in 1..(Len(s) + 1)
       PROVE  r[n] = IF n < i THEN s[n] ELSE IF n = i THEN x ELSE s[n - 1]
  <2>1. CASE n <= i
    BY <1>1, <1>6, <1>9, <2>1
  <2>2. CASE n > i
    <3>1. n - i \in 1..(Len(s) - i + 1) /\ (n - i) + i - 1 = n - 1
      BY <1>1, <2>2
    <3> QED BY <1>1, <1>4, <1>9, <2>2, <3>1
  <2> QED BY <1>1, <2>1, <2>2
<1>11. r # <<>> /\ DOMAIN r = 1..(Len(s) + 1)
  BY <1>1, <1>8
<1> QED BY <1>0, <1>1, <1>8, <1>10, <1>11

\* The keys are ordered.
LEMMA KeysAre ==
  ASSUME pqueue_scheme \in Schemes
  PROVE  /\ \A m \in Metadata : Key(m) \in Int \X Int
         /\ \A k, l, m \in Int \X Int : ~Less(l, k) /\ ~Less(m, l) => ~Less(m, k)
<1>1. ASSUME NEW m \in Metadata PROVE Key(m) \in Int \X Int
  BY <1>1 DEF Key, Schemes, Metadata
<1>2. ASSUME NEW k \in Int \X Int, NEW l \in Int \X Int, NEW m \in Int \X Int,
             ~Less(l, k), ~Less(m, l)
      PROVE  ~Less(m, k)
  BY <1>2 DEF Less
<1> QED BY <1>1, <1>2

\* An offer leaves the queue sorted, and adds the job.
LEMMA OfferKeeps ==
  ASSUME pqueue_scheme \in Schemes, NEW q \in Seq(Jobs), NEW j \in Jobs, j \notin ToSet(q), NoRepeat(q),
         NEW m \in [Jobs -> Metadata], Sorted(q, m), NEW r \in Offers(q, j, m)
  PROVE  /\ r \in Seq(Jobs) /\ r # <<>> /\ NoRepeat(r)
         /\ ToSet(r) = ToSet(q) \union {j} /\ Sorted(r, m)
<1>1. PICK i \in 1..(Len(q) + 1) :
        /\ r = InsertAt(q, i, j)
        /\ \A h \in 1..(i - 1) : ~Less(Key(m[j]), Key(m[q[h]]))
        /\ \A h \in i..Len(q) : ~Less(Key(m[q[h]]), Key(m[j]))
  BY DEF Offers
<1>2. /\ r \in Seq(Jobs) /\ r # <<>> /\ DOMAIN r = 1..(Len(q) + 1) /\ Len(q) \in Nat
      /\ \A n \in 1..(Len(q) + 1) : r[n] = IF n < i THEN q[n] ELSE IF n = i THEN j ELSE q[n - 1]
  <2>1. /\ InsertAt(q, i, j) \in Seq(Jobs) /\ InsertAt(q, i, j) # <<>>
        /\ DOMAIN InsertAt(q, i, j) = 1..(Len(q) + 1) /\ Len(q) \in Nat
    BY InsertIs
  <2>2. \A n \in 1..(Len(q) + 1) :
          InsertAt(q, i, j)[n] = IF n < i THEN q[n] ELSE IF n = i THEN j ELSE q[n - 1]
    BY InsertIs
  <2> QED BY <1>1, <2>1, <2>2
<1>3. DOMAIN q = 1..Len(q) /\ i \in Int
  OBVIOUS
<1>4. ToSet(r) = ToSet(q) \union {j}
  <2>1. ASSUME NEW n \in 1..(Len(q) + 1) PROVE r[n] \in ToSet(q) \union {j}
    <3>1. n < i => n \in DOMAIN q
      BY <1>2, <1>3
    <3>2. n > i => n - 1 \in DOMAIN q
      BY <1>2, <1>3
    <3>3. \A k \in DOMAIN q : q[k] \in ToSet(q)
      BY DEF ToSet
    <3>4. CASE n < i
      BY <1>2, <3>1, <3>3, <3>4
    <3>5. CASE n = i
      BY <1>2, <1>3, <3>5
    <3>6. CASE n > i
      <4>1. r[n] = q[n - 1]
        BY <1>2, <1>3, <3>6
      <4> QED BY <3>2, <3>3, <3>6, <4>1
    <3> QED BY <1>3, <3>4, <3>5, <3>6
  <2>2. ASSUME NEW n \in 1..Len(q) PROVE \E k \in DOMAIN r : r[k] = q[n]
    <3>1. CASE n < i
      BY <1>2, <1>3, <3>1
    <3>2. CASE n >= i
      <4>1. n + 1 \in 1..(Len(q) + 1) /\ ~(n + 1 < i) /\ n + 1 # i /\ (n + 1) - 1 = n
        BY <1>2, <1>3, <3>2
      <4>2. r[n + 1] = q[n]
        BY <1>2, <4>1
      <4> QED BY <1>2, <4>1, <4>2
    <3> QED BY <1>3, <3>1, <3>2
  <2>3. r[i] = j
    BY <1>2, <1>3
  <2> QED BY <1>2, <1>3, <2>1, <2>2, <2>3 DEF ToSet
<1>5. NoRepeat(r)
  <2> SUFFICES ASSUME NEW a \in 1..(Len(q) + 1), NEW b \in 1..(Len(q) + 1), r[a] = r[b], a < b
               PROVE  FALSE
    BY <1>2 DEF NoRepeat
  <2>1. \A k \in DOMAIN q : q[k] # j
    BY DEF ToSet
  <2>2. CASE b < i
    <3>1. a \in DOMAIN q /\ b \in DOMAIN q /\ a # b /\ r[a] = q[a] /\ r[b] = q[b]
      BY <1>2, <1>3, <2>2
    <3> QED BY <3>1 DEF NoRepeat
  <2>3. CASE b = i
    <3>1. a \in DOMAIN q /\ r[a] = q[a] /\ r[b] = j
      BY <1>2, <1>3, <2>3
    <3> QED BY <2>1, <3>1
  <2>4. CASE b > i /\ a < i
    <3>1. a \in DOMAIN q /\ b - 1 \in DOMAIN q /\ a # b - 1 /\ r[a] = q[a] /\ r[b] = q[b - 1]
      BY <1>2, <1>3, <2>4
    <3> QED BY <3>1 DEF NoRepeat
  <2>5. CASE b > i /\ a = i
    <3>1. b - 1 \in DOMAIN q /\ r[a] = j /\ r[b] = q[b - 1]
      BY <1>2, <1>3, <2>5
    <3> QED BY <2>1, <3>1
  <2>6. CASE b > i /\ a > i
    <3>1. /\ a - 1 \in DOMAIN q /\ b - 1 \in DOMAIN q /\ a - 1 # b - 1
          /\ r[a] = q[a - 1] /\ r[b] = q[b - 1]
      BY <1>2, <1>3, <2>6
    <3> QED BY <3>1 DEF NoRepeat
  <2> QED BY <1>3, <2>2, <2>3, <2>4, <2>5, <2>6
<1>6. Sorted(r, m)
  <2> SUFFICES ASSUME NEW a \in 1..(Len(q) + 1), NEW b \in 1..(Len(q) + 1), a < b
               PROVE  ~Less(Key(m[r[b]]), Key(m[r[a]]))
    BY <1>2 DEF Sorted
  <2>1. CASE b < i
    <3>1. a \in DOMAIN q /\ b \in DOMAIN q /\ r[a] = q[a] /\ r[b] = q[b]
      BY <1>2, <1>3, <2>1
    <3> QED BY <3>1 DEF Sorted
  <2>2. CASE b = i
    <3>1. a \in 1..(i - 1) /\ r[a] = q[a] /\ r[b] = j
      BY <1>2, <1>3, <2>2
    <3> QED BY <1>1, <3>1
  <2>3. CASE b > i /\ a < i
    <3>1. a \in DOMAIN q /\ b - 1 \in DOMAIN q /\ a < b - 1 /\ r[a] = q[a] /\ r[b] = q[b - 1]
      BY <1>2, <1>3, <2>3
    <3> QED BY <3>1 DEF Sorted
  <2>4. CASE b > i /\ a = i
    <3>1. b - 1 \in i..Len(q) /\ r[a] = j /\ r[b] = q[b - 1]
      BY <1>2, <1>3, <2>4
    <3> QED BY <1>1, <3>1
  <2>5. CASE b > i /\ a > i
    <3>1. /\ a - 1 \in DOMAIN q /\ b - 1 \in DOMAIN q /\ a - 1 < b - 1
          /\ r[a] = q[a - 1] /\ r[b] = q[b - 1]
      BY <1>2, <1>3, <2>5
    <3> QED BY <3>1 DEF Sorted
  <2> QED BY <1>3, <2>1, <2>2, <2>3, <2>4, <2>5
<1> QED BY <1>2, <1>4, <1>5, <1>6

\* The head of a queue, and what it leaves.
LEMMA HeadLeaves ==
  ASSUME NEW q \in Seq(Jobs), q # <<>>, NoRepeat(q), NEW m, Sorted(q, m)
  PROVE  /\ Head(q) \in Jobs /\ Head(q) \in ToSet(q)
         /\ Tail(q) \in Seq(Jobs) /\ NoRepeat(Tail(q))
         /\ ToSet(Tail(q)) = ToSet(q) \ {Head(q)}
         /\ Sorted(Tail(q), m)
         /\ \A j \in ToSet(Tail(q)) : ~Less(Key(m[j]), Key(m[Head(q)]))
<1>1. /\ Tail(q) \in Seq(Jobs) /\ Head(q) \in Jobs /\ Head(q) = q[1] /\ Len(q) \in Nat \ {0}
      /\ DOMAIN q = 1..Len(q) /\ DOMAIN Tail(q) = 1..(Len(q) - 1)
      /\ \A n \in 1..(Len(q) - 1) : Tail(q)[n] = q[n + 1]
  OBVIOUS
<1>2. 1 \in 1..Len(q) /\ \A n \in 1..(Len(q) - 1) : n + 1 \in 1..Len(q) /\ n + 1 # 1 /\ 1 < n + 1
  BY <1>1
<1>3. \A n \in 1..Len(q) : n # 1 => n - 1 \in 1..(Len(q) - 1) /\ (n - 1) + 1 = n
  BY <1>1
<1>4. ToSet(Tail(q)) = ToSet(q) \ {Head(q)}
  <2>1. \A n \in 1..(Len(q) - 1) : q[n + 1] # q[1]
    BY <1>1, <1>2 DEF NoRepeat
  <2>2. \A x \in ToSet(Tail(q)) : x \in ToSet(q) /\ x # Head(q)
    BY <1>1, <1>2, <2>1 DEF ToSet
  <2>3. \A x \in ToSet(q) : x # Head(q) => x \in ToSet(Tail(q))
    <3> SUFFICES ASSUME NEW n \in 1..Len(q), n # 1 PROVE q[n] \in ToSet(Tail(q))
      BY <1>1 DEF ToSet
    <3>1. Tail(q)[n - 1] = q[n] /\ n - 1 \in DOMAIN Tail(q)
      BY <1>1, <1>3
    <3> QED BY <3>1, Zenon DEF ToSet
  <2> QED BY <2>2, <2>3
<1>5. NoRepeat(Tail(q))
  <2> SUFFICES ASSUME NEW a \in 1..(Len(q) - 1), NEW b \in 1..(Len(q) - 1), Tail(q)[a] = Tail(q)[b]
               PROVE  a = b
    BY <1>1 DEF NoRepeat
  <2>1. a + 1 = b + 1
    BY <1>1, <1>2 DEF NoRepeat
  <2> QED BY <2>1
<1>6. Sorted(Tail(q), m)
  <2> SUFFICES ASSUME NEW a \in 1..(Len(q) - 1), NEW b \in 1..(Len(q) - 1), a < b
               PROVE  ~Less(Key(m[Tail(q)[b]]), Key(m[Tail(q)[a]]))
    BY <1>1 DEF Sorted
  <2>1. a + 1 < b + 1
    OBVIOUS
  <2> QED BY <1>1, <1>2, <2>1 DEF Sorted
<1>7. \A j \in ToSet(Tail(q)) : ~Less(Key(m[j]), Key(m[Head(q)]))
  <2> SUFFICES ASSUME NEW n \in 1..(Len(q) - 1) PROVE ~Less(Key(m[Tail(q)[n]]), Key(m[Head(q)]))
    BY <1>1 DEF ToSet
  <2> QED BY <1>1, <1>2 DEF Sorted
<1>8. Head(q) \in ToSet(q)
  BY <1>1, <1>2 DEF ToSet
<1> QED BY <1>1, <1>4, <1>5, <1>6, <1>7, <1>8

\* What is sorted depends on the metadata of the jobs in the queue only.
LEMMA SortedAgrees ==
  ASSUME NEW q \in Seq(Jobs), NEW m, NEW n, Sorted(q, m), \A j \in ToSet(q) : m[j] = n[j]
  PROVE  Sorted(q, n)
<1>1. \A a \in DOMAIN q : m[q[a]] = n[q[a]]
  BY DEF ToSet
<1> QED BY <1>1 DEF Sorted

LEMMA SortedLater ==
  ASSUME UNCHANGED pqueue_scheme, NEW q, NEW m, Sorted(q, m)
  PROVE  (Sorted(q, m))'
  BY DEF Sorted, Key

\* The jobs that want the processor.
Waiting == {j \in Jobs : came[j] # 0 /\ ran[j] # workload[j].rt}

LEMMA ReadyIs ==
  ASSUME SchedulerTypeOK
  PROVE  Ready = Waiting \ {running}
  BY DEF SchedulerTypeOK, Ready, Finished, Waiting

LEMMA SchedulerInitInv == SchedulerInit => SchedulerInv
<1> SUFFICES ASSUME SchedulerInit PROVE SchedulerInv
  OBVIOUS
<1> USE DEF SchedulerInit
<1>1. SchedulerTypeOK
  <2>1. NoInfo \in Metadata /\ NoTotals \in Totals
    BY DEF Metadata, Totals, NoInfo, NoTotals
  <2>2. workload \in [Jobs -> [rt : Nat \ {0}, priority : Int]]
    BY SchedulerAssumption
  <2>3. /\ info \in [Jobs -> Metadata] /\ totals \in Totals /\ sums \in Totals
        /\ pqueue \in Seq(Jobs)
    BY <2>1
  <2>4. /\ pqueue_scheme \in Schemes /\ time \in Nat \ {0} /\ running \in Jobs \union {Idle}
        /\ came \in [Jobs -> Nat] /\ started \in [Jobs -> Nat]
        /\ ran \in [Jobs -> Nat] /\ waited \in [Jobs -> Nat] /\ passed \in [Jobs -> SUBSET Jobs]
    OBVIOUS
  <2>5. asked \in BOOLEAN
    BY Zenon
  <2> QED BY <2>2, <2>3, <2>4, <2>5 DEF SchedulerTypeOK
<1>2. MetaInv /\ TimeInv
  BY <1>1 DEF MetaInv, TimeInv, Present, SchedulerTypeOK, NoInfo
<1>3. ReadyInv
  <2>1. ToSet(<<>>) = {} /\ NoRepeat(<<>>) /\ Sorted(<<>>, info)
    BY DEF ToSet, NoRepeat, Sorted
  <2>2. Ready = {}
    BY DEF Ready
  <2> QED BY <2>1, <2>2 DEF ReadyInv
<1>4. TurnInv
  BY DEF TurnInv
<1>5. TotalsInv
  <2>1. Finished = {}
    BY DEF Finished
  <2> QED BY <2>1, FS_EmptySet DEF TotalsInv, NoTotals
<1> QED BY <1>1, <1>2, <1>3, <1>4, <1>5 DEF SchedulerInv

LEMMA NewJobKeeps ==
  ASSUME SchedulerInv, NEW j \in Jobs, scheduler_new_job(j)
  PROVE  SchedulerInv'
<1> USE DEF SchedulerInv
<1>1. PICK new : new = [NoInfo EXCEPT !.xxtime = time, !.rt = workload[j].rt,
                                       !.priority = workload[j].priority]
  OBVIOUS
<1>2. /\ came[j] = 0 /\ info' = [info EXCEPT ![j] = new] /\ came' = [came EXCEPT ![j] = time]
      /\ pqueue' \in Offers(pqueue, j, info')
      /\ UNCHANGED <<pqueue_scheme, workload, totals, time, running, asked>>
      /\ UNCHANGED <<started, ran, waited, passed, sums>>
  BY <1>1 DEF scheduler_new_job, fixed, world
<1>3. workload[j].rt \in Nat \ {0} /\ workload[j].priority \in Int /\ time \in Nat \ {0}
  BY DEF SchedulerTypeOK
<1>4. /\ new \in Metadata /\ new.xxtime = time /\ new.rt = workload[j].rt
      /\ new.priority = workload[j].priority /\ new.ut = 0 /\ new.rr_time = 0
  <2>1. new = [priority |-> workload[j].priority, rt |-> workload[j].rt, rr_time |-> 0,
               xxtime |-> time, ut |-> 0, st |-> 0]
    BY <1>1 DEF NoInfo
  <2> QED BY <1>3, <2>1 DEF Metadata
<1>5. /\ \A i \in Jobs : info'[i] = IF i = j THEN new ELSE info[i]
      /\ \A i \in Jobs : came'[i] = IF i = j THEN time ELSE came[i]
      /\ info' \in [Jobs -> Metadata] /\ came' \in [Jobs -> Nat]
  BY <1>2, <1>3, <1>4 DEF SchedulerTypeOK
<1>6. running # j /\ ran[j] = 0 /\ waited[j] = 0 /\ started[j] = 0 /\ info[j].rr_time = 0
  BY <1>2, SchedulerAssumption DEF TimeInv, NoInfo
<1>7. j \notin ToSet(pqueue)
  BY <1>2 DEF ReadyInv, Ready
<1>8. PICK q, m : q = pqueue' /\ m = info'
  OBVIOUS
<1>9. Sorted(pqueue, m)
  <2>1. \A i \in ToSet(pqueue) : info[i] = m[i]
    BY <1>5, <1>7, <1>8 DEF ReadyInv, Ready
  <2>2. pqueue \in Seq(Jobs) /\ Sorted(pqueue, info)
    BY DEF SchedulerTypeOK, ReadyInv
  <2> QED BY <2>1, <2>2, SortedAgrees
<1>10. /\ q \in Seq(Jobs) /\ NoRepeat(q) /\ ToSet(q) = ToSet(pqueue) \union {j} /\ Sorted(q, m)
  <2>1. /\ pqueue_scheme \in Schemes /\ pqueue \in Seq(Jobs) /\ NoRepeat(pqueue)
        /\ m \in [Jobs -> Metadata] /\ q \in Offers(pqueue, j, m)
    BY <1>2, <1>5, <1>8 DEF SchedulerTypeOK, ReadyInv
  <2> QED BY <1>7, <1>9, <2>1, OfferKeeps
<1>11. \A i \in Jobs : (Present(i))' <=> Present(i) \/ i = j
  BY <1>2, <1>3, <1>5, <1>6 DEF Present
<1>12. SchedulerTypeOK'
  BY <1>2, <1>5, <1>8, <1>10 DEF SchedulerTypeOK
<1>13. MetaInv'
  <2> SUFFICES ASSUME NEW i \in Jobs, (Present(i))'
               PROVE  /\ info'[i].xxtime = came'[i] /\ info'[i].rt = workload'[i].rt
                      /\ info'[i].priority = workload'[i].priority
                      /\ info'[i].ut = ran'[i] - (IF i = running' THEN time' - info'[i].rr_time ELSE 0)
                      /\ started'[i] # 0 => info'[i].st = started'[i]
                      /\ started'[i] = 0 <=> info'[i].rr_time = 0
                      /\ started'[i] = 0 => ran'[i] = 0
                      /\ i # running' /\ started'[i] # 0 => ran'[i] # 0
    BY DEF MetaInv
  <2>1. CASE i = j
    BY <1>2, <1>4, <1>5, <1>6, <2>1
  <2>2. CASE i # j
    <3>1. info'[i] = info[i] /\ came'[i] = came[i] /\ Present(i)
      BY <1>5, <1>11, <2>2
    <3> QED BY <1>2, <3>1 DEF MetaInv
  <2> QED BY <2>1, <2>2
<1>14. TimeInv'
  <2>1. ASSUME NEW i \in Jobs
        PROVE  /\ came'[i] = 0 => info'[i] = NoInfo /\ ran'[i] = 0 /\ waited'[i] = 0 /\ started'[i] = 0
               /\ (Present(i))' => time' = came'[i] + waited'[i] + ran'[i]
               /\ ran'[i] <= workload'[i].rt
               /\ 0 <= info'[i].rr_time /\ info'[i].rr_time <= time'
               /\ ~asked' => info'[i].rr_time < time'
    <3>1. CASE i = j
      BY <1>2, <1>3, <1>4, <1>5, <1>6, <3>1
    <3>2. CASE i # j
      <4>1. info'[i] = info[i] /\ came'[i] = came[i] /\ ((Present(i))' => Present(i))
        BY <1>5, <1>11, <3>2
      <4> QED BY <1>2, <4>1 DEF TimeInv
    <3> QED BY <3>1, <3>2
  <2>2. running' # Idle => came'[running'] # 0 /\ started'[running'] # 0
    BY <1>2, <1>5, <1>6 DEF TimeInv, SchedulerTypeOK
  <2>3. /\ running' # Idle /\ asked' => ran'[running'] < workload'[running'].rt
        /\ running' # Idle /\ ~asked' => ran'[running'] # 0
    BY <1>2 DEF TimeInv
  <2> QED BY <2>1, <2>2, <2>3 DEF TimeInv
<1>15. ReadyInv'
  <2>1. Ready = Waiting \ {running}
    BY ReadyIs
  <2>6. Ready' = Waiting' \ {running'}
    BY <1>12 DEF SchedulerTypeOK, Ready, Finished, Waiting
  <2>2. Waiting' = Waiting \union {j}
    BY <1>2, <1>3, <1>5, <1>6 DEF Waiting
  <2>3. ToSet(pqueue') = Ready'
    BY <1>2, <1>6, <1>8, <1>10, <2>1, <2>2, <2>6 DEF ReadyInv
  <2>4. (Sorted(q, m))'
    BY <1>2, <1>10, SortedLater
  <2>5. (Sorted(pqueue, info))'
    BY <1>8, <2>4 DEF Sorted
  <2> QED BY <1>8, <1>10, <2>3, <2>5 DEF ReadyInv
<1>16. TurnInv'
  <2> SUFFICES ASSUME NEW i \in Jobs, NEW k \in Jobs, k \in passed'[i]
               PROVE  came'[k] # 0 /\ ((Present(k))' => info'[k].rr_time > info'[i].rr_time)
    BY DEF TurnInv
  <2>1. came[k] # 0 /\ k # j
    BY <1>2 DEF TurnInv
  <2>2. info'[i].rr_time = info[i].rr_time /\ info'[k] = info[k]
    BY <1>4, <1>5, <1>6, <2>1
  <2> QED BY <1>2, <1>5, <1>11, <2>1, <2>2 DEF TurnInv
<1>17. TotalsInv'
  <2>1. Finished' = Finished
    BY <1>2, <1>3, <1>5, <1>6 DEF Finished
  <2> QED BY <1>2, <2>1 DEF TotalsInv
<1> QED BY <1>12, <1>13, <1>14, <1>15, <1>16, <1>17

\* Metadata that are right decide by the rule of the scheme.
LEMMA KeyDecides ==
  ASSUME SchedulerInv, NEW m \in [Jobs -> Metadata], NEW j \in Waiting, NEW k \in Waiting,
         \A i \in Waiting : /\ m[i].xxtime = came[i] /\ m[i].rt = workload[i].rt
                            /\ m[i].priority = workload[i].priority /\ m[i].ut = ran[i]
                            /\ m[i].rr_time = info[i].rr_time,
         ~Less(Key(m[j]), Key(m[k]))
  PROVE  ~Better(j, k)
<1> USE DEF SchedulerInv
<1>1. j \in Jobs /\ k \in Jobs /\ Present(k)
  BY DEF Waiting, Present
<1>2. /\ came[j] \in Nat /\ came[k] \in Nat /\ ran[j] \in Nat /\ ran[k] \in Nat
      /\ workload[j].rt \in Nat /\ workload[k].rt \in Nat
      /\ workload[j].priority \in Int /\ workload[k].priority \in Int
      /\ info[j].rr_time \in Int /\ info[k].rr_time \in Int
  BY <1>1 DEF SchedulerTypeOK, Metadata
<1>3. CASE pqueue_scheme = "FCFS"
  BY <1>2, <1>3 DEF Key, Better, Less
<1>4. CASE pqueue_scheme \in {"PRI", "PPRI"}
  BY <1>2, <1>4 DEF Key, Better, Less
<1>5. CASE pqueue_scheme = "PSRTF"
  BY <1>2, <1>5 DEF Key, Better, Less, Left
<1>6. CASE pqueue_scheme = "RR"
  <2>1. Better(j, k) <=> k \in passed[j]
    BY <1>6 DEF Better
  <2>2. k \in passed[j] => info[k].rr_time > info[j].rr_time
    BY <1>1 DEF TurnInv
  <2>3. Key(m[j]) = <<m[j].rr_time, 0>> /\ Key(m[k]) = <<m[k].rr_time, 0>>
    BY <1>6 DEF Key
  <2> QED BY <1>2, <2>1, <2>2, <2>3 DEF Less
<1>7. CASE pqueue_scheme = "SJF"
  BY <1>2, <1>7 DEF Key, Better, Less
<1> QED BY <1>3, <1>4, <1>5, <1>6, <1>7 DEF SchedulerTypeOK, Schemes

\* The best job of a queue of all jobs that want the processor gets it.
LEMMA PollKeeps ==
  ASSUME SchedulerInv, ~asked, NEW q \in Seq(Jobs), q # <<>>, NoRepeat(q), ToSet(q) = Waiting,
         NEW m \in [Jobs -> Metadata], Sorted(q, m),
         \A i \in Jobs : i \notin Waiting => m[i] = info[i],
         \A i \in Jobs : m[i].rr_time = info[i].rr_time,
         \A i \in Waiting : /\ m[i].xxtime = came[i] /\ m[i].rt = workload[i].rt
                            /\ m[i].priority = workload[i].priority /\ m[i].ut = ran[i]
                            /\ started[i] # 0 => m[i].st = started[i] /\ ran[i] # 0,
         running = Idle \/ running \in Waiting,
         Poll(q, m), asked' = TRUE,
         UNCHANGED <<pqueue_scheme, workload, totals, time, came, ran, waited, sums>>
  PROVE  /\ SchedulerInv' /\ running' \in Jobs
         /\ \A j \in ToSet(pqueue') : ~Better(j, running')
<1> USE DEF SchedulerInv
<1>1. PICK h : h = Head(q)
  OBVIOUS
<1>2. PICK t : t = Tail(q)
  OBVIOUS
<1>3. /\ h \in Jobs /\ h \in Waiting /\ t \in Seq(Jobs) /\ NoRepeat(t)
      /\ ToSet(t) = Waiting \ {h} /\ Sorted(t, m)
      /\ \A j \in ToSet(t) : ~Less(Key(m[j]), Key(m[h]))
  BY <1>1, <1>2, HeadLeaves
<1>4. /\ pqueue' = t /\ running' = h
      /\ info' = [m EXCEPT ![h] = [m[h] EXCEPT !.rr_time = time,
                                                !.st = IF m[h].ut = 0 THEN time ELSE m[h].st]]
      /\ started' = IF started[h] = 0 THEN [started EXCEPT ![h] = time] ELSE started
      /\ passed' = [j \in Jobs |-> IF j = h THEN {} ELSE passed[j] \union {h}]
  BY <1>1, <1>2 DEF Poll
<1>5. m[h] \in Metadata /\ time \in Nat \ {0}
  BY <1>3 DEF SchedulerTypeOK
<1>6. /\ info' \in [Jobs -> Metadata]
      /\ info'[h].rr_time = time /\ info'[h].st = (IF m[h].ut = 0 THEN time ELSE m[h].st)
      /\ info'[h].xxtime = m[h].xxtime /\ info'[h].rt = m[h].rt
      /\ info'[h].priority = m[h].priority /\ info'[h].ut = m[h].ut
  <2>1. PICK new : new = [m[h] EXCEPT !.rr_time = time,
                                      !.st = IF m[h].ut = 0 THEN time ELSE m[h].st]
    OBVIOUS
  <2>2. /\ new \in Metadata /\ new.rr_time = time
        /\ new.st = (IF m[h].ut = 0 THEN time ELSE m[h].st)
        /\ new.xxtime = m[h].xxtime /\ new.rt = m[h].rt
        /\ new.priority = m[h].priority /\ new.ut = m[h].ut
    <3>1. PICK x, now : x = m[h] /\ now = time
      OBVIOUS
    <3>2. x \in Metadata /\ now \in Int
      BY <1>5, <3>1
    <3>3. new = [x EXCEPT !.rr_time = now, !.st = IF x.ut = 0 THEN now ELSE x.st]
      BY <2>1, <3>1
    <3>4. /\ new \in Metadata /\ new.rr_time = now /\ new.st = (IF x.ut = 0 THEN now ELSE x.st)
          /\ new.xxtime = x.xxtime /\ new.rt = x.rt /\ new.priority = x.priority /\ new.ut = x.ut
      BY ONLY <3>2, <3>3 DEF Metadata
    <3> QED BY <3>1, <3>4
  <2>3. info' = [m EXCEPT ![h] = new]
    BY <1>4, <2>1
  <2> QED BY <1>3, <2>2, <2>3
<1>7. \A j \in Jobs : j # h => info'[j] = m[j]
  BY <1>3, <1>4
<1>8. /\ \A j \in Jobs : started'[j] = IF j = h /\ started[h] = 0 THEN time ELSE started[j]
      /\ started' \in [Jobs -> Nat]
  BY <1>3, <1>4, <1>5 DEF SchedulerTypeOK
<1>9. /\ \A j \in Jobs : passed'[j] = IF j = h THEN {} ELSE passed[j] \union {h}
      /\ passed' \in [Jobs -> SUBSET Jobs]
  BY <1>3, <1>4 DEF SchedulerTypeOK
<1>10. \A j \in Jobs : (Present(j))' <=> j \in Waiting
  BY <1>3, <1>4 DEF Present, Waiting
<1>11. \A j \in Waiting : j \in Jobs /\ Present(j)
  BY DEF Present, Waiting
<1>12. SchedulerTypeOK'
  BY <1>3, <1>4, <1>6, <1>8, <1>9 DEF SchedulerTypeOK
<1>13. MetaInv'
  <2> SUFFICES ASSUME NEW i \in Jobs, i \in Waiting
               PROVE  /\ info'[i].xxtime = came'[i] /\ info'[i].rt = workload'[i].rt
                      /\ info'[i].priority = workload'[i].priority
                      /\ info'[i].ut = ran'[i] - (IF i = running' THEN time' - info'[i].rr_time ELSE 0)
                      /\ started'[i] # 0 => info'[i].st = started'[i]
                      /\ started'[i] = 0 <=> info'[i].rr_time = 0
                      /\ started'[i] = 0 => ran'[i] = 0
                      /\ i # running' /\ started'[i] # 0 => ran'[i] # 0
    BY <1>10 DEF MetaInv
  <2>1. /\ started[i] = 0 <=> info[i].rr_time = 0
        /\ started[i] = 0 => ran[i] = 0
        /\ ran[i] \in Nat
    BY <1>11 DEF MetaInv, SchedulerTypeOK
  <2>2. CASE i = h
    BY <1>4, <1>5, <1>6, <1>8, <2>1, <2>2
  <2>3. CASE i # h
    BY <1>4, <1>7, <1>8, <2>1, <2>3
  <2> QED BY <2>2, <2>3
<1>14. TimeInv'
  <2>1. ASSUME NEW i \in Jobs
        PROVE  /\ came'[i] = 0 => info'[i] = NoInfo /\ ran'[i] = 0 /\ waited'[i] = 0 /\ started'[i] = 0
               /\ (Present(i))' => time' = came'[i] + waited'[i] + ran'[i]
               /\ ran'[i] <= workload'[i].rt
               /\ 0 <= info'[i].rr_time /\ info'[i].rr_time <= time'
               /\ ~asked' => info'[i].rr_time < time'
    <3>1. came[i] = 0 => i # h /\ i \notin Waiting
      BY <1>3 DEF Waiting
    <3>2. came'[i] = 0 => info'[i] = NoInfo /\ ran'[i] = 0 /\ waited'[i] = 0 /\ started'[i] = 0
      BY <1>7, <1>8, <3>1 DEF TimeInv
    <3>3. (Present(i))' => time' = came'[i] + waited'[i] + ran'[i]
      BY <1>10, <1>11 DEF TimeInv
    <3>4. 0 <= info'[i].rr_time /\ info'[i].rr_time <= time'
      BY <1>5, <1>6, <1>7 DEF TimeInv
    <3> QED BY <3>2, <3>3, <3>4 DEF TimeInv
  <2>2. came'[h] # 0 /\ started'[h] # 0
    BY <1>3, <1>5, <1>8 DEF Waiting
  <2>3. ran'[h] < workload'[h].rt
    <3>1. ran[h] \in Nat /\ workload[h].rt \in Nat /\ ran[h] # workload[h].rt /\ ran[h] <= workload[h].rt
      BY <1>3 DEF Waiting, TimeInv, SchedulerTypeOK
    <3> QED BY <3>1
  <2> QED BY <1>4, <2>1, <2>2, <2>3 DEF TimeInv
<1>15. ReadyInv'
  <2>1. Ready' = Waiting' \ {running'}
    BY <1>12 DEF SchedulerTypeOK, Ready, Finished, Waiting
  <2>2. Waiting' = Waiting
    BY DEF Waiting
  <2>3. PICK n : n = info'
    OBVIOUS
  <2>4. Sorted(t, n)
    <3>1. \A j \in ToSet(t) : m[j] = n[j]
      BY <1>3, <1>7, <1>11, <2>3
    <3>2. t \in Seq(Jobs) /\ Sorted(t, m)
      BY <1>3
    <3> QED BY <3>1, <3>2, SortedAgrees
  <2>5. (Sorted(t, n))'
    BY <2>4, SortedLater
  <2>6. (Sorted(pqueue, info))'
    BY <1>4, <2>3, <2>5 DEF Sorted
  <2> QED BY <1>3, <1>4, <2>1, <2>2, <2>6 DEF ReadyInv
<1>16. TurnInv'
  <2> SUFFICES ASSUME NEW i \in Jobs, NEW k \in Jobs, k \in passed'[i]
               PROVE  came'[k] # 0 /\ ((Present(k))' => info'[k].rr_time > info'[i].rr_time)
    BY DEF TurnInv
  <2>1. i # h /\ (k \in passed[i] \/ k = h)
    BY <1>9
  <2>2. info'[i].rr_time = info[i].rr_time /\ info[i].rr_time < time /\ info[i].rr_time \in Int
    BY <1>7, <2>1 DEF TimeInv, SchedulerTypeOK, Metadata
  <2>3. CASE k = h
    BY <1>3, <1>5, <1>6, <2>2, <2>3 DEF Waiting
  <2>4. CASE k # h
    <3>1. k \in passed[i] /\ info'[k].rr_time = info[k].rr_time
      BY <1>7, <2>1, <2>4
    <3> QED BY <1>10, <1>11, <2>2, <3>1 DEF TurnInv
  <2> QED BY <2>3, <2>4
<1>17. TotalsInv'
  <2>1. Finished' = Finished
    BY <1>3, <1>4, SchedulerAssumption DEF Finished, Waiting
  <2> QED BY <2>1 DEF TotalsInv
<1>18. \A j \in ToSet(t) : ~Better(j, h)
  <2> SUFFICES ASSUME NEW j \in ToSet(t) PROVE ~Better(j, h)
    OBVIOUS
  <2>1. j \in Waiting /\ ~Less(Key(m[j]), Key(m[h]))
    BY <1>3
  <2>2. \A i \in Waiting : m[i].rr_time = info[i].rr_time
    BY <1>11
  <2> QED BY <1>3, <2>1, <2>2, KeyDecides
<1> QED BY <1>3, <1>4, <1>12, <1>13, <1>14, <1>15, <1>16, <1>17, <1>18

\* A queue that is sorted stays so while its jobs keep their metadata.
LEMMA ReadyStays ==
  ASSUME SchedulerInv, SchedulerTypeOK', UNCHANGED <<pqueue_scheme, pqueue>>, Ready' = Ready,
         \A j \in ToSet(pqueue) : info'[j] = info[j]
  PROVE  ReadyInv'
<1> USE DEF SchedulerInv
<1>1. PICK q, n : q = pqueue /\ n = info'
  OBVIOUS
<1>2. Sorted(q, n)
  <2>1. q \in Seq(Jobs) /\ Sorted(q, info) /\ \A j \in ToSet(q) : info[j] = n[j]
    BY <1>1 DEF SchedulerTypeOK, ReadyInv
  <2> QED BY <2>1, SortedAgrees
<1>3. (Sorted(q, n))'
  BY <1>2, SortedLater
<1>4. (Sorted(pqueue, info))'
  BY <1>1, <1>3 DEF Sorted
<1> QED BY <1>4 DEF ReadyInv

\* The running job is evicted, and perhaps chosen again.
LEMMA EvictKeeps ==
  ASSUME SchedulerInv, Evict
  PROVE  /\ SchedulerInv' /\ running' \in Jobs
         /\ \A j \in ToSet(pqueue') : ~Better(j, running')
<1> USE DEF SchedulerInv
<1>1. PICK r : r = running
  OBVIOUS
<1>2. PICK m : m = [info EXCEPT ![r].ut = @ + time - info[r].rr_time]
  OBVIOUS
<1>3. /\ ~asked /\ r # Idle /\ ran[r] # workload[r].rt
      /\ \E q \in Offers(pqueue, r, m) : Poll(q, m)
      /\ asked' = TRUE
      /\ UNCHANGED <<pqueue_scheme, workload, totals, time, came, ran, waited, sums>>
  BY <1>1, <1>2 DEF Evict, Done, fixed
<1>4. r \in Jobs /\ came[r] # 0 /\ r \in Waiting /\ Present(r)
  BY <1>1, <1>3 DEF SchedulerTypeOK, TimeInv, Waiting, Present
<1>5. /\ m \in [Jobs -> Metadata] /\ \A i \in Jobs : i # r => m[i] = info[i]
      /\ m[r].xxtime = info[r].xxtime /\ m[r].rt = info[r].rt /\ m[r].priority = info[r].priority
      /\ m[r].st = info[r].st /\ m[r].rr_time = info[r].rr_time
      /\ m[r].ut = info[r].ut + time - info[r].rr_time
  <2>1. PICK x, now : x = info[r] /\ now = time
    OBVIOUS
  <2>2. x \in Metadata /\ now \in Int
    BY <1>4, <2>1 DEF SchedulerTypeOK
  <2>3. PICK y : y = [x EXCEPT !.ut = x.ut + now - x.rr_time]
    OBVIOUS
  <2>4. /\ y \in Metadata /\ y.xxtime = x.xxtime /\ y.rt = x.rt /\ y.priority = x.priority
        /\ y.st = x.st /\ y.rr_time = x.rr_time /\ y.ut = x.ut + now - x.rr_time
    BY ONLY <2>2, <2>3 DEF Metadata
  <2>5. m = [info EXCEPT ![r] = y]
    BY <1>2, <2>1, <2>3
  <2>6. info \in [Jobs -> Metadata]
    BY DEF SchedulerTypeOK
  <2> QED BY <1>4, <2>1, <2>4, <2>5, <2>6
<1>6. m[r].ut = ran[r]
  <2>1. info[r].ut = ran[r] - (time - info[r].rr_time)
    BY <1>1, <1>4 DEF MetaInv
  <2>2. ran[r] \in Int /\ time \in Int /\ info[r].rr_time \in Int
    BY <1>4 DEF SchedulerTypeOK, Metadata
  <2> QED BY <1>5, <2>1, <2>2
<1>7. ran[r] # 0
  BY <1>1, <1>3 DEF TimeInv
<1>8. ToSet(pqueue) = Waiting \ {r}
  BY <1>1, ReadyIs DEF ReadyInv
<1>9. PICK q \in Offers(pqueue, r, m) : Poll(q, m)
  BY <1>3
<1>10. Sorted(pqueue, m)
  <2>1. pqueue \in Seq(Jobs) /\ Sorted(pqueue, info) /\ \A j \in ToSet(pqueue) : info[j] = m[j]
    BY <1>5, <1>8 DEF SchedulerTypeOK, ReadyInv, Waiting
  <2> QED BY <2>1, SortedAgrees
<1>11. /\ q \in Seq(Jobs) /\ q # <<>> /\ NoRepeat(q) /\ ToSet(q) = Waiting /\ Sorted(q, m)
  <2>1. /\ pqueue_scheme \in Schemes /\ pqueue \in Seq(Jobs) /\ NoRepeat(pqueue)
        /\ r \notin ToSet(pqueue)
    BY <1>8 DEF SchedulerTypeOK, ReadyInv
  <2>2. /\ q \in Seq(Jobs) /\ q # <<>> /\ NoRepeat(q) /\ ToSet(q) = ToSet(pqueue) \union {r}
        /\ Sorted(q, m)
    BY <1>4, <1>5, <1>10, <2>1, OfferKeeps
  <2> QED BY <1>4, <1>8, <2>2
<1>12. \A i \in Jobs : i \notin Waiting => m[i] = info[i]
  BY <1>4, <1>5
<1>13. \A i \in Jobs : m[i].rr_time = info[i].rr_time
  BY <1>5
<1>14. \A i \in Waiting : /\ m[i].xxtime = came[i] /\ m[i].rt = workload[i].rt
                          /\ m[i].priority = workload[i].priority /\ m[i].ut = ran[i]
                          /\ started[i] # 0 => m[i].st = started[i] /\ ran[i] # 0
  <2> SUFFICES ASSUME NEW i \in Jobs, i \in Waiting
               PROVE  /\ m[i].xxtime = came[i] /\ m[i].rt = workload[i].rt
                      /\ m[i].priority = workload[i].priority /\ m[i].ut = ran[i]
                      /\ started[i] # 0 => m[i].st = started[i] /\ ran[i] # 0
    BY DEF Waiting
  <2>1. Present(i)
    BY DEF Waiting, Present
  <2>2. CASE i = r
    BY <1>5, <1>6, <1>7, <2>1, <2>2 DEF MetaInv
  <2>3. CASE i # r
    BY <1>1, <1>5, <2>1, <2>3 DEF MetaInv, SchedulerTypeOK
  <2> QED BY <2>2, <2>3
<1> QED BY <1>1, <1>3, <1>4, <1>5, <1>9, <1>11, <1>12, <1>13, <1>14, PollKeeps

\* The processor was idle.
LEMMA DispatchKeeps ==
  ASSUME SchedulerInv, Dispatch
  PROVE  /\ SchedulerInv' /\ running' \in Jobs \union {Idle}
         /\ running' = Idle => pqueue' = <<>>
         /\ \A j \in ToSet(pqueue') : ~Better(j, running')
<1> USE DEF SchedulerInv
<1>1. /\ ~asked /\ running = Idle /\ asked' = TRUE
      /\ UNCHANGED <<pqueue_scheme, workload, totals, time, came, ran, waited, sums>>
  BY DEF Dispatch, fixed
<1>2. ToSet(pqueue) = Waiting
  BY <1>1, ReadyIs, SchedulerAssumption DEF ReadyInv, Waiting
<1>3. CASE pqueue = <<>>
  <2>1. UNCHANGED <<pqueue, running, info, started, passed>>
    BY <1>3 DEF Dispatch
  <2>2. SchedulerTypeOK'
    BY <1>1, <2>1 DEF SchedulerTypeOK
  <2>3. MetaInv' /\ TurnInv' /\ TotalsInv'
    BY <1>1, <2>1 DEF MetaInv, TurnInv, TotalsInv, Present, Finished
  <2>4. TimeInv'
    BY <1>1, <2>1 DEF TimeInv, Present
  <2>5. Ready' = Ready
    BY <1>1, <2>1 DEF Ready, Finished
  <2>6. ReadyInv'
    BY <1>1, <2>1, <2>2, <2>5, ReadyStays
  <2>7. ToSet(pqueue') = {}
    BY <1>3, <2>1 DEF ToSet
  <2> QED BY <1>1, <1>3, <2>1, <2>2, <2>3, <2>4, <2>6, <2>7
<1>4. CASE pqueue # <<>>
  <2>1. Poll(pqueue, info)
    BY <1>4 DEF Dispatch
  <2>2. /\ pqueue \in Seq(Jobs) /\ NoRepeat(pqueue) /\ Sorted(pqueue, info)
        /\ info \in [Jobs -> Metadata]
    BY DEF SchedulerTypeOK, ReadyInv
  <2>3. \A i \in Waiting : /\ info[i].xxtime = came[i] /\ info[i].rt = workload[i].rt
                           /\ info[i].priority = workload[i].priority /\ info[i].ut = ran[i]
                           /\ started[i] # 0 => info[i].st = started[i] /\ ran[i] # 0
    <3> SUFFICES ASSUME NEW i \in Jobs, i \in Waiting
                 PROVE  /\ info[i].xxtime = came[i] /\ info[i].rt = workload[i].rt
                        /\ info[i].priority = workload[i].priority /\ info[i].ut = ran[i]
                        /\ started[i] # 0 => info[i].st = started[i] /\ ran[i] # 0
      BY DEF Waiting
    <3>1. Present(i) /\ i # running /\ ran[i] \in Nat
      BY <1>1, SchedulerAssumption DEF Waiting, Present, SchedulerTypeOK
    <3> QED BY <3>1 DEF MetaInv
  <2>4. /\ SchedulerInv' /\ running' \in Jobs /\ \A j \in ToSet(pqueue') : ~Better(j, running')
    BY <1>1, <1>2, <1>4, <2>1, <2>2, <2>3, PollKeeps
  <2> QED BY <2>4, SchedulerAssumption
<1> QED BY <1>3, <1>4

\* A scheme that is not preemptive leaves the processor to its job.
LEMMA KeepKeeps ==
  ASSUME SchedulerInv, Keep
  PROVE  SchedulerInv'
<1> USE DEF SchedulerInv
<1>1. /\ running # Idle /\ ran[running] # workload[running].rt /\ asked' = TRUE
      /\ UNCHANGED <<pqueue_scheme, workload, pqueue, info, totals, time, running>>
      /\ UNCHANGED <<came, started, ran, waited, passed, sums>>
  BY DEF Keep, Done, fixed, jobHistory
<1>2. SchedulerTypeOK'
  BY <1>1 DEF SchedulerTypeOK
<1>3. MetaInv' /\ TurnInv' /\ TotalsInv'
  BY <1>1 DEF MetaInv, TurnInv, TotalsInv, Present, Finished
<1>4. TimeInv'
  <2>1. running \in Jobs /\ ran[running] \in Nat /\ workload[running].rt \in Nat
    BY <1>1 DEF SchedulerTypeOK
  <2>2. ran[running] < workload[running].rt
    BY <1>1, <2>1 DEF TimeInv
  <2> QED BY <1>1, <2>2 DEF TimeInv, Present
<1>5. Ready' = Ready
  BY <1>1 DEF Ready, Finished
<1>6. ReadyInv'
  BY <1>1, <1>2, <1>5, ReadyStays
<1> QED BY <1>2, <1>3, <1>4, <1>6

LEMMA FinishedKeeps ==
  ASSUME SchedulerInv, scheduler_job_finished
  PROVE  SchedulerInv'
<1> USE DEF SchedulerInv
<1>1. PICK r, x : r = running /\ x = info[r]
  OBVIOUS
<1>2. /\ ~asked /\ r # Idle /\ ran[r] = workload[r].rt
      /\ totals' = [job_count |-> totals.job_count + 1,
                    ttat |-> totals.ttat + time - x.xxtime,
                    twt |-> totals.twt + time - x.xxtime - x.rt,
                    trt |-> totals.trt + x.st - x.xxtime]
      /\ sums' = [job_count |-> sums.job_count + 1,
                  ttat |-> sums.ttat + waited[r] + ran[r],
                  twt |-> sums.twt + waited[r],
                  trt |-> sums.trt + started[r] - came[r]]
      /\ info' = [info EXCEPT ![r] = NoInfo] /\ running' = Idle
      /\ UNCHANGED <<pqueue_scheme, workload, pqueue, time, asked>>
      /\ UNCHANGED <<came, started, ran, waited, passed>>
  BY <1>1 DEF scheduler_job_finished, Done, fixed
<1>3. r \in Jobs /\ came[r] # 0 /\ started[r] # 0 /\ Present(r)
  BY <1>1, <1>2 DEF SchedulerTypeOK, TimeInv, Present
<1>4. /\ x.xxtime = came[r] /\ x.rt = workload[r].rt /\ x.st = started[r]
      /\ time = came[r] + waited[r] + ran[r]
  BY <1>1, <1>3 DEF MetaInv, TimeInv
<1>5. /\ came[r] \in Int /\ waited[r] \in Int /\ ran[r] \in Int /\ started[r] \in Int
      /\ x.xxtime \in Int /\ x.rt \in Int /\ x.st \in Int /\ time \in Int
  BY <1>3, <1>4 DEF SchedulerTypeOK
<1>6. totals = sums /\ totals \in Totals
  BY DEF TotalsInv, SchedulerTypeOK
<1>7. totals' = sums' /\ totals' \in Totals /\ totals'.job_count = totals.job_count + 1
  <2>1. /\ totals.ttat \in Int /\ totals.twt \in Int /\ totals.trt \in Int /\ totals.job_count \in Int
    BY <1>6 DEF Totals
  <2>2. /\ totals.ttat + time - x.xxtime = totals.ttat + waited[r] + ran[r]
        /\ totals.twt + time - x.xxtime - x.rt = totals.twt + waited[r]
        /\ totals.trt + x.st - x.xxtime = totals.trt + started[r] - came[r]
    BY <1>2, <1>4, <1>5, <2>1
  <2>3. totals' = sums'
    BY <1>2, <1>6, <2>2
  <2>4. totals' \in Totals /\ totals'.job_count = totals.job_count + 1
    BY <1>2, <1>5, <2>1 DEF Totals
  <2> QED BY <2>3, <2>4
<1>8. /\ \A i \in Jobs : info'[i] = IF i = r THEN NoInfo ELSE info[i]
      /\ info' \in [Jobs -> Metadata] /\ NoInfo.rr_time = 0
  <2>1. NoInfo \in Metadata /\ NoInfo.rr_time = 0
    BY DEF NoInfo, Metadata
  <2> QED BY <1>2, <1>3, <2>1 DEF SchedulerTypeOK
<1>9. Idle \notin Jobs
  BY SchedulerAssumption
<1>10. \A i \in Jobs : (Present(i))' <=> Present(i) /\ i # r
  BY <1>1, <1>2, <1>9 DEF Present
<1>11. SchedulerTypeOK'
  BY <1>2, <1>7, <1>8 DEF SchedulerTypeOK
<1>12. MetaInv'
  <2> SUFFICES ASSUME NEW i \in Jobs, Present(i), i # r
               PROVE  /\ info'[i].xxtime = came'[i] /\ info'[i].rt = workload'[i].rt
                      /\ info'[i].priority = workload'[i].priority
                      /\ info'[i].ut = ran'[i] - (IF i = running' THEN time' - info'[i].rr_time ELSE 0)
                      /\ started'[i] # 0 => info'[i].st = started'[i]
                      /\ started'[i] = 0 <=> info'[i].rr_time = 0
                      /\ started'[i] = 0 => ran'[i] = 0
                      /\ i # running' /\ started'[i] # 0 => ran'[i] # 0
    BY <1>10 DEF MetaInv
  <2>1. info'[i] = info[i] /\ i # running /\ i # running'
    BY <1>1, <1>2, <1>8, <1>9
  <2> QED BY <1>2, <2>1 DEF MetaInv
<1>13. TimeInv'
  <2>1. \A i \in Jobs : 0 <= info'[i].rr_time /\ info'[i].rr_time < time' /\ info'[i].rr_time <= time'
    BY <1>2, <1>8 DEF TimeInv, SchedulerTypeOK
  <2>2. \A i \in Jobs : came'[i] = 0 => info'[i] = NoInfo
    BY <1>2, <1>8 DEF TimeInv
  <2>3. \A i \in Jobs : (Present(i))' => time' = came'[i] + waited'[i] + ran'[i]
    BY <1>2, <1>10 DEF TimeInv
  <2> QED BY <1>2, <2>1, <2>2, <2>3 DEF TimeInv
<1>14. ReadyInv'
  <2>1. Ready' = Ready
    BY <1>1, <1>2, <1>3, <1>9 DEF Ready, Finished
  <2>2. \A j \in ToSet(pqueue) : info'[j] = info[j]
    BY <1>1, <1>8 DEF ReadyInv, Ready
  <2> QED BY <1>2, <1>11, <2>1, <2>2, ReadyStays
<1>15. TurnInv'
  <2> SUFFICES ASSUME NEW i \in Jobs, NEW k \in Jobs, k \in passed'[i]
               PROVE  came'[k] # 0 /\ ((Present(k))' => info'[k].rr_time > info'[i].rr_time)
    BY DEF TurnInv
  <2>1. came[k] # 0 /\ (Present(k) => info[k].rr_time > info[i].rr_time)
    BY <1>2 DEF TurnInv
  <2>2. 0 <= info[i].rr_time /\ info[i].rr_time \in Int /\ info[k].rr_time \in Int
    BY DEF TimeInv, SchedulerTypeOK, Metadata
  <2> QED BY <1>2, <1>8, <1>10, <2>1, <2>2
<1>16. TotalsInv'
  <2>1. Finished' = Finished \union {r} /\ r \notin Finished
    BY <1>1, <1>2, <1>3, <1>9 DEF Finished
  <2>2. IsFiniteSet(Finished)
    BY SchedulerAssumption, FS_Subset DEF Finished
  <2>3. Cardinality(Finished') = Cardinality(Finished) + 1
    BY <2>1, <2>2, FS_AddElement
  <2> QED BY <1>7, <2>3 DEF TotalsInv
<1> QED BY <1>11, <1>12, <1>13, <1>14, <1>15, <1>16

LEMMA PassKeeps ==
  ASSUME SchedulerInv, Pass
  PROVE  SchedulerInv'
<1> USE DEF SchedulerInv
<1>1. PICK r : r = running
  OBVIOUS
<1>2. /\ asked /\ time' = time + 1 /\ asked' = FALSE
      /\ ran' = IF r = Idle THEN ran ELSE [ran EXCEPT ![r] = ran[r] + 1]
      /\ waited' = [j \in Jobs |-> waited[j] + (IF j \in ToSet(pqueue) THEN 1 ELSE 0)]
      /\ UNCHANGED <<pqueue_scheme, workload, pqueue, info, totals, running>>
      /\ UNCHANGED <<came, started, passed, sums>>
  BY <1>1 DEF Pass, fixed
<1>3. Idle \notin Jobs /\ r \in Jobs \union {Idle} /\ time \in Nat \ {0}
  BY <1>1, SchedulerAssumption DEF SchedulerTypeOK
<1>4. /\ \A j \in Jobs : ran'[j] = IF j = r THEN ran[j] + 1 ELSE ran[j]
      /\ ran' \in [Jobs -> Nat]
  BY <1>2, <1>3 DEF SchedulerTypeOK
<1>5. /\ \A j \in Jobs : waited'[j] = IF j \in ToSet(pqueue) THEN waited[j] + 1 ELSE waited[j]
      /\ waited' \in [Jobs -> Nat]
  BY <1>2 DEF SchedulerTypeOK
<1>6. \A j \in Jobs : (Present(j))' <=> Present(j)
  BY <1>1, <1>2, <1>4 DEF Present
<1>7. \A j \in Jobs : j \in ToSet(pqueue) <=> Present(j) /\ j # r
  BY <1>1 DEF ReadyInv, Ready, Finished, Present
<1>8. SchedulerTypeOK'
  <2>1. asked' \in BOOLEAN
    BY <1>2, Zenon
  <2>2. time' \in Nat \ {0}
    BY <1>2, <1>3
  <2> QED BY <1>2, <1>4, <1>5, <2>1, <2>2 DEF SchedulerTypeOK
<1>9. \A j \in Jobs : /\ ran[j] \in Nat /\ waited[j] \in Nat /\ came[j] \in Nat
                      /\ info[j].rr_time \in Int /\ workload[j].rt \in Nat
  BY DEF SchedulerTypeOK, Metadata
<1>10. MetaInv'
  <2> SUFFICES ASSUME NEW i \in Jobs, Present(i)
               PROVE  /\ info'[i].xxtime = came'[i] /\ info'[i].rt = workload'[i].rt
                      /\ info'[i].priority = workload'[i].priority
                      /\ info'[i].ut = ran'[i] - (IF i = running' THEN time' - info'[i].rr_time ELSE 0)
                      /\ started'[i] # 0 => info'[i].st = started'[i]
                      /\ started'[i] = 0 <=> info'[i].rr_time = 0
                      /\ started'[i] = 0 => ran'[i] = 0
                      /\ i # running' /\ started'[i] # 0 => ran'[i] # 0
    BY <1>6 DEF MetaInv
  <2>1. CASE i = r
    <3>1. started[i] # 0
      BY <1>1, <1>3, <2>1 DEF TimeInv
    <3>2. info[i].ut = ran[i] - (time - info[i].rr_time)
      BY <1>1, <2>1 DEF MetaInv
    <3>3. info[i].ut = (ran[i] + 1) - ((time + 1) - info[i].rr_time)
      BY <1>3, <1>9, <3>2
    <3> QED BY <1>1, <1>2, <1>4, <2>1, <3>1, <3>3 DEF MetaInv
  <2>2. CASE i # r
    BY <1>1, <1>2, <1>4, <2>2 DEF MetaInv
  <2> QED BY <2>1, <2>2
<1>11. TimeInv'
  <2>1. r # Idle => came[r] # 0 /\ started[r] # 0 /\ ran[r] < workload[r].rt
    BY <1>1, <1>2 DEF TimeInv
  <2>2. ASSUME NEW i \in Jobs
        PROVE  /\ came'[i] = 0 => info'[i] = NoInfo /\ ran'[i] = 0 /\ waited'[i] = 0 /\ started'[i] = 0
               /\ (Present(i))' => time' = came'[i] + waited'[i] + ran'[i]
               /\ ran'[i] <= workload'[i].rt
               /\ 0 <= info'[i].rr_time /\ info'[i].rr_time <= time'
               /\ ~asked' => info'[i].rr_time < time'
    <3>1. came[i] = 0 => i # r /\ i \notin ToSet(pqueue)
      BY <1>3, <1>7, <2>1 DEF Present
    <3>2. came'[i] = 0 => info'[i] = NoInfo /\ ran'[i] = 0 /\ waited'[i] = 0 /\ started'[i] = 0
      BY <1>2, <1>4, <1>5, <3>1 DEF TimeInv
    <3>3. (Present(i))' => time' = came'[i] + waited'[i] + ran'[i]
      BY <1>2, <1>3, <1>4, <1>5, <1>6, <1>7, <1>9 DEF TimeInv
    <3>4. ran'[i] <= workload'[i].rt
      BY <1>2, <1>3, <1>4, <1>9, <2>1 DEF TimeInv
    <3>5. 0 <= info'[i].rr_time /\ info'[i].rr_time < time' /\ info'[i].rr_time <= time'
      BY <1>2, <1>3, <1>9 DEF TimeInv
    <3> QED BY <3>2, <3>3, <3>4, <3>5
  <2>3. running' # Idle => came'[running'] # 0 /\ started'[running'] # 0 /\ ran'[running'] # 0
    BY <1>1, <1>2, <1>3, <1>4, <1>9, <2>1
  <2> QED BY <1>2, <2>2, <2>3 DEF TimeInv
<1>12. Finished' = Finished /\ Ready' = Ready
  BY <1>1, <1>2, <1>4 DEF Finished, Ready
<1>13. ReadyInv'
  BY <1>2, <1>8, <1>12, ReadyStays
<1>14. TurnInv' /\ TotalsInv'
  BY <1>2, <1>6, <1>12 DEF TurnInv, TotalsInv
<1> QED BY <1>8, <1>10, <1>11, <1>13, <1>14

LEMMA SchedulerNextInv == SchedulerInv /\ [SchedulerNext]_schedulerVars => SchedulerInv'
<1> SUFFICES ASSUME SchedulerInv, [SchedulerNext]_schedulerVars PROVE SchedulerInv'
  OBVIOUS
<1>1. CASE SchedulerNext
  BY <1>1, NewJobKeeps, EvictKeeps, KeepKeeps, DispatchKeeps, FinishedKeeps, PassKeeps
     DEF SchedulerNext
<1>2. CASE UNCHANGED schedulerVars
  <2>1. /\ UNCHANGED <<pqueue_scheme, workload, pqueue, info, totals, time, running, asked>>
        /\ UNCHANGED <<came, started, ran, waited, passed, sums>>
    BY <1>2 DEF schedulerVars, fixed, world, jobHistory
  <2>2. SchedulerTypeOK'
    BY <2>1 DEF SchedulerInv, SchedulerTypeOK
  <2>3. MetaInv' /\ TimeInv' /\ TurnInv' /\ TotalsInv'
    BY <2>1 DEF SchedulerInv, MetaInv, TimeInv, TurnInv, TotalsInv, Present, Finished
  <2>4. Ready' = Ready
    BY <2>1 DEF Ready, Finished
  <2> QED BY <2>1, <2>2, <2>3, <2>4, ReadyStays DEF SchedulerInv
<1> QED BY <1>1, <1>2

LEMMA SchedulerInvariant == SchedulerSpec => []SchedulerInv
  BY SchedulerInitInv, SchedulerNextInv, PTL DEF SchedulerSpec

\* A sequence without repetitions is as long as the set of its members.
LEMMA NoRepeatLength ==
  ASSUME NEW S, NEW s \in Seq(S), NoRepeat(s)
  PROVE  Len(s) = Cardinality(ToSet(s))
<1>1. Len(s) \in Nat /\ DOMAIN s = 1..Len(s)
  OBVIOUS
<1>2. IsFiniteSet(1..Len(s)) /\ Cardinality(1..Len(s)) = Len(s)
  BY <1>1, FS_Interval
<1>3. s \in Bijection(1..Len(s), ToSet(s))
  <2>1. s \in Surjection(1..Len(s), ToSet(s))
    BY <1>1 DEF Surjection, ToSet
  <2>2. s \in Injection(1..Len(s), ToSet(s))
    BY <1>1, <2>1 DEF Injection, IsInjective, Surjection, NoRepeat
  <2> QED BY <2>1, <2>2 DEF Bijection
<1>4. ExistsBijection(1..Len(s), ToSet(s))
  BY <1>3 DEF ExistsBijection
<1> QED BY <1>2, <1>4, FS_Bijection

(***************************************************************************)
(* For any jobs and any of the six schemes libscheduler.c loses no job and *)
(* queues none twice, and its totals are those of the jobs that have       *)
(* finished: the metadata it keeps agree with what happened to the jobs.   *)
(***************************************************************************)
THEOREM StatisticsCorrect == SchedulerSpec => []StatisticsTrue
<1>1. SchedulerInv => StatisticsTrue
  <2> SUFFICES ASSUME SchedulerInv PROVE StatisticsTrue
    OBVIOUS
  <2>1. pqueue \in Seq(Jobs) /\ NoRepeat(pqueue) /\ ToSet(pqueue) = Ready
    BY DEF SchedulerInv, SchedulerTypeOK, ReadyInv
  <2> QED BY <2>1, NoRepeatLength DEF SchedulerInv, TotalsInv, StatisticsTrue
<1> QED BY <1>1, SchedulerInvariant, PTL

(***************************************************************************)
(* For any jobs and any of the six schemes scheduler_quantum_expired       *)
(* answers with the best job by the rule of the scheme and the history of  *)
(* the jobs: the queue is sorted by metadata that are true, although those *)
(* of the running job are only brought up to date when it is evicted.      *)
(***************************************************************************)
THEOREM ChoiceCorrect == SchedulerSpec => ChoosesBest
<1>1. ASSUME SchedulerInv, [SchedulerNext]_schedulerVars
      PROVE  [~asked /\ asked' =>
                /\ running' = Idle => pqueue' = <<>>
                /\ running = Idle \/ Preemptive => \A j \in ToSet(pqueue') : ~Better(j, running')
                /\ running # Idle /\ ~Preemptive => running' = running]_schedulerVars
  <2> SUFFICES ASSUME SchedulerNext, ~asked, asked'
               PROVE  /\ running' = Idle => pqueue' = <<>>
                      /\ running = Idle \/ Preemptive => \A j \in ToSet(pqueue') : ~Better(j, running')
                      /\ running # Idle /\ ~Preemptive => running' = running
    BY <1>1
  <2>1. Idle \notin Jobs
    BY SchedulerAssumption
  <2>2. CASE Evict
    BY <1>1, <2>1, <2>2, EvictKeeps DEF Evict
  <2>3. CASE Keep
    BY <2>3 DEF Keep
  <2>4. CASE Dispatch
    BY <1>1, <2>4, DispatchKeeps DEF Dispatch
  <2>5. CASE \E j \in Jobs : scheduler_new_job(j)
    BY <2>5 DEF scheduler_new_job, world
  <2>6. CASE scheduler_job_finished
    BY <2>6 DEF scheduler_job_finished
  <2>7. CASE Pass
    BY <2>7 DEF Pass
  <2> QED BY <2>2, <2>3, <2>4, <2>5, <2>6, <2>7 DEF SchedulerNext
<1> QED BY <1>1, SchedulerInvariant, PTL DEF SchedulerSpec, ChoosesBest

-----------------------------------------------------------------------------
(***************************************************************************)
(* The allocator.                                                          *)
(***************************************************************************)
\* The fields of the memory: every block has a header, a word and a node.
Blocks(m) == DOMAIN m.space
IsMemory(m) ==
    /\ m = [brk |-> m.brk, space |-> m.space, word |-> m.word,
            head |-> m.head, next |-> m.next, prev |-> m.prev]
    /\ DOMAIN m.word = Blocks(m) /\ DOMAIN m.next = Blocks(m) /\ DOMAIN m.prev = Blocks(m)
    /\ IsFiniteSet(Blocks(m)) /\ m.brk \in Nat
    /\ \A b \in Blocks(m) : b \in Nat /\ b < m.brk

\* The list runs through the blocks of l, in this order, both ways.
Linked(m, l) ==
    /\ l \in Seq(Blocks(m)) /\ NoRepeat(l)
    /\ m.head = (IF l = <<>> THEN None ELSE l[1])
    /\ \A i \in 1..Len(l) : /\ m.next[l[i]] = (IF i = Len(l) THEN None ELSE l[i + 1])
                            /\ m.prev[l[i]] = (IF i = 1 THEN None ELSE l[i - 1])

\* The blocks in U are in use, the others are in the list.
Sound(m, U) ==
    /\ IsMemory(m) /\ U \subseteq Blocks(m)
    /\ \E l : Linked(m, l) /\ ToSet(l) = Blocks(m) \ U

WithWord(m, b, v) == [m EXCEPT !.word[b] = v]

AllocInv ==
    /\ Sound(mem, DOMAIN owned) /\ DOMAIN filled = DOMAIN owned
    /\ \A b \in DOMAIN owned : mem.word[b] = filled[b]

-----------------------------------------------------------------------------
\* A list has no more nodes than there are blocks.
LEMMA ListFits ==
  ASSUME NEW m, IsMemory(m), NEW l, Linked(m, l)
  PROVE  /\ Len(l) \in Nat /\ Len(l) <= Cardinality(Blocks(m)) /\ Cardinality(Blocks(m)) \in Nat
         /\ ToSet(l) \subseteq Blocks(m) /\ None \notin Blocks(m)
         /\ DOMAIN l = 1..Len(l) /\ \A i \in 1..Len(l) : l[i] \in Blocks(m)
<1>1. l \in Seq(Blocks(m)) /\ NoRepeat(l)
  BY DEF Linked
<1>2. Len(l) \in Nat /\ DOMAIN l = 1..Len(l) /\ \A i \in 1..Len(l) : l[i] \in Blocks(m)
  BY <1>1
<1>3. ToSet(l) \subseteq Blocks(m)
  BY <1>2 DEF ToSet
<1>4. IsFiniteSet(Blocks(m)) /\ None \notin Blocks(m)
  BY MemoryAssumption DEF IsMemory
<1>5. Len(l) = Cardinality(ToSet(l))
  BY <1>1, NoRepeatLength
<1>6. Cardinality(ToSet(l)) <= Cardinality(Blocks(m)) /\ Cardinality(Blocks(m)) \in Nat
  BY <1>3, <1>4, FS_Subset, FS_CardinalityType
<1> QED BY <1>2, <1>3, <1>4, <1>5, <1>6

\* Nodes follows the list and then stays at NULL.
LEMMA NodesAre ==
  ASSUME NEW m, IsMemory(m), NEW l, Linked(m, l)
  PROVE  A!Nodes(m) = [k \in 0..Cardinality(Blocks(m)) |-> IF k < Len(l) THEN l[k + 1] ELSE None]
<1>1. PICK K : K = Cardinality(Blocks(m))
  OBVIOUS
<1>2. PICK n : n = Len(l)
  OBVIOUS
<1>3. /\ n \in Nat /\ K \in Nat /\ n <= K
      /\ \A i \in 1..n : l[i] \in Blocks(m) /\ l[i] # None
  BY <1>1, <1>2, ListFits
<1>4. /\ m.head = (IF n = 0 THEN None ELSE l[1])
      /\ \A i \in 1..n : m.next[l[i]] = (IF i = n THEN None ELSE l[i + 1])
  BY <1>2, <1>3, EmptySeq DEF Linked
<1> DEFINE w == [k \in 0..K |-> IF k < n THEN l[k + 1] ELSE None]
           Step(f, k) == IF k = 0 THEN m.head ELSE IF f[k - 1] = None THEN None ELSE m.next[f[k - 1]]
           Q(f) == f = [k \in 0..K |-> Step(f, k)]
<1>5. A!Cardinality(Blocks(m)) = K
  BY <1>1 DEF A!Cardinality, Cardinality
<1>6. A!Nodes(m) = CHOOSE f : Q(f)
  BY <1>5 DEF A!Nodes, Blocks
<1>7. ASSUME NEW k \in 0..K PROVE w[k] = Step(w, k)
  <2>1. CASE k = 0
    BY <1>3, <1>4, <2>1
  <2>2. CASE k # 0
    <3>1. k - 1 \in 0..K /\ w[k - 1] = (IF k - 1 < n THEN l[k] ELSE None)
      BY <1>3, <2>2
    <3>2. w[k] = IF k < n THEN l[k + 1] ELSE None
      OBVIOUS
    <3>3. CASE k <= n
      <4>1. k \in 1..n /\ w[k - 1] = l[k] /\ l[k] # None
        BY <1>3, <2>2, <3>1, <3>3
      <4>2. Step(w, k) = m.next[l[k]]
        BY <4>1, <2>2
      <4>3. m.next[l[k]] = IF k = n THEN None ELSE l[k + 1]
        BY <4>1, <1>4
      <4> QED BY <4>2, <4>3, <3>2, <3>3, <1>3
    <3>4. CASE ~(k <= n)
      BY <3>1, <3>2, <3>4, <2>2, <1>3
    <3> QED BY <3>3, <3>4
  <2> QED BY <2>1, <2>2
<1>8. Q(w)
  <2> HIDE DEF Step
  <2> QED BY <1>7
<1>9. ASSUME NEW f, Q(f) PROVE f = w
  <2> DEFINE T == {k \in 0..K : f[k] # w[k]}
  <2>1. \A k \in 0..K : f[k] = Step(f, k)
    <3> HIDE DEF Step
    <3> QED BY <1>9
  <2>2. T = {}
    <3> SUFFICES ASSUME T # {} PROVE FALSE
      OBVIOUS
    <3>1. T \subseteq Nat
      BY <1>3
    <3>2. PICK k \in T : \A j \in T : k <= j
      <4> HIDE DEF T
      <4> QED BY <3>1, LeastNumber
    <3>3. k \in 0..K /\ f[k] # w[k] /\ f[k] = Step(f, k) /\ w[k] = Step(w, k)
      <4> HIDE DEF Step, w
      <4> QED BY <2>1, <1>7
    <3>4. k # 0
      BY <3>3
    <3>5. k - 1 \in 0..K /\ k - 1 \notin T
      <4>1. k - 1 \in 0..K /\ ~(k <= k - 1)
        BY <3>3, <3>4, <1>3
      <4> HIDE DEF T
      <4> QED BY <4>1, <3>2
    <3>6. f[k - 1] = w[k - 1]
      <4> HIDE DEF w
      <4> QED BY <3>5
    <3> HIDE DEF w
    <3> QED BY <3>3, <3>4, <3>6
  <2>3. DOMAIN f = 0..K /\ f = [k \in 0..K |-> f[k]]
    <3> HIDE DEF Step
    <3>1. f = [k \in 0..K |-> Step(f, k)]
      BY <1>9
    <3> QED BY <3>1
  <2>4. w = [k \in 0..K |-> w[k]]
    OBVIOUS
  <2> HIDE DEF w
  <2> QED BY <2>2, <2>3, <2>4
<1>10. A!Nodes(m) = w
  <2> HIDE DEF Q, w
  <2> QED BY <1>6, <1>8, <1>9
<1> QED BY <1>1, <1>2, <1>10

\* What Search finds is in the list.
LEMMA SearchIs ==
  ASSUME NEW m, IsMemory(m), NEW l, Linked(m, l), NEW n
  PROVE  A!Search(m, n) = None \/ \E i \in 1..Len(l) : A!Search(m, n) = l[i]
<1>1. PICK at : at = A!Nodes(m)
  OBVIOUS
<1>2. PICK fits : fits = {i \in DOMAIN at : at[i] # None /\ m.word[at[i]] >= A!Space(n)}
  OBVIOUS
<1>3. A!Search(m, n) = IF fits = {} THEN None ELSE at[A!Min(fits)]
  BY <1>1, <1>2 DEF A!Search
<1>4. CASE fits = {}
  BY <1>3, <1>4
<1>5. CASE fits # {}
  <2>1. PICK K : K = Cardinality(Blocks(m))
    OBVIOUS
  <2>2. at = [k \in 0..K |-> IF k < Len(l) THEN l[k + 1] ELSE None]
    BY <1>1, <2>1, NodesAre
  <2>3. K \in Nat /\ Len(l) \in Nat
    BY <2>1, ListFits
  <2>4. fits \subseteq 0..K
    BY <1>2, <2>2
  <2>5. \E x \in fits : \A y \in fits : x <= y
    <3>1. fits \subseteq Nat
      BY <2>3, <2>4
    <3> QED BY ONLY <3>1, <1>5, LeastNumber
  <2>6. A!Min(fits) \in fits
    BY <2>5 DEF A!Min
  <2>7. PICK k \in 0..K : k = A!Min(fits)
    BY <2>4, <2>6
  <2>8. at[k] # None
    BY <1>2, <2>6, <2>7
  <2>9. k + 1 \in 1..Len(l) /\ at[k] = l[k + 1]
    BY <2>2, <2>3, <2>8
  <2>10. A!Search(m, n) = at[k]
    BY <1>3, <1>5, <2>7
  <2> QED BY <2>9, <2>10
<1> QED BY <1>4, <1>5

\* remove_node takes a node out of the list.
LEMMA RemoveNodeIs ==
  ASSUME NEW m, IsMemory(m), NEW l, Linked(m, l), NEW i \in 1..Len(l)
  PROVE  LET r == A!remove_node(m, l[i])
         IN /\ IsMemory(r) /\ Blocks(r) = Blocks(m) /\ r.word = m.word
            /\ \E k : Linked(r, k) /\ ToSet(k) = ToSet(l) \ {l[i]}
<1>1. PICK n, b, r : n = Len(l) /\ b = l[i] /\ r = A!remove_node(m, l[i])
  OBVIOUS
<1>2. /\ n \in Nat /\ i \in 1..n /\ l \in Seq(Blocks(m)) /\ NoRepeat(l) /\ DOMAIN l = 1..n
      /\ b \in Blocks(m) /\ \A j \in 1..n : l[j] \in Blocks(m) /\ l[j] # None
  <2>1. \A j \in 1..n : l[j] \in Blocks(m)
    BY <1>1, ListFits
  <2>2. None \notin Blocks(m) /\ n \in Nat /\ DOMAIN l = 1..n
    BY <1>1, ListFits
  <2>3. l \in Seq(Blocks(m)) /\ NoRepeat(l)
    BY DEF Linked
  <2> QED BY <2>1, <2>2, <2>3, <1>1
<1>3. /\ m.head = l[1]
      /\ \A j \in 1..n : /\ m.next[l[j]] = (IF j = n THEN None ELSE l[j + 1])
                         /\ m.prev[l[j]] = (IF j = 1 THEN None ELSE l[j - 1])
  <2>1. l # <<>>
    BY <1>1, <1>2
  <2> QED BY <1>1, <2>1 DEF Linked
<1>4. \A j, k \in 1..n : l[j] = l[k] => j = k
  BY <1>2 DEF NoRepeat
<1>5. PICK p, q : p = m.prev[b] /\ q = m.next[b]
  OBVIOUS
<1>6. p = (IF i = 1 THEN None ELSE l[i - 1]) /\ q = (IF i = n THEN None ELSE l[i + 1])
  BY <1>1, <1>2, <1>3, <1>5
<1>7. (i # 1 => i - 1 \in 1..n) /\ (i # n => i + 1 \in 1..n)
  BY <1>2
<1>8. PICK next1, prev1 :
        /\ next1 = (IF i = 1 THEN [m.next EXCEPT ![b] = None] ELSE [m.next EXCEPT ![p] = q])
        /\ prev1 = (IF q = None THEN m.prev ELSE [m.prev EXCEPT ![q] = p])
  OBVIOUS
<1>9. r = [m EXCEPT !.head = IF i = 1 THEN q ELSE @, !.next = next1, !.prev = prev1]
  <2>1. CASE i = 1
    <3>1. p = None
      BY <1>6, <2>1
    <3>2. r = [m EXCEPT !.head = q, !.prev = IF q = None THEN @ ELSE [@ EXCEPT ![q] = None],
                        !.next = [@ EXCEPT ![b] = None]]
      BY <1>1, <1>5, <3>1 DEF A!remove_node
    <3> QED BY <3>1, <3>2, <2>1, <1>8 DEF IsMemory
  <2>2. CASE i # 1
    <3>1. p # None
      BY <1>2, <1>6, <1>7, <2>2
    <3>2. r = [m EXCEPT !.next = [@ EXCEPT ![p] = q],
                        !.prev = IF q = None THEN @ ELSE [@ EXCEPT ![q] = p]]
      BY <1>1, <1>5, <3>1 DEF A!remove_node
    <3> QED BY <3>2, <2>2, <1>8 DEF IsMemory
  <2> QED BY <2>1, <2>2
<1>10. /\ r = [brk |-> m.brk, space |-> m.space, word |-> m.word,
               head |-> IF i = 1 THEN q ELSE m.head, next |-> next1, prev |-> prev1]
  BY <1>9 DEF IsMemory
<1>11. /\ r.brk = m.brk /\ r.space = m.space /\ r.word = m.word
       /\ r.head = (IF i = 1 THEN q ELSE m.head) /\ r.next = next1 /\ r.prev = prev1
  BY <1>10
<1>12. DOMAIN next1 = Blocks(m) /\ DOMAIN prev1 = Blocks(m)
  BY <1>8 DEF IsMemory
<1>13. IsMemory(r) /\ Blocks(r) = Blocks(m) /\ r.word = m.word
  BY <1>10, <1>11, <1>12 DEF IsMemory, Blocks
<1>14. PICK k : k = RemoveAt(l, i)
  OBVIOUS
<1>15. /\ k \in Seq(Blocks(m)) /\ Len(k) = n - 1 /\ DOMAIN k = 1..n - 1
       /\ \A j \in 1..n - 1 : k[j] = IF j < i THEN l[j] ELSE l[j + 1]
  <2>1. l \in Seq(Blocks(m)) /\ i \in 1..Len(l)
    BY <1>2
  <2>2. /\ k \in Seq(Blocks(m)) /\ Len(k) = Len(l) - 1
        /\ \A j \in 1..(Len(l) - 1) : k[j] = IF j < i THEN l[j] ELSE l[j + 1]
    BY ONLY <2>1, <1>14, RemoveAtElements
  <2> QED BY <2>2, <1>1, <1>2
<1>16. PICK pos : pos = [j \in 1..n - 1 |-> IF j < i THEN j ELSE j + 1]
  OBVIOUS
<1>17. /\ \A j \in 1..n - 1 : pos[j] \in 1..n /\ pos[j] # i /\ k[j] = l[pos[j]]
                              /\ (j < i => pos[j] = j) /\ (~(j < i) => pos[j] = j + 1)
  BY <1>2, <1>15, <1>16
<1>18. NoRepeat(k)
  <2> SUFFICES ASSUME NEW j \in 1..n - 1, NEW h \in 1..n - 1, k[j] = k[h] PROVE j = h
    BY <1>15 DEF NoRepeat
  <2>1. pos[j] = pos[h]
    BY <1>4, <1>17
  <2> QED BY <2>1, <1>2, <1>17
<1>19. ToSet(k) = ToSet(l) \ {b}
  <2>1. ToSet(k) = {k[j] : j \in 1..n - 1} /\ ToSet(l) = {l[j] : j \in 1..n}
    BY <1>2, <1>15 DEF ToSet
  <2>2. ASSUME NEW j \in 1..n - 1 PROVE k[j] \in ToSet(l) \ {b}
    BY <2>1, <1>1, <1>2, <1>4, <1>17
  <2>3. ASSUME NEW j \in 1..n, l[j] # b PROVE l[j] \in ToSet(k)
    <3>1. j # i
      BY <2>3, <1>1
    <3>2. CASE j < i
      <4>1. j \in 1..n - 1 /\ k[j] = l[j]
        BY <3>2, <1>2, <1>15
      <4> QED BY <4>1, <2>1
    <3>3. CASE ~(j < i)
      <4>1. j - 1 \in 1..n - 1 /\ k[j - 1] = l[j]
        BY <3>1, <3>3, <1>2, <1>15
      <4> QED BY <4>1, <2>1
    <3> QED BY <3>2, <3>3
  <2> QED BY <2>1, <2>2, <2>3
<1>20. r.head = (IF k = <<>> THEN None ELSE k[1])
  <2>1. k = <<>> <=> n = 1
    BY <1>2, <1>15, EmptySeq
  <2>2. CASE i = 1
    BY <2>1, <2>2, <1>2, <1>6, <1>11, <1>15
  <2>3. CASE i # 1
    <3>1. n # 1 /\ 1 < i /\ 1 \in 1..n - 1
      BY <2>3, <1>2
    <3> QED BY <2>1, <2>3, <3>1, <1>3, <1>11, <1>15
  <2> QED BY <2>2, <2>3
<1>21. ASSUME NEW j \in 1..n - 1
       PROVE  r.next[k[j]] = (IF j = n - 1 THEN None ELSE k[j + 1])
  <2>1. /\ pos[j] \in 1..n /\ pos[j] # i /\ k[j] = l[pos[j]] /\ l[pos[j]] # b
        /\ k[j] \in Blocks(m)
    BY <1>1, <1>2, <1>4, <1>17
  <2>2. CASE j + 1 = i
    <3>1. pos[j] = i - 1 /\ i # 1 /\ k[j] = p
      BY <2>1, <2>2, <1>2, <1>6, <1>17
    <3>2. r.next[k[j]] = q
      BY <3>1, <2>1, <1>8, <1>11 DEF IsMemory
    <3>3. q = (IF j = n - 1 THEN None ELSE l[i + 1])
      BY <2>2, <1>2, <1>6
    <3>4. j # n - 1 => j + 1 \in 1..n - 1 /\ k[j + 1] = l[i + 1]
      BY <2>2, <1>2, <1>15
    <3> QED BY <3>2, <3>3, <3>4
  <2>3. CASE j + 1 # i
    <3>1. r.next[k[j]] = m.next[k[j]]
      <4>1. i # 1 => pos[j] # i - 1
        BY <2>3, <1>2, <1>17
      <4>2. i # 1 => k[j] # p
        BY <4>1, <2>1, <1>4, <1>6, <1>7
      <4> QED BY <4>2, <2>1, <1>1, <1>8, <1>11 DEF IsMemory
    <3>2. m.next[k[j]] = (IF pos[j] = n THEN None ELSE l[pos[j] + 1])
      BY <2>1, <1>3
    <3>3. pos[j] = n <=> j = n - 1
      BY <2>1, <2>3, <1>2, <1>17
    <3>4. j # n - 1 => j + 1 \in 1..n - 1 /\ k[j + 1] = l[pos[j] + 1]
      BY <2>3, <1>2, <1>15, <1>17
    <3> QED BY <3>1, <3>2, <3>3, <3>4
  <2> QED BY <2>2, <2>3
<1>22. ASSUME NEW j \in 1..n - 1
       PROVE  r.prev[k[j]] = (IF j = 1 THEN None ELSE k[j - 1])
  <2>1. /\ pos[j] \in 1..n /\ pos[j] # i /\ k[j] = l[pos[j]] /\ l[pos[j]] # None
        /\ k[j] \in Blocks(m)
    BY <1>2, <1>17
  <2>2. CASE j = i
    <3>1. pos[j] = i + 1 /\ i # n /\ k[j] = q
      BY <2>1, <2>2, <1>2, <1>6, <1>17
    <3>2. r.prev[k[j]] = p
      <4>1. q # None /\ q \in DOMAIN m.prev
        BY <3>1, <2>1 DEF IsMemory
      <4>2. r.prev = [m.prev EXCEPT ![q] = p]
        BY <4>1, <1>8, <1>11
      <4> QED BY <4>1, <4>2, <3>1
    <3>3. j # 1 => j - 1 \in 1..n - 1 /\ k[j - 1] = l[i - 1]
      BY <2>2, <1>2, <1>15
    <3> QED BY <3>2, <3>3, <2>2, <1>6
  <2>3. CASE j # i
    <3>1. r.prev[k[j]] = m.prev[k[j]]
      <4>1. i # n => pos[j] # i + 1
        BY <2>3, <1>2, <1>17
      <4>2. k[j] # q
        BY <4>1, <2>1, <1>4, <1>6, <1>7
      <4> QED BY <4>2, <2>1, <1>8, <1>11 DEF IsMemory
    <3>2. m.prev[k[j]] = (IF pos[j] = 1 THEN None ELSE l[pos[j] - 1])
      BY <2>1, <1>3
    <3>3. pos[j] = 1 <=> j = 1
      BY <2>1, <2>3, <1>2, <1>17
    <3>4. j # 1 => j - 1 \in 1..n - 1 /\ k[j - 1] = l[pos[j] - 1]
      BY <2>3, <1>2, <1>15, <1>17
    <3> QED BY <3>1, <3>2, <3>3, <3>4
  <2> QED BY <2>2, <2>3
<1>23. Linked(r, k)
  BY <1>13, <1>15, <1>18, <1>20, <1>21, <1>22 DEF Linked
<1> QED BY <1>1, <1>13, <1>19, <1>23

\* free puts the node in front of the list.
LEMMA FreeIs ==
  ASSUME NEW m, IsMemory(m), NEW l, Linked(m, l), NEW b \in Blocks(m), b \notin ToSet(l)
  PROVE  LET r == A!free(m, b)
         IN /\ IsMemory(r) /\ Blocks(r) = Blocks(m)
            /\ \A c \in Blocks(m) : c # b => r.word[c] = m.word[c]
            /\ \E k : Linked(r, k) /\ ToSet(k) = ToSet(l) \union {b}
<1>1. PICK n, r, h : n = Len(l) /\ r = A!free(m, b) /\ h = m.head
  OBVIOUS
<1>2. /\ n \in Nat /\ l \in Seq(Blocks(m)) /\ NoRepeat(l) /\ DOMAIN l = 1..n
      /\ b # None /\ \A j \in 1..n : l[j] \in Blocks(m) /\ l[j] # None /\ l[j] # b
  <2>1. \A j \in 1..n : l[j] \in Blocks(m)
    BY <1>1, ListFits
  <2>2. None \notin Blocks(m) /\ n \in Nat /\ DOMAIN l = 1..n
    BY <1>1, ListFits
  <2>3. l \in Seq(Blocks(m)) /\ NoRepeat(l)
    BY DEF Linked
  <2>4. \A j \in 1..n : l[j] # b
    BY <2>2 DEF ToSet
  <2> QED BY <2>1, <2>2, <2>3, <2>4
<1>3. /\ h = (IF n = 0 THEN None ELSE l[1])
      /\ \A j \in 1..n : /\ m.next[l[j]] = (IF j = n THEN None ELSE l[j + 1])
                         /\ m.prev[l[j]] = (IF j = 1 THEN None ELSE l[j - 1])
  BY <1>1, <1>2, EmptySeq DEF Linked
<1>4. PICK next1, prev1, word1 :
        /\ next1 = [m.next EXCEPT ![b] = h]
        /\ prev1 = (IF h = None THEN [m.prev EXCEPT ![b] = None]
                    ELSE [m.prev EXCEPT ![b] = None, ![h] = b])
        /\ word1 = [m.word EXCEPT ![b] = IF m.space[b] = A!Word + A!Node THEN A!Pointer ELSE @]
  OBVIOUS
<1>5. r = [m EXCEPT !.head = b, !.next = next1, !.prev = prev1, !.word = word1]
  BY <1>1, <1>4 DEF A!free, IsMemory
<1>6. r = [brk |-> m.brk, space |-> m.space, word |-> word1, head |-> b, next |-> next1,
           prev |-> prev1]
  BY <1>5 DEF IsMemory
<1>7. /\ r.brk = m.brk /\ r.space = m.space /\ r.word = word1 /\ r.head = b
      /\ r.next = next1 /\ r.prev = prev1
  BY <1>6
<1>8. DOMAIN next1 = Blocks(m) /\ DOMAIN prev1 = Blocks(m) /\ DOMAIN word1 = Blocks(m)
  BY <1>4 DEF IsMemory
<1>9. IsMemory(r) /\ Blocks(r) = Blocks(m)
  BY <1>6, <1>7, <1>8 DEF IsMemory, Blocks
<1>10. \A c \in Blocks(m) : c # b => r.word[c] = m.word[c]
  BY <1>4, <1>7 DEF IsMemory
<1>11. PICK k : k = <<b>> \o l
  OBVIOUS
<1>12. /\ k \in Seq(Blocks(m)) /\ Len(k) = n + 1 /\ DOMAIN k = 1..n + 1
       /\ k[1] = b /\ \A j \in 2..n + 1 : k[j] = l[j - 1]
  <2>1. <<b>> \in Seq(Blocks(m)) /\ Len(<<b>>) = 1
    OBVIOUS
  <2> QED BY <2>1, <1>1, <1>2, <1>11
<1>13. \A j \in 1..n + 1 : j = 1 \/ (j \in 2..n + 1 /\ j - 1 \in 1..n)
  BY <1>2
<1>14. NoRepeat(k)
  <2>1. \A i, j \in 1..n : l[i] = l[j] => i = j
    BY <1>2 DEF NoRepeat
  <2> SUFFICES ASSUME NEW i \in 1..n + 1, NEW j \in 1..n + 1, k[i] = k[j] PROVE i = j
    BY <1>12 DEF NoRepeat
  <2>2. CASE i = 1
    BY <2>2, <1>2, <1>12, <1>13
  <2>3. CASE i # 1
    <3>1. j # 1
      BY <2>3, <1>2, <1>12, <1>13
    <3>2. l[i - 1] = l[j - 1] /\ i - 1 \in 1..n /\ j - 1 \in 1..n
      BY <2>3, <3>1, <1>12, <1>13
    <3>3. i - 1 = j - 1
      BY <3>2, <2>1
    <3> QED BY <3>3
  <2> QED BY <2>2, <2>3
<1>15. ToSet(k) = ToSet(l) \union {b}
  <2>1. ToSet(k) = {k[j] : j \in 1..n + 1} /\ ToSet(l) = {l[j] : j \in 1..n}
    BY <1>2, <1>12 DEF ToSet
  <2>2. \A j \in 1..n + 1 : k[j] \in ToSet(l) \union {b}
    BY <2>1, <1>12, <1>13
  <2>3. ASSUME NEW j \in 1..n PROVE l[j] \in ToSet(k)
    <3>1. j + 1 \in 2..n + 1 /\ j + 1 \in 1..n + 1 /\ (j + 1) - 1 = j
      BY <1>2
    <3>2. k[j + 1] = l[j]
      BY <3>1, <1>12
    <3> QED BY <3>1, <3>2, <2>1
  <2>4. k[1] = b /\ 1 \in 1..n + 1
    BY <1>2, <1>12
  <2> QED BY <2>1, <2>2, <2>3, <2>4
<1>16. r.head = (IF k = <<>> THEN None ELSE k[1])
  BY <1>2, <1>7, <1>12, EmptySeq
<1>17. ASSUME NEW j \in 1..n + 1
       PROVE  r.next[k[j]] = (IF j = n + 1 THEN None ELSE k[j + 1])
  <2>1. CASE j = 1
    <3>1. r.next[k[j]] = h
      BY <2>1, <1>4, <1>7, <1>12 DEF IsMemory
    <3>2. n # 0 => 2 \in 2..n + 1 /\ k[2] = l[1]
      BY <1>2, <1>12
    <3> QED BY <3>1, <3>2, <2>1, <1>2, <1>3
  <2>2. CASE j # 1
    <3>1. j - 1 \in 1..n /\ k[j] = l[j - 1] /\ k[j] # b /\ k[j] \in Blocks(m)
      BY <2>2, <1>2, <1>12, <1>13
    <3>2. r.next[k[j]] = m.next[k[j]]
      BY <3>1, <1>4, <1>7 DEF IsMemory
    <3>3. m.next[k[j]] = (IF j - 1 = n THEN None ELSE l[(j - 1) + 1])
      BY <3>1, <1>3
    <3>4. j # n + 1 => j + 1 \in 2..n + 1 /\ k[j + 1] = l[(j - 1) + 1]
      BY <1>2, <1>12
    <3> QED BY <3>2, <3>3, <3>4, <1>2
  <2> QED BY <2>1, <2>2
<1>18. ASSUME NEW j \in 1..n + 1
       PROVE  r.prev[k[j]] = (IF j = 1 THEN None ELSE k[j - 1])
  <2>1. CASE j = 1
    <3>1. h # b
      BY <1>2, <1>3
    <3>2. b \in DOMAIN m.prev
      BY DEF IsMemory
    <3>3. r.prev[b] = None
      BY <3>1, <3>2, <1>4, <1>7
    <3> QED BY <2>1, <3>3, <1>12
  <2>2. CASE j = 2
    <3>1. n # 0 /\ 1 \in 1..n /\ k[j] = l[1] /\ k[j] \in Blocks(m) /\ k[j] # None
      BY <2>2, <1>2, <1>12
    <3>2. h = k[j] /\ h # None /\ h \in DOMAIN m.prev
      BY <3>1, <1>3 DEF IsMemory
    <3>3. r.prev = [m.prev EXCEPT ![b] = None, ![h] = b]
      BY <3>2, <1>4, <1>7
    <3>4. r.prev[h] = b
      BY <3>2, <3>3
    <3> QED BY <2>2, <3>2, <3>4, <1>12
  <2>3. CASE j # 1 /\ j # 2
    <3>1. /\ j - 1 \in 1..n /\ j - 1 # 1 /\ k[j] = l[j - 1] /\ k[j] # b /\ k[j] \in Blocks(m)
          /\ 1 \in 1..n /\ n # 0
      BY <2>3, <1>2, <1>12, <1>13
    <3>2. h = l[1] /\ k[j] # h
      BY <3>1, <1>2, <1>3 DEF NoRepeat
    <3>3. r.prev[k[j]] = m.prev[k[j]]
      BY <3>1, <3>2, <1>4, <1>7 DEF IsMemory
    <3>4. m.prev[k[j]] = l[(j - 1) - 1]
      BY <3>1, <1>3
    <3>5. j - 1 \in 2..n + 1 /\ k[j - 1] = l[(j - 1) - 1]
      BY <2>3, <1>2, <1>12
    <3> QED BY <3>3, <3>4, <3>5, <2>3
  <2> QED BY <2>1, <2>2, <2>3
<1>19. Linked(r, k)
  BY <1>9, <1>12, <1>14, <1>16, <1>17, <1>18 DEF Linked
<1> QED BY <1>1, <1>9, <1>10, <1>15, <1>19

\* A change of a word is none of the list.
LEMMA WordIs ==
  ASSUME NEW m, NEW U, Sound(m, U), NEW b, NEW v, NEW r, r = WithWord(m, b, v)
  PROVE  /\ Sound(r, U) /\ Blocks(r) = Blocks(m)
         /\ r.word = [m.word EXCEPT ![b] = v]
<1>1. IsMemory(m)
  BY DEF Sound
<1>2. PICK w : w = [m.word EXCEPT ![b] = v]
  OBVIOUS
<1>3. r = [m EXCEPT !.word = w]
  BY <1>1, <1>2 DEF IsMemory, WithWord
<1>4. r = [brk |-> m.brk, space |-> m.space, word |-> w, head |-> m.head, next |-> m.next,
           prev |-> m.prev]
  BY <1>1, <1>3 DEF IsMemory
<1>5. /\ r.brk = m.brk /\ r.space = m.space /\ r.word = w /\ r.head = m.head
      /\ r.next = m.next /\ r.prev = m.prev
  BY <1>4
<1>6. DOMAIN w = Blocks(m)
  BY <1>1, <1>2 DEF IsMemory
<1>7. IsMemory(r) /\ Blocks(r) = Blocks(m)
  BY <1>1, <1>4, <1>5, <1>6 DEF IsMemory, Blocks
<1>8. \A l : Linked(m, l) => Linked(r, l)
  BY <1>5, <1>7 DEF Linked
<1> QED BY <1>2, <1>5, <1>7, <1>8 DEF Sound

LEMMA FreeSound ==
  ASSUME NEW m, NEW U, Sound(m, U), NEW b \in U
  PROVE  /\ Sound(A!free(m, b), U \ {b}) /\ Blocks(A!free(m, b)) = Blocks(m)
         /\ \A c \in Blocks(m) : c # b => A!free(m, b).word[c] = m.word[c]
<1>1. PICK l : Linked(m, l) /\ ToSet(l) = Blocks(m) \ U
  BY DEF Sound
<1>2. IsMemory(m) /\ b \in Blocks(m) /\ b \notin ToSet(l) /\ U \subseteq Blocks(m)
  BY <1>1 DEF Sound
<1>3. PICK r : r = A!free(m, b)
  OBVIOUS
<1>4. /\ IsMemory(r) /\ Blocks(r) = Blocks(m)
      /\ \A c \in Blocks(m) : c # b => r.word[c] = m.word[c]
      /\ \E k : Linked(r, k) /\ ToSet(k) = ToSet(l) \union {b}
  BY ONLY <1>1, <1>2, <1>3, FreeIs
<1>5. PICK k : Linked(r, k) /\ ToSet(k) = ToSet(l) \union {b}
  BY <1>4
<1>6. ToSet(k) = Blocks(r) \ (U \ {b})
  BY <1>1, <1>2, <1>4, <1>5
<1>7. Sound(r, U \ {b})
  BY <1>2, <1>4, <1>5, <1>6 DEF Sound
<1> QED BY <1>3, <1>4, <1>7

LEMMA SpaceIs == ASSUME NEW n \in Nat PROVE A!Space(n) \in Nat /\ A!Space(n) > 0
<1>1. A!Word = 8 /\ A!Node = 24
  BY DEF A!Word, A!Node
<1>2. \E x \in {n, 24} : \A y \in {n, 24} : x >= y
  OBVIOUS
<1>3. A!Max({n, 24}) \in {n, 24} /\ A!Max({n, 24}) >= 24
  BY <1>2 DEF A!Max
<1>4. PICK x \in Nat : x = A!Max({n, 24}) /\ x >= 24
  BY <1>3
<1>5. A!Space(n) = ((x + 8 + 8 - 1) \div 8) * 8
  BY <1>1, <1>4 DEF A!Space
<1> QED BY <1>4, <1>5

\* malloc gives out a block that was not in use.
LEMMA MallocSound ==
  ASSUME NEW m, NEW U, Sound(m, U), NEW n \in Nat
  PROVE  LET b == A!Block(m, n)
             r == A!malloc(m, n)
         IN /\ Sound(r, U \union {b}) /\ b \notin U /\ Blocks(m) \subseteq Blocks(r)
            /\ \A c \in U : r.word[c] = m.word[c]
<1>1. PICK b, r : b = A!Block(m, n) /\ r = A!malloc(m, n)
  OBVIOUS
<1>2. PICK l : Linked(m, l) /\ ToSet(l) = Blocks(m) \ U
  BY DEF Sound
<1>3. IsMemory(m) /\ U \subseteq Blocks(m) /\ None \notin Blocks(m) /\ DOMAIN l = 1..Len(l)
  BY <1>2, ListFits DEF Sound
<1>4. A!Search(m, n) = None \/ \E i \in 1..Len(l) : A!Search(m, n) = l[i]
  BY ONLY <1>2, <1>3, SearchIs
<1>5. CASE A!Search(m, n) # None
  <2>1. PICK i \in 1..Len(l) : A!Search(m, n) = l[i]
    BY <1>4, <1>5
  <2>2. b = l[i] /\ r = A!remove_node(m, l[i])
    BY <1>1, <1>5, <2>1 DEF A!Block, A!malloc
  <2>3. /\ IsMemory(r) /\ Blocks(r) = Blocks(m) /\ r.word = m.word
        /\ \E k : Linked(r, k) /\ ToSet(k) = ToSet(l) \ {l[i]}
    BY ONLY <1>2, <1>3, <2>2, i \in 1..Len(l), RemoveNodeIs
  <2>4. PICK k : Linked(r, k) /\ ToSet(k) = ToSet(l) \ {b}
    BY <2>2, <2>3
  <2>5. b \in ToSet(l)
    BY <2>2, <1>3 DEF ToSet
  <2>6. b \in Blocks(m) /\ b \notin U /\ ToSet(k) = Blocks(r) \ (U \union {b})
    BY <2>3, <2>4, <2>5, <1>2
  <2>7. Sound(r, U \union {b})
    BY <2>3, <2>4, <2>6, <1>3 DEF Sound
  <2> QED BY <2>3, <2>6, <2>7, <1>1
<1>6. CASE A!Search(m, n) = None
  <2>1. PICK size : size = A!Space(n)
    OBVIOUS
  <2>2. size \in Nat /\ size > 0 /\ m.brk \in Nat
    BY <2>1, <1>3, SpaceIs DEF IsMemory
  <2>3. b = m.brk /\ b \notin Blocks(m)
    BY <1>1, <1>3, <1>6, <2>2 DEF A!Block, IsMemory
  <2>4. r = [m EXCEPT !.brk = @ + size, !.space = A!With(@, b, size), !.word = A!With(@, b, 0),
                      !.next = A!With(@, b, None), !.prev = A!With(@, b, None)]
    BY <1>1, <1>6, <2>1, <2>3 DEF A!malloc
  <2>5. PICK space1, word1, next1, prev1 :
          /\ space1 = A!With(m.space, b, size) /\ word1 = A!With(m.word, b, 0)
          /\ next1 = A!With(m.next, b, None) /\ prev1 = A!With(m.prev, b, None)
    OBVIOUS
  <2>6. r = [brk |-> m.brk + size, space |-> space1, word |-> word1, head |-> m.head,
             next |-> next1, prev |-> prev1]
    BY <2>4, <2>5, <1>3 DEF IsMemory
  <2>7. /\ r.brk = m.brk + size /\ r.space = space1 /\ r.word = word1 /\ r.head = m.head
        /\ r.next = next1 /\ r.prev = prev1
    BY <2>6
  <2>8. /\ DOMAIN space1 = Blocks(m) \union {b} /\ DOMAIN word1 = Blocks(m) \union {b}
        /\ DOMAIN next1 = Blocks(m) \union {b} /\ DOMAIN prev1 = Blocks(m) \union {b}
        /\ \A c \in Blocks(m) : /\ word1[c] = m.word[c] /\ next1[c] = m.next[c]
                                /\ prev1[c] = m.prev[c]
    BY <2>3, <2>5, <1>3 DEF A!With, IsMemory, Blocks
  <2>9. Blocks(r) = Blocks(m) \union {b}
    BY <2>7, <2>8 DEF Blocks
  <2>10. IsFiniteSet(Blocks(r))
    BY <2>9, <1>3, FS_AddElement DEF IsMemory
  <2>11. \A c \in Blocks(r) : c \in Nat /\ c < r.brk
    BY <2>2, <2>3, <2>7, <2>9, <1>3 DEF IsMemory
  <2>12. IsMemory(r)
    BY <2>2, <2>6, <2>7, <2>8, <2>9, <2>10, <2>11 DEF IsMemory
  <2>13. Linked(r, l)
    <3>1. l \in Seq(Blocks(m)) /\ NoRepeat(l) /\ \A j \in 1..Len(l) : l[j] \in Blocks(m)
      BY <1>2, <1>3, ListFits DEF Linked
    <3>2. l \in Seq(Blocks(r))
      BY <3>1, <2>9
    <3> QED BY <3>1, <3>2, <2>7, <2>8, <1>2 DEF Linked
  <2>14. ToSet(l) = Blocks(r) \ (U \union {b})
    BY <2>3, <2>9, <1>2
  <2>15. Sound(r, U \union {b})
    BY <2>9, <2>12, <2>13, <2>14, <1>3 DEF Sound
  <2> QED BY <2>3, <2>7, <2>8, <2>9, <2>15, <1>1, <1>3
<1> QED BY <1>5, <1>6

-----------------------------------------------------------------------------
LEMMA AllocInitInv == A!Init => AllocInv
<1> SUFFICES ASSUME A!Init PROVE AllocInv
  OBVIOUS
<1>1. /\ mem = [brk |-> 0, space |-> <<>>, word |-> <<>>, head |-> None, next |-> <<>>, prev |-> <<>>]
      /\ owned = <<>> /\ filled = <<>>
  BY DEF A!Init
<1>2. DOMAIN owned = {} /\ DOMAIN filled = {} /\ Blocks(mem) = {}
  BY <1>1 DEF Blocks
<1>3. IsMemory(mem)
  BY <1>1, <1>2, FS_EmptySet DEF IsMemory, Blocks
<1>4. Linked(mem, <<>>) /\ ToSet(<<>>) = {}
  BY <1>1 DEF Linked, NoRepeat, ToSet
<1> QED BY <1>2, <1>3, <1>4 DEF AllocInv, Sound

LEMMA AllocateKeeps ==
  ASSUME AllocInv, NEW n \in AllocSizes, A!Allocate(n) PROVE AllocInv'
<1>1. n \in Nat
  BY MemoryAssumption
<1>2. PICK U, m, b, r : /\ U = DOMAIN owned /\ m = mem
                        /\ b = A!Block(mem, n) /\ r = A!malloc(mem, n)
  OBVIOUS
<1>3. /\ Sound(r, U \union {b}) /\ b \notin U /\ Blocks(mem) \subseteq Blocks(r)
      /\ \A c \in U : r.word[c] = mem.word[c]
  <2>1. Sound(m, U) /\ b = A!Block(m, n) /\ r = A!malloc(m, n)
    BY <1>2 DEF AllocInv
  <2>2. /\ Sound(r, U \union {b}) /\ b \notin U /\ Blocks(m) \subseteq Blocks(r)
        /\ \A c \in U : r.word[c] = m.word[c]
    BY ONLY <1>1, <2>1, MallocSound
  <2> QED BY <2>2, <1>2
<1>4. /\ mem' = r \/ mem' = A!calloc(mem, n)
      /\ owned' = A!With(owned, b, n) /\ filled' = A!With(filled, b, mem'.word[b])
  BY <1>2 DEF A!Allocate
<1>5. Sound(mem', U \union {b}) /\ \A c \in U : mem'.word[c] = mem.word[c]
  <2>1. CASE mem' = r
    BY <2>1, <1>3
  <2>2. CASE mem' = A!calloc(mem, n)
    <3>1. mem' = [r EXCEPT !.word[b] = 0]
      BY <2>2, <1>2 DEF A!calloc
    <3>2. Sound(mem', U \union {b}) /\ mem'.word = [r.word EXCEPT ![b] = 0]
      <4>1. PICK V, y : V = U \union {b} /\ y = mem'
        OBVIOUS
      <4>2. Sound(r, V) /\ y = WithWord(r, b, 0)
        BY <4>1, <3>1, <1>3 DEF WithWord
      <4>3. Sound(y, V) /\ y.word = [r.word EXCEPT ![b] = 0]
        BY ONLY <4>2, WordIs
      <4> QED BY <4>1, <4>3
    <3>3. \A c \in U : mem'.word[c] = r.word[c]
      BY <3>2, <1>3
    <3> QED BY <3>2, <3>3, <1>3
  <2> QED BY <2>1, <2>2, <1>4
<1>6. /\ DOMAIN owned' = U \union {b} /\ DOMAIN filled' = U \union {b}
      /\ filled'[b] = mem'.word[b] /\ \A c \in U : filled'[c] = filled[c]
  BY <1>2, <1>3, <1>4 DEF A!With, AllocInv
<1> QED BY <1>2, <1>5, <1>6 DEF AllocInv

LEMMA FreeKeeps ==
  ASSUME AllocInv, NEW b \in DOMAIN owned, A!Free(b) PROVE AllocInv'
<1>1. PICK U : U = DOMAIN owned
  OBVIOUS
<1>2. /\ Sound(mem, U) /\ U \subseteq Blocks(mem) /\ mem' = A!free(mem, b)
      /\ owned' = A!Without(owned, b) /\ filled' = A!Without(filled, b)
  BY <1>1 DEF AllocInv, Sound, A!Free
<1>3. Sound(mem', U \ {b}) /\ \A c \in U : c # b => mem'.word[c] = mem.word[c]
  BY <1>1, <1>2, FreeSound
<1>4. /\ DOMAIN owned' = U \ {b} /\ DOMAIN filled' = U \ {b}
      /\ \A c \in U \ {b} : filled'[c] = filled[c]
  BY <1>1, <1>2 DEF A!Without, AllocInv
<1> QED BY <1>1, <1>3, <1>4 DEF AllocInv

LEMMA WriteKeeps ==
  ASSUME AllocInv, NEW b \in DOMAIN owned, NEW v, A!Write(b, v) PROVE AllocInv'
<1>1. PICK U : U = DOMAIN owned
  OBVIOUS
<1>2. /\ Sound(mem, U) /\ U \subseteq Blocks(mem) /\ mem' = [mem EXCEPT !.word[b] = v]
      /\ owned' = owned /\ filled' = [filled EXCEPT ![b] = v] /\ DOMAIN filled = U
      /\ DOMAIN mem.word = Blocks(mem)
  BY <1>1 DEF AllocInv, Sound, IsMemory, A!Write
<1>3. Sound(mem', U) /\ mem'.word = [mem.word EXCEPT ![b] = v]
  <2>1. PICK m, y : m = mem /\ y = mem'
    OBVIOUS
  <2>2. Sound(m, U) /\ y = WithWord(m, b, v)
    BY <2>1, <1>2 DEF WithWord
  <2>3. Sound(y, U) /\ y.word = [m.word EXCEPT ![b] = v]
    BY ONLY <2>2, WordIs
  <2> QED BY <2>1, <2>3
<1>4. \A c \in U : mem'.word[c] = filled'[c]
  BY <1>1, <1>2, <1>3 DEF AllocInv
<1> QED BY <1>1, <1>2, <1>3, <1>4 DEF AllocInv

LEMMA ReallocateKeeps ==
  ASSUME AllocInv, NEW b \in DOMAIN owned, NEW n \in AllocSizes \union {0}, A!Reallocate(b, n)
  PROVE  AllocInv'
<1>1. PICK U, r : U = DOMAIN owned /\ r = A!realloc(mem, b, n)
  OBVIOUS
<1>2. /\ n \in Nat /\ b \in U /\ Sound(mem, U) /\ U \subseteq Blocks(mem) /\ DOMAIN filled = U
      /\ \A c \in U : mem.word[c] = filled[c]
  BY <1>1, MemoryAssumption DEF AllocInv, Sound
<1>3. /\ mem' = r.mem
      /\ n = 0 => owned' = A!Without(owned, b) /\ filled' = A!Without(filled, b)
      /\ n # 0 => /\ owned' = A!With(A!Without(owned, b), r.block, n)
                  /\ filled' = A!With(A!Without(filled, b), r.block, filled[b])
  BY <1>1 DEF A!Reallocate
<1>4. CASE n = 0
  <2>1. mem' = A!free(mem, b)
    BY <1>1, <1>3, <1>4 DEF A!realloc
  <2>2. A!Free(b)
    BY <2>1, <1>3, <1>4 DEF A!Free
  <2> QED BY <2>2, FreeKeeps
<1>5. CASE n # 0
  <2>1. PICK c : c = r.block
    OBVIOUS
  <2>2. /\ DOMAIN owned' = (U \ {b}) \union {c} /\ DOMAIN filled' = (U \ {b}) \union {c}
        /\ filled'[c] = filled[b] /\ \A d \in U \ {b} : d # c => filled'[d] = filled[d]
    BY <1>1, <1>2, <1>3, <1>5, <2>1 DEF A!With, A!Without
  <2>3. CASE n <= mem.space[b]
    <3>1. r = [mem |-> mem, block |-> b]
      BY <1>1, <1>5, <2>3 DEF A!realloc
    <3>2. mem' = mem /\ c = b /\ (U \ {b}) \union {c} = U
      BY <3>1, <2>1, <1>2, <1>3
    <3> QED BY <3>2, <2>2, <1>2 DEF AllocInv
  <2>4. CASE ~(n <= mem.space[b])
    <3>1. PICK x, y : x = A!malloc(mem, n) /\ y = [x EXCEPT !.word[A!Block(mem, n)] = mem.word[b]]
      OBVIOUS
    <3>2. r = [mem |-> A!free(y, b), block |-> A!Block(mem, n)]
      BY <3>1, <1>1, <1>5, <2>4 DEF A!realloc
    <3>3. c = A!Block(mem, n) /\ mem' = A!free(y, b)
      BY <3>2, <2>1, <1>3
    <3>4. /\ Sound(x, U \union {c}) /\ c \notin U
          /\ \A d \in U : x.word[d] = mem.word[d]
      BY <3>1, <3>3, <1>2, MallocSound
    <3>5. y = [x EXCEPT !.word[c] = mem.word[b]]
      BY <3>1, <3>3
    <3>6. Sound(y, U \union {c}) /\ y.word = [x.word EXCEPT ![c] = mem.word[b]]
      <4>1. PICK V, w : V = U \union {c} /\ w = mem.word[b]
        OBVIOUS
      <4>2. Sound(x, V) /\ y = WithWord(x, c, w)
        BY <4>1, <3>4, <3>5 DEF WithWord
      <4>3. Sound(y, V) /\ y.word = [x.word EXCEPT ![c] = w]
        BY ONLY <4>2, WordIs
      <4> QED BY <4>1, <4>3
    <3>7. c \in DOMAIN x.word
      BY <3>4 DEF Sound, IsMemory
    <3>8. y.word[c] = mem.word[b] /\ \A d \in U : y.word[d] = mem.word[d]
      BY <3>4, <3>6, <3>7
    <3>9. b \in U \union {c} /\ (U \union {c}) \ {b} = (U \ {b}) \union {c}
      BY <3>4, <1>2
    <3>10. /\ Sound(mem', (U \union {c}) \ {b})
           /\ \A d \in Blocks(y) : d # b => mem'.word[d] = y.word[d]
      <4>1. PICK V, z : V = U \union {c} /\ z = A!free(y, b)
        OBVIOUS
      <4>2. Sound(y, V) /\ b \in V
        BY <4>1, <3>6, <3>9
      <4>3. /\ Sound(z, V \ {b})
            /\ \A d \in Blocks(y) : d # b => z.word[d] = y.word[d]
        BY ONLY <4>1, <4>2, FreeSound
      <4> QED BY <4>1, <4>3, <3>3
    <3>11. U \union {c} \subseteq Blocks(y)
      BY <3>6 DEF Sound
    <3>12. \A d \in (U \ {b}) \union {c} : mem'.word[d] = filled'[d]
      BY <3>4, <3>8, <3>10, <3>11, <2>2, <1>2
    <3> QED BY <3>9, <3>10, <3>12, <2>2 DEF AllocInv
  <2> QED BY <2>3, <2>4
<1> QED BY <1>4, <1>5

LEMMA AllocInvSound == AllocInv => AllocSound
<1> SUFFICES ASSUME AllocInv PROVE AllocSound
  OBVIOUS
<1>1. PICK U, B : U = DOMAIN owned /\ B = Blocks(mem)
  OBVIOUS
<1>2. PICK l : Linked(mem, l) /\ ToSet(l) = B \ U
  BY <1>1 DEF AllocInv, Sound
<1>3. IsMemory(mem)
  BY DEF AllocInv, Sound
<1>4. PICK K, n : K = Cardinality(B) /\ n = Len(l)
  OBVIOUS
<1>5. /\ n \in Nat /\ K \in Nat /\ n <= K /\ None \notin B /\ DOMAIN l = 1..n
      /\ \A i \in 1..n : l[i] \in B
  BY <1>1, <1>2, <1>3, <1>4, ListFits
<1>6. PICK at : at = A!Nodes(mem)
  OBVIOUS
<1>7. at = [k \in 0..K |-> IF k < n THEN l[k + 1] ELSE None]
  BY <1>1, <1>2, <1>3, <1>4, <1>6, NodesAre
<1>8. A!FreeList = ToSet(l)
  <2>1. A!FreeList = {at[k] : k \in DOMAIN at} \ {None}
    BY <1>6 DEF A!FreeList
  <2>2. A!FreeList = {at[k] : k \in 0..K} \ {None}
    BY <2>1, <1>7
  <2>3. ToSet(l) = {l[i] : i \in 1..n}
    BY <1>5 DEF ToSet
  <2>4. ASSUME NEW k \in 0..K, at[k] # None PROVE at[k] \in ToSet(l)
    <3>1. k < n /\ at[k] = l[k + 1] /\ k + 1 \in 1..n
      BY <2>4, <1>5, <1>7
    <3> QED BY <3>1, <2>3
  <2>5. ASSUME NEW i \in 1..n PROVE l[i] \in A!FreeList
    <3>1. i - 1 \in 0..K /\ at[i - 1] = l[i] /\ l[i] # None
      BY <1>5, <1>7
    <3> QED BY <3>1, <2>2
  <2> QED BY <2>2, <2>3, <2>4, <2>5
<1>9. ASSUME NEW b \in A!FreeList
      PROVE  IF mem.prev[b] = None THEN b = mem.head ELSE mem.next[mem.prev[b]] = b
  <2>1. PICK i \in 1..n : b = l[i]
    BY <1>5, <1>8 DEF ToSet
  <2>2. l # <<>>
    BY <2>1, <1>4
  <2>3. CASE i = 1
    BY <2>1, <2>2, <2>3, <1>2, <1>4 DEF Linked
  <2>4. CASE i # 1
    <3>1. i - 1 \in 1..n /\ i - 1 # n /\ (i - 1) + 1 = i
      BY <2>4, <1>5
    <3>2. mem.prev[b] = l[i - 1]
      BY <2>1, <2>4, <1>2, <1>4 DEF Linked
    <3>3. mem.next[l[i - 1]] = l[(i - 1) + 1]
      BY <3>1, <1>2, <1>4 DEF Linked
    <3>4. l[i - 1] # None
      BY <3>1, <1>5
    <3> QED BY <3>1, <3>2, <3>3, <3>4, <2>1
  <2> QED BY <2>3, <2>4
<1>10. \A b \in DOMAIN owned : mem.word[b] = filled[b]
  BY DEF AllocInv
<1>11. A!FreeList = DOMAIN mem.space \ DOMAIN owned
  BY <1>1, <1>2, <1>8 DEF Blocks
<1> QED BY <1>9, <1>10, <1>11 DEF AllocSound, A!AllocSound

(***************************************************************************)
(* For any requests and any calls, the list of alloc.c holds every block   *)
(* that is not in use exactly once and is linked both ways, and no call    *)
(* changes what is in the blocks in use.                                   *)
(***************************************************************************)
THEOREM AllocCorrect == A!Spec => []AllocSound
<1>1. AllocInv /\ [A!Next]_A!vars => AllocInv'
  <2> SUFFICES ASSUME AllocInv, [A!Next]_A!vars PROVE AllocInv'
    OBVIOUS
  <2>1. ASSUME NEW n \in AllocSizes, A!Allocate(n) PROVE AllocInv'
    BY <2>1, AllocateKeeps
  <2>2. ASSUME NEW b \in DOMAIN owned, A!Free(b) PROVE AllocInv'
    BY <2>2, FreeKeeps
  <2>3. ASSUME NEW b \in DOMAIN owned, NEW n \in AllocSizes \union {0}, A!Reallocate(b, n)
        PROVE  AllocInv'
    BY <2>3, ReallocateKeeps
  <2>4. ASSUME NEW b \in DOMAIN owned, NEW v \in AllocWords, A!Write(b, v) PROVE AllocInv'
    BY <2>4, WriteKeeps
  <2>5. CASE UNCHANGED A!vars
    BY <2>5 DEF A!vars, AllocInv
  <2> QED BY <2>1, <2>2, <2>3, <2>4, <2>5 DEF A!Next
<1> QED BY <1>1, AllocInitInv, AllocInvSound, PTL DEF A!Spec

-----------------------------------------------------------------------------
(***************************************************************************)
(* The leak checker.                                                       *)
(***************************************************************************)
Allocations == [address : Addresses, request_size : Nat]

\* g[k] is the sum of the sizes of the first k allocations.
Sums(g, s) ==
    /\ g \in [0..Len(s) -> Int] /\ g[0] = 0
    /\ \A k \in 1..Len(s) : g[k] = g[k - 1] + s[k].request_size

OncePerAddress(s) == \A i, j \in DOMAIN s : s[i].address = s[j].address => i = j

CheckInv ==
    ~moved =>
      /\ list \in Seq(Allocations) /\ OncePerAddress(list)
      /\ {list[i].address : i \in DOMAIN list} = heap
      /\ total_memory_requested \in Int /\ total_memory_freed \in Int
      /\ \E g : Sums(g, list) /\ total_memory_requested - total_memory_freed = g[Len(list)]
      /\ invalid_addresses = invalid

\* What Allocated sums up.
LEMMA AllocatedIs ==
  ASSUME list \in Seq(Allocations), NEW g, Sums(g, list)
  PROVE  M!Allocated = g[Len(list)]
<1>1. PICK n, l : n = Len(list) /\ l = list
  OBVIOUS
<1>2. n \in Nat /\ \A k \in 1..n : l[k].request_size \in Nat
  <2>1. n \in Nat /\ l \in Seq(Allocations)
    BY <1>1
  <2>2. \A k \in 1..n : l[k] \in Allocations
    BY <2>1, <1>1, ElementOfSeq
  <2> QED BY <2>1, <2>2 DEF Allocations
<1>3. /\ g \in [0..n -> Int] /\ g[0] = 0
      /\ \A k \in 1..n : g[k] = g[k - 1] + l[k].request_size
  BY <1>1 DEF Sums
<1> DEFINE Step(f, k) == IF k = 0 THEN 0 ELSE f[k - 1] + l[k].request_size
           Q(f) == f = [k \in 0..n |-> Step(f, k)]
<1>4. M!Allocated = (CHOOSE f : Q(f))[n]
  BY <1>1 DEF M!Allocated
<1>5. Q(g)
  <2>1. \A k \in 0..n : g[k] = Step(g, k)
    BY <1>2, <1>3
  <2>2. g = [k \in 0..n |-> g[k]]
    BY <1>3
  <2> HIDE DEF Step
  <2> QED BY <2>1, <2>2
<1>6. ASSUME NEW f, Q(f) PROVE f[n] = g[n]
  <2> DEFINE T == {k \in 0..n : f[k] # g[k]}
  <2>1. \A k \in 0..n : f[k] = Step(f, k)
    <3> HIDE DEF Step
    <3> QED BY <1>6
  <2>2. T = {}
    <3> SUFFICES ASSUME T # {} PROVE FALSE
      OBVIOUS
    <3>1. T \subseteq Nat
      BY <1>2
    <3>2. PICK k \in T : \A j \in T : k <= j
      <4> HIDE DEF T
      <4> QED BY <3>1, LeastNumber
    <3>3. k \in 0..n /\ f[k] # g[k] /\ f[k] = Step(f, k)
      <4> HIDE DEF Step
      <4> QED BY <2>1
    <3>4. k # 0
      BY <3>3, <1>3
    <3>5. k - 1 \in 0..n /\ k - 1 \notin T /\ k \in 1..n
      <4>1. k - 1 \in 0..n /\ ~(k <= k - 1) /\ k \in 1..n
        BY <3>3, <3>4, <1>2
      <4> HIDE DEF T
      <4> QED BY <4>1, <3>2
    <3>6. f[k - 1] = g[k - 1]
      BY <3>5
    <3>7. g[k] = g[k - 1] + l[k].request_size
      BY <3>5, <1>3
    <3> QED BY <3>3, <3>4, <3>6, <3>7
  <2> QED BY <2>2, <1>2
<1>7. Q(CHOOSE f : Q(f))
  <2> HIDE DEF Q
  <2> QED BY <1>5
<1> HIDE DEF Q
<1> QED BY <1>1, <1>4, <1>6, <1>7

\* Found finds the one allocation at the address of a payload.
LEMMA FoundIs ==
  ASSUME CheckInv, ~moved, NEW p \in M!Pointers
  PROVE  LET i == M!Found(p)
         IN /\ i = 0 <=> ~(p[2] = "payload" /\ p[1] \in heap)
            /\ i # 0 => i \in 1..Len(list) /\ list[i].address = p[1]
<1>1. PICK hits : hits = {i \in DOMAIN list : <<list[i].address, "payload">> = p}
  OBVIOUS
<1>2. M!Found(p) = IF hits = {} THEN 0 ELSE M!Min(hits)
  BY <1>1 DEF M!Found
<1>3. /\ p = <<p[1], p[2]>> /\ DOMAIN list = 1..Len(list) /\ Len(list) \in Nat
      /\ {list[i].address : i \in DOMAIN list} = heap
  BY DEF CheckInv, M!Pointers
<1>4. hits = {i \in DOMAIN list : list[i].address = p[1] /\ p[2] = "payload"}
  BY <1>1, <1>3
<1>5. hits = {} <=> ~(p[2] = "payload" /\ p[1] \in heap)
  BY <1>3, <1>4
<1>6. CASE hits = {}
  BY <1>2, <1>5, <1>6
<1>7. CASE hits # {}
  <2>1. hits \subseteq Nat
    BY <1>3, <1>4
  <2>2. \E x \in hits : \A y \in hits : x <= y
    BY ONLY <2>1, <1>7, LeastNumber
  <2>3. M!Min(hits) \in hits
    BY <2>2 DEF M!Min
  <2> QED BY <1>2, <1>3, <1>4, <1>5, <1>7, <2>3
<1> QED BY <1>6, <1>7

LEMMA CheckInitInv == M!Init => CheckInv
<1> SUFFICES ASSUME M!Init PROVE CheckInv
  OBVIOUS
<1>1. /\ list = <<>> /\ heap = {} /\ total_memory_requested = 0 /\ total_memory_freed = 0
      /\ invalid_addresses = 0 /\ invalid = 0
  BY DEF M!Init
<1>2. Len(list) = 0 /\ DOMAIN list = {} /\ list \in Seq(Allocations)
  BY <1>1
<1> DEFINE g == [k \in 0..0 |-> 0]
<1>3. Sums(g, list) /\ g[Len(list)] = 0
  BY <1>2 DEF Sums
<1> HIDE DEF g
<1> QED BY <1>1, <1>2, <1>3 DEF CheckInv, OncePerAddress

LEMMA MallocKeeps ==
  ASSUME CheckInv, ~moved, NEW n \in RequestSizes, M!mini_malloc(n)
  PROVE  CheckInv'
<1>1. CASE UNCHANGED <<heap, list, total_memory_requested>>
  BY <1>1 DEF CheckInv, M!mini_malloc, Sums, OncePerAddress
<1>2. ASSUME NEW a \in Addresses \ heap, heap' = heap \union {a},
             list' = <<[address |-> a, request_size |-> n]>> \o list,
             total_memory_requested' = total_memory_requested + n
      PROVE  CheckInv'
  <2>1. PICK l, k, r, s : l = list /\ k = list' /\ r = [address |-> a, request_size |-> n] /\ s = Len(l)
    OBVIOUS
  <2>2. /\ l \in Seq(Allocations) /\ r \in Allocations /\ k = <<r>> \o l /\ s \in Nat
        /\ n \in Nat /\ r.address = a /\ r.request_size = n
    BY <2>1, <1>2, MemoryAssumption DEF CheckInv, Allocations
  <2>3. /\ k \in Seq(Allocations) /\ Len(k) = s + 1 /\ DOMAIN k = 1..s + 1 /\ DOMAIN l = 1..s
        /\ k[1] = r /\ \A i \in 2..s + 1 : k[i] = l[i - 1]
    <3>1. <<r>> \in Seq(Allocations) /\ Len(<<r>>) = 1
      BY <2>2
    <3> QED BY <3>1, <2>1, <2>2
  <2>4. \A i \in 1..s + 1 : i = 1 \/ (i \in 2..s + 1 /\ i - 1 \in 1..s)
    BY <2>2
  <2>5. \A i \in 1..s : i + 1 \in 2..s + 1 /\ k[i + 1] = l[i]
    BY <2>2, <2>3
  <2>6. {l[i].address : i \in 1..s} = heap /\ OncePerAddress(l)
    BY <2>1, <2>3 DEF CheckInv
  <2>7. \A i \in 1..s : l[i].address # a
    BY <2>6
  <2>8. OncePerAddress(k)
    <3> SUFFICES ASSUME NEW i \in 1..s + 1, NEW j \in 1..s + 1, k[i].address = k[j].address
                 PROVE  i = j
      BY <2>3 DEF OncePerAddress
    <3>1. CASE i = 1 \/ j = 1
      BY <3>1, <2>2, <2>3, <2>4, <2>7
    <3>2. CASE i # 1 /\ j # 1
      <4>1. i - 1 \in 1..s /\ j - 1 \in 1..s /\ l[i - 1].address = l[j - 1].address
        BY <3>2, <2>3, <2>4
      <4>2. i - 1 = j - 1
        BY <4>1, <2>3, <2>6 DEF OncePerAddress
      <4> QED BY <4>2
    <3> QED BY <3>1, <3>2
  <2>9. {k[i].address : i \in 1..s + 1} = heap \union {a}
    <3>1. ASSUME NEW i \in 1..s + 1 PROVE k[i].address \in heap \union {a}
      BY <2>2, <2>3, <2>4, <2>6
    <3>2. ASSUME NEW b \in heap \union {a} PROVE \E i \in 1..s + 1 : k[i].address = b
      <4>1. CASE b = a
        BY <4>1, <2>2, <2>3
      <4>2. CASE b # a
        <5>1. PICK i \in 1..s : l[i].address = b
          BY <4>2, <2>6
        <5>2. i + 1 \in 1..s + 1
          BY <2>2
        <5>3. k[i + 1].address = b
          BY <5>1, <2>5
        <5> QED BY <5>2, <5>3
      <4> QED BY <4>1, <4>2
    <3> QED BY <3>1, <3>2
  <2>10. PICK g : Sums(g, l) /\ total_memory_requested - total_memory_freed = g[s]
    BY <2>1 DEF CheckInv
  <2> DEFINE h == [i \in 0..s + 1 |-> IF i = 0 THEN 0 ELSE n + g[i - 1]]
  <2>11. g \in [0..s -> Int] /\ g[0] = 0 /\ \A i \in 1..s : g[i] = g[i - 1] + l[i].request_size
    BY <2>1, <2>10 DEF Sums
  <2>12. Sums(h, k) /\ h[s + 1] = n + g[s]
    <3>1. \A i \in 1..s + 1 : i - 1 \in 0..s /\ g[i - 1] \in Int
      <4>1. \A i \in 1..s + 1 : i - 1 \in 0..s
        BY ONLY <2>2
      <4>2. \A i \in 0..s : g[i] \in Int
        BY ONLY <2>11
      <4> QED BY ONLY <4>1, <4>2
    <3>2. h \in [0..s + 1 -> Int] /\ h[0] = 0 /\ h[s + 1] = n + g[s]
      BY <3>1, <2>2
    <3>3. ASSUME NEW i \in 1..s + 1 PROVE h[i] = h[i - 1] + k[i].request_size
      <4>1. CASE i = 1
        BY <4>1, <2>2, <2>3, <2>11
      <4>2. CASE i # 1
        <5>1. i \in 2..s + 1 /\ i - 1 \in 1..s /\ i - 1 \in 0..s + 1 /\ i - 1 # 0
          BY <4>2, <2>2
        <5>2. h[i] = n + g[i - 1] /\ h[i - 1] = n + g[(i - 1) - 1]
          BY <5>1
        <5>3. g[i - 1] = g[(i - 1) - 1] + l[i - 1].request_size /\ k[i] = l[i - 1]
          BY <5>1, <2>3, <2>11
        <5>4. g[(i - 1) - 1] \in Int /\ l[i - 1].request_size \in Nat
          <6>1. (i - 1) - 1 \in 0..s
            BY <5>1, <2>2
          <6>2. l[i - 1] \in Allocations
            BY <5>1, <2>1, <2>2, ElementOfSeq
          <6> QED BY <6>1, <6>2, <2>11 DEF Allocations
        <5> HIDE DEF h
        <5> QED BY <5>2, <5>3, <5>4, <2>2
      <4> QED BY <4>1, <4>2
    <3> HIDE DEF h
    <3> QED BY <3>2, <3>3, <2>3 DEF Sums
  <2> HIDE DEF h
  <2>13. g[s] \in Int
    BY <2>2, <2>11
  <2>14. /\ UNCHANGED <<total_memory_freed, invalid_addresses, moved, invalid>>
         /\ total_memory_requested \in Int /\ total_memory_freed \in Int
         /\ invalid_addresses = invalid
    BY DEF M!mini_malloc, CheckInv
  <2>15. /\ total_memory_requested' \in Int
         /\ total_memory_requested' - total_memory_freed' = h[s + 1]
    BY <2>2, <2>10, <2>12, <2>13, <2>14, <1>2
  <2>16. \E f : Sums(f, k) /\ total_memory_requested' - total_memory_freed' = f[Len(k)]
    BY <2>3, <2>12, <2>15
  <2>17. {k[i].address : i \in DOMAIN k} = heap'
    BY <2>3, <2>9, <1>2
  <2>18. list' = k
    BY <2>1
  <2> QED BY <2>3, <2>8, <2>14, <2>15, <2>16, <2>17, <2>18 DEF CheckInv
<1> QED BY <1>1, <1>2 DEF M!mini_malloc

\* Counting a pointer that is not found is counting one that is not valid.
LEMMA CountKeeps ==
  ASSUME CheckInv, ~moved, NEW p \in M!Pointers, M!Count(p),
         M!Found(p) = 0 => invalid_addresses' = invalid_addresses + 1,
         M!Found(p) # 0 => invalid_addresses' = invalid_addresses
  PROVE  invalid_addresses' = invalid'
<1>1. PICK i : i = M!Found(p)
  OBVIOUS
<1>2. i = 0 <=> ~(p[2] = "payload" /\ p[1] \in heap)
  BY <1>1, FoundIs
<1>3. invalid' = (IF i = 0 THEN invalid + 1 ELSE invalid)
  BY <1>2 DEF M!Count
<1> QED BY <1>1, <1>3 DEF CheckInv

LEMMA CheckFreeKeeps ==
  ASSUME CheckInv, ~moved, NEW p \in M!Pointers, M!mini_free(p)
  PROVE  CheckInv'
<1>1. PICK i : i = M!Found(p)
  OBVIOUS
<1>2. M!Count(p) /\ UNCHANGED <<total_memory_requested, moved>>
  BY DEF M!mini_free
<1>3. CASE i = 0
  <2>1. /\ invalid_addresses' = invalid_addresses + 1
        /\ UNCHANGED <<list, heap, total_memory_freed>>
    BY <1>1, <1>3 DEF M!mini_free
  <2>2. invalid_addresses' = invalid'
    BY <2>1, <1>1, <1>2, <1>3, CountKeeps
  <2> QED BY <2>1, <2>2, <1>2 DEF CheckInv, Sums, OncePerAddress
<1>4. CASE i # 0
  <2>1. i \in 1..Len(list)
    BY <1>1, <1>4, FoundIs
  <2>2. PICK l, k, s, r : l = list /\ k = list' /\ s = Len(l) /\ r = l[i]
    OBVIOUS
  <2>3. /\ l \in Seq(Allocations) /\ s \in Nat /\ DOMAIN l = 1..s /\ i \in 1..s
        /\ \A j \in 1..s : l[j] \in Allocations
    BY <2>1, <2>2 DEF CheckInv
  <2>4. /\ k = RemoveAt(l, i) /\ heap' = heap \ {r.address}
        /\ total_memory_freed' = total_memory_freed + r.request_size
        /\ UNCHANGED invalid_addresses
    BY <1>1, <1>4, <2>2 DEF M!mini_free, M!RemoveAt, RemoveAt
  <2>5. invalid_addresses' = invalid'
    BY <2>4, <1>1, <1>2, <1>4, CountKeeps
  <2>6. /\ k \in Seq(Allocations) /\ Len(k) = s - 1 /\ DOMAIN k = 1..s - 1
        /\ \A j \in 1..s - 1 : k[j] = IF j < i THEN l[j] ELSE l[j + 1]
    <3>1. i \in 1..Len(l)
      BY <2>2, <2>3
    <3>2. /\ k \in Seq(Allocations) /\ Len(k) = Len(l) - 1
          /\ \A j \in 1..(Len(l) - 1) : k[j] = IF j < i THEN l[j] ELSE l[j + 1]
      BY ONLY <3>1, <2>3, <2>4, RemoveAtElements
    <3> QED BY <3>2, <2>2, <2>3
  <2>7. PICK pos : pos = [j \in 1..s - 1 |-> IF j < i THEN j ELSE j + 1]
    OBVIOUS
  <2>8. \A j \in 1..s - 1 : /\ pos[j] \in 1..s /\ pos[j] # i /\ k[j] = l[pos[j]]
                            /\ (j < i => pos[j] = j) /\ (~(j < i) => pos[j] = j + 1)
    <3> SUFFICES ASSUME NEW j \in 1..s - 1
                 PROVE  /\ pos[j] \in 1..s /\ pos[j] # i /\ k[j] = l[pos[j]]
                        /\ (j < i => pos[j] = j) /\ (~(j < i) => pos[j] = j + 1)
      OBVIOUS
    <3>1. pos[j] = (IF j < i THEN j ELSE j + 1) /\ k[j] = (IF j < i THEN l[j] ELSE l[j + 1])
      BY <2>6, <2>7
    <3>2. j \in Int /\ i \in Int /\ s \in Int /\ 1 <= j /\ j <= s - 1 /\ 1 <= i
      BY <2>3
    <3>3. CASE j < i
      BY ONLY <3>1, <3>2, <3>3
    <3>4. CASE ~(j < i)
      BY ONLY <3>1, <3>2, <3>4
    <3> QED BY <3>3, <3>4
  <2>9. OncePerAddress(l) /\ {l[j].address : j \in 1..s} = heap
    BY <2>2, <2>3 DEF CheckInv
  <2>10. \A j, h \in 1..s : l[j].address = l[h].address => j = h
    BY <2>3, <2>9 DEF OncePerAddress
  <2>11. OncePerAddress(k)
    <3> SUFFICES ASSUME NEW j \in 1..s - 1, NEW h \in 1..s - 1, k[j].address = k[h].address
                 PROVE  j = h
      BY <2>6 DEF OncePerAddress
    <3>1. pos[j] = pos[h]
      BY <2>8, <2>10
    <3> QED BY <3>1, <2>3, <2>8
  <2>12. {k[j].address : j \in 1..s - 1} = heap \ {r.address}
    <3>1. ASSUME NEW j \in 1..s - 1 PROVE k[j].address \in heap \ {r.address}
      <4>1. k[j].address = l[pos[j]].address /\ pos[j] \in 1..s /\ pos[j] # i
        BY <2>8
      <4>2. l[pos[j]].address # r.address
        BY <4>1, <2>2, <2>3, <2>10
      <4> QED BY <4>1, <4>2, <2>9
    <3>2. ASSUME NEW b \in heap \ {r.address} PROVE \E j \in 1..s - 1 : k[j].address = b
      <4>1. PICK j \in 1..s : l[j].address = b
        BY <2>9
      <4>2. j # i
        BY <4>1, <2>2
      <4>3. CASE j < i
        <5>1. j \in 1..s - 1 /\ k[j] = l[j]
          BY <4>3, <2>3, <2>6
        <5> QED BY <5>1, <4>1
      <4>4. CASE ~(j < i)
        <5>1. j - 1 \in 1..s - 1 /\ k[j - 1] = l[j]
          BY <4>2, <4>4, <2>3, <2>6
        <5> QED BY <5>1, <4>1
      <4> QED BY <4>3, <4>4
    <3> QED BY <3>1, <3>2
  <2>13. PICK g : Sums(g, l) /\ total_memory_requested - total_memory_freed = g[s]
    BY <2>2 DEF CheckInv
  <2>14. /\ g \in [0..s -> Int] /\ g[0] = 0
         /\ \A j \in 1..s : g[j] = g[j - 1] + l[j].request_size
    BY <2>2, <2>13 DEF Sums
  <2>15. PICK n : n = r.request_size
    OBVIOUS
  <2>16. n \in Nat /\ g[i] = g[i - 1] + n
    <3>1. r \in Allocations
      BY <2>2, <2>3
    <3> QED BY <3>1, <2>2, <2>3, <2>14, <2>15 DEF Allocations
  <2> DEFINE h == [j \in 0..s - 1 |-> IF j < i THEN g[j] ELSE g[j + 1] - n]
  <2>17. /\ h \in [0..s - 1 -> Int] /\ h[0] = 0 /\ h[s - 1] = g[s] - n
    <3>1. \A j \in 0..s - 1 : g[j] \in Int /\ g[j + 1] \in Int
      BY <2>3, <2>14
    <3>2. h \in [0..s - 1 -> Int]
      BY <3>1, <2>16
    <3>3. h[0] = 0
      BY <2>3, <2>14
    <3>4. h[s - 1] = g[s] - n
      <4>1. s - 1 \in 0..s - 1 /\ (s - 1) + 1 = s
        BY <2>3
      <4>2. CASE s - 1 < i
        <5>1. i = s /\ h[s - 1] = g[s - 1] /\ g[s - 1] \in Int
          BY <4>1, <4>2, <3>1, <2>3
        <5> QED BY <5>1, <2>16
      <4>3. CASE ~(s - 1 < i)
        BY <4>1, <4>3
      <4> QED BY <4>2, <4>3
    <3> QED BY <3>2, <3>3, <3>4
  <2>18. ASSUME NEW j \in 1..s - 1 PROVE h[j] = h[j - 1] + k[j].request_size
    <3>1. /\ j \in 0..s - 1 /\ j - 1 \in 0..s - 1 /\ j \in 1..s /\ j + 1 \in 1..s /\ (j + 1) - 1 = j
          /\ j \in 0..s /\ j - 1 \in 0..s
      BY <2>3
    <3>2. /\ g[j] = g[j - 1] + l[j].request_size /\ g[j + 1] = g[j] + l[j + 1].request_size
          /\ g[j - 1] \in Int /\ g[j] \in Int
      BY <3>1, <2>14
    <3>3. l[j].request_size \in Nat /\ l[j + 1].request_size \in Nat
      BY <3>1, <2>3 DEF Allocations
    <3>4. CASE j < i
      <4>1. h[j] = g[j] /\ h[j - 1] = g[j - 1] /\ k[j] = l[j]
        BY <3>1, <3>4, <2>3, <2>6
      <4> QED BY <4>1, <3>2
    <3>5. CASE j = i
      <4>1. h[j] = g[j + 1] - n /\ h[j - 1] = g[j - 1] /\ k[j] = l[j + 1]
        BY <3>1, <3>5, <2>3, <2>6
      <4> HIDE DEF h
      <4> QED BY <4>1, <3>2, <3>3, <3>5, <2>16
    <3>6. CASE i < j
      <4>1. h[j] = g[j + 1] - n /\ h[j - 1] = g[j] - n /\ k[j] = l[j + 1]
        BY <3>1, <3>6, <2>3, <2>6
      <4> HIDE DEF h
      <4> QED BY <4>1, <3>2, <3>3, <2>16
    <3> QED BY <3>4, <3>5, <3>6, <2>3
  <2> HIDE DEF h
  <2>19. Sums(h, k)
    BY <2>6, <2>17, <2>18 DEF Sums
  <2>20. total_memory_requested \in Int /\ total_memory_freed \in Int /\ g[s] \in Int
    BY <2>3, <2>14 DEF CheckInv
  <2>21. /\ total_memory_requested' \in Int /\ total_memory_freed' \in Int
         /\ total_memory_requested' - total_memory_freed' = h[s - 1]
    BY <2>4, <2>13, <2>15, <2>16, <2>17, <2>20, <1>2
  <2>22. \E f : Sums(f, k) /\ total_memory_requested' - total_memory_freed' = f[Len(k)]
    BY <2>6, <2>19, <2>21
  <2>23. {k[j].address : j \in DOMAIN k} = heap'
    BY <2>4, <2>6, <2>12
  <2>24. list' = k
    BY <2>2
  <2> QED BY <2>5, <2>6, <2>11, <2>21, <2>22, <2>23, <2>24 DEF CheckInv
<1> QED BY <1>3, <1>4

\* The size of an allocation that stays where it is.
LEMMA ResizeKeeps ==
  ASSUME CheckInv, ~moved, NEW p \in M!Pointers, M!Count(p), NEW i, i = M!Found(p), i # 0,
         NEW n \in Nat, M!Resize(i, n)
  PROVE  CheckInv'
<1>1. i \in 1..Len(list)
  BY FoundIs
<1>2. PICK l, s, old : l = list /\ s = Len(l) /\ old = l[i].request_size
  OBVIOUS
<1>3. /\ l \in Seq(Allocations) /\ s \in Nat /\ DOMAIN l = 1..s /\ i \in 1..s
      /\ \A j \in 1..s : l[j] \in Allocations
      /\ OncePerAddress(l) /\ {l[j].address : j \in 1..s} = heap
  BY <1>1, <1>2 DEF CheckInv
<1>4. old \in Nat
  BY <1>2, <1>3 DEF Allocations
<1>5. /\ total_memory_requested' = total_memory_requested + M!Max({n - old, 0})
      /\ total_memory_freed' = total_memory_freed + M!Max({old - n, 0})
      /\ UNCHANGED invalid_addresses
  BY <1>2 DEF M!Resize
<1>6. invalid_addresses' = invalid'
  BY <1>5, CountKeeps
<1>7. CASE moved'
  BY <1>7 DEF CheckInv
<1>8. CASE ~moved'
  <2>1. list' = [list EXCEPT ![i].request_size = n] /\ heap' = heap
    BY <1>8 DEF M!Resize
  <2>2. PICK k, r : k = list' /\ r = [l[i] EXCEPT !.request_size = n]
    OBVIOUS
  <2>3. k = [l EXCEPT ![i] = r]
    BY <2>1, <2>2, <1>2, <1>3
  <2>4. r \in Allocations /\ r.address = l[i].address /\ r.request_size = n
    BY <2>2, <1>3 DEF Allocations
  <2>5. /\ k \in Seq(Allocations) /\ Len(k) = s /\ DOMAIN k = 1..s
        /\ k[i] = r /\ \A j \in 1..s : j # i => k[j] = l[j]
    BY <2>3, <2>4, <1>2, <1>3
  <2>6. \A j \in 1..s : k[j].address = l[j].address
    BY <2>4, <2>5
  <2>7. OncePerAddress(k) /\ {k[j].address : j \in 1..s} = heap
    BY <2>5, <2>6, <1>3 DEF OncePerAddress
  <2>8. PICK g : Sums(g, l) /\ total_memory_requested - total_memory_freed = g[s]
    BY <1>2 DEF CheckInv
  <2>9. /\ g \in [0..s -> Int] /\ g[0] = 0
        /\ \A j \in 1..s : g[j] = g[j - 1] + l[j].request_size
    BY <2>8, <1>2 DEF Sums
  <2> DEFINE h == [j \in 0..s |-> IF j < i THEN g[j] ELSE g[j] - old + n]
  <2>10. h \in [0..s -> Int] /\ h[0] = 0 /\ h[s] = g[s] - old + n
    BY <2>9, <1>3, <1>4
  <2>11. ASSUME NEW j \in 1..s PROVE h[j] = h[j - 1] + k[j].request_size
    <3>1. j \in 0..s /\ j - 1 \in 0..s
      BY <1>3
    <3>2. g[j] = g[j - 1] + l[j].request_size /\ g[j - 1] \in Int /\ l[j].request_size \in Nat
      BY <3>1, <2>9, <1>3 DEF Allocations
    <3>3. CASE j < i
      BY <3>1, <3>2, <3>3, <2>5, <1>3
    <3>4. CASE j = i
      <4>1. h[j] = g[j] - old + n /\ h[j - 1] = g[j - 1] /\ k[j].request_size = n
        BY <3>1, <3>4, <2>4, <2>5, <1>3
      <4> HIDE DEF h
      <4> QED BY <4>1, <3>2, <3>4, <1>2, <1>4
    <3>5. CASE i < j
      <4>1. h[j] = g[j] - old + n /\ h[j - 1] = g[j - 1] - old + n /\ k[j] = l[j]
        BY <3>1, <3>5, <2>5, <1>3
      <4> HIDE DEF h
      <4> QED BY <4>1, <3>2, <1>4
    <3> QED BY <3>3, <3>4, <3>5, <1>3
  <2> HIDE DEF h
  <2>12. Sums(h, k)
    BY <2>5, <2>10, <2>11 DEF Sums
  <2>13. /\ M!Max({n - old, 0}) \in Int /\ M!Max({old - n, 0}) \in Int
         /\ M!Max({n - old, 0}) - M!Max({old - n, 0}) = n - old
    <3>1. \A x \in Int : M!Max({x, 0}) = IF x > 0 THEN x ELSE 0
      <4> SUFFICES ASSUME NEW x \in Int PROVE M!Max({x, 0}) = IF x > 0 THEN x ELSE 0
        OBVIOUS
      <4>1. \E y \in {x, 0} : \A z \in {x, 0} : y >= z
        OBVIOUS
      <4>2. M!Max({x, 0}) \in {x, 0} /\ \A z \in {x, 0} : M!Max({x, 0}) >= z
        BY <4>1 DEF M!Max
      <4> QED BY <4>2
    <3>2. n - old \in Int /\ old - n \in Int
      BY <1>4
    <3>3. /\ M!Max({n - old, 0}) = (IF n - old > 0 THEN n - old ELSE 0)
          /\ M!Max({old - n, 0}) = (IF old - n > 0 THEN old - n ELSE 0)
      BY <3>1, <3>2
    <3> QED BY <3>3, <1>4
  <2>14. total_memory_requested \in Int /\ total_memory_freed \in Int /\ g[s] \in Int
    BY <2>9, <1>3 DEF CheckInv
  <2>15. /\ total_memory_requested' \in Int /\ total_memory_freed' \in Int
         /\ total_memory_requested' - total_memory_freed' = h[s]
    <3>1. PICK x, y : x = M!Max({n - old, 0}) /\ y = M!Max({old - n, 0})
      OBVIOUS
    <3>2. x \in Int /\ y \in Int /\ x - y = n - old
      BY <3>1, <2>13
    <3>3. /\ total_memory_requested' = total_memory_requested + x
          /\ total_memory_freed' = total_memory_freed + y
      BY <3>1, <1>5
    <3>4. PICK a, b, c, d : /\ a = total_memory_requested /\ b = total_memory_freed
                            /\ c = g[s] /\ d = h[s]
      OBVIOUS
    <3>5. a \in Int /\ b \in Int /\ c \in Int /\ a - b = c /\ d = c - old + n
      BY <3>4, <2>8, <2>10, <2>14
    <3>6. a + x \in Int /\ b + y \in Int /\ (a + x) - (b + y) = d
      BY ONLY <3>2, <3>5, <1>4, n \in Nat
    <3>7. total_memory_requested' = a + x /\ total_memory_freed' = b + y
      BY <3>3, <3>4
    <3>8. h[s] = d
      BY <3>4
    <3> QED BY <3>6, <3>7, <3>8
  <2>16. \E f : Sums(f, k) /\ total_memory_requested' - total_memory_freed' = f[Len(k)]
    BY <2>5, <2>12, <2>15
  <2>17. {k[j].address : j \in DOMAIN k} = heap'
    BY <2>1, <2>5, <2>7
  <2>18. list' = k
    BY <2>2
  <2> QED BY <2>5, <2>7, <2>15, <2>16, <2>17, <2>18, <1>6 DEF CheckInv
<1> QED BY <1>7, <1>8

LEMMA ReallocKeeps ==
  ASSUME CheckInv, ~moved, NEW p \in M!Pointers, NEW n \in RequestSizes, M!mini_realloc(p, n)
  PROVE  CheckInv'
<1>1. CASE M!mini_free(p)
  BY <1>1, CheckFreeKeeps
<1>2. CASE ~M!mini_free(p)
  <2>1. PICK i : i = M!Found(p)
    OBVIOUS
  <2>2. M!Count(p) /\ n \in Nat
    BY <1>2, MemoryAssumption DEF M!mini_realloc
  <2>3. CASE i = 0
    <3>1. /\ invalid_addresses' = invalid_addresses + 1
          /\ UNCHANGED <<list, heap, moved, total_memory_requested, total_memory_freed>>
      BY <1>2, <2>1, <2>3 DEF M!mini_realloc
    <3>2. invalid_addresses' = invalid'
      BY <3>1, <2>1, <2>2, <2>3, CountKeeps
    <3> QED BY <3>1, <3>2 DEF CheckInv, Sums, OncePerAddress
  <2>4. CASE i # 0 /\ n # list[i].request_size
    <3>1. i > 0
      BY <2>1, <2>4, FoundIs
    <3>2. M!Resize(i, n)
      BY <1>2, <2>1, <2>4, <3>1 DEF M!mini_realloc
    <3> QED BY <3>2, <2>1, <2>2, <2>4, ResizeKeeps
  <2>5. CASE i # 0 /\ n = list[i].request_size
    <3>1. UNCHANGED <<list, total_memory_requested, total_memory_freed, invalid_addresses, heap, moved>>
      BY <1>2, <2>1, <2>5 DEF M!mini_realloc, M!totals
    <3>2. invalid_addresses' = invalid'
      BY <3>1, <2>1, <2>2, <2>5, CountKeeps
    <3> QED BY <3>1, <3>2 DEF CheckInv, Sums, OncePerAddress
  <2> QED BY <2>3, <2>4, <2>5
<1> QED BY <1>1, <1>2

(***************************************************************************)
(* For any calls with any pointers, until realloc moves a block the list   *)
(* of the leak checker is what has been allocated, the totals differ by    *)
(* the sizes in it, and every call with an invalid pointer is counted.     *)
(***************************************************************************)
THEOREM TotalsCorrect == M!Spec => []MemcheckTotals
<1>1. CheckInv /\ [M!Next]_M!vars => CheckInv'
  <2> SUFFICES ASSUME CheckInv, [M!Next]_M!vars PROVE CheckInv'
    OBVIOUS
  <2>1. ASSUME ~moved, NEW n \in RequestSizes, M!mini_malloc(n) PROVE CheckInv'
    BY <2>1, MallocKeeps
  <2>2. ASSUME ~moved, NEW p \in M!Pointers, M!mini_free(p) PROVE CheckInv'
    BY <2>2, CheckFreeKeeps
  <2>3. ASSUME ~moved, NEW p \in M!Pointers, NEW n \in RequestSizes, M!mini_realloc(p, n)
        PROVE  CheckInv'
    BY <2>3, ReallocKeeps
  <2>4. CASE UNCHANGED M!vars
    BY <2>4 DEF M!vars, M!totals, CheckInv, Sums, OncePerAddress
  <2> QED BY <2>1, <2>2, <2>3, <2>4 DEF M!Next
<1>2. CheckInv => MemcheckTotals
  BY AllocatedIs DEF CheckInv, MemcheckTotals, M!MemcheckTotals
<1> QED BY <1>1, <1>2, CheckInitInv, PTL DEF M!Spec
=============================================================================
