-------------------------------- MODULE Mmu --------------------------------
(***************************************************************************)
(* ideal_indirection/mmu.c: translation of virtual pages by a two-level    *)
(* page table per process and a TLB that holds pointers to page table      *)
(* entries and is flushed when another process runs.                       *)
(*                                                                         *)
(* A virtual page is a pair <<page_bits, table_bits>>; a page holds one    *)
(* value.  Fresh frames hold Zero, in all their roles.  The counters of    *)
(* misses and faults are left out.                                         *)
(***************************************************************************)
EXTENDS Integers, Sequences, FiniteSets, FiniteSetsExt, SequencesExt

CONSTANTS Pids,       \* the processes; mmu_create leaves curr_pid at 0
          Pages,
          Segmented,  \* the pages address_in_segmentations accepts
          Frames,     \* numbers of the physical frames
          TlbSize,
          Values      \* what is written; a fresh page holds Zero

\* Frames are numbered from 1; a page is named by its two numbers.
ASSUME MmuAssumption ==
    /\ IsFiniteSet(Frames) /\ Frames \subseteq Nat \ {0}
    /\ Pages \subseteq Nat \X Nat
    /\ TlbSize \in Nat \ {0}

Zero == 0
DirBits == {p[1] : p \in Pages}
TableBits == {p[2] : p \in Pages} \union {1, 2}

VARIABLES curr_pid,
          tlb,        \* the cached entries, [page, table], least recently used first
          directory,  \* page_directories: the frame of each, 0 for NULL
          dir,        \* dir[f][d]: the table a directory in frame f has for d, 0 for none
          table,      \* table[f][i]: the frame a table in frame f has for i, 0 for none
          data,       \* data[f]: the value in frame f
          used,       \* the frames the kernel has given out
          truth,      \* history: the value last written to each page of each process
          result      \* what the call read, and what had been written there last

vars == <<curr_pid, tlb, directory, dir, table, data, used, truth, result>>

EmptyDir == [d \in DirBits |-> 0]
EmptyTable == [i \in TableBits |-> 0]
Untouched == [p \in Pages |-> Zero]

Nothing == [page |-> <<0, 0>>, got |-> Zero, expected |-> Zero]

\* mmu_create
Init == /\ curr_pid = 0 /\ tlb = <<>>
        /\ directory = [pid \in Pids |-> 0]
        /\ dir = [f \in Frames |-> EmptyDir]
        /\ table = [f \in Frames |-> EmptyTable]
        /\ data = [f \in Frames |-> Zero]
        /\ used = {}
        /\ truth = [pid \in Pids |-> Untouched]
        /\ result = Nothing

\* ask_kernel_for_frame, called once or several times, while there are frames.
Fresh(n) == LET free == Frames \ used
            IN [k \in 1..n |-> CHOOSE f \in free :
                                 Cardinality({g \in free : g < f}) = k - 1]
Enough(n) == Cardinality(Frames \ used) >= n

\* mmu_add_process: a directory, a table for the first entry, two pages.
mmu_add_process(pid) ==
    /\ directory[pid] = 0 /\ Enough(4)
    /\ LET f == Fresh(4)
       IN /\ directory' = [directory EXCEPT ![pid] = f[1]]
          /\ dir' = [dir EXCEPT ![f[1]] = [EmptyDir EXCEPT ![0] = f[2]]]
          /\ table' = [table EXCEPT ![f[2]] = [EmptyTable EXCEPT ![1] = f[3], ![2] = f[4]]]
          /\ used' = used \union {f[k] : k \in 1..4}
    /\ UNCHANGED <<curr_pid, tlb, data, truth>>
    /\ result' = Nothing

\* mmu_remove_process returns the frames it finds in the tables, and flushes
\* the TLB if it holds entries of the process.
Reachable(d) == {dir[d][i] : i \in DirBits} \ {0}
PagesOf(t) == {table[t][i] : i \in TableBits} \ {0}

Owned(d) == {d} \union Reachable(d) \union UNION {PagesOf(t) : t \in Reachable(d)}

\* return_frame_to_kernel: the frames are clean when they are given out again.
Return(fs) == /\ used' = used \ fs
              /\ dir' = [f \in Frames |-> IF f \in fs THEN EmptyDir ELSE dir[f]]
              /\ table' = [f \in Frames |-> IF f \in fs THEN EmptyTable ELSE table[f]]
              /\ data' = [f \in Frames |-> IF f \in fs THEN Zero ELSE data[f]]

\* Mutant: the TLB is not flushed.
RemoveNoFlush(pid) ==
    /\ directory[pid] # 0
    /\ Return(Owned(directory[pid]))
    /\ directory' = [directory EXCEPT ![pid] = 0]
    /\ truth' = [truth EXCEPT ![pid] = Untouched]
    /\ UNCHANGED <<curr_pid, tlb>>
    /\ result' = Nothing

mmu_remove_process(pid) ==
    /\ directory[pid] # 0
    /\ Return(Owned(directory[pid]))
    /\ directory' = [directory EXCEPT ![pid] = 0]
    /\ tlb' = IF curr_pid = pid THEN <<>> ELSE tlb
    /\ truth' = [truth EXCEPT ![pid] = Untouched]
    /\ UNCHANGED curr_pid
    /\ result' = Nothing

-----------------------------------------------------------------------------
(***************************************************************************)
(* The part that mmu_read_from_virtual_address and                         *)
(* mmu_write_to_virtual_address share, up to the access itself.            *)
(***************************************************************************)
\* The TLB after curr_pid is set, and the entry for the page in it, if any.
Switched(pid) == IF curr_pid = pid THEN tlb ELSE <<>>
Hit(cache, p) == \E i \in DOMAIN cache : cache[i].page = p
EntryOf(cache, p) == CHOOSE i \in DOMAIN cache : cache[i].page = p

\* tlb_get_pte makes the entry the most recent, tlb_add_pte drops the oldest.
Touch(cache, e) ==
    LET rest == IF Hit(cache, e.page) THEN RemoveAt(cache, EntryOf(cache, e.page)) ELSE cache
    IN Append(IF Len(rest) = TlbSize THEN Tail(rest) ELSE rest, e)

\* Whether a table must be made: the directory entry is a local copy, so the
\* new table is not recorded in the directory.
NeedsTable(pid, p) == ~Hit(Switched(pid), p) /\ dir[directory[pid]][p[1]] = 0

\* The frame of the page table that holds the entry of the page.
TableOf(pid, p) ==
    LET cache == Switched(pid)
    IN IF Hit(cache, p)
       THEN cache[EntryOf(cache, p)].table
       ELSE IF NeedsTable(pid, p) THEN Fresh(1)[1] ELSE dir[directory[pid]][p[1]]

\* A missing page gets a frame of its own.
NeedsPage(pid, p) == NeedsTable(pid, p) \/ table[TableOf(pid, p)][p[2]] = 0
NewFrames(pid, p) == (IF NeedsTable(pid, p) THEN 1 ELSE 0) + (IF NeedsPage(pid, p) THEN 1 ELSE 0)
PageFrame(pid, p) == IF NeedsPage(pid, p)
                     THEN Fresh(NewFrames(pid, p))[NewFrames(pid, p)]
                     ELSE table[TableOf(pid, p)][p[2]]

Translate(pid, p) ==
    /\ directory[pid] # 0 /\ Enough(NewFrames(pid, p))
    /\ curr_pid' = pid
    /\ tlb' = Touch(Switched(pid), [page |-> p, table |-> TableOf(pid, p)])
    /\ table' = [table EXCEPT ![TableOf(pid, p)][p[2]] = PageFrame(pid, p)]
    /\ used' = used \union {Fresh(NewFrames(pid, p))[k] : k \in 1..NewFrames(pid, p)}
    /\ UNCHANGED <<directory, dir>>

\* The page is brought in even if the access then is a segmentation fault.
mmu_read_from_virtual_address(pid, p) ==
    /\ Translate(pid, p)
    /\ result' = IF p \in Segmented
                 THEN [page |-> p, got |-> data[PageFrame(pid, p)], expected |-> truth[pid][p]]
                 ELSE Nothing
    /\ UNCHANGED <<data, truth>>

mmu_write_to_virtual_address(pid, p, v) ==
    /\ Translate(pid, p)
    /\ IF p \in Segmented
       THEN /\ data' = [data EXCEPT ![PageFrame(pid, p)] = v]
            /\ truth' = [truth EXCEPT ![pid][p] = v]
       ELSE UNCHANGED <<data, truth>>
    /\ result' = Nothing

Next == \E pid \in Pids :
          \/ mmu_add_process(pid)
          \/ mmu_remove_process(pid)
          \/ \E p \in Pages : \/ mmu_read_from_virtual_address(pid, p)
                              \/ \E v \in Values : mmu_write_to_virtual_address(pid, p, v)

Spec == Init /\ [][Next]_vars

-----------------------------------------------------------------------------
(***************************************************************************)
(* A process reads from a page what it wrote there last, or zero, whatever *)
(* the other processes do, and whichever processes ended and left their    *)
(* frames to others: for pages below the first directory entry.  A table   *)
(* that is made for another entry is lost with the TLB entry; its pages    *)
(* then read as zero, never as what someone else wrote.                    *)
(***************************************************************************)
ReadsLastWrite == \/ result.got = result.expected
                  \/ result.page[1] # 0 /\ result.got = Zero

(***************************************************************************)
(* No frame of mmu_add_process or of a page fault serves two purposes, and *)
(* none that a process still uses has been returned to the kernel.         *)
(***************************************************************************)
Live == {pid \in Pids : directory[pid] # 0}
Tables == UNION {Reachable(directory[pid]) : pid \in Live}
FramesApart ==
    /\ \A p, q \in Live : p # q => Owned(directory[p]) \intersect Owned(directory[q]) = {}
    /\ \A t \in Tables : PagesOf(t) \intersect Tables = {}
    /\ \A pid \in Live : Owned(directory[pid]) \subseteq used
    /\ \A i \in DOMAIN tlb : tlb[i].table \in used

ProcessesIsolated == ReadsLastWrite /\ FramesApart
=============================================================================
