---------------------------- MODULE ProgramProofs ----------------------------
(***************************************************************************)
(* TLAPS proofs about the programs with several threads or processes:      *)
(* MapReduce, for any number of mappers, pieces of any size and pipes of   *)
(* any capacity; ChatClient, for any number of messages; and the programs  *)
(* of WorkSharing, for any number of threads, strings, passwords and       *)
(* elements.                                                               *)
(***************************************************************************)
EXTENDS MapReduce, ChatClient, WorkSharing, FiniteSetTheorems, SequenceTheorems,
        WellFoundedInduction, TLAPS

Processes == Children \union {Driver}

DriverTypeOK ==
    /\ turn \in Nat \ {0}
    /\ proc \in [Processes -> {"none", "forked", "running", "ended", "forking", "waiting"}]
    /\ proc[Driver] \in {"forking", "waiting", "ended"}
    /\ \A c \in Children : proc[c] \in {"none", "forked", "running", "ended"}
    /\ code \in [Processes -> {0, 1, 2, Killed}]
    /\ readers \in [Pipes -> SUBSET Processes]
    /\ writers \in [Pipes -> SUBSET Processes]
    /\ pipe \in [Pipes -> Seq(Items)]
    /\ written \in [Mappers -> 0..Pieces]
    /\ held \in [Mappers -> Items \union {Nothing}]
    /\ received \in Seq(Items)
    /\ reported \subseteq Children

\* A process has the ends of the pipes that it needs until it ends.
EndsInv ==
    /\ proc[Driver] = "forking" => \A p \in Pipes : Driver \in readers[p] /\ Driver \in writers[p]
    /\ \A c \in Children : proc[c] = "forked" =>
         \A p \in Pipes : c \in readers[p] /\ c \in writers[p]
    /\ \A i \in Mappers : proc[Splitter(i)] = "running" => Splitter(i) \in writers[Mapper(i)]
    /\ \A i \in Mappers : proc[Mapper(i)] = "running" =>
         Mapper(i) \in readers[Mapper(i)] /\ Mapper(i) \in writers[Reducer]
    /\ proc[Reducer] = "running" => Reducer \in readers[Reducer]

\* Main forks all, unless a fork fails.
ForkInv ==
    /\ proc[Driver] = "forking" =>
         \A n \in DOMAIN Forks : proc[Forks[n]] = "none" <=> n >= turn
    /\ proc[Driver] # "forking" /\ code[Driver] = 0 => \A c \in Children : proc[c] # "none"
    /\ code[Driver] # 0 => proc[Driver] = "ended"

\* What main has waited for has ended, and an exit code has been reported.
Waited(n) == LET c == WaitOrder[n]
             IN proc[c] = "ended" /\ (code[c] \in {0, Killed} \/ c \in reported)
WaitInv ==
    /\ proc[Driver] = "waiting" => \A n \in DOMAIN WaitOrder : n < turn => Waited(n)
    /\ proc[Driver] = "ended" /\ code[Driver] = 0 => \A n \in DOMAIN WaitOrder : Waited(n)

\* What exit codes tell: a program that ends with 0 has done all its work,
\* and one is killed only when its reader ended before it, in error.
CodeInv ==
    /\ \A c \in Children : code[c] # 0 => proc[c] = "ended"
    /\ code[Reducer] # Killed
    /\ proc[Reducer] = "ended" /\ code[Reducer] = 0 => EndOfFile(Reducer)
    /\ \A i \in Mappers :
         /\ proc[Mapper(i)] = "ended" /\ code[Mapper(i)] = 0
              => held[i] = Nothing /\ EndOfFile(Mapper(i))
         /\ code[Mapper(i)] = Killed => code[Reducer] # 0 \/ code[Driver] # 0
         /\ proc[Splitter(i)] = "ended" /\ code[Splitter(i)] = 0 => written[i] = Pieces
         /\ code[Splitter(i)] = Killed => code[Mapper(i)] # 0 \/ code[Driver] # 0

NoRepeat(s) == \A i, j \in DOMAIN s : s[i] = s[j] => i = j

\* Every item that a splitter has written is in one place.
InMapper(x) == x \in ToSet(pipe[Mapper(x[1])])
IsHeld(x) == held[x[1]] = x
InReducer(x) == x \in ToSet(pipe[Reducer])
IsReceived(x) == x \in ToSet(received)
ItemInv ==
    /\ \A p \in Pipes : NoRepeat(pipe[p])
    /\ NoRepeat(received)
    /\ \A i \in Mappers : \A x \in ToSet(pipe[Mapper(i)]) : x[1] = i
    /\ \A i \in Mappers : held[i] # Nothing => held[i][1] = i
    /\ \A x \in Items :
         /\ x[2] <= written[x[1]] <=> InMapper(x) \/ IsHeld(x) \/ InReducer(x) \/ IsReceived(x)
         /\ InMapper(x) => ~IsHeld(x) /\ ~InReducer(x) /\ ~IsReceived(x)
         /\ IsHeld(x) => ~InReducer(x) /\ ~IsReceived(x)
         /\ InReducer(x) => ~IsReceived(x)

DriverInv == DriverTypeOK /\ EndsInv /\ ForkInv /\ WaitInv /\ CodeInv /\ ItemInv
-----------------------------------------------------------------------------
\* The processes are different.
LEMMA Names ==
  /\ Driver \notin Children /\ Reducer \in Children /\ Reducer \in Pipes /\ Pipes \subseteq Children
  /\ \A i \in Mappers : /\ Splitter(i) \in Children /\ Mapper(i) \in Children /\ Mapper(i) \in Pipes
                        /\ Splitter(i) # Reducer /\ Mapper(i) # Reducer
                        /\ Splitter(i) # Driver /\ Mapper(i) # Driver
                        /\ Stdout(Splitter(i)) = Mapper(i) /\ Stdout(Mapper(i)) = Reducer
  /\ \A i, j \in Mappers : /\ Splitter(i) # Mapper(j)
                           /\ Splitter(i) = Splitter(j) => i = j
                           /\ Mapper(i) = Mapper(j) => i = j
  /\ \A c \in Children : c = Reducer \/ \E i \in Mappers : c = Splitter(i) \/ c = Mapper(i)
  /\ \A p \in Pipes : p = Reducer \/ \E i \in Mappers : p = Mapper(i)
<1> USE DEF Splitter, Mapper, Reducer, Driver, Children, Pipes, Stdout
<1>1. /\ Driver \notin Children /\ Reducer \in Children /\ Reducer \in Pipes /\ Pipes \subseteq Children
  OBVIOUS
<1>2. \A i \in Mappers : /\ Splitter(i) \in Children /\ Mapper(i) \in Children /\ Mapper(i) \in Pipes
                         /\ Splitter(i) # Reducer /\ Mapper(i) # Reducer
                         /\ Splitter(i) # Driver /\ Mapper(i) # Driver
  OBVIOUS
<1>3. \A i \in Mappers : Stdout(Splitter(i)) = Mapper(i) /\ Stdout(Mapper(i)) = Reducer
  OBVIOUS
<1>4. \A i, j \in Mappers : /\ Splitter(i) # Mapper(j)
                            /\ Splitter(i) = Splitter(j) => i = j
                            /\ Mapper(i) = Mapper(j) => i = j
  OBVIOUS
<1>5. \A c \in Children : c = Reducer \/ \E i \in Mappers : c = Splitter(i) \/ c = Mapper(i)
  OBVIOUS
<1>6. \A p \in Pipes : p = Reducer \/ \E i \in Mappers : p = Mapper(i)
  OBVIOUS
<1> QED BY <1>1, <1>2, <1>3, <1>4, <1>5, <1>6

\* What kind of process a process is.
LEMMA Kinds ==
  ASSUME NEW c \in Children
  PROVE  /\ c[1] = "splitter" => c[2] \in Mappers /\ c = Splitter(c[2])
         /\ c[1] = "mapper" => c[2] \in Mappers /\ c = Mapper(c[2])
  BY DEF Splitter, Mapper, Reducer, Children

\* Main forks every child once, and waits for every child that is not a splitter.
LEMMA ForksAre ==
  /\ Forks \in Seq(Children)
  /\ \A c \in Children : \E n \in DOMAIN Forks : Forks[n] = c
  /\ \A m, n \in DOMAIN Forks : Forks[m] = Forks[n] => m = n
<1>1. num_mappers \in Nat /\ Mappers = 1..num_mappers
  BY MapReduceAssumption DEF Mappers
<1>2. /\ DOMAIN Forks = 1..(2 * num_mappers + 1)
      /\ \A n \in 1..num_mappers : Forks[n] = Splitter(n)
      /\ \A n \in (num_mappers + 1)..(2 * num_mappers) : Forks[n] = Mapper(n - num_mappers)
      /\ Forks[2 * num_mappers + 1] = Reducer
  BY <1>1 DEF Forks
<1>3. \A n \in DOMAIN Forks : \/ n \in 1..num_mappers
                              \/ n \in (num_mappers + 1)..(2 * num_mappers) /\ n - num_mappers \in Mappers
                              \/ n = 2 * num_mappers + 1
  BY <1>1, <1>2
<1>4. \A n \in DOMAIN Forks : Forks[n] \in Children
  BY <1>1, <1>2, <1>3, Names
<1>5. Forks \in Seq(Children)
  BY <1>1, <1>2, <1>4, IsASeq DEF Forks
<1>6. \A i \in Mappers : Forks[i] = Splitter(i) /\ i \in DOMAIN Forks
  BY <1>1, <1>2
<1>7. \A i \in Mappers : Forks[i + num_mappers] = Mapper(i) /\ i + num_mappers \in DOMAIN Forks
  BY <1>1, <1>2
<1>8. Forks[2 * num_mappers + 1] = Reducer /\ 2 * num_mappers + 1 \in DOMAIN Forks
  BY <1>1, <1>2
<1>9. \A c \in Children : \E n \in DOMAIN Forks : Forks[n] = c
  BY <1>6, <1>7, <1>8, Names
<1>10. ASSUME NEW m \in DOMAIN Forks, NEW n \in DOMAIN Forks, Forks[m] = Forks[n] PROVE m = n
  <2>1. CASE m \in 1..num_mappers
    BY <1>1, <1>2, <1>3, <1>10, <2>1, Names
  <2>2. CASE m \in (num_mappers + 1)..(2 * num_mappers) /\ m - num_mappers \in Mappers
    BY <1>1, <1>2, <1>3, <1>10, <2>2, Names
  <2>3. CASE m = 2 * num_mappers + 1
    BY <1>1, <1>2, <1>3, <1>10, <2>3, Names
  <2> QED BY <1>3, <2>1, <2>2, <2>3
<1> QED BY <1>5, <1>9, <1>10

LEMMA WaitOrderIs ==
  /\ WaitOrder \in Seq(Children)
  /\ \E n \in DOMAIN WaitOrder : WaitOrder[n] = Reducer
  /\ \A i \in Mappers : \E n \in DOMAIN WaitOrder : WaitOrder[n] = Mapper(i)
<1>1. num_mappers \in Nat /\ Mappers = 1..num_mappers
  BY MapReduceAssumption DEF Mappers
<1>2. /\ DOMAIN WaitOrder = 1..(num_mappers + 1)
      /\ WaitOrder[1] = Reducer
      /\ \A n \in 2..(num_mappers + 1) : WaitOrder[n] = Mapper(n - 1) /\ n - 1 \in Mappers
  BY <1>1 DEF WaitOrder
<1>3. \A n \in DOMAIN WaitOrder : n = 1 \/ n \in 2..(num_mappers + 1)
  BY <1>1, <1>2
<1>4. \A n \in DOMAIN WaitOrder : WaitOrder[n] \in Children
  BY <1>2, <1>3, Names
<1>5. WaitOrder \in Seq(Children)
  BY <1>1, <1>2, <1>4, IsASeq DEF WaitOrder
<1>6. \A i \in Mappers : i + 1 \in DOMAIN WaitOrder /\ WaitOrder[i + 1] = Mapper(i)
  <2> SUFFICES ASSUME NEW i \in Mappers
               PROVE  i + 1 \in DOMAIN WaitOrder /\ WaitOrder[i + 1] = Mapper(i)
    OBVIOUS
  <2>1. i + 1 \in 2..(num_mappers + 1) /\ (i + 1) - 1 = i
    BY <1>1
  <2> QED BY <1>1, <1>2, <2>1
<1>7. 1 \in DOMAIN WaitOrder
  BY <1>1, <1>2
<1> QED BY <1>2, <1>5, <1>6, <1>7

\* An item is a pair, and not NULL.
LEMMA ItemsAre ==
  /\ \A x \in Items : x[1] \in Mappers /\ x[2] \in 1..Pieces /\ x = <<x[1], x[2]>>
  /\ \A i \in Mappers : \A k \in 1..Pieces : <<i, k>> \in Items
  /\ Nothing \notin Items
  BY DEF Items, Nothing

\* Appending to a sequence, and taking its head.
LEMMA AppendItem ==
  ASSUME NEW S, NEW s \in Seq(S), NEW x \in S
  PROVE  /\ Append(s, x) \in Seq(S)
         /\ ToSet(Append(s, x)) = ToSet(s) \union {x}
         /\ NoRepeat(s) /\ x \notin ToSet(s) => NoRepeat(Append(s, x))
<1>1. /\ Append(s, x) \in Seq(S) /\ DOMAIN s = 1..Len(s) /\ Len(s) \in Nat
      /\ DOMAIN Append(s, x) = 1..(Len(s) + 1) /\ Append(s, x)[Len(s) + 1] = x
      /\ \A n \in 1..Len(s) : Append(s, x)[n] = s[n]
  OBVIOUS
<1>2. \A n \in 1..(Len(s) + 1) : n \in 1..Len(s) \/ n = Len(s) + 1
  BY <1>1
<1>3. 1..Len(s) \subseteq 1..(Len(s) + 1) /\ Len(s) + 1 \in 1..(Len(s) + 1)
  BY <1>1
<1>4. ToSet(Append(s, x)) = ToSet(s) \union {x}
  BY <1>1, <1>2, <1>3, Zenon DEF ToSet
<1>5. NoRepeat(s) /\ x \notin ToSet(s) => NoRepeat(Append(s, x))
  BY <1>1, <1>2, Zenon DEF NoRepeat, ToSet
<1> QED BY <1>1, <1>4, <1>5

LEMMA TailItem ==
  ASSUME NEW S, NEW s \in Seq(S), s # <<>>
  PROVE  /\ Tail(s) \in Seq(S) /\ Head(s) \in S /\ Head(s) \in ToSet(s)
         /\ NoRepeat(s) => ToSet(Tail(s)) = ToSet(s) \ {Head(s)} /\ NoRepeat(Tail(s))
<1>1. /\ Tail(s) \in Seq(S) /\ Head(s) \in S /\ Head(s) = s[1] /\ Len(s) \in Nat \ {0}
      /\ DOMAIN s = 1..Len(s) /\ DOMAIN Tail(s) = 1..(Len(s) - 1)
      /\ \A n \in 1..(Len(s) - 1) : Tail(s)[n] = s[n + 1]
  OBVIOUS
<1>2. 1 \in 1..Len(s) /\ \A n \in 1..(Len(s) - 1) : n + 1 \in 1..Len(s) /\ n + 1 # 1
  BY <1>1
<1>3. \A n \in 1..Len(s) : n # 1 => n - 1 \in 1..(Len(s) - 1) /\ (n - 1) + 1 = n
  BY <1>1
<1>4. ASSUME NoRepeat(s) PROVE ToSet(Tail(s)) = ToSet(s) \ {Head(s)}
  <2>1. \A n \in 1..(Len(s) - 1) : s[n + 1] # s[1]
    BY <1>1, <1>2, <1>4 DEF NoRepeat
  <2>2. \A x \in ToSet(Tail(s)) : x \in ToSet(s) /\ x # Head(s)
    BY <1>1, <1>2, <2>1 DEF ToSet
  <2>3. \A x \in ToSet(s) : x # Head(s) => x \in ToSet(Tail(s))
    <3> SUFFICES ASSUME NEW n \in 1..Len(s), n # 1 PROVE s[n] \in ToSet(Tail(s))
      BY <1>1 DEF ToSet
    <3>1. Tail(s)[n - 1] = s[n] /\ n - 1 \in DOMAIN Tail(s)
      BY <1>1, <1>3
    <3> QED BY <3>1, Zenon DEF ToSet
  <2> QED BY <2>2, <2>3
<1>5. ASSUME NoRepeat(s) PROVE NoRepeat(Tail(s))
  <2> SUFFICES ASSUME NEW m \in 1..(Len(s) - 1), NEW n \in 1..(Len(s) - 1), Tail(s)[m] = Tail(s)[n]
               PROVE  m = n
    BY <1>1 DEF NoRepeat
  <2>1. m + 1 = n + 1
    BY <1>1, <1>2, <1>5 DEF NoRepeat
  <2> QED BY <2>1
<1>6. Head(s) \in ToSet(s)
  BY <1>1, <1>2 DEF ToSet
<1> QED BY <1>1, <1>4, <1>5, <1>6

LEMMA DriverInitInv == DriverInit => DriverInv
<1> SUFFICES ASSUME DriverInit PROVE DriverInv
  OBVIOUS
<1> USE DEF DriverInit
<1>1. \A c \in Children : proc[c] = "none" /\ code[c] = 0
  BY Names
<1>2. proc[Driver] = "forking" /\ code[Driver] = 0
  OBVIOUS
<1>3. DriverTypeOK
  BY <1>1, Names, MapReduceAssumption DEF DriverTypeOK, Processes, Killed
<1>4. EndsInv
  BY <1>1, Names DEF EndsInv
<1>5. ForkInv
  <2>1. \A n \in DOMAIN Forks : proc[Forks[n]] = "none" /\ n >= turn
    BY <1>1, ForksAre
  <2> QED BY <1>2, <2>1 DEF ForkInv
<1>6. WaitInv
  BY <1>2 DEF WaitInv
<1>7. CodeInv
  BY <1>1, Names DEF CodeInv, Killed
<1>8. ItemInv
  <2>1. ToSet(<<>>) = {} /\ NoRepeat(<<>>)
    BY DEF ToSet, NoRepeat
  <2>2. \A x \in Items : ~InMapper(x) /\ ~IsHeld(x) /\ ~InReducer(x) /\ ~IsReceived(x)
    BY <2>1, ItemsAre, Names DEF InMapper, IsHeld, InReducer, IsReceived
  <2>3. \A x \in Items : ~(x[2] <= written[x[1]])
    BY ItemsAre
  <2>4. \A i \in Mappers : \A x \in ToSet(pipe[Mapper(i)]) : x[1] = i
    BY <2>1, Names
  <2> QED BY <2>1, <2>2, <2>3, <2>4 DEF ItemInv
<1> QED BY <1>3, <1>4, <1>5, <1>6, <1>7, <1>8 DEF DriverInv

\* Where nothing is written or read, no item moves.
LEMMA NoItemMoves ==
  ASSUME ItemInv, UNCHANGED <<pipe, written, held, received>>
  PROVE  ItemInv'
  BY DEF ItemInv, InMapper, IsHeld, InReducer, IsReceived

LEMMA ForkKeeps ==
  ASSUME DriverInv, Fork
  PROVE  DriverInv'
<1> USE DEF DriverInv
<1>1. PICK c : c = Forks[turn]
  OBVIOUS
<1>2. /\ proc[Driver] = "forking" /\ turn <= Len(Forks)
      /\ proc' = [proc EXCEPT ![c] = "forked"]
      /\ readers' = [p \in Pipes |-> readers[p] \union {c}]
      /\ writers' = [p \in Pipes |-> writers[p] \union {c}]
      /\ turn' = turn + 1
      /\ UNCHANGED <<code, pipe, written, held, received, reported>>
  BY <1>1 DEF Fork
<1>3. \A p \in Pipes : Driver \in readers[p] /\ Driver \in writers[p]
  BY <1>2 DEF EndsInv
<1>4. turn \in DOMAIN Forks /\ c \in Children /\ c # Driver
  BY <1>1, <1>2, ForksAre, Names DEF DriverTypeOK
<1>5. proc[c] = "none"
  BY <1>1, <1>2, <1>4 DEF ForkInv, DriverTypeOK
<1>6. \A d \in Processes : proc'[d] = IF d = c THEN "forked" ELSE proc[d]
  BY <1>2 DEF DriverTypeOK
<1>7. Driver \in Processes /\ \A d \in Children : d \in Processes /\ d # Driver
  BY Names DEF Processes
<1>8. DriverTypeOK'
  <2>1. proc' \in [Processes -> {"none", "forked", "running", "ended", "forking", "waiting"}]
    BY <1>2 DEF DriverTypeOK
  <2>2. readers' \in [Pipes -> SUBSET Processes] /\ writers' \in [Pipes -> SUBSET Processes]
    BY <1>2, <1>4, <1>7 DEF DriverTypeOK
  <2>3. /\ proc'[Driver] \in {"forking", "waiting", "ended"}
        /\ \A d \in Children : proc'[d] \in {"none", "forked", "running", "ended"}
    BY <1>2, <1>4, <1>6, <1>7 DEF DriverTypeOK
  <2> QED BY <1>2, <2>1, <2>2, <2>3 DEF DriverTypeOK
<1>9. EndsInv'
  BY <1>2, <1>3, <1>4, <1>6, <1>7, Names DEF EndsInv
<1>10. ForkInv'
  <2>1. ASSUME NEW n \in DOMAIN Forks PROVE proc'[Forks[n]] = "none" <=> n >= turn'
    <3>1. Forks[n] \in Processes /\ n \in Nat
      BY <1>7, ForksAre
    <3>2. CASE n = turn
      BY <1>1, <1>2, <1>6, <3>1, <3>2 DEF DriverTypeOK
    <3>3. CASE n # turn
      <4>1. Forks[n] # c
        BY <1>1, <1>4, <3>3, ForksAre
      <4>2. proc[Forks[n]] = "none" <=> n >= turn
        BY <1>2 DEF ForkInv
      <4> QED BY <1>2, <1>6, <3>1, <3>3, <4>1, <4>2 DEF DriverTypeOK
    <3> QED BY <3>2, <3>3
  <2> QED BY <1>2, <1>4, <1>6, <1>7, <2>1 DEF ForkInv
<1>11. WaitInv'
  BY <1>2, <1>4, <1>6, <1>7 DEF WaitInv
<1>12. CodeInv'
  <2>1. code[c] = 0
    BY <1>4, <1>5 DEF CodeInv
  <2>2. \A p \in Pipes : ~EndOfFile(p)
    BY <1>3 DEF EndOfFile
  <2>3. \A d \in Children : code'[d] # 0 => proc'[d] = "ended"
    BY <1>2, <1>6, <1>7, <2>1 DEF CodeInv
  <2>4. \A d \in Children : proc'[d] = "ended" => proc[d] = "ended"
    BY <1>6, <1>7
  <2> QED BY <1>2, <2>2, <2>3, <2>4, Names DEF CodeInv
<1> QED BY <1>2, <1>8, <1>9, <1>10, <1>11, <1>12, NoItemMoves

\* What a process has is closed when it ends.
LEMMA EndFacts ==
  ASSUME DriverTypeOK, NEW c \in Processes, NEW status \in {0, 1, 2, Killed}, End(c, status)
  PROVE  /\ \A d \in Processes : proc'[d] = IF d = c THEN "ended" ELSE proc[d]
         /\ \A d \in Processes : code'[d] = IF d = c THEN status ELSE code[d]
         /\ \A p \in Pipes : readers'[p] = readers[p] \ {c} /\ writers'[p] = writers[p] \ {c}
         /\ proc' \in [Processes -> {"none", "forked", "running", "ended", "forking", "waiting"}]
         /\ code' \in [Processes -> {0, 1, 2, Killed}]
         /\ readers' \in [Pipes -> SUBSET Processes] /\ writers' \in [Pipes -> SUBSET Processes]
  BY DEF DriverTypeOK, End, CloseAll

\* The others keep their ends of the pipes.
LEMMA EndKeepsEnds ==
  ASSUME DriverTypeOK, EndsInv, NEW c \in Processes, NEW status \in {0, 1, 2, Killed}, End(c, status)
  PROVE  EndsInv'
<1>1. Driver \in Processes /\ \A d \in Children : d \in Processes
  BY DEF Processes
<1> QED BY <1>1, EndFacts, Names DEF EndsInv

\* Main ends: because a fork failed, or after it has waited for all.
LEMMA MainEnds ==
  ASSUME DriverInv, ForkFails \/ Finish
  PROVE  DriverInv'
<1> USE DEF DriverInv
<1>1. PICK status \in {0, 2} :
        /\ End(Driver, status)
        /\ status = 0 => proc[Driver] = "waiting" /\ turn > Len(WaitOrder)
        /\ proc[Driver] \in {"forking", "waiting"}
        /\ UNCHANGED <<turn, pipe, written, held, received, reported>>
  BY DEF ForkFails, Finish
<1>2. Driver \in Processes /\ \A d \in Children : d \in Processes /\ d # Driver
  BY Names DEF Processes
<1>3. /\ \A d \in Processes : proc'[d] = IF d = Driver THEN "ended" ELSE proc[d]
      /\ \A d \in Processes : code'[d] = IF d = Driver THEN status ELSE code[d]
      /\ \A p \in Pipes : readers'[p] = readers[p] \ {Driver} /\ writers'[p] = writers[p] \ {Driver}
      /\ proc' \in [Processes -> {"none", "forked", "running", "ended", "forking", "waiting"}]
      /\ code' \in [Processes -> {0, 1, 2, Killed}]
      /\ readers' \in [Pipes -> SUBSET Processes] /\ writers' \in [Pipes -> SUBSET Processes]
  BY <1>1, <1>2, EndFacts
<1>4. code[Driver] = 0
  BY <1>1 DEF ForkInv
<1>5. DriverTypeOK'
  BY <1>1, <1>2, <1>3 DEF DriverTypeOK
<1>6. EndsInv'
  BY <1>1, <1>2, EndKeepsEnds
<1>7. ForkInv'
  BY <1>1, <1>2, <1>3, <1>4 DEF ForkInv
<1>8. WaitInv'
  <2>1. ASSUME status = 0, NEW n \in DOMAIN WaitOrder PROVE (Waited(n))'
    <3>1. n < turn /\ WaitOrder[n] \in Children
      BY <1>1, <2>1, WaitOrderIs DEF DriverTypeOK
    <3>2. Waited(n)
      BY <1>1, <2>1, <3>1 DEF WaitInv
    <3> QED BY <1>1, <1>2, <1>3, <3>1, <3>2 DEF Waited
  <2> QED BY <1>2, <1>3, <2>1 DEF WaitInv
<1>9. CodeInv'
  <2>1. \A p \in Pipes : EndOfFile(p) => (EndOfFile(p))'
    BY <1>1, <1>3 DEF EndOfFile
  <2> QED BY <1>1, <1>2, <1>3, <1>4, <2>1, Names DEF CodeInv
<1> QED BY <1>1, <1>5, <1>6, <1>7, <1>8, <1>9, NoItemMoves

LEMMA ForkDoneKeeps ==
  ASSUME DriverInv, ForkDone
  PROVE  DriverInv'
<1> USE DEF DriverInv
<1>1. /\ proc[Driver] = "forking" /\ turn > Len(Forks)
      /\ proc' = [proc EXCEPT ![Driver] = "waiting"] /\ turn' = 1
      /\ UNCHANGED <<code, pipe, written, held, received, reported>>
      /\ readers' = [p \in Pipes |-> readers[p] \ {Driver}]
      /\ writers' = [p \in Pipes |-> writers[p] \ {Driver}]
  BY DEF ForkDone, CloseAll
<1>2. Driver \in Processes /\ \A d \in Children : d \in Processes /\ d # Driver
  BY Names DEF Processes
<1>3. \A d \in Processes : proc'[d] = IF d = Driver THEN "waiting" ELSE proc[d]
  BY <1>1 DEF DriverTypeOK
<1>4. DriverTypeOK'
  BY <1>1, <1>2, <1>3 DEF DriverTypeOK
<1>5. EndsInv'
  BY <1>1, <1>2, <1>3, Names DEF EndsInv
<1>6. ForkInv'
  <2>1. ASSUME NEW c \in Children PROVE proc[c] # "none"
    <3>1. PICK n \in DOMAIN Forks : Forks[n] = c
      BY ForksAre
    <3>2. n \in Nat /\ turn \in Nat /\ ~(n >= turn)
      BY <1>1, ForksAre DEF DriverTypeOK
    <3> QED BY <1>1, <3>1, <3>2 DEF ForkInv
  <2> QED BY <1>1, <1>2, <1>3, <2>1 DEF ForkInv
<1>7. WaitInv'
  <2>1. \A n \in DOMAIN WaitOrder : ~(n < 1)
    BY WaitOrderIs
  <2> QED BY <1>1, <1>2, <1>3, <2>1 DEF WaitInv
<1>8. CodeInv'
  <2>1. \A p \in Pipes : EndOfFile(p) => (EndOfFile(p))'
    BY <1>1 DEF EndOfFile
  <2> QED BY <1>1, <1>2, <1>3, <2>1, Names DEF CodeInv
<1> QED BY <1>1, <1>4, <1>5, <1>6, <1>7, <1>8, NoItemMoves

LEMMA WaitKeeps ==
  ASSUME DriverInv, Wait
  PROVE  DriverInv'
<1> USE DEF DriverInv
<1>1. PICK c : c = WaitOrder[turn]
  OBVIOUS
<1>2. /\ proc[Driver] = "waiting" /\ turn <= Len(WaitOrder)
      /\ proc[c] = "ended"
      /\ reported' = IF code[c] \notin {0, Killed} THEN reported \union {c} ELSE reported
      /\ turn' = turn + 1
      /\ UNCHANGED <<proc, code, readers, writers, pipe, written, held, received>>
  BY <1>1 DEF Wait, pipeVars
<1>3. turn \in DOMAIN WaitOrder /\ c \in Children
  BY <1>1, <1>2, WaitOrderIs DEF DriverTypeOK
<1>4. DriverTypeOK'
  BY <1>2, <1>3 DEF DriverTypeOK
<1>5. EndsInv' /\ ForkInv' /\ CodeInv'
  BY <1>2 DEF EndsInv, ForkInv, CodeInv, EndOfFile
<1>6. WaitInv'
  <2>1. ASSUME NEW n \in DOMAIN WaitOrder, n < turn' PROVE (Waited(n))'
    <3>1. CASE n = turn
      BY <1>1, <1>2, <3>1 DEF Waited
    <3>2. CASE n # turn
      <4>1. n < turn
        BY <1>2, <2>1, <3>2, WaitOrderIs DEF DriverTypeOK
      <4>2. Waited(n)
        BY <1>2, <4>1 DEF WaitInv
      <4> QED BY <1>2, <4>2 DEF Waited
    <3> QED BY <3>1, <3>2
  <2> QED BY <1>2, <2>1 DEF WaitInv
<1> QED BY <1>2, <1>4, <1>5, <1>6, NoItemMoves

LEMMA ExecKeeps ==
  ASSUME DriverInv, NEW c \in Children, Exec(c)
  PROVE  DriverInv'
<1> USE DEF DriverInv
<1>1. /\ proc[c] = "forked"
      /\ proc' = [proc EXCEPT ![c] = "running"]
      /\ UNCHANGED <<turn, code, pipe, written, held, received, reported>>
  BY DEF Exec
<1>2. /\ readers' = [p \in Pipes |-> IF p = c THEN readers[p] ELSE readers[p] \ {c}]
      /\ writers' = [p \in Pipes |-> IF c # Reducer /\ p = Stdout(c) THEN writers[p]
                                     ELSE writers[p] \ {c}]
  <2>1. CASE c = Reducer
    BY <2>1 DEF Exec, CloseAll
  <2>2. CASE c # Reducer
    BY <2>2 DEF Exec, CloseAll
  <2> QED BY <2>1, <2>2
<1>3. Driver \in Processes /\ \A d \in Children : d \in Processes /\ d # Driver
  BY Names DEF Processes
<1>4. \A d \in Processes : proc'[d] = IF d = c THEN "running" ELSE proc[d]
  BY <1>1 DEF DriverTypeOK
<1>5. DriverTypeOK'
  <2>1. proc' \in [Processes -> {"none", "forked", "running", "ended", "forking", "waiting"}]
    BY <1>1 DEF DriverTypeOK
  <2>2. readers' \in [Pipes -> SUBSET Processes] /\ writers' \in [Pipes -> SUBSET Processes]
    BY <1>2 DEF DriverTypeOK
  <2>3. /\ proc'[Driver] \in {"forking", "waiting", "ended"}
        /\ \A d \in Children : proc'[d] \in {"none", "forked", "running", "ended"}
    BY <1>3, <1>4 DEF DriverTypeOK
  <2> QED BY <1>1, <2>1, <2>2, <2>3 DEF DriverTypeOK
<1>6. EndsInv'
  <2>1. \A p \in Pipes : \A d \in Processes :
          d # c => (d \in readers[p] => d \in readers'[p]) /\ (d \in writers[p] => d \in writers'[p])
    BY <1>2
  <2>2. \A p \in Pipes : c \in readers[p] /\ c \in writers[p]
    BY <1>1 DEF EndsInv
  <2>3. \A i \in Mappers : c = Splitter(i) => c \in writers'[Mapper(i)]
    BY <1>2, <2>2, Names
  <2>4. \A i \in Mappers : c = Mapper(i) => c \in readers'[Mapper(i)] /\ c \in writers'[Reducer]
    BY <1>2, <2>2, Names
  <2>5. c = Reducer => c \in readers'[Reducer]
    BY <1>2, <2>2, Names
  <2> QED BY <1>3, <1>4, <2>1, <2>3, <2>4, <2>5, Names DEF EndsInv
<1>7. ForkInv'
  <2>1. \A n \in DOMAIN Forks : proc'[Forks[n]] = "none" <=> proc[Forks[n]] = "none"
    BY <1>1, <1>3, <1>4, ForksAre
  <2> QED BY <1>1, <1>3, <1>4, <2>1 DEF ForkInv
<1>8. WaitInv'
  <2>1. ASSUME NEW n \in DOMAIN WaitOrder, Waited(n) PROVE (Waited(n))'
    <3>1. WaitOrder[n] \in Children
      BY WaitOrderIs
    <3> QED BY <1>1, <1>3, <1>4, <2>1, <3>1 DEF Waited
  <2> QED BY <1>1, <1>3, <1>4, <2>1 DEF WaitInv
<1>9. CodeInv'
  <2>1. \A p \in Pipes : EndOfFile(p) => (EndOfFile(p))'
    BY <1>1, <1>2 DEF EndOfFile
  <2> QED BY <1>1, <1>3, <1>4, <2>1, Names DEF CodeInv
<1> QED BY <1>1, <1>5, <1>6, <1>7, <1>8, <1>9, NoItemMoves

\* A program that writes has a reader, unless that ended in error or was
\* never started.
LEMMA ReaderGone ==
  ASSUME DriverInv, NEW i \in Mappers
  PROVE  /\ proc[Mapper(i)] = "running" /\ readers[Reducer] = {}
              => code[Reducer] # 0 \/ code[Driver] # 0
         /\ proc[Splitter(i)] = "running" /\ readers[Mapper(i)] = {}
              => code[Mapper(i)] # 0 \/ code[Driver] # 0
<1> USE DEF DriverInv
<1>1. ASSUME NEW c \in Pipes, readers[c] = {}, code[Driver] = 0
      PROVE  proc[c] \in {"running", "ended"}
  <2>1. c \in Children
    BY Names
  <2>2. proc[Driver] # "forking" /\ proc[c] # "forked"
    BY <1>1, <2>1 DEF EndsInv
  <2>3. proc[c] # "none"
    BY <1>1, <2>1, <2>2 DEF ForkInv
  <2> QED BY <2>1, <2>2, <2>3 DEF DriverTypeOK
<1>2. ASSUME proc[Mapper(i)] = "running", readers[Reducer] = {}, code[Driver] = 0
      PROVE  code[Reducer] # 0
  <2>1. proc[Reducer] = "ended"
    BY <1>1, <1>2, Names DEF EndsInv
  <2>2. ~EndOfFile(Reducer)
    BY <1>2 DEF EndsInv, EndOfFile
  <2> QED BY <2>1, <2>2 DEF CodeInv
<1>3. ASSUME proc[Splitter(i)] = "running", readers[Mapper(i)] = {}, code[Driver] = 0
      PROVE  code[Mapper(i)] # 0
  <2>1. proc[Mapper(i)] = "ended"
    BY <1>1, <1>3, Names DEF EndsInv
  <2>2. ~EndOfFile(Mapper(i))
    BY <1>3 DEF EndsInv, EndOfFile
  <2> QED BY <2>1, <2>2 DEF CodeInv
<1> QED BY <1>2, <1>3

\* A child ends: it has done its work, has no reader, or could not be started.
LEMMA ChildEnds ==
  ASSUME DriverInv, NEW c \in Children, ExecFails(c) \/ Exit(c)
  PROVE  DriverInv'
<1> USE DEF DriverInv
<1>1. PICK status \in {0, 1, 2, Killed} :
        /\ End(c, status) /\ proc[c] \in {"forked", "running"}
        /\ UNCHANGED <<turn, pipe, written, held, received, reported>>
        /\ status = 0 => \/ c[1] = "splitter" /\ written[c[2]] = Pieces
                         \/ c[1] = "mapper" /\ held[c[2]] = Nothing /\ EndOfFile(c)
                         \/ c = Reducer /\ EndOfFile(c)
        /\ status = Killed => /\ proc[c] = "running" /\ readers[Stdout(c)] = {}
                              /\ c[1] = "splitter" \/ c[1] = "mapper"
  <2>1. CASE ExecFails(c)
    BY <2>1 DEF ExecFails, Killed
  <2>2. CASE Exit(c)
    BY <2>2 DEF Exit, Killed
  <2> QED BY <2>1, <2>2
<1>2. \A i \in Mappers : Splitter(i)[1] = "splitter" /\ Splitter(i)[2] = i
                         /\ Mapper(i)[1] = "mapper" /\ Mapper(i)[2] = i
  BY DEF Splitter, Mapper
<1>3. Reducer[1] = "reducer"
  BY DEF Reducer
<1>4. Driver \in Processes /\ \A d \in Children : d \in Processes /\ d # Driver
  BY Names DEF Processes
<1>5. /\ \A d \in Processes : proc'[d] = IF d = c THEN "ended" ELSE proc[d]
      /\ \A d \in Processes : code'[d] = IF d = c THEN status ELSE code[d]
      /\ \A p \in Pipes : readers'[p] = readers[p] \ {c} /\ writers'[p] = writers[p] \ {c}
      /\ proc' \in [Processes -> {"none", "forked", "running", "ended", "forking", "waiting"}]
      /\ code' \in [Processes -> {0, 1, 2, Killed}]
      /\ readers' \in [Pipes -> SUBSET Processes] /\ writers' \in [Pipes -> SUBSET Processes]
  BY <1>1, <1>4, EndFacts
<1>6. code[c] = 0
  BY <1>1 DEF CodeInv
<1>7. DriverTypeOK'
  BY <1>1, <1>4, <1>5 DEF DriverTypeOK
<1>8. EndsInv'
  BY <1>1, <1>4, EndKeepsEnds
<1>9. ForkInv'
  <2>1. \A n \in DOMAIN Forks : proc'[Forks[n]] = "none" <=> proc[Forks[n]] = "none"
    BY <1>1, <1>4, <1>5, ForksAre
  <2> QED BY <1>1, <1>4, <1>5, <2>1 DEF ForkInv
<1>10. WaitInv'
  <2>1. ASSUME NEW n \in DOMAIN WaitOrder, Waited(n) PROVE (Waited(n))'
    <3>1. WaitOrder[n] \in Children
      BY WaitOrderIs
    <3> QED BY <1>1, <1>4, <1>5, <2>1, <3>1 DEF Waited
  <2> QED BY <1>1, <1>4, <1>5, <2>1 DEF WaitInv
<1>11. CodeInv'
  <2>1. \A p \in Pipes : EndOfFile(p) => (EndOfFile(p))'
    BY <1>1, <1>5 DEF EndOfFile
  <2>2. \A d \in Children : code'[d] # 0 => proc'[d] = "ended"
    BY <1>4, <1>5 DEF CodeInv
  <2>3. code'[Reducer] # Killed
    BY <1>1, <1>3, <1>4, <1>5, Names DEF CodeInv
  <2>4. proc'[Reducer] = "ended" /\ code'[Reducer] = 0 => (EndOfFile(Reducer))'
    BY <1>1, <1>3, <1>4, <1>5, <2>1, Names DEF CodeInv
  <2>5. ASSUME NEW i \in Mappers, proc'[Mapper(i)] = "ended", code'[Mapper(i)] = 0
        PROVE  held'[i] = Nothing /\ (EndOfFile(Mapper(i)))'
    <3>1. held[i] = Nothing /\ EndOfFile(Mapper(i))
      BY <1>1, <1>2, <1>4, <1>5, <2>5, Names DEF CodeInv
    <3> QED BY <1>1, <2>1, <3>1, Names
  <2>6. ASSUME NEW i \in Mappers, code'[Mapper(i)] = Killed
        PROVE  code'[Reducer] # 0 \/ code'[Driver] # 0
    <3>1. code[Reducer] # 0 \/ code[Driver] # 0
      BY <1>1, <1>4, <1>5, <2>6, ReaderGone, Names DEF CodeInv
    <3>2. c = Reducer => code[Driver] # 0
      BY <1>6, <3>1
    <3> QED BY <1>4, <1>5, <3>1, <3>2, Names
  <2>7. ASSUME NEW i \in Mappers, proc'[Splitter(i)] = "ended", code'[Splitter(i)] = 0
        PROVE  written'[i] = Pieces
    BY <1>1, <1>2, <1>3, <1>4, <1>5, <2>7, Names DEF CodeInv
  <2>8. ASSUME NEW i \in Mappers, code'[Splitter(i)] = Killed
        PROVE  code'[Mapper(i)] # 0 \/ code'[Driver] # 0
    <3>1. code[Mapper(i)] # 0 \/ code[Driver] # 0
      BY <1>1, <1>4, <1>5, <2>8, ReaderGone, Names DEF CodeInv
    <3>2. c = Mapper(i) => code[Driver] # 0
      BY <1>6, <3>1
    <3> QED BY <1>4, <1>5, <3>1, <3>2, Names
  <2> QED BY <2>2, <2>3, <2>4, <2>5, <2>6, <2>7, <2>8 DEF CodeInv
<1> QED BY <1>1, <1>7, <1>8, <1>9, <1>10, <1>11, NoItemMoves

\* A program that reads or writes neither starts nor ends, and closes nothing.
LEMMA ProcessesStay ==
  ASSUME DriverInv, UNCHANGED <<turn, proc, code, readers, writers, reported>>
  PROVE  EndsInv' /\ ForkInv' /\ WaitInv'
  BY DEF DriverInv, EndsInv, ForkInv, WaitInv, Waited

LEMMA SplitKeeps ==
  ASSUME DriverInv, NEW i \in Mappers, Split(i)
  PROVE  DriverInv'
<1> USE DEF DriverInv
<1>1. PICK y : y = <<i, written[i] + 1>>
  OBVIOUS
<1>2. PICK q : q = pipe[Mapper(i)]
  OBVIOUS
<1>3. /\ proc[Splitter(i)] = "running" /\ written[i] < Pieces
      /\ written' = [written EXCEPT ![i] = written[i] + 1]
      /\ pipe' = [pipe EXCEPT ![Mapper(i)] = Append(q, y)]
      /\ UNCHANGED <<turn, proc, code, readers, writers, held, received, reported>>
  BY <1>1, <1>2 DEF Split
<1>4. written[i] \in 0..Pieces /\ written[i] + 1 \in 1..Pieces /\ Pieces \in Nat
  BY <1>3, MapReduceAssumption DEF DriverTypeOK
<1>5. y \in Items /\ y[1] = i /\ y[2] = written[i] + 1
  BY <1>1, <1>4, ItemsAre
<1>6. q \in Seq(Items) /\ NoRepeat(q)
  BY <1>2, Names DEF DriverTypeOK, ItemInv
<1>7. ~InMapper(y) /\ ~IsHeld(y) /\ ~InReducer(y) /\ ~IsReceived(y)
  BY <1>4, <1>5 DEF ItemInv
<1>8. y \notin ToSet(q)
  BY <1>2, <1>5, <1>7 DEF InMapper
<1>9. /\ Append(q, y) \in Seq(Items) /\ ToSet(Append(q, y)) = ToSet(q) \union {y}
      /\ NoRepeat(Append(q, y))
  BY <1>5, <1>6, <1>8, AppendItem
<1>10. \A p \in Pipes : pipe'[p] = IF p = Mapper(i) THEN Append(q, y) ELSE pipe[p]
  BY <1>3 DEF DriverTypeOK
<1>11. \A j \in Mappers : written'[j] = IF j = i THEN written[i] + 1 ELSE written[j]
  BY <1>3 DEF DriverTypeOK
<1>12. DriverTypeOK'
  <2>1. pipe' \in [Pipes -> Seq(Items)]
    BY <1>3, <1>9 DEF DriverTypeOK
  <2>2. written' \in [Mappers -> 0..Pieces]
    BY <1>3, <1>4 DEF DriverTypeOK
  <2> QED BY <1>3, <2>1, <2>2 DEF DriverTypeOK
<1>13. CodeInv'
  <2>1. ~EndOfFile(Mapper(i))
    BY <1>3 DEF EndsInv, EndOfFile
  <2>2. \A p \in Pipes : EndOfFile(p) => (EndOfFile(p))'
    BY <1>3, <1>10, <2>1 DEF EndOfFile
  <2>3. \A j \in Mappers : proc[Splitter(j)] = "ended" => j # i
    BY <1>3
  <2> QED BY <1>3, <1>11, <2>2, <2>3, Names DEF CodeInv
<1>14. ItemInv'
  <2>1. \A p \in Pipes : NoRepeat(pipe'[p])
    BY <1>9, <1>10 DEF ItemInv
  <2>2. \A j \in Mappers : \A x \in ToSet(pipe'[Mapper(j)]) : x[1] = j
    <3> SUFFICES ASSUME NEW j \in Mappers, NEW x \in ToSet(pipe'[Mapper(j)]) PROVE x[1] = j
      OBVIOUS
    <3>1. CASE j = i
      BY <1>2, <1>5, <1>9, <1>10, <3>1, Names DEF ItemInv
    <3>2. CASE j # i
      BY <1>10, <3>2, Names DEF ItemInv
    <3> QED BY <3>1, <3>2
  <2>3. ASSUME NEW x \in Items
        PROVE  /\ (InMapper(x))' <=> InMapper(x) \/ x = y
               /\ (IsHeld(x))' <=> IsHeld(x)
               /\ (InReducer(x))' <=> InReducer(x)
               /\ (IsReceived(x))' <=> IsReceived(x)
               /\ x[2] <= written'[x[1]] <=> x[2] <= written[x[1]] \/ x = y
    <3>1. x[1] \in Mappers /\ x[2] \in 1..Pieces /\ x = <<x[1], x[2]>>
      BY ItemsAre
    <3>2. (InMapper(x))' <=> InMapper(x) \/ x = y
      BY <1>2, <1>5, <1>9, <1>10, <3>1, Names DEF InMapper
    <3>3. (IsHeld(x))' <=> IsHeld(x)
      BY <1>3 DEF IsHeld
    <3>4. (InReducer(x))' <=> InReducer(x)
      BY <1>10, Names DEF InReducer
    <3>5. (IsReceived(x))' <=> IsReceived(x)
      BY <1>3 DEF IsReceived
    <3>6. x = y <=> x[1] = i /\ x[2] = written[i] + 1
      BY <1>1, <3>1
    <3>7. x[2] <= written'[x[1]] <=> x[2] <= written[x[1]] \/ x = y
      <4>1. CASE x[1] = i
        BY <1>4, <1>11, <3>1, <3>6, <4>1
      <4>2. CASE x[1] # i
        BY <1>11, <3>1, <3>6, <4>2
      <4> QED BY <4>1, <4>2
    <3> QED BY <3>2, <3>3, <3>4, <3>5, <3>7
  <2> QED BY <1>3, <1>7, <2>1, <2>2, <2>3 DEF ItemInv
<1> QED BY <1>3, <1>12, <1>13, <1>14, ProcessesStay

\* A mapper reads an item.
LEMMA MapReads ==
  ASSUME DriverInv, NEW i \in Mappers, proc[Mapper(i)] = "running",
         held[i] = Nothing, pipe[Mapper(i)] # <<>>,
         held' = [held EXCEPT ![i] = Head(pipe[Mapper(i)])],
         pipe' = [pipe EXCEPT ![Mapper(i)] = Tail(@)],
         UNCHANGED <<turn, proc, code, readers, writers, written, received, reported>>
  PROVE  DriverInv'
<1> USE DEF DriverInv
<1>1. PICK q : q = pipe[Mapper(i)]
  OBVIOUS
<1>2. PICK y : y = Head(q)
  OBVIOUS
<1>3. q \in Seq(Items) /\ NoRepeat(q) /\ q # <<>>
  BY <1>1, Names DEF DriverTypeOK, ItemInv
<1>4. /\ Tail(q) \in Seq(Items) /\ y \in Items /\ y \in ToSet(q)
      /\ ToSet(Tail(q)) = ToSet(q) \ {y} /\ NoRepeat(Tail(q))
  BY <1>2, <1>3, TailItem
<1>5. y[1] = i /\ y # Nothing
  BY <1>1, <1>4, ItemsAre DEF ItemInv
<1>6. InMapper(y)
  BY <1>1, <1>4, <1>5 DEF InMapper
<1>7. \A p \in Pipes : pipe'[p] = IF p = Mapper(i) THEN Tail(q) ELSE pipe[p]
  BY <1>1 DEF DriverTypeOK
<1>8. \A j \in Mappers : held'[j] = IF j = i THEN y ELSE held[j]
  BY <1>1, <1>2 DEF DriverTypeOK
<1>9. DriverTypeOK'
  <2>1. pipe' \in [Pipes -> Seq(Items)]
    BY <1>1, <1>4 DEF DriverTypeOK
  <2>2. held' \in [Mappers -> Items \union {Nothing}]
    BY <1>1, <1>2, <1>4 DEF DriverTypeOK
  <2> QED BY <2>1, <2>2 DEF DriverTypeOK
<1>10. CodeInv'
  <2>1. \A p \in Pipes : EndOfFile(p) => (EndOfFile(p))'
    BY <1>1, <1>3, <1>7 DEF EndOfFile
  <2>2. \A j \in Mappers : proc[Mapper(j)] = "ended" => j # i
    OBVIOUS
  <2> QED BY <1>8, <2>1, <2>2, Names DEF CodeInv
<1>11. ItemInv'
  <2>1. \A p \in Pipes : NoRepeat(pipe'[p])
    BY <1>4, <1>7 DEF ItemInv
  <2>2. \A j \in Mappers : \A x \in ToSet(pipe'[Mapper(j)]) : x[1] = j
    <3> SUFFICES ASSUME NEW j \in Mappers, NEW x \in ToSet(pipe'[Mapper(j)]) PROVE x[1] = j
      OBVIOUS
    <3>1. CASE j = i
      BY <1>1, <1>4, <1>7, <3>1, Names DEF ItemInv
    <3>2. CASE j # i
      BY <1>7, <3>2, Names DEF ItemInv
    <3> QED BY <3>1, <3>2
  <2>3. \A j \in Mappers : held'[j] # Nothing => held'[j][1] = j
    BY <1>5, <1>8 DEF ItemInv
  <2>4. ASSUME NEW x \in Items
        PROVE  /\ (InMapper(x))' <=> InMapper(x) /\ x # y
               /\ (IsHeld(x))' <=> IsHeld(x) \/ x = y
               /\ (InReducer(x))' <=> InReducer(x)
               /\ (IsReceived(x))' <=> IsReceived(x)
    <3>1. x[1] \in Mappers /\ x # Nothing
      BY ItemsAre
    <3>2. (InMapper(x))' <=> InMapper(x) /\ x # y
      <4>1. CASE x[1] = i
        BY <1>1, <1>4, <1>7, <3>1, <4>1, Names DEF InMapper
      <4>2. CASE x[1] # i
        BY <1>5, <1>7, <3>1, <4>2, Names DEF InMapper
      <4> QED BY <4>1, <4>2
    <3>3. (IsHeld(x))' <=> IsHeld(x) \/ x = y
      <4>1. CASE x[1] = i
        BY <1>8, <3>1, <4>1 DEF IsHeld
      <4>2. CASE x[1] # i
        BY <1>5, <1>8, <3>1, <4>2 DEF IsHeld
      <4> QED BY <4>1, <4>2
    <3>4. (InReducer(x))' <=> InReducer(x)
      BY <1>7, Names DEF InReducer
    <3>5. (IsReceived(x))' <=> IsReceived(x)
      BY DEF IsReceived
    <3> QED BY <3>2, <3>3, <3>4, <3>5
  <2>5. \A x \in Items : x[2] <= written'[x[1]] <=> x[2] <= written[x[1]]
    OBVIOUS
  <2>6. ASSUME NEW x \in Items
        PROVE  /\ x[2] <= written'[x[1]] <=>
                    (InMapper(x))' \/ (IsHeld(x))' \/ (InReducer(x))' \/ (IsReceived(x))'
               /\ (InMapper(x))' => ~(IsHeld(x))' /\ ~(InReducer(x))' /\ ~(IsReceived(x))'
               /\ (IsHeld(x))' => ~(InReducer(x))' /\ ~(IsReceived(x))'
               /\ (InReducer(x))' => ~(IsReceived(x))'
    BY <1>6, <2>4, <2>5 DEF ItemInv
  <2> QED BY <2>1, <2>2, <2>3, <2>6 DEF ItemInv
<1> QED BY <1>9, <1>10, <1>11, ProcessesStay

\* A mapper writes the result of the item.
LEMMA MapWrites ==
  ASSUME DriverInv, NEW i \in Mappers, proc[Mapper(i)] = "running", held[i] # Nothing,
         held' = [held EXCEPT ![i] = Nothing],
         pipe' = [pipe EXCEPT ![Reducer] = Append(@, held[i])],
         UNCHANGED <<turn, proc, code, readers, writers, written, received, reported>>
  PROVE  DriverInv'
<1> USE DEF DriverInv
<1>1. PICK q : q = pipe[Reducer]
  OBVIOUS
<1>2. PICK y : y = held[i]
  OBVIOUS
<1>3. q \in Seq(Items) /\ NoRepeat(q)
  BY <1>1, Names DEF DriverTypeOK, ItemInv
<1>4. y \in Items /\ y[1] = i
  BY <1>2 DEF DriverTypeOK, ItemInv
<1>5. IsHeld(y)
  BY <1>2, <1>4 DEF IsHeld
<1>6. y \notin ToSet(q)
  BY <1>1, <1>4, <1>5 DEF ItemInv, InReducer
<1>7. /\ Append(q, y) \in Seq(Items) /\ ToSet(Append(q, y)) = ToSet(q) \union {y}
      /\ NoRepeat(Append(q, y))
  BY <1>3, <1>4, <1>6, AppendItem
<1>8. \A p \in Pipes : pipe'[p] = IF p = Reducer THEN Append(q, y) ELSE pipe[p]
  BY <1>1, <1>2 DEF DriverTypeOK
<1>9. \A j \in Mappers : held'[j] = IF j = i THEN Nothing ELSE held[j]
  BY DEF DriverTypeOK
<1>10. DriverTypeOK'
  <2>1. pipe' \in [Pipes -> Seq(Items)]
    BY <1>1, <1>2, <1>7 DEF DriverTypeOK
  <2>2. held' \in [Mappers -> Items \union {Nothing}]
    BY DEF DriverTypeOK
  <2> QED BY <2>1, <2>2 DEF DriverTypeOK
<1>11. CodeInv'
  <2>1. ~EndOfFile(Reducer)
    BY DEF EndsInv, EndOfFile
  <2>2. \A p \in Pipes : EndOfFile(p) => (EndOfFile(p))'
    BY <1>8, <2>1 DEF EndOfFile
  <2> QED BY <1>9, <2>2, Names DEF CodeInv
<1>12. ItemInv'
  <2>1. \A p \in Pipes : NoRepeat(pipe'[p])
    BY <1>7, <1>8 DEF ItemInv
  <2>2. \A j \in Mappers : \A x \in ToSet(pipe'[Mapper(j)]) : x[1] = j
    BY <1>8, Names DEF ItemInv
  <2>3. \A j \in Mappers : held'[j] # Nothing => held'[j][1] = j
    BY <1>9 DEF ItemInv
  <2>4. ASSUME NEW x \in Items
        PROVE  /\ (InMapper(x))' <=> InMapper(x)
               /\ (IsHeld(x))' <=> IsHeld(x) /\ x # y
               /\ (InReducer(x))' <=> InReducer(x) \/ x = y
               /\ (IsReceived(x))' <=> IsReceived(x)
    <3>1. x[1] \in Mappers /\ x # Nothing
      BY ItemsAre
    <3>2. (InMapper(x))' <=> InMapper(x)
      BY <1>8, <3>1, Names DEF InMapper
    <3>3. (IsHeld(x))' <=> IsHeld(x) /\ x # y
      <4>1. CASE x[1] = i
        BY <1>2, <1>9, <3>1, <4>1 DEF IsHeld
      <4>2. CASE x[1] # i
        BY <1>4, <1>9, <3>1, <4>2 DEF IsHeld
      <4> QED BY <4>1, <4>2
    <3>4. (InReducer(x))' <=> InReducer(x) \/ x = y
      BY <1>1, <1>7, <1>8, Names DEF InReducer
    <3>5. (IsReceived(x))' <=> IsReceived(x)
      BY DEF IsReceived
    <3> QED BY <3>2, <3>3, <3>4, <3>5
  <2>5. \A x \in Items : x[2] <= written'[x[1]] <=> x[2] <= written[x[1]]
    OBVIOUS
  <2>6. ASSUME NEW x \in Items
        PROVE  /\ x[2] <= written'[x[1]] <=>
                    (InMapper(x))' \/ (IsHeld(x))' \/ (InReducer(x))' \/ (IsReceived(x))'
               /\ (InMapper(x))' => ~(IsHeld(x))' /\ ~(InReducer(x))' /\ ~(IsReceived(x))'
               /\ (IsHeld(x))' => ~(InReducer(x))' /\ ~(IsReceived(x))'
               /\ (InReducer(x))' => ~(IsReceived(x))'
    BY <1>5, <2>4, <2>5 DEF ItemInv
  <2> QED BY <2>1, <2>2, <2>3, <2>6 DEF ItemInv
<1> QED BY <1>10, <1>11, <1>12, ProcessesStay

\* The reducer reads an item.
LEMMA ReduceKeeps ==
  ASSUME DriverInv, Reduce
  PROVE  DriverInv'
<1> USE DEF DriverInv
<1>1. PICK q : q = pipe[Reducer]
  OBVIOUS
<1>2. PICK y : y = Head(q)
  OBVIOUS
<1>3. /\ proc[Reducer] = "running" /\ q # <<>>
      /\ received' = Append(received, y)
      /\ pipe' = [pipe EXCEPT ![Reducer] = Tail(q)]
      /\ UNCHANGED <<turn, proc, code, readers, writers, written, held, reported>>
  BY <1>1, <1>2 DEF Reduce
<1>4. q \in Seq(Items) /\ NoRepeat(q) /\ received \in Seq(Items) /\ NoRepeat(received)
  BY <1>1, Names DEF DriverTypeOK, ItemInv
<1>5. /\ Tail(q) \in Seq(Items) /\ y \in Items /\ y \in ToSet(q)
      /\ ToSet(Tail(q)) = ToSet(q) \ {y} /\ NoRepeat(Tail(q))
  BY <1>2, <1>3, <1>4, TailItem
<1>6. InReducer(y)
  BY <1>1, <1>5 DEF InReducer
<1>7. y \notin ToSet(received)
  BY <1>5, <1>6 DEF ItemInv, IsReceived
<1>8. /\ received' \in Seq(Items) /\ ToSet(received') = ToSet(received) \union {y}
      /\ NoRepeat(received')
  BY <1>3, <1>4, <1>5, <1>7, AppendItem
<1>9. \A p \in Pipes : pipe'[p] = IF p = Reducer THEN Tail(q) ELSE pipe[p]
  BY <1>3 DEF DriverTypeOK
<1>10. DriverTypeOK'
  <2>1. pipe' \in [Pipes -> Seq(Items)]
    BY <1>3, <1>5 DEF DriverTypeOK
  <2> QED BY <1>3, <1>8, <2>1 DEF DriverTypeOK
<1>11. CodeInv'
  <2>1. \A p \in Pipes : EndOfFile(p) => (EndOfFile(p))'
    BY <1>1, <1>3, <1>9 DEF EndOfFile
  <2> QED BY <1>3, <2>1, Names DEF CodeInv
<1>12. ItemInv'
  <2>1. \A p \in Pipes : NoRepeat(pipe'[p])
    BY <1>5, <1>9 DEF ItemInv
  <2>2. \A j \in Mappers : \A x \in ToSet(pipe'[Mapper(j)]) : x[1] = j
    BY <1>9, Names DEF ItemInv
  <2>3. ASSUME NEW x \in Items
        PROVE  /\ (InMapper(x))' <=> InMapper(x)
               /\ (IsHeld(x))' <=> IsHeld(x)
               /\ (InReducer(x))' <=> InReducer(x) /\ x # y
               /\ (IsReceived(x))' <=> IsReceived(x) \/ x = y
    <3>1. x[1] \in Mappers
      BY ItemsAre
    <3>2. (InMapper(x))' <=> InMapper(x)
      BY <1>9, <3>1, Names DEF InMapper
    <3>3. (IsHeld(x))' <=> IsHeld(x)
      BY <1>3 DEF IsHeld
    <3>4. (InReducer(x))' <=> InReducer(x) /\ x # y
      BY <1>1, <1>5, <1>9, Names DEF InReducer
    <3>5. (IsReceived(x))' <=> IsReceived(x) \/ x = y
      BY <1>8 DEF IsReceived
    <3> QED BY <3>2, <3>3, <3>4, <3>5
  <2>4. \A x \in Items : x[2] <= written'[x[1]] <=> x[2] <= written[x[1]]
    BY <1>3
  <2>5. ASSUME NEW x \in Items
        PROVE  /\ x[2] <= written'[x[1]] <=>
                    (InMapper(x))' \/ (IsHeld(x))' \/ (InReducer(x))' \/ (IsReceived(x))'
               /\ (InMapper(x))' => ~(IsHeld(x))' /\ ~(InReducer(x))' /\ ~(IsReceived(x))'
               /\ (IsHeld(x))' => ~(InReducer(x))' /\ ~(IsReceived(x))'
               /\ (InReducer(x))' => ~(IsReceived(x))'
    BY <1>6, <2>3, <2>4 DEF ItemInv
  <2> QED BY <1>3, <1>8, <2>1, <2>2, <2>5 DEF ItemInv
<1> QED BY <1>3, <1>10, <1>11, <1>12, ProcessesStay

LEMMA DriverNextInv == DriverInv /\ [DriverNext]_driverVars => DriverInv'
<1> SUFFICES ASSUME DriverInv, [DriverNext]_driverVars PROVE DriverInv'
  OBVIOUS
<1>1. CASE DriverStep
  BY <1>1, ForkKeeps, MainEnds, ForkDoneKeeps, WaitKeeps DEF DriverStep
<1>2. ASSUME NEW c \in Children, Child(c) PROVE DriverInv'
  <2>1. CASE Exec(c)
    BY <2>1, ExecKeeps
  <2>2. CASE ExecFails(c) \/ Exit(c)
    BY <2>2, ChildEnds
  <2>3. CASE c[1] = "splitter" /\ Split(c[2])
    BY <2>3, Kinds, SplitKeeps
  <2>4. CASE c[1] = "mapper" /\ Map(c[2])
    <3>1. PICK i \in Mappers : Map(i)
      BY <2>4, Kinds
    <3> QED BY <3>1, MapReads, MapWrites DEF Map
  <2>5. CASE Reduce
    BY <2>5, ReduceKeeps
  <2> QED BY <1>2, <2>1, <2>2, <2>3, <2>4, <2>5 DEF Child
<1>3. CASE UNCHANGED driverVars
  <2>1. /\ UNCHANGED <<turn, proc, code, readers, writers, reported>>
        /\ UNCHANGED <<pipe, written, held, received>>
    BY <1>3 DEF driverVars, pipeVars
  <2>2. DriverTypeOK' /\ CodeInv'
    BY <2>1 DEF DriverInv, DriverTypeOK, CodeInv, EndOfFile
  <2> QED BY <2>1, <2>2, ProcessesStay, NoItemMoves DEF DriverInv
<1> QED BY <1>1, <1>2, <1>3 DEF DriverNext

\* A sequence without repetitions is as long as the set of its members.
LEMMA NoRepeatLength ==
  ASSUME NEW S, NEW s \in Seq(S), NoRepeat(s)
  PROVE  Len(s) = Cardinality(ToSet(s))
<1>1. Len(s) \in Nat /\ DOMAIN s = 1..Len(s)
  OBVIOUS
<1>2. IsFiniteSet(1..Len(s)) /\ Cardinality(1..Len(s)) = Len(s)
  BY <1>1, FS_Interval
<1>3. s \in Bijection(1..Len(s), ToSet(s))
  <2>1. s \in Surjection(1..Len(s), ToSet(s))
    BY <1>1 DEF Surjection, ToSet
  <2>2. s \in Injection(1..Len(s), ToSet(s))
    BY <1>1, <2>1 DEF Injection, IsInjective, Surjection, NoRepeat
  <2> QED BY <2>1, <2>2 DEF Bijection
<1>4. ExistsBijection(1..Len(s), ToSet(s))
  BY <1>3 DEF ExistsBijection
<1> QED BY <1>2, <1>4, FS_Bijection

\* When main ends with nothing reported, every piece has been split, mapped
\* and reduced.
LEMMA SilentIsComplete == DriverInv => SilentMeansComplete
<1> SUFFICES ASSUME DriverInv, proc[Driver] = "ended", code[Driver] = 0, reported = {},
                    \A i \in Mappers : code[Splitter(i)] \in {0, Killed}
             PROVE  ToSet(received) = Items /\ Len(received) = Cardinality(Items)
  BY DEF SilentMeansComplete
<1> USE DEF DriverInv
<1>1. \A n \in DOMAIN WaitOrder : proc[WaitOrder[n]] = "ended" /\ code[WaitOrder[n]] \in {0, Killed}
  BY DEF WaitInv, Waited
<1>2. proc[Reducer] = "ended" /\ code[Reducer] = 0 /\ EndOfFile(Reducer)
  BY <1>1, WaitOrderIs DEF CodeInv
<1>3. \A i \in Mappers : /\ proc[Mapper(i)] = "ended" /\ code[Mapper(i)] = 0
                         /\ held[i] = Nothing /\ EndOfFile(Mapper(i))
  <2> SUFFICES ASSUME NEW i \in Mappers
               PROVE  /\ proc[Mapper(i)] = "ended" /\ code[Mapper(i)] = 0
                      /\ held[i] = Nothing /\ EndOfFile(Mapper(i))
    OBVIOUS
  <2>1. proc[Mapper(i)] = "ended" /\ code[Mapper(i)] \in {0, Killed}
    BY <1>1, WaitOrderIs
  <2> QED BY <1>2, <2>1 DEF CodeInv
<1>4. \A i \in Mappers : written[i] = Pieces
  <2> SUFFICES ASSUME NEW i \in Mappers PROVE written[i] = Pieces
    OBVIOUS
  <2>1. code[Splitter(i)] = 0
    BY <1>3 DEF CodeInv
  <2>2. proc[Splitter(i)] # "none"
    BY Names DEF ForkInv
  <2>3. proc[Splitter(i)] # "forked" /\ proc[Splitter(i)] # "running"
    BY <1>3, Names DEF EndsInv, EndOfFile
  <2>4. proc[Splitter(i)] = "ended"
    BY <2>2, <2>3, Names DEF DriverTypeOK
  <2> QED BY <2>1, <2>4 DEF CodeInv
<1>5. ASSUME NEW x \in Items PROVE x \in ToSet(received)
  <2>1. x[1] \in Mappers /\ x[2] \in 1..Pieces /\ x # Nothing /\ Pieces \in Nat
    BY ItemsAre, MapReduceAssumption
  <2>2. x[2] <= written[x[1]]
    BY <1>4, <2>1
  <2>3. ToSet(<<>>) = {}
    BY DEF ToSet
  <2>4. ~InMapper(x) /\ ~IsHeld(x) /\ ~InReducer(x)
    BY <1>2, <1>3, <2>1, <2>3 DEF InMapper, IsHeld, InReducer, EndOfFile
  <2> QED BY <2>2, <2>4 DEF ItemInv, IsReceived
<1>6. received \in Seq(Items) /\ NoRepeat(received)
  BY DEF DriverTypeOK, ItemInv
<1>7. ToSet(received) = Items
  BY <1>5, <1>6 DEF ToSet
<1> QED BY <1>6, <1>7, NoRepeatLength

(***************************************************************************)
(* When main ends with exit code 0 and has printed no exit code, the       *)
(* reducer has read the result of every item once, for any number of       *)
(* mappers and whatever the sizes of pieces and pipes: the exit codes that *)
(* main looks at tell whether work was lost.                               *)
(***************************************************************************)
THEOREM CompleteCorrect == DriverSpec => []SilentMeansComplete
<1>1. DriverSpec => []DriverInv
  BY DriverInitInv, DriverNextInv, PTL DEF DriverSpec
<1> QED BY <1>1, SilentIsComplete, PTL
-----------------------------------------------------------------------------
Creating == {"connect", "create writer", "create reader"}

ClientTypeOK ==
    /\ main \in Creating \union {"join writer", "join reader"} \union Ended
    /\ line \in [Workers -> {"none", "screen", "send size", "send message", "size", "message",
                             "show", "ended"}]
    /\ line["writer"] \in {"none", "screen", "send size", "send message", "ended"}
    /\ line["reader"] \in {"none", "size", "message", "show", "ended"}
    /\ buffer \in [Workers -> {"null", "held"}]
    /\ msg \in [Workers -> {"null", "held"}]
    /\ cancelled \subseteq Workers

\* A thread runs once main has created it, and is cancelled no earlier.
CreateInv ==
    /\ main \in {"connect", "create writer"} => line["writer"] = "none"
    /\ main \in Creating => line["reader"] = "none" /\ cancelled = {}

\* Where a thread holds no message, its pointer is NULL.  (The buffer that
\* the writer types into is kept for the next message.)
PointerInv ==
    /\ ~doubleFree
    /\ msg["reader"] = "null"
    /\ line["writer"] \in {"none", "screen", "ended"} => msg["writer"] = "null"
    /\ line["reader"] \in {"none", "size", "ended"} => buffer["reader"] = "null"

ClientInv == ClientTypeOK /\ CreateInv /\ PointerInv

LEMMA ClientInitInv == ClientInit => ClientInv
  BY DEF ClientInit, ClientInv, ClientTypeOK, CreateInv, PointerInv, Creating, Workers

\* What main and the handler do.
LEMMA MainKeeps ==
  ASSUME ClientInv, ClientMain \/ Handler \/ Interrupt \/ Serve
  PROVE  ClientInv'
<1> USE DEF ClientInv, ClientTypeOK, CreateInv, PointerInv, Creating, Workers, Ended
<1>1. CASE Connect
  BY <1>1 DEF Connect
<1>2. CASE Create
  BY <1>2 DEF Create, GoOn
<1>3. CASE Join
  BY <1>3 DEF Join
<1>4. CASE Cancel
  BY <1>4 DEF Cancel
<1>5. CASE Close
  BY <1>5 DEF Close
<1>6. CASE Interrupt
  BY <1>6 DEF Interrupt
<1>7. CASE Serve
  BY <1>7 DEF Serve
<1> QED BY <1>1, <1>2, <1>3, <1>4, <1>5, <1>6, <1>7 DEF ClientMain, Handler

\* A cancellation strikes a thread wherever it is.
LEMMA StrikeKeeps ==
  ASSUME ClientInv, NEW t \in Workers, Strike(t)
  PROVE  ClientInv'
<1> USE DEF ClientInv, ClientTypeOK, CreateInv, PointerInv, Creating, Workers, Ended
<1>1. main \notin Creating
  BY DEF Strike
<1>2. ~doubleFree'
  BY DEF Strike
<1>3. CASE t = "writer"
  BY <1>1, <1>2, <1>3 DEF Strike, GoOn
<1>4. CASE t = "reader"
  BY <1>1, <1>2, <1>4 DEF Strike, GoOn
<1> QED BY <1>3, <1>4

LEMMA WriterKeeps ==
  ASSUME ClientInv, Type \/ Quit \/ Send \/ SendFails
  PROVE  ClientInv'
<1> USE DEF ClientInv, ClientTypeOK, CreateInv, PointerInv, Creating, Workers, Ended
<1>1. CASE Type
  BY <1>1 DEF Type, Runs, GoOn
<1>2. CASE Quit
  BY <1>2 DEF Quit, Runs, GoOn
<1>3. CASE Send
  BY <1>3 DEF Send, Runs, GoOn
<1>4. CASE SendFails
  BY <1>4 DEF SendFails, Runs, GoOn
<1> QED BY <1>1, <1>2, <1>3, <1>4

LEMMA ReaderKeeps ==
  ASSUME ClientInv, GetSize \/ NoSize \/ GetMessage \/ NoMessage \/ Show
  PROVE  ClientInv'
<1> USE DEF ClientInv, ClientTypeOK, CreateInv, PointerInv, Creating, Workers, Ended
<1>1. CASE GetSize
  BY <1>1 DEF GetSize, Runs, GoOn
<1>2. CASE NoSize
  BY <1>2 DEF NoSize, Runs, GoOn
<1>3. CASE GetMessage
  BY <1>3 DEF GetMessage, Runs, GoOn
<1>4. CASE NoMessage
  BY <1>4 DEF NoMessage, Runs, GoOn
<1>5. CASE Show
  BY <1>5 DEF Show, Runs, GoOn
<1> QED BY <1>1, <1>2, <1>3, <1>4, <1>5

LEMMA ClientNextInv == ClientInv /\ [ClientNext]_clientVars => ClientInv'
<1> SUFFICES ASSUME ClientInv, [ClientNext]_clientVars PROVE ClientInv'
  OBVIOUS
<1>1. CASE ClientMain \/ Handler \/ Interrupt \/ Serve
  BY <1>1, MainKeeps
<1>2. CASE Writer \/ Type \/ Quit
  BY <1>2, WriterKeeps, StrikeKeeps DEF Writer, Workers
<1>3. CASE Reader
  BY <1>3, ReaderKeeps, StrikeKeeps DEF Reader, Workers
<1>4. CASE UNCHANGED clientVars
  BY <1>4 DEF clientVars, ClientInv, ClientTypeOK, CreateInv, PointerInv
<1> QED BY <1>1, <1>2, <1>3, <1>4 DEF ClientNext

(***************************************************************************)
(* The chat client's buffers are freed once and none is left behind,       *)
(* wherever the cancellation strikes and in whichever thread the signal    *)
(* handler runs: a thread's pointers are NULL wherever it holds nothing.   *)
(***************************************************************************)
THEOREM FreedOnceCorrect == ClientSpec => []BuffersFreedOnce
<1>1. ClientInv => BuffersFreedOnce
  BY DEF ClientInv, ClientTypeOK, PointerInv, BuffersFreedOnce, Workers
<1>2. ClientSpec => []ClientInv
  BY ClientInitInv, ClientNextInv, PTL DEF ClientSpec
<1> QED BY <1>1, <1>2, PTL

-----------------------------------------------------------------------------
(***************************************************************************)
(* The first password cracker.                                             *)
(***************************************************************************)
Working(t) == loc[t] \in {"try", "found", "missed"}
Queued(j) == \E i \in DOMAIN jobs : jobs[i] = j
IsReported(j) == \E i \in DOMAIN reports : reports[i].job = j
Right(j, result, hashes) ==
    /\ result = (IF j \in C1!Reportable THEN "found" ELSE "missed")
    /\ hashes = (IF j \in C1!Reportable THEN input[j] + 1 ELSE Strings1)

Reports == [job : Nat, result : {"found", "missed"}, hashes : Nat]
Places == {"none", "pull", "try", "found", "missed", "null", "exit"}

WorkTypeOK ==
    /\ input \in Seq((0..Strings1 - 1) \union {None})
    /\ jobs \in Seq(Nat)
    /\ parent \in {"read", "create", "join", "done"}
    /\ total \in Nat /\ cracked \in Nat
    /\ ended \subseteq Crackers
    /\ loc \in [Crackers -> Places]
    /\ task \in [Crackers -> Nat] /\ key \in [Crackers -> Nat]
    /\ hash_count \in [Crackers -> Nat] /\ num_found \in [Crackers -> Nat]
    /\ reports \in Seq(Reports)

StageInv ==
    /\ parent = "read" => /\ jobs = <<>> /\ reports = <<>> /\ total = 0
                          /\ \A t \in Crackers : loc[t] = "none"
    /\ parent # "read" => total = Len(input)
    /\ parent = "done" => ended = Crackers /\ Crackers # {}
    /\ \A t \in ended : loc[t] = "exit"

\* The NULL is the last in the queue, or in the hands of one thread when the
\* queue is empty.
NullInv ==
    parent # "read" =>
      /\ NoRepeat(jobs)
      /\ \A t, u \in Crackers : loc[t] = "null" /\ loc[u] = "null" => t = u
      /\ \A t \in Crackers : loc[t] = "null" => jobs = <<>>
      /\ (\A t \in Crackers : loc[t] # "null") => jobs # <<>> /\ jobs[Len(jobs)] = 0
      /\ \A t \in Crackers : loc[t] \in {"null", "exit"} => \A i \in DOMAIN jobs : jobs[i] = 0

\* Every job is in one place.
JobInv ==
    /\ \A t \in Crackers : Working(t) =>
         /\ task[t] \in 1..total /\ ~Queued(task[t]) /\ ~IsReported(task[t])
         /\ \A u \in Crackers : Working(u) /\ task[u] = task[t] => u = t
    /\ \A i \in DOMAIN reports : reports[i].job \in 1..total /\ ~Queued(reports[i].job)
    /\ \A i, k \in DOMAIN reports : reports[i].job = reports[k].job => i = k
    /\ parent # "read" =>
         \A j \in 1..total : \/ Queued(j) \/ IsReported(j)
                             \/ \E t \in Crackers : Working(t) /\ task[t] = j
    /\ \A i \in DOMAIN jobs : jobs[i] \in 0..total

\* A thread has tried the strings up to key.
KeyInv ==
    /\ \A t \in Crackers :
         /\ loc[t] = "try" => /\ key[t] < Strings1 /\ hash_count[t] = key[t] + 1
                              /\ task[t] \in C1!Reportable => input[task[t]] > key[t]
         /\ loc[t] \in {"found", "missed"} => Right(task[t], loc[t], hash_count[t])
    /\ \A i \in DOMAIN reports : Right(reports[i].job, reports[i].result, reports[i].hashes)

\* The counts of the threads add up to the reports: some thread made each.
FoundBy(by, S) == {i \in DOMAIN reports : by[i] \in S /\ reports[i].result = "found"}
FoundInv ==
    \E by \in [DOMAIN reports -> Crackers] :
      /\ \A t \in Crackers : num_found[t] = Cardinality(FoundBy(by, {t}))
      /\ cracked = Cardinality(FoundBy(by, ended))

WorkInv == WorkTypeOK /\ StageInv /\ NullInv /\ JobInv /\ KeyInv /\ FoundInv
-----------------------------------------------------------------------------
LEMMA WorkInitInv == C1!Init => WorkInv
<1> SUFFICES ASSUME C1!Init PROVE WorkInv
  OBVIOUS
<1>1. input \in Seq((0..Strings1 - 1) \union {None}) /\ reports = <<>> /\ jobs = <<>>
      /\ DOMAIN reports = {} /\ DOMAIN jobs = {}
  BY WorkSharingAssumption DEF C1!Init
<1>2. WorkTypeOK
  BY <1>1 DEF C1!Init, C1!NULL, WorkTypeOK, Places
<1>3. StageInv /\ NullInv /\ KeyInv
  BY <1>1 DEF C1!Init, StageInv, NullInv, KeyInv
<1>4. JobInv
  BY <1>1 DEF C1!Init, JobInv, Working
<1>5. FoundInv
  <2> DEFINE by == [i \in {} |-> CHOOSE t \in Crackers : TRUE]
  <2>1. by \in [DOMAIN reports -> Crackers]
    BY <1>1
  <2>2. \A S : FoundBy(by, S) = {}
    BY <1>1 DEF FoundBy
  <2>3. \A t \in Crackers : num_found[t] = 0
    BY DEF C1!Init
  <2>4. cracked = 0
    BY DEF C1!Init
  <2> HIDE DEF by
  <2> QED BY <2>1, <2>2, <2>3, <2>4, FS_EmptySet DEF FoundInv
<1> QED BY <1>2, <1>3, <1>4, <1>5 DEF WorkInv

\* A step without a report and without a join keeps the counts.
LEMMA FoundStays ==
  ASSUME FoundInv, UNCHANGED <<reports, num_found, cracked, ended>>
  PROVE  FoundInv'
<1>1. PICK by \in [DOMAIN reports -> Crackers] :
        /\ \A t \in Crackers : num_found[t] = Cardinality(FoundBy(by, {t}))
        /\ cracked = Cardinality(FoundBy(by, ended))
  BY DEF FoundInv
<1>2. \A S : FoundBy(by, S)' = FoundBy(by, S)
  BY DEF FoundBy
<1>3. /\ \A t \in Crackers : num_found'[t] = Cardinality(FoundBy(by, {t})')
      /\ cracked' = Cardinality(FoundBy(by, ended)')
  BY <1>1, <1>2
<1> QED BY <1>1, <1>3 DEF FoundInv

LEMMA LoadKeeps == ASSUME WorkInv, C1!Load PROVE WorkInv'
<1> USE DEF C1!search
<1>1. PICK n : n = Len(input)
  OBVIOUS
<1>2. n \in Nat
  BY <1>1 DEF WorkInv, WorkTypeOK
<1>3. /\ jobs' \in Seq(Nat) /\ Len(jobs') = n + 1 /\ DOMAIN jobs' = 1..n + 1
      /\ \A i \in 1..n + 1 : jobs'[i] = IF i <= n THEN i ELSE 0
  <2>1. jobs' = [i \in 1..n |-> i] \o <<0>>
    BY <1>1 DEF C1!Load, C1!NULL
  <2>2. PICK s : s = [i \in 1..n |-> i]
    OBVIOUS
  <2>3. s \in Seq(Nat) /\ Len(s) = n /\ \A i \in 1..n : s[i] = i
    BY <1>2, <2>2
  <2> QED BY <1>2, <2>1, <2>2, <2>3
<1>4. /\ parent = "read" /\ parent' = "create" /\ total' = n
      /\ reports = <<>> /\ DOMAIN reports = {} /\ \A t \in Crackers : loc[t] = "none"
  BY <1>1 DEF C1!Load, WorkInv, StageInv
<1>5. UNCHANGED <<input, cracked, ended, loc, task, key, hash_count, num_found, reports>>
  BY DEF C1!Load
<1>6. WorkTypeOK'
  BY <1>2, <1>3, <1>4, <1>5 DEF WorkInv, WorkTypeOK
<1>7. StageInv'
  BY <1>1, <1>4, <1>5 DEF WorkInv, StageInv
<1>8. NullInv'
  <2>1. NoRepeat(jobs')
    BY <1>2, <1>3 DEF NoRepeat
  <2>2. jobs' # <<>> /\ jobs'[Len(jobs')] = 0
    BY <1>2, <1>3
  <2> QED BY <2>1, <2>2, <1>4, <1>5 DEF NullInv
<1>9. JobInv'
  <2>1. \A j \in 1..n : Queued(j)'
    BY <1>2, <1>3 DEF Queued
  <2>2. \A i \in DOMAIN jobs' : jobs'[i] \in 0..n
    BY <1>2, <1>3
  <2> QED BY <2>1, <2>2, <1>4, <1>5 DEF JobInv, Working
<1>10. KeyInv'
  BY <1>4, <1>5 DEF KeyInv
<1>11. FoundInv'
  BY <1>5, FoundStays DEF WorkInv
<1> QED BY <1>6, <1>7, <1>8, <1>9, <1>10, <1>11 DEF WorkInv

\* A new thread has nothing yet.
LEMMA WorkCreateKeeps == ASSUME WorkInv, C1!Create PROVE WorkInv'
<1> USE DEF C1!search
<1>1. PICK t \in Crackers : loc[t] = "none" /\ loc' = [loc EXCEPT ![t] = "pull"]
  BY DEF C1!Create
<1>2. /\ parent = "create" /\ parent' \in {"create", "join"}
      /\ UNCHANGED <<input, jobs, total, cracked, ended, task, key, hash_count, num_found, reports>>
  BY DEF C1!Create
<1>3. /\ loc' \in [Crackers -> Places] /\ loc'[t] = "pull"
      /\ \A u \in Crackers : u # t => loc'[u] = loc[u]
  BY <1>1 DEF WorkInv, WorkTypeOK, Places
<1>4. WorkTypeOK'
  BY <1>2, <1>3 DEF WorkInv, WorkTypeOK
<1>5. StageInv'
  BY <1>1, <1>2, <1>3 DEF WorkInv, StageInv, WorkTypeOK
<1>6. NullInv'
  BY <1>1, <1>2, <1>3 DEF WorkInv, NullInv, NoRepeat
<1>7. JobInv'
  <2>1. \A u \in Crackers : Working(u)' <=> Working(u)
    BY <1>1, <1>3 DEF Working
  <2>2. \A j : (Queued(j)' <=> Queued(j)) /\ (IsReported(j)' <=> IsReported(j))
    BY <1>2 DEF Queued, IsReported
  <2> QED BY <1>2, <2>1, <2>2 DEF WorkInv, JobInv
<1>8. KeyInv'
  BY <1>1, <1>2, <1>3 DEF WorkInv, KeyInv, Right, C1!Reportable
<1>9. FoundInv'
  BY <1>2, FoundStays DEF WorkInv
<1> QED BY <1>4, <1>5, <1>6, <1>7, <1>8, <1>9 DEF WorkInv

\* The NULL is the last: a thread that pulls it leaves the queue empty.
LEMMA NullIsLast ==
  ASSUME WorkInv, parent # "read", jobs # <<>>, Head(jobs) = 0
  PROVE  Len(jobs) = 1 /\ Tail(jobs) = <<>>
<1>1. jobs \in Seq(Nat) /\ Len(jobs) \in Nat /\ Len(jobs) # 0 /\ DOMAIN jobs = 1..Len(jobs)
  BY DEF WorkInv, WorkTypeOK
<1>2. \A t \in Crackers : loc[t] # "null"
  BY DEF WorkInv, NullInv
<1>3. jobs[Len(jobs)] = 0 /\ NoRepeat(jobs)
  BY <1>2 DEF WorkInv, NullInv
<1>4. jobs[1] = 0
  BY <1>1
<1>5. Len(jobs) = 1
  BY <1>1, <1>3, <1>4 DEF NoRepeat
<1>6. Tail(jobs) \in Seq(Nat) /\ Len(Tail(jobs)) = 0
  BY <1>1, <1>5
<1>7. Tail(jobs) = <<>>
  BY <1>6, EmptySeq
<1> QED BY <1>5, <1>7

LEMMA PullKeeps == ASSUME WorkInv, NEW t \in Crackers, C1!Pull(t) PROVE WorkInv'
<1> USE DEF C1!search
<1>1. /\ loc[t] = "pull" /\ jobs # <<>> /\ jobs' = Tail(jobs)
      /\ UNCHANGED <<input, parent, total, cracked, ended, num_found, reports>>
  BY DEF C1!Pull
<1>2. PICK q, m : q = jobs /\ m = Len(jobs)
  OBVIOUS
<1>3. /\ q \in Seq(Nat) /\ m \in Nat \ {0} /\ DOMAIN q = 1..m /\ Head(q) = q[1]
      /\ jobs' \in Seq(Nat) /\ Len(jobs') = m - 1 /\ DOMAIN jobs' = 1..m - 1
      /\ \A i \in 1..m - 1 : jobs'[i] = q[i + 1]
  BY <1>1, <1>2 DEF WorkInv, WorkTypeOK
<1>4. parent # "read"
  BY <1>1 DEF WorkInv, StageInv
<1>5. FoundInv'
  BY <1>1, FoundStays DEF WorkInv
<1>6. t \notin ended
  BY <1>1 DEF WorkInv, StageInv
<1>7. CASE q[1] = 0
  <2>1. loc' = [loc EXCEPT ![t] = "null"] /\ UNCHANGED <<task, key, hash_count>>
    BY <1>2, <1>3, <1>7 DEF C1!Pull, C1!NULL
  <2>2. m = 1 /\ jobs' = <<>> /\ DOMAIN jobs' = {}
    BY <1>1, <1>2, <1>3, <1>4, <1>7, NullIsLast
  <2>3. /\ loc' \in [Crackers -> Places] /\ loc'[t] = "null"
        /\ \A u \in Crackers : u # t => loc'[u] = loc[u]
    BY <2>1 DEF WorkInv, WorkTypeOK, Places
  <2>4. WorkTypeOK'
    BY <1>1, <1>3, <2>1, <2>3 DEF WorkInv, WorkTypeOK
  <2>5. StageInv'
    BY <1>1, <1>4, <1>6, <2>3 DEF WorkInv, StageInv, WorkTypeOK
  <2>6. NullInv'
    <3>1. \A u \in Crackers : loc[u] # "null"
      BY <1>1, <1>4 DEF WorkInv, NullInv
    <3>2. NoRepeat(jobs')
      BY <2>2 DEF NoRepeat
    <3> QED BY <3>1, <3>2, <2>2, <2>3 DEF NullInv
  <2>7. JobInv'
    <3>1. \A u \in Crackers : Working(u)' <=> Working(u)
      BY <1>1, <2>3 DEF Working
    <3>2. \A j : IsReported(j)' <=> IsReported(j)
      BY <1>1 DEF IsReported
    <3>3. \A j \in 1..total : ~Queued(j)
      BY <1>2, <1>3, <1>7, <2>2 DEF Queued
    <3>4. \A j : ~Queued(j)'
      BY <2>2 DEF Queued
    <3> QED BY <1>1, <2>1, <2>2, <3>1, <3>2, <3>3, <3>4 DEF WorkInv, JobInv
  <2>8. KeyInv'
    BY <1>1, <2>1, <2>3 DEF WorkInv, KeyInv, Right, C1!Reportable
  <2> QED BY <2>4, <2>5, <2>6, <2>7, <2>8, <1>5 DEF WorkInv
<1>8. CASE q[1] # 0
  <2>1. /\ loc' = [loc EXCEPT ![t] = "try"] /\ task' = [task EXCEPT ![t] = q[1]]
        /\ key' = [key EXCEPT ![t] = 0] /\ hash_count' = [hash_count EXCEPT ![t] = 1]
    BY <1>2, <1>3, <1>8 DEF C1!Pull, C1!NULL
  <2>2. q[1] \in Nat /\ q[1] \in 1..total /\ total \in Nat
    <3>1. q[1] \in 0..total
      BY <1>2, <1>3 DEF WorkInv, JobInv
    <3> QED BY <3>1, <1>3, <1>8 DEF WorkInv, WorkTypeOK
  <2>3. /\ loc' \in [Crackers -> Places] /\ loc'[t] = "try"
        /\ task' \in [Crackers -> Nat] /\ task'[t] = q[1]
        /\ key' \in [Crackers -> Nat] /\ key'[t] = 0
        /\ hash_count' \in [Crackers -> Nat] /\ hash_count'[t] = 1
        /\ \A u \in Crackers : u # t => /\ loc'[u] = loc[u] /\ task'[u] = task[u] /\ key'[u] = key[u]
                                        /\ hash_count'[u] = hash_count[u]
    BY <2>1, <2>2 DEF WorkInv, WorkTypeOK, Places
  <2>4. WorkTypeOK'
    BY <1>1, <1>3, <2>3 DEF WorkInv, WorkTypeOK
  <2>5. StageInv'
    BY <1>1, <1>4, <1>6, <2>3 DEF WorkInv, StageInv, WorkTypeOK
  <2>6. NoRepeat(q)
    BY <1>2, <1>4 DEF WorkInv, NullInv
  <2>7. \A u \in Crackers : loc[u] \notin {"null", "exit"}
    BY <1>1, <1>2, <1>3, <1>4, <1>8 DEF WorkInv, NullInv
  <2>8. NullInv'
    <3>1. q[m] = 0
      BY <1>2, <1>4, <2>7 DEF WorkInv, NullInv
    <3>2. m # 1
      BY <3>1, <1>8
    <3>3. jobs' # <<>> /\ jobs'[Len(jobs')] = 0
      BY <3>1, <3>2, <1>3
    <3>4. NoRepeat(jobs')
      <4>1. ASSUME NEW i \in 1..m - 1, NEW j \in 1..m - 1, jobs'[i] = jobs'[j] PROVE i = j
        <5>1. i + 1 \in 1..m /\ j + 1 \in 1..m /\ q[i + 1] = q[j + 1]
          BY <4>1, <1>3
        <5>2. i + 1 = j + 1
          BY <5>1, <2>6, <1>3 DEF NoRepeat
        <5> QED BY <5>2
      <4> QED BY <4>1, <1>3 DEF NoRepeat
    <3>5. \A u \in Crackers : loc'[u] \notin {"null", "exit"}
      BY <2>3, <2>7
    <3> QED BY <3>3, <3>4, <3>5 DEF NullInv
  <2>9. JobInv'
    <3>1. \A u \in Crackers : Working(u)' <=> (u = t \/ Working(u))
      BY <1>1, <2>3 DEF Working
    <3>2. ~Working(t)
      BY <1>1 DEF Working
    <3>3. \A j : IsReported(j)' <=> IsReported(j)
      BY <1>1 DEF IsReported
    <3>4. \A j : Queued(j)' <=> Queued(j) /\ j # q[1]
      <4>1. ASSUME NEW j, NEW i \in 1..m - 1, jobs'[i] = j PROVE Queued(j) /\ j # q[1]
        <5>1. i + 1 \in 1..m /\ 1 \in 1..m /\ i + 1 # 1 /\ q[i + 1] = j
          <6>1. i + 1 \in 1..m /\ 1 \in 1..m /\ i + 1 # 1
            BY <1>3
          <6>2. jobs'[i] = q[i + 1]
            BY <1>3
          <6> QED BY <6>1, <6>2, <4>1
        <5>2. q[1] # q[i + 1]
          BY <5>1, <2>6, <1>3 DEF NoRepeat
        <5> QED BY <5>1, <5>2, <1>2, <1>3 DEF Queued
      <4>2. ASSUME NEW j, NEW i \in 1..m, q[i] = j, j # q[1] PROVE Queued(j)'
        <5>1. i - 1 \in 1..m - 1 /\ jobs'[i - 1] = j
          BY <4>2, <1>3
        <5> QED BY <5>1, <1>3 DEF Queued
      <4> QED BY <4>1, <4>2, <1>2, <1>3 DEF Queued
    <3>5. Queued(q[1])
      BY <1>2, <1>3 DEF Queued
    <3>6. ~IsReported(q[1])
      BY <3>5 DEF WorkInv, JobInv, IsReported
    <3>7. \A u \in Crackers : Working(u) => task[u] # q[1]
      BY <3>5 DEF WorkInv, JobInv
    <3>8. ASSUME NEW u \in Crackers, Working(u)'
          PROVE  /\ (task[u] \in 1..total)' /\ ~Queued(task[u])' /\ ~IsReported(task[u])'
                 /\ \A v \in Crackers : Working(v)' /\ task'[v] = task'[u] => v = u
      <4>1. PICK k : k = task'[u]
        OBVIOUS
      <4>2. k \in 1..total /\ ~Queued(k)' /\ ~IsReported(k)'
        BY <4>1, <3>1, <3>3, <3>4, <3>6, <3>8, <2>2, <2>3 DEF WorkInv, JobInv
      <4>3. ASSUME NEW v \in Crackers, Working(v)', task'[v] = task'[u] PROVE v = u
        BY <4>3, <3>1, <3>2, <3>7, <3>8, <2>3 DEF WorkInv, JobInv
      <4> QED BY <4>1, <4>2, <4>3, <1>1 DEF Queued, IsReported
    <3>9. (\A i \in DOMAIN reports : reports[i].job \in 1..total /\ ~Queued(reports[i].job))'
      <4>1. \A i \in DOMAIN reports : reports[i].job \in 1..total /\ ~Queued(reports[i].job)
        BY DEF WorkInv, JobInv
      <4>2. ASSUME NEW i \in DOMAIN reports, NEW j, j = reports[i].job PROVE ~Queued(j)'
        BY <4>1, <4>2, <3>4
      <4> QED BY <4>1, <4>2, <1>1 DEF Queued
    <3>10. ASSUME NEW j \in 1..total
           PROVE  \/ Queued(j)' \/ IsReported(j)'
                  \/ \E u \in Crackers : Working(u)' /\ task'[u] = j
      <4>1. CASE Queued(j)
        BY <4>1, <3>1, <3>4, <2>3
      <4>2. CASE IsReported(j)
        BY <4>2, <3>3
      <4>3. CASE \E u \in Crackers : Working(u) /\ task[u] = j
        BY <4>3, <3>1, <3>2, <2>3
      <4> QED BY <4>1, <4>2, <4>3, <1>4 DEF WorkInv, JobInv
    <3>11. \A i \in DOMAIN jobs' : jobs'[i] \in 0..total
      <4>1. \A i \in 1..m : q[i] \in 0..total
        BY <1>2, <1>3 DEF WorkInv, JobInv
      <4>2. \A i \in 1..m - 1 : i + 1 \in 1..m
        BY <1>3
      <4> QED BY <4>1, <4>2, <1>3
    <3>12. \A i, k \in DOMAIN reports : reports[i].job = reports[k].job => i = k
      BY DEF WorkInv, JobInv
    <3> QED BY <3>8, <3>9, <3>10, <3>11, <3>12, <1>1 DEF JobInv
  <2>10. KeyInv'
    <3>1. C1!Reportable' = C1!Reportable /\ \A j, r, h : Right(j, r, h)' <=> Right(j, r, h)
      BY <1>1 DEF C1!Reportable, Right
    <3>2. \A j \in C1!Reportable : input[j] > 0
      BY DEF C1!Reportable
    <3>3. Strings1 \in Nat \ {0}
      BY WorkSharingAssumption
    <3>4. ASSUME NEW u \in Crackers, u # t, loc[u] \in {"found", "missed"}
          PROVE  Right(task[u], loc[u], hash_count[u])'
      <4>1. Right(task[u], loc[u], hash_count[u])
        BY <3>4 DEF WorkInv, KeyInv
      <4> QED BY <4>1, <3>1, <3>4, <1>1, <2>3 DEF Right
    <3>5. (\A i \in DOMAIN reports : Right(reports[i].job, reports[i].result, reports[i].hashes))'
      BY <3>1, <1>1 DEF WorkInv, KeyInv, Right
    <3>6. ASSUME NEW u \in Crackers, loc'[u] = "try"
          PROVE  /\ key'[u] < Strings1 /\ hash_count'[u] = key'[u] + 1
                 /\ task'[u] \in C1!Reportable => input[task'[u]] > key'[u]
      <4>1. CASE u = t
        BY <4>1, <3>2, <3>3, <2>3
      <4>2. CASE u # t
        BY <4>2, <3>6, <2>3 DEF WorkInv, KeyInv
      <4> QED BY <4>1, <4>2
    <3> QED BY <3>1, <3>4, <3>5, <3>6, <1>1, <2>3 DEF KeyInv
  <2> QED BY <2>4, <2>5, <2>8, <2>9, <2>10, <1>5 DEF WorkInv
<1> QED BY <1>7, <1>8

\* What the actions of a thread at one job keep: its job stays where it is.
LEMMA TryKeeps == ASSUME WorkInv, NEW t \in Crackers, C1!Try(t) PROVE WorkInv'
<1> USE DEF C1!search
<1>1. /\ loc[t] = "try" /\ key' = [key EXCEPT ![t] = (key[t] + 1) % Strings1]
      /\ UNCHANGED <<input, jobs, parent, total, cracked, ended, task, num_found, reports>>
  BY DEF C1!Try
<1>2. PICK k, h, p : k = key[t] /\ h = hash_count[t] /\ p = input[task[t]]
  OBVIOUS
<1>3. /\ k \in Nat /\ k < Strings1 /\ h = k + 1
      /\ task[t] \in C1!Reportable => p > k
  BY <1>1, <1>2 DEF WorkInv, WorkTypeOK, KeyInv
<1>4. Strings1 \in Nat \ {0} /\ None \notin Nat
  BY WorkSharingAssumption
<1>5. task[t] \in DOMAIN input /\ p \in (0..Strings1 - 1) \union {None}
  <2>1. parent # "read"
    BY <1>1 DEF WorkInv, StageInv
  <2>2. task[t] \in 1..Len(input)
    BY <1>1, <2>1 DEF WorkInv, StageInv, JobInv, Working
  <2> QED BY <2>2, <1>2 DEF WorkInv, WorkTypeOK
<1>6. /\ (k + 1) % Strings1 = (IF k + 1 = Strings1 THEN 0 ELSE k + 1)
      /\ (k + 1) % Strings1 \in Nat
  BY <1>3, <1>4
<1>7. PICK n : n = (k + 1) % Strings1
  OBVIOUS
<1>8. /\ key' = [key EXCEPT ![t] = n] /\ key'[t] = n /\ key' \in [Crackers -> Nat]
      /\ n = (IF k + 1 = Strings1 THEN 0 ELSE k + 1) /\ n \in Nat
  BY <1>1, <1>2, <1>6, <1>7 DEF WorkInv, WorkTypeOK
<1>9. PICK l, c : /\ l = (IF n = 0 THEN "missed" ELSE IF n = p THEN "found" ELSE "try")
                  /\ c = (IF n = 0 THEN h ELSE h + 1)
  OBVIOUS
<1>10. l \in {"try", "found", "missed"} /\ c \in Nat
  BY <1>3, <1>9
<1>11. /\ loc' \in [Crackers -> Places] /\ loc'[t] = l
       /\ hash_count' \in [Crackers -> Nat] /\ hash_count'[t] = c
       /\ \A u \in Crackers : u # t => loc'[u] = loc[u] /\ hash_count'[u] = hash_count[u]
  <2>1. loc' = [loc EXCEPT ![t] = l] /\ hash_count' = [hash_count EXCEPT ![t] = c]
    <3>1. CASE n = 0
      <4>1. loc' = [loc EXCEPT ![t] = "missed"] /\ hash_count' = hash_count
        BY <1>8, <3>1 DEF C1!Try
      <4> QED BY <4>1, <3>1, <1>2, <1>9 DEF WorkInv, WorkTypeOK
    <3>2. CASE n # 0
      <4>1. /\ loc' = [loc EXCEPT ![t] = IF key'[t] = input[task[t]] THEN "found" ELSE "try"]
            /\ hash_count' = [hash_count EXCEPT ![t] = hash_count[t] + 1]
        BY <1>8, <3>2 DEF C1!Try
      <4> QED BY <4>1, <3>2, <1>2, <1>8, <1>9
    <3> QED BY <3>1, <3>2
  <2> QED BY <2>1, <1>10 DEF WorkInv, WorkTypeOK, Places
<1>12. \A u \in Crackers : u # t => key'[u] = key[u]
  BY <1>8 DEF WorkInv, WorkTypeOK
<1>13. WorkTypeOK'
  BY <1>1, <1>8, <1>11 DEF WorkInv, WorkTypeOK
<1>14. StageInv'
  BY <1>1, <1>10, <1>11 DEF WorkInv, StageInv, WorkTypeOK
<1>15. NullInv'
  BY <1>1, <1>10, <1>11 DEF WorkInv, NullInv, NoRepeat
<1>16. JobInv'
  <2>1. \A u \in Crackers : Working(u)' <=> Working(u)
    BY <1>1, <1>10, <1>11 DEF Working
  <2>2. \A j : (Queued(j)' <=> Queued(j)) /\ (IsReported(j)' <=> IsReported(j))
    BY <1>1 DEF Queued, IsReported
  <2> QED BY <1>1, <2>1, <2>2 DEF WorkInv, JobInv
<1>17. KeyInv'
  <2>1. C1!Reportable' = C1!Reportable
    BY <1>1 DEF C1!Reportable
  <2>2. task[t] \in C1!Reportable <=> p # None /\ p > 0
    BY <1>2, <1>5 DEF C1!Reportable
  <2>3. l = "try" => /\ n < Strings1 /\ c = n + 1
                     /\ task[t] \in C1!Reportable => p > n
    BY <1>3, <1>4, <1>5, <1>8, <1>9, <2>2
  <2>4. l = "missed" => task[t] \notin C1!Reportable /\ c = Strings1
    BY <1>3, <1>4, <1>5, <1>8, <1>9, <2>2
  <2>5. l = "found" => task[t] \in C1!Reportable /\ c = p + 1
    BY <1>3, <1>4, <1>5, <1>8, <1>9, <2>2
  <2>6. l \in {"found", "missed"} => Right(task[t], loc[t], hash_count[t])'
    BY <2>1, <2>4, <2>5, <1>1, <1>2, <1>11 DEF Right
  <2>7. ASSUME NEW u \in Crackers, u # t, loc[u] \in {"found", "missed"}
        PROVE  Right(task[u], loc[u], hash_count[u])'
    <3>1. Right(task[u], loc[u], hash_count[u])
      BY <2>7 DEF WorkInv, KeyInv
    <3> QED BY <3>1, <2>1, <2>7, <1>1, <1>11 DEF Right
  <2>8. (\A i \in DOMAIN reports : Right(reports[i].job, reports[i].result, reports[i].hashes))'
    BY <2>1, <1>1 DEF WorkInv, KeyInv, Right
  <2>9. ASSUME NEW u \in Crackers, loc'[u] = "try"
        PROVE  /\ key'[u] < Strings1 /\ hash_count'[u] = key'[u] + 1
               /\ task[u] \in C1!Reportable => input[task[u]] > key'[u]
    <3>1. CASE u = t
      BY <3>1, <2>3, <2>9, <1>2, <1>8, <1>11
    <3>2. CASE u # t
      BY <3>2, <2>9, <1>11, <1>12 DEF WorkInv, KeyInv
    <3> QED BY <3>1, <3>2
  <2> QED BY <2>1, <2>6, <2>7, <2>8, <2>9, <1>1, <1>11 DEF KeyInv
<1>18. FoundInv'
  BY <1>1, FoundStays DEF WorkInv
<1> QED BY <1>13, <1>14, <1>15, <1>16, <1>17, <1>18 DEF WorkInv

LEMMA PassOnKeeps == ASSUME WorkInv, NEW t \in Crackers, C1!PassOn(t) PROVE WorkInv'
<1> USE DEF C1!search
<1>1. /\ loc[t] = "null" /\ jobs' = Append(jobs, 0) /\ loc' = [loc EXCEPT ![t] = "exit"]
      /\ UNCHANGED <<input, parent, total, cracked, ended, task, key, hash_count, num_found, reports>>
  BY DEF C1!PassOn, C1!NULL
<1>2. parent # "read"
  BY <1>1 DEF WorkInv, StageInv
<1>3. jobs = <<>>
  BY <1>1, <1>2 DEF WorkInv, NullInv
<1>4. jobs' = <<0>> /\ Len(jobs') = 1 /\ DOMAIN jobs' = {1} /\ jobs'[1] = 0 /\ jobs' \in Seq(Nat)
  BY <1>1, <1>3
<1>5. /\ loc' \in [Crackers -> Places] /\ loc'[t] = "exit"
      /\ \A u \in Crackers : u # t => loc'[u] = loc[u]
  BY <1>1 DEF WorkInv, WorkTypeOK, Places
<1>6. WorkTypeOK'
  BY <1>1, <1>4, <1>5 DEF WorkInv, WorkTypeOK
<1>7. StageInv'
  BY <1>1, <1>2, <1>5 DEF WorkInv, StageInv, WorkTypeOK
<1>8. NullInv'
  <2>1. \A u \in Crackers : loc'[u] # "null"
    BY <1>1, <1>2, <1>5 DEF WorkInv, NullInv
  <2>2. NoRepeat(jobs') /\ jobs' # <<>> /\ jobs'[Len(jobs')] = 0
    BY <1>4 DEF NoRepeat
  <2>3. \A i \in DOMAIN jobs' : jobs'[i] = 0
    BY <1>4
  <2> QED BY <2>1, <2>2, <2>3 DEF NullInv
<1>9. JobInv'
  <2>1. \A u \in Crackers : Working(u)' <=> Working(u)
    BY <1>1, <1>5 DEF Working
  <2>2. \A j : IsReported(j)' <=> IsReported(j)
    BY <1>1 DEF IsReported
  <2>3. total \in Nat
    BY DEF WorkInv, WorkTypeOK
  <2>4. \A j \in 1..total : ~Queued(j) /\ ~Queued(j)'
    BY <1>3, <1>4, <2>3 DEF Queued
  <2>5. ASSUME NEW u \in Crackers, Working(u)
        PROVE  (/\ task[u] \in 1..total /\ ~Queued(task[u]) /\ ~IsReported(task[u])
                /\ \A v \in Crackers : Working(v) /\ task[v] = task[u] => v = u)'
    <3>1. /\ task[u] \in 1..total /\ ~IsReported(task[u])
          /\ \A v \in Crackers : Working(v) /\ task[v] = task[u] => v = u
      BY <2>5 DEF WorkInv, JobInv
    <3> QED BY <3>1, <2>1, <2>2, <2>4, <1>1
  <2>6. (\A i \in DOMAIN reports : reports[i].job \in 1..total /\ ~Queued(reports[i].job))'
    <3>1. \A i \in DOMAIN reports : reports[i].job \in 1..total
      BY DEF WorkInv, JobInv
    <3> QED BY <3>1, <2>4, <1>1
  <2>7. \A i, k \in DOMAIN reports : reports[i].job = reports[k].job => i = k
    BY DEF WorkInv, JobInv
  <2>8. ASSUME NEW j \in 1..total
        PROVE  IsReported(j) \/ \E u \in Crackers : Working(u) /\ task[u] = j
    BY <2>4, <1>2 DEF WorkInv, JobInv
  <2>9. \A i \in DOMAIN jobs' : jobs'[i] \in 0..total
    BY <1>4, <2>3
  <2> QED BY <1>1, <2>1, <2>2, <2>5, <2>6, <2>7, <2>8, <2>9 DEF JobInv
<1>10. KeyInv'
  <2>1. C1!Reportable' = C1!Reportable
    BY <1>1 DEF C1!Reportable
  <2> QED BY <2>1, <1>1, <1>5 DEF WorkInv, KeyInv, Right
<1>11. FoundInv'
  BY <1>1, FoundStays DEF WorkInv
<1> QED BY <1>6, <1>7, <1>8, <1>9, <1>10, <1>11 DEF WorkInv

\* The thread that reports is the one the report is counted for.
LEMMA FoundMore ==
  ASSUME WorkInv, NEW t \in Crackers, t \notin ended, NEW r \in Reports,
         reports' = Append(reports, r),
         num_found' = [num_found EXCEPT ![t] = IF r.result = "found" THEN @ + 1 ELSE @],
         UNCHANGED <<cracked, ended>>
  PROVE  FoundInv'
<1>1. PICK by \in [DOMAIN reports -> Crackers] :
        /\ \A u \in Crackers : num_found[u] = Cardinality(FoundBy(by, {u}))
        /\ cracked = Cardinality(FoundBy(by, ended))
  BY DEF WorkInv, FoundInv
<1>2. PICK n : n = Len(reports)
  OBVIOUS
<1>3. reports \in Seq(Reports) /\ n \in Nat /\ DOMAIN reports = 1..n
  BY <1>2 DEF WorkInv, WorkTypeOK
<1>4. /\ DOMAIN reports' = 1..n + 1 /\ reports'[n + 1] = r
      /\ \A i \in 1..n : reports'[i] = reports[i]
  BY <1>2, <1>3
<1> DEFINE more == [i \in 1..n + 1 |-> IF i = n + 1 THEN t ELSE by[i]]
<1>5. more \in [1..n + 1 -> Crackers] /\ more[n + 1] = t /\ \A i \in 1..n : more[i] = by[i]
  BY <1>1, <1>3
<1> HIDE DEF more
<1>6. ASSUME NEW S
      PROVE  FoundBy(more, S)' = FoundBy(by, S) \union
               (IF t \in S /\ r.result = "found" THEN {n + 1} ELSE {})
  <2>1. FoundBy(more, S)' = {i \in 1..n + 1 : more[i] \in S /\ reports'[i].result = "found"}
    BY <1>4 DEF FoundBy
  <2>2. FoundBy(by, S) = {i \in 1..n : by[i] \in S /\ reports[i].result = "found"}
    BY <1>3 DEF FoundBy
  <2>3. 1..n + 1 = (1..n) \union {n + 1} /\ n + 1 \notin 1..n
    BY <1>3
  <2> QED BY <2>1, <2>2, <2>3, <1>4, <1>5
<1>7. \A S : IsFiniteSet(FoundBy(by, S)) /\ n + 1 \notin FoundBy(by, S)
  <2>1. \A S : FoundBy(by, S) \subseteq 1..n
    BY <1>3 DEF FoundBy
  <2>2. IsFiniteSet(1..n)
    BY <1>3, FS_Interval
  <2>3. n + 1 \notin 1..n
    BY <1>3
  <2> QED BY <2>1, <2>2, <2>3, FS_Subset
<1>8. ASSUME NEW u \in Crackers PROVE num_found'[u] = Cardinality(FoundBy(more, {u})')
  <2>1. PICK F : F = FoundBy(by, {u})
    OBVIOUS
  <2>2. num_found[u] = Cardinality(F) /\ IsFiniteSet(F) /\ n + 1 \notin F
    BY <2>1, <1>1, <1>7
  <2>3. CASE u = t /\ r.result = "found"
    <3>1. FoundBy(more, {u})' = F \union {n + 1}
      BY <2>1, <2>3, <1>6
    <3>2. Cardinality(F \union {n + 1}) = Cardinality(F) + 1
      BY <2>2, FS_AddElement
    <3>3. num_found'[u] = num_found[u] + 1
      BY <2>3 DEF WorkInv, WorkTypeOK
    <3> QED BY <2>2, <3>1, <3>2, <3>3
  <2>4. CASE ~(u = t /\ r.result = "found")
    <3>1. FoundBy(more, {u})' = F
      <4>1. ~(t \in {u} /\ r.result = "found")
        BY <2>4
      <4>2. FoundBy(more, {u})' = FoundBy(by, {u}) \union {}
        BY <4>1, <1>6
      <4> QED BY <4>2, <2>1
    <3>2. num_found'[u] = num_found[u]
      BY <2>4 DEF WorkInv, WorkTypeOK
    <3> QED BY <2>2, <3>1, <3>2
  <2> QED BY <2>3, <2>4
<1>9. cracked' = Cardinality(FoundBy(more, ended)')
  <2>1. PICK E : E = ended
    OBVIOUS
  <2>2. FoundBy(more, E)' = FoundBy(by, E) /\ ended' = E
    BY <2>1, <1>6
  <2>3. FoundBy(more, ended)' = FoundBy(more, E)'
    BY <2>2 DEF FoundBy
  <2> QED BY <2>1, <2>2, <2>3, <1>1
<1> QED BY <1>4, <1>5, <1>8, <1>9 DEF FoundInv

LEMMA ReportKeeps == ASSUME WorkInv, NEW t \in Crackers, C1!Report(t) PROVE WorkInv'
<1> USE DEF C1!search
<1>1. PICK r : r = [job |-> task[t], result |-> loc[t], hashes |-> hash_count[t]]
  OBVIOUS
<1>2. /\ loc[t] \in {"found", "missed"} /\ loc' = [loc EXCEPT ![t] = "pull"]
      /\ reports' = Append(reports, r)
      /\ UNCHANGED <<input, jobs, parent, total, cracked, ended, task, key, hash_count>>
  BY <1>1 DEF C1!Report
<1>3. /\ r \in Reports /\ r.job = task[t] /\ r.result = loc[t] /\ r.hashes = hash_count[t]
  BY <1>1, <1>2 DEF WorkInv, WorkTypeOK, Reports
<1>4. num_found' = [num_found EXCEPT ![t] = IF r.result = "found" THEN @ + 1 ELSE @]
  BY <1>3 DEF C1!Report
<1>5. t \notin ended /\ parent # "read"
  BY <1>2 DEF WorkInv, StageInv
<1>6. FoundInv'
  BY <1>2, <1>3, <1>4, <1>5, FoundMore
<1>7. PICK n : n = Len(reports)
  OBVIOUS
<1>8. reports \in Seq(Reports) /\ n \in Nat /\ DOMAIN reports = 1..n
  BY <1>7 DEF WorkInv, WorkTypeOK
<1>9. /\ reports' \in Seq(Reports) /\ DOMAIN reports' = 1..n + 1 /\ reports'[n + 1] = r
      /\ \A i \in 1..n : reports'[i] = reports[i]
      /\ 1..n + 1 = (1..n) \union {n + 1} /\ n + 1 \notin 1..n
  BY <1>2, <1>3, <1>7, <1>8
<1>10. /\ loc' \in [Crackers -> Places] /\ loc'[t] = "pull"
       /\ \A u \in Crackers : u # t => loc'[u] = loc[u]
  BY <1>2 DEF WorkInv, WorkTypeOK, Places
<1>11. num_found' \in [Crackers -> Nat]
  BY <1>4 DEF WorkInv, WorkTypeOK
<1>12. WorkTypeOK'
  BY <1>2, <1>9, <1>10, <1>11 DEF WorkInv, WorkTypeOK
<1>13. StageInv'
  BY <1>2, <1>5, <1>10 DEF WorkInv, StageInv, WorkTypeOK
<1>14. NullInv'
  BY <1>2, <1>10 DEF WorkInv, NullInv, NoRepeat
<1>15. JobInv'
  <2>1. \A u \in Crackers : Working(u)' <=> Working(u) /\ u # t
    BY <1>2, <1>10 DEF Working
  <2>2. \A j : Queued(j)' <=> Queued(j)
    BY <1>2 DEF Queued
  <2>3. \A j : IsReported(j)' <=> IsReported(j) \/ j = task[t]
    BY <1>3, <1>8, <1>9 DEF IsReported
  <2>4. Working(t)
    BY <1>2 DEF Working
  <2>5. /\ task[t] \in 1..total /\ ~Queued(task[t]) /\ ~IsReported(task[t])
        /\ \A u \in Crackers : Working(u) /\ task[u] = task[t] => u = t
    BY <2>4 DEF WorkInv, JobInv
  <2>6. ASSUME NEW u \in Crackers, Working(u)'
        PROVE  (/\ task[u] \in 1..total /\ ~Queued(task[u]) /\ ~IsReported(task[u])
                /\ \A v \in Crackers : Working(v) /\ task[v] = task[u] => v = u)'
    <3>1. Working(u) /\ u # t /\ task[u] # task[t]
      BY <2>1, <2>5, <2>6
    <3>2. /\ task[u] \in 1..total /\ ~Queued(task[u]) /\ ~IsReported(task[u])
          /\ \A v \in Crackers : Working(v) /\ task[v] = task[u] => v = u
      BY <3>1 DEF WorkInv, JobInv
    <3>3. PICK k : k = task[u]
      OBVIOUS
    <3>4. ~Queued(k)' /\ ~IsReported(k)' /\ task'[u] = k
      BY <3>1, <3>2, <3>3, <2>2, <2>3, <1>2
    <3> QED BY <3>2, <3>3, <3>4, <2>1, <1>2 DEF Queued, IsReported
  <2>7. (\A i \in DOMAIN reports : reports[i].job \in 1..total /\ ~Queued(reports[i].job))'
    <3>1. \A i \in 1..n : reports[i].job \in 1..total /\ ~Queued(reports[i].job)
      BY <1>8 DEF WorkInv, JobInv
    <3>2. \A i \in 1..n + 1 : reports'[i].job \in 1..total
      BY <3>1, <2>5, <1>3, <1>9
    <3>3. ASSUME NEW i \in 1..n + 1, NEW k, k = reports'[i].job PROVE ~Queued(k)'
      BY <3>1, <3>3, <2>2, <2>5, <1>3, <1>9
    <3> QED BY <3>2, <3>3, <1>2, <1>9 DEF Queued
  <2>8. (\A i, k \in DOMAIN reports : reports[i].job = reports[k].job => i = k)'
    <3>1. \A i, k \in 1..n : reports[i].job = reports[k].job => i = k
      BY <1>8 DEF WorkInv, JobInv
    <3>2. \A i \in 1..n : reports[i].job # task[t]
      BY <2>5, <1>8 DEF IsReported
    <3> QED BY <3>1, <3>2, <1>3, <1>9
  <2>9. ASSUME NEW j \in 1..total
        PROVE  \/ Queued(j)' \/ IsReported(j)'
               \/ \E u \in Crackers : Working(u)' /\ task'[u] = j
    <3>1. Queued(j) \/ IsReported(j) \/ \E u \in Crackers : Working(u) /\ task[u] = j
      BY <1>5 DEF WorkInv, JobInv
    <3> QED BY <3>1, <2>1, <2>2, <2>3, <1>2
  <2>10. \A i \in DOMAIN jobs : jobs[i] \in 0..total
    BY DEF WorkInv, JobInv
  <2> QED BY <2>6, <2>7, <2>8, <2>9, <2>10, <1>2 DEF JobInv
<1>16. KeyInv'
  <2>1. C1!Reportable' = C1!Reportable
    BY <1>2 DEF C1!Reportable
  <2>2. Right(task[t], loc[t], hash_count[t])
    BY <1>2 DEF WorkInv, KeyInv
  <2>3. (\A i \in DOMAIN reports : Right(reports[i].job, reports[i].result, reports[i].hashes))'
    <3>1. \A i \in 1..n : Right(reports[i].job, reports[i].result, reports[i].hashes)
      BY <1>8 DEF WorkInv, KeyInv
    <3> QED BY <3>1, <2>1, <2>2, <1>2, <1>3, <1>9 DEF Right
  <2>4. ASSUME NEW u \in Crackers, u # t, loc[u] \in {"found", "missed"}
        PROVE  Right(task[u], loc[u], hash_count[u])'
    <3>1. Right(task[u], loc[u], hash_count[u])
      BY <2>4 DEF WorkInv, KeyInv
    <3> QED BY <3>1, <2>1, <2>4, <1>2, <1>10 DEF Right
  <2>5. ASSUME NEW u \in Crackers, loc'[u] = "try"
        PROVE  (/\ key[u] < Strings1 /\ hash_count[u] = key[u] + 1
                /\ task[u] \in C1!Reportable => input[task[u]] > key[u])'
    BY <2>1, <2>5, <1>2, <1>10 DEF WorkInv, KeyInv
  <2> QED BY <2>3, <2>4, <2>5, <1>10 DEF KeyInv
<1> QED BY <1>6, <1>12, <1>13, <1>14, <1>15, <1>16 DEF WorkInv

LEMMA WorkJoinKeeps == ASSUME WorkInv, C1!Join PROVE WorkInv'
<1> USE DEF C1!search
<1>1. PICK t \in Crackers \ ended : /\ loc[t] = "exit" /\ cracked' = cracked + num_found[t]
                                    /\ ended' = ended \union {t}
  BY DEF C1!Join
<1>2. /\ parent = "join" /\ parent' = (IF ended' = Crackers THEN "done" ELSE "join")
      /\ UNCHANGED <<input, jobs, total, loc, task, key, hash_count, num_found, reports>>
  BY DEF C1!Join
<1>3. WorkTypeOK'
  <2>1. cracked' \in Nat /\ ended' \subseteq Crackers /\ parent' \in {"read", "create", "join", "done"}
    BY <1>1, <1>2 DEF WorkInv, WorkTypeOK
  <2> QED BY <2>1, <1>2 DEF WorkInv, WorkTypeOK
<1>4. StageInv'
  BY <1>1, <1>2 DEF WorkInv, StageInv
<1>5. NullInv'
  BY <1>2 DEF WorkInv, NullInv, NoRepeat
<1>6. JobInv'
  BY <1>2 DEF WorkInv, JobInv, Working, Queued, IsReported
<1>7. KeyInv'
  BY <1>2 DEF WorkInv, KeyInv, Right, C1!Reportable
<1>8. FoundInv'
  <2>1. PICK by \in [DOMAIN reports -> Crackers] :
          /\ \A u \in Crackers : num_found[u] = Cardinality(FoundBy(by, {u}))
          /\ cracked = Cardinality(FoundBy(by, ended))
    BY DEF WorkInv, FoundInv
  <2>2. PICK F, G : F = FoundBy(by, ended) /\ G = FoundBy(by, {t})
    OBVIOUS
  <2>3. FoundBy(by, ended \union {t}) = F \union G /\ F \cap G = {}
    BY <2>2, <1>1 DEF FoundBy
  <2>4. IsFiniteSet(F) /\ IsFiniteSet(G)
    <3>1. DOMAIN reports = 1..Len(reports) /\ Len(reports) \in Nat
      BY DEF WorkInv, WorkTypeOK
    <3>2. IsFiniteSet(DOMAIN reports)
      BY <3>1, FS_Interval
    <3>3. F \subseteq DOMAIN reports /\ G \subseteq DOMAIN reports
      BY <2>2 DEF FoundBy
    <3> QED BY <3>2, <3>3, FS_Subset
  <2>5. Cardinality(F) \in Nat /\ Cardinality(G) \in Nat
    BY <2>4, FS_CardinalityType
  <2>6. Cardinality(F \union G) = Cardinality(F) + Cardinality(G)
    <3>1. Cardinality(F \union G) = Cardinality(F) + Cardinality(G) - Cardinality(F \cap G)
      BY <2>4, FS_Union
    <3>2. Cardinality(F \cap G) = 0
      BY <2>3, FS_EmptySet
    <3> QED BY <3>1, <3>2, <2>5
  <2>7. cracked' = Cardinality(F \union G)
    BY <2>1, <2>2, <2>6, <1>1
  <2>8. FoundBy(by, ended)' = F \union G
    BY <2>3, <1>1, <1>2 DEF FoundBy
  <2>9. \A u \in Crackers : num_found'[u] = Cardinality(FoundBy(by, {u})')
    <3>1. \A u \in Crackers : FoundBy(by, {u})' = FoundBy(by, {u})
      BY <1>2 DEF FoundBy
    <3> QED BY <3>1, <2>1, <1>2
  <2>10. cracked' = Cardinality(FoundBy(by, ended)')
    BY <2>7, <2>8
  <2>11. by \in [DOMAIN reports' -> Crackers]
    BY <2>1, <1>2
  <2> QED BY <2>9, <2>10, <2>11 DEF FoundInv
<1> QED BY <1>3, <1>4, <1>5, <1>6, <1>7, <1>8 DEF WorkInv

LEMMA WorkNextInv == WorkInv /\ [C1!Next]_C1!vars => WorkInv'
<1> SUFFICES ASSUME WorkInv, [C1!Next]_C1!vars PROVE WorkInv'
  OBVIOUS
<1>1. CASE C1!Main
  BY <1>1, LoadKeeps, WorkCreateKeeps, WorkJoinKeeps DEF C1!Main
<1>2. ASSUME NEW t \in Crackers, C1!Thread(t) PROVE WorkInv'
  BY <1>2, PullKeeps, TryKeeps, ReportKeeps, PassOnKeeps DEF C1!Thread
<1>3. CASE UNCHANGED C1!vars
  <2>1. UNCHANGED <<input, jobs, parent, total, cracked, ended, loc, task, key, hash_count,
                    num_found, reports>>
    BY <1>3 DEF C1!vars, C1!search
  <2>2. WorkTypeOK' /\ StageInv' /\ NullInv'
    BY <2>1 DEF WorkInv, WorkTypeOK, StageInv, NullInv, NoRepeat
  <2>3. JobInv'
    BY <2>1 DEF WorkInv, JobInv, Working, Queued, IsReported
  <2>4. KeyInv'
    BY <2>1 DEF WorkInv, KeyInv, Right, C1!Reportable
  <2>5. FoundInv'
    BY <2>1, FoundStays DEF WorkInv
  <2> QED BY <2>2, <2>3, <2>4, <2>5 DEF WorkInv
<1> QED BY <1>1, <1>2, <1>3 DEF C1!Next

-----------------------------------------------------------------------------
LEMMA OneToOne ==
  ASSUME NEW S, NEW T, NEW f \in [S -> T], IsFiniteSet(S),
         \A x, y \in S : f[x] = f[y] => x = y,
         \A z \in T : \E x \in S : f[x] = z
  PROVE  Cardinality(T) = Cardinality(S)
<1>1. f \in Injection(S, T) /\ f \in Surjection(S, T)
  BY DEF Injection, IsInjective, Surjection
<1>2. ExistsBijection(S, T)
  BY <1>1 DEF Bijection, ExistsBijection
<1> QED BY <1>2, FS_Bijection

\* When the threads have been joined every job has been reported.
LEMMA AllReported == WorkInv => C1!EachReportedOnce
<1> SUFFICES ASSUME WorkInv, parent = "done" PROVE C1!EachReportedOnce
  BY DEF C1!EachReportedOnce
<1>1. ended = Crackers /\ Crackers # {} /\ (\A t \in Crackers : loc[t] = "exit") /\ total = Len(input)
  BY DEF WorkInv, StageInv
<1>2. jobs \in Seq(Nat) /\ DOMAIN jobs = 1..Len(jobs) /\ Len(jobs) \in Nat
  BY DEF WorkInv, WorkTypeOK
<1>3. /\ jobs # <<>> /\ NoRepeat(jobs) /\ \A i \in DOMAIN jobs : jobs[i] = 0
  BY <1>1 DEF WorkInv, NullInv
<1>4. jobs = <<C1!NULL>>
  <2>1. Len(jobs) # 0
    BY <1>2, <1>3
  <2>2. 1 \in DOMAIN jobs /\ Len(jobs) \in DOMAIN jobs /\ jobs[1] = jobs[Len(jobs)]
    BY <2>1, <1>2, <1>3
  <2>3. Len(jobs) = 1
    BY <2>2, <1>3 DEF NoRepeat
  <2>4. jobs[1] = 0
    BY <2>2, <1>3
  <2> QED BY <2>3, <2>4, <1>2 DEF C1!NULL
<1>5. PICK n : n = Len(reports)
  OBVIOUS
<1>6. /\ reports \in Seq(Reports) /\ n \in Nat /\ DOMAIN reports = 1..n /\ total \in Nat
      /\ DOMAIN input = 1..total
  BY <1>1, <1>5 DEF WorkInv, WorkTypeOK
<1>7. /\ \A i \in 1..n : reports[i].job \in 1..total
      /\ \A i, k \in 1..n : reports[i].job = reports[k].job => i = k
  BY <1>6 DEF WorkInv, JobInv
<1>8. ASSUME NEW j \in 1..total PROVE \E i \in 1..n : reports[i].job = j
  <2>1. ~Queued(j) /\ \A t \in Crackers : ~Working(t)
    BY <1>1, <1>3, <1>6 DEF Queued, Working
  <2>2. IsReported(j)
    BY <2>1 DEF WorkInv, JobInv
  <2> QED BY <2>2, <1>6 DEF IsReported
<1>9. {reports[i].job : i \in DOMAIN reports} = 1..total
  <2>1. {reports[i].job : i \in 1..n} \subseteq 1..total
    BY <1>7
  <2>2. 1..total \subseteq {reports[i].job : i \in 1..n}
    <3>1. ASSUME NEW j \in 1..total PROVE j \in {reports[i].job : i \in 1..n}
      <4>1. PICK i \in 1..n : reports[i].job = j
        BY <1>8
      <4> QED BY <4>1
    <3> QED BY <3>1
  <2> QED BY <2>1, <2>2, <1>6
<1>10. PICK f : f = [i \in 1..n |-> reports[i].job]
  OBVIOUS
<1>11. IsFiniteSet(1..n) /\ Cardinality(1..n) = n /\ Cardinality(1..total) = total
  BY <1>6, FS_Interval
<1>12. n = total
  <2>1. f \in [1..n -> 1..total]
    BY <1>7, <1>10
  <2>2. \A x, y \in 1..n : f[x] = f[y] => x = y
    BY <1>7, <1>10
  <2>3. \A z \in 1..total : \E x \in 1..n : f[x] = z
    BY <1>8, <1>10
  <2>4. Cardinality(1..total) = Cardinality(1..n)
    BY ONLY <2>1, <2>2, <2>3, <1>11, OneToOne
  <2> QED BY <2>4, <1>11
<1>13. \A i \in DOMAIN reports : Right(reports[i].job, reports[i].result, reports[i].hashes)
  BY DEF WorkInv, KeyInv
<1>14. cracked = Cardinality(C1!Reportable)
  <2>1. PICK by \in [DOMAIN reports -> Crackers] : cracked = Cardinality(FoundBy(by, ended))
    BY DEF WorkInv, FoundInv
  <2>2. PICK F, G : F = FoundBy(by, ended) /\ G = C1!Reportable
    OBVIOUS
  <2>3. F = {i \in 1..n : reports[i].result = "found"}
    BY <2>1, <2>2, <1>1, <1>6 DEF FoundBy
  <2>4. \A i \in 1..n : reports[i].result = "found" <=> reports[i].job \in G
    BY <2>2, <1>6, <1>13 DEF Right
  <2>5. G \subseteq 1..total
    BY <2>2, <1>6 DEF C1!Reportable
  <2>6. F \subseteq 1..n /\ IsFiniteSet(F)
    BY <2>3, <1>11, FS_Subset
  <2>7. PICK g : g = [i \in F |-> reports[i].job]
    OBVIOUS
  <2>8. g \in [F -> G]
    BY <2>3, <2>4, <2>7
  <2>9. \A x, y \in F : g[x] = g[y] => x = y
    BY <2>6, <2>7, <1>7
  <2>10. \A z \in G : \E x \in F : g[x] = z
    <3>1. ASSUME NEW z \in G PROVE \E x \in F : g[x] = z
      <4>1. PICK i \in 1..n : reports[i].job = z
        BY <2>5, <1>8
      <4>2. i \in F
        BY <4>1, <2>3, <2>4
      <4> QED BY <4>1, <4>2, <2>7
    <3> QED BY <3>1
  <2>11. Cardinality(G) = Cardinality(F)
    BY ONLY <2>6, <2>8, <2>9, <2>10, OneToOne
  <2> QED BY <2>1, <2>2, <2>11
<1>15. Len(reports) = total
  BY <1>5, <1>12
<1>16. C1!Cardinality(C1!Reportable) = Cardinality(C1!Reportable)
  BY DEF C1!Cardinality, Cardinality
<1>17. cracked = C1!Cardinality(C1!Reportable)
  BY <1>14, <1>16
<1>18. \A i \in DOMAIN reports :
         /\ reports[i].result = (IF reports[i].job \in C1!Reportable THEN "found" ELSE "missed")
         /\ reports[i].hashes = (IF reports[i].job \in C1!Reportable THEN input[reports[i].job] + 1
                                 ELSE Strings1)
  BY <1>13 DEF Right
<1> QED BY <1>4, <1>9, <1>15, <1>17, <1>18 DEF C1!EachReportedOnce

(***************************************************************************)
(* For any number of threads, any passwords and any number of strings the  *)
(* first password cracker reports every job of its queue once and rightly, *)
(* and the totals of the summary are those of the reports.                 *)
(***************************************************************************)
THEOREM ReportsCorrect == C1!Spec => []C1!EachReportedOnce
<1>1. C1!Init => WorkInv
  BY WorkInitInv
<1>2. WorkInv /\ [C1!Next]_C1!vars => WorkInv'
  BY WorkNextInv
<1>3. WorkInv => C1!EachReportedOnce
  BY AllReported
<1> QED BY <1>1, <1>2, <1>3, PTL DEF C1!Spec

-----------------------------------------------------------------------------
(***************************************************************************)
(* The second password cracker.                                            *)
(***************************************************************************)
Searchers == 1..num_searchers

\* Where the strings are cut into shares.
Cut(w) == (w * Strings2) \div num_searchers

Password == passwords[user]

CrackTypeOK ==
    /\ passwords \in Seq((0..Strings2 - 1) \union {None})
    /\ user \in Nat \ {0}
    /\ start \in {"start", "create", "join"}
    /\ found \in {0, 1} /\ hashcount \in Nat
    /\ where \in [Searchers -> {"none", "check", "hash", "read", "write", "exit"}]
    /\ tried \in [Searchers -> Nat] /\ tmp \in [Searchers -> Nat]
    /\ printed \in Seq([found : {0, 1}, hashes : Nat]) /\ Len(printed) = user - 1

\* Main is at a password as long as there are threads.
PhaseInv ==
    /\ start = "start" => \A w \in Searchers : where[w] = "none"
    /\ start # "start" => user <= Len(passwords)
    /\ start = "join" => \A w \in Searchers : where[w] # "none"

\* A thread is within its share and has passed the strings before.
ShareInv ==
    \A w \in Searchers : where[w] # "none" =>
      /\ Cut(w - 1) <= tried[w] /\ tried[w] <= Cut(w)
      /\ where[w] \in {"hash", "read"} => tried[w] < Cut(w)
      /\ where[w] = "read" => tried[w] # Password
      /\ where[w] = "write" => Cut(w - 1) < tried[w]
      /\ where[w] = "exit" /\ found = 0 => tried[w] = Cut(w)
      /\ \A x \in 0..Strings2 - 1 : Cut(w - 1) <= x /\ x < tried[w] => x # Password

\* The strings for which hashcount has been incremented, perhaps in vain.
Hashed(w) == IF where[w] = "write" THEN tried[w] - 1 ELSE tried[w]
Counted == {x \in 0..Strings2 - 1 :
              \E w \in Searchers : where[w] # "none" /\ Cut(w - 1) <= x /\ x < Hashed(w)}
CountInv ==
    start # "start" =>
      /\ hashcount <= Cardinality(Counted)
      /\ Counted # {} => hashcount # 0
      /\ \A w \in Searchers : where[w] = "write" => tmp[w] <= Cardinality(Counted)
      /\ found = 1 => Password # None

SearchInv == CrackTypeOK /\ PhaseInv /\ ShareInv /\ CountInv /\ C2!SummariesRight

-----------------------------------------------------------------------------
LEMMA CutIs ==
  /\ Cut(0) = 0 /\ Cut(num_searchers) = Strings2
  /\ \A w \in 0..num_searchers : Cut(w) \in Nat
  /\ \A v, w \in 0..num_searchers : v <= w => Cut(v) <= Cut(w)
<1>1. PICK m, s : m = num_searchers /\ s = Strings2
  OBVIOUS
<1>2. m \in Nat \ {0} /\ s \in Nat
  BY <1>1, WorkSharingAssumption
<1>3. 0 \div m = 0 /\ 0 * s = 0
  BY <1>2
<1>4. (m * s) \div m = s
  BY <1>2
<1>5. \A w \in 0..m : w * s \in Nat /\ (w * s) \div m \in Nat
  BY <1>2
<1>6. ASSUME NEW v \in 0..m, NEW w \in 0..m, v <= w PROVE (v * s) \div m <= (w * s) \div m
  <2>1. v * s <= w * s /\ v * s \in Nat /\ w * s \in Nat
    BY <1>2, <1>6
  <2>2. \A a, b \in Nat : a <= b => a \div m <= b \div m
    BY <1>2
  <2> QED BY <2>1, <2>2
<1> QED BY <1>1, <1>3, <1>4, <1>5, <1>6 DEF Cut

LEMMA ShareIs ==
  \A w \in Searchers : C2!Share(w).offset = Cut(w - 1) /\ C2!Share(w).end = Cut(w)
<1>1. Cardinality(1..num_searchers) = num_searchers
  BY WorkSharingAssumption, FS_Interval
<1>2. PICK n : n = C2!Cardinality(1..num_searchers)
  OBVIOUS
<1>3. ASSUME NEW w \in Searchers
      PROVE  C2!Share(w) = [offset |-> ((w - 1) * Strings2) \div n, end |-> (w * Strings2) \div n]
  BY <1>2, Zenon DEF C2!Share
<1>4. n = num_searchers
  BY <1>1, <1>2 DEF C2!Cardinality, Cardinality
<1> QED BY <1>3, <1>4 DEF Cut

\* No string is in two shares.
LEMMA SharesApart ==
  ASSUME NEW v \in Searchers, NEW w \in Searchers, NEW x \in Nat,
         Cut(v - 1) <= x, x < Cut(v), Cut(w - 1) <= x, x < Cut(w)
  PROVE  v = w
<1>1. v - 1 \in 0..num_searchers /\ w - 1 \in 0..num_searchers
      /\ v \in 0..num_searchers /\ w \in 0..num_searchers
  BY WorkSharingAssumption DEF Searchers
<1>2. Cut(v - 1) \in Nat /\ Cut(v) \in Nat /\ Cut(w - 1) \in Nat /\ Cut(w) \in Nat
  BY <1>1, CutIs
<1>3. v < w => Cut(v) <= Cut(w - 1)
  BY <1>1, CutIs
<1>4. w < v => Cut(w) <= Cut(v - 1)
  BY <1>1, CutIs
<1> QED BY <1>1, <1>2, <1>3, <1>4

LEMMA LeastNumber ==
  ASSUME NEW T, T \subseteq Nat, T # {}
  PROVE  \E x \in T : \A y \in T : x <= y
<1> DEFINE S == OpToRel(<, Nat)
<1>1. IsWellFoundedOn(S, Nat)
  BY NatLessThanWellFounded
<1>2. PICK x \in T : \A y \in T : ~(<<y, x>> \in S)
  <2> HIDE DEF S
  <2> QED BY <1>1, WFMin
<1>3. \A y \in T : ~(y < x)
  BY <1>2 DEF OpToRel
<1> QED BY <1>3

\* Every string is in a share.
LEMMA SharesCover ==
  ASSUME NEW x \in 0..Strings2 - 1
  PROVE  \E w \in Searchers : Cut(w - 1) <= x /\ x < Cut(w)
<1> DEFINE T == {w \in 0..num_searchers : x < Cut(w)}
<1>1. num_searchers \in Nat \ {0} /\ Strings2 \in Nat /\ x \in Nat /\ x < Strings2
  BY WorkSharingAssumption
<1>2. num_searchers \in T /\ 0 \notin T
  BY <1>1, CutIs
<1>3. PICK w \in T : \A v \in T : w <= v
  <2>1. T \subseteq Nat
    OBVIOUS
  <2> HIDE DEF T
  <2> QED BY <1>2, <2>1, LeastNumber
<1>4. w \in 0..num_searchers /\ w # 0 /\ w - 1 \in 0..num_searchers /\ w - 1 \notin T
  BY <1>1, <1>2, <1>3
<1>5. Cut(w - 1) \in Nat
  BY <1>4, CutIs
<1> QED BY <1>1, <1>3, <1>4, <1>5 DEF Searchers

-----------------------------------------------------------------------------
LEMMA SearchInitInv == C2!Init => SearchInv
<1> SUFFICES ASSUME C2!Init PROVE SearchInv
  OBVIOUS
<1>1. CrackTypeOK
  BY WorkSharingAssumption DEF C2!Init, CrackTypeOK, Searchers
<1>2. PhaseInv /\ ShareInv /\ CountInv
  BY DEF C2!Init, PhaseInv, ShareInv, CountInv, Searchers
<1>3. C2!SummariesRight
  BY DEF C2!Init, C2!SummariesRight
<1> QED BY <1>1, <1>2, <1>3 DEF SearchInv

\* The strings counted are among all, and are not the password.
LEMMA CountedIs ==
  ASSUME SearchInv
  PROVE  /\ Counted \subseteq 0..Strings2 - 1 /\ IsFiniteSet(Counted) /\ Cardinality(Counted) \in Nat
         /\ Password \notin Counted
<1>1. Counted \subseteq 0..Strings2 - 1
  BY DEF Counted
<1>2. IsFiniteSet(0..Strings2 - 1)
  BY WorkSharingAssumption, FS_Interval
<1>3. IsFiniteSet(Counted) /\ Cardinality(Counted) \in Nat
  BY <1>1, <1>2, FS_Subset, FS_CardinalityType
<1>4. ASSUME NEW x \in Counted PROVE x # Password
  <2>1. PICK w \in Searchers : where[w] # "none" /\ Cut(w - 1) <= x /\ x < Hashed(w)
    BY <1>4 DEF Counted
  <2>2. x \in 0..Strings2 - 1 /\ tried[w] \in Nat
    BY <1>1, <1>4, <2>1 DEF SearchInv, CrackTypeOK
  <2>3. x < tried[w]
    BY <2>1, <2>2 DEF Hashed
  <2> QED BY <2>1, <2>2, <2>3 DEF SearchInv, ShareInv
<1> QED BY <1>1, <1>3, <1>4

LEMMA StartKeeps == ASSUME SearchInv, C2!Start PROVE SearchInv'
<1>1. /\ start = "start" /\ user <= Len(passwords) /\ found' = 0 /\ hashcount' = 0
      /\ start' = "create"
      /\ UNCHANGED <<passwords, user, where, tried, tmp, printed>>
  BY DEF C2!Start, C2!locals
<1>2. \A w \in Searchers : where[w] = "none"
  BY <1>1 DEF SearchInv, PhaseInv
<1>3. CrackTypeOK' /\ PhaseInv' /\ C2!SummariesRight'
  BY <1>1, <1>2 DEF SearchInv, CrackTypeOK, PhaseInv, C2!SummariesRight
<1>4. ShareInv'
  BY <1>1, <1>2 DEF ShareInv
<1>5. Counted' = {}
  BY <1>1, <1>2 DEF Counted
<1>6. CountInv'
  BY <1>1, <1>2, <1>5, FS_EmptySet DEF CountInv
<1> QED BY <1>3, <1>4, <1>6 DEF SearchInv

LEMMA SearchCreateKeeps == ASSUME SearchInv, C2!Create PROVE SearchInv'
<1>1. PICK w \in Searchers : /\ where[w] = "none" /\ where' = [where EXCEPT ![w] = "check"]
                             /\ tried' = [tried EXCEPT ![w] = Cut(w - 1)]
  BY ShareIs DEF C2!Create, Searchers
<1>2. /\ start = "create" /\ start' \in {"create", "join"}
      /\ start' = "join" => \A v \in Searchers : where'[v] # "none"
      /\ UNCHANGED <<passwords, user, found, hashcount, tmp, printed>>
  BY DEF C2!Create, Searchers
<1>3. w - 1 \in 0..num_searchers /\ w \in 0..num_searchers
  BY WorkSharingAssumption DEF Searchers
<1>4. Cut(w - 1) \in Nat /\ Cut(w) \in Nat /\ Cut(w - 1) <= Cut(w)
  BY <1>3, CutIs
<1>5. /\ where'[w] = "check" /\ tried'[w] = Cut(w - 1)
      /\ \A v \in Searchers : v # w => where'[v] = where[v] /\ tried'[v] = tried[v]
  BY <1>1 DEF SearchInv, CrackTypeOK
<1>6. CrackTypeOK' /\ PhaseInv' /\ C2!SummariesRight'
  BY <1>1, <1>2, <1>4 DEF SearchInv, CrackTypeOK, PhaseInv, C2!SummariesRight
<1>7. Password' = Password
  BY <1>2 DEF Password
<1>8. ShareInv'
  <2> SUFFICES ASSUME NEW v \in Searchers, where'[v] # "none"
      PROVE /\ Cut(v - 1) <= tried'[v] /\ tried'[v] <= Cut(v)
            /\ where'[v] \in {"hash", "read"} => tried'[v] < Cut(v)
            /\ where'[v] = "read" => tried'[v] # Password
            /\ where'[v] = "write" => Cut(v - 1) < tried'[v]
            /\ where'[v] = "exit" /\ found' = 0 => tried'[v] = Cut(v)
            /\ \A x \in 0..Strings2 - 1 : Cut(v - 1) <= x /\ x < tried'[v] => x # Password
    BY <1>7 DEF ShareInv, Cut
  <2>1. CASE v = w
    BY <1>4, <1>5, <2>1
  <2>2. CASE v # w
    BY <1>2, <1>5, <2>2 DEF SearchInv, ShareInv
  <2> QED BY <2>1, <2>2
<1>9. Counted' = Counted
  <2>1. \A v \in Searchers : v # w => (Hashed(v))' = Hashed(v)
    BY <1>5 DEF Hashed
  <2>2. (Hashed(w))' = Cut(w - 1)
    BY <1>5 DEF Hashed
  <2>3. \A x \in 0..Strings2 - 1 : ~(Cut(w - 1) <= x /\ x < Cut(w - 1))
    BY <1>4
  <2>4. \A v \in Searchers : (Cut(v - 1))' = Cut(v - 1)
    BY DEF Cut
  <2> QED BY <1>1, <1>5, <2>1, <2>2, <2>3, <2>4 DEF Counted
<1>10. CountInv'
  BY <1>2, <1>5, <1>7, <1>9 DEF SearchInv, CountInv
<1> QED BY <1>6, <1>8, <1>10 DEF SearchInv

LEMMA SearchJoinKeeps == ASSUME SearchInv, C2!Join PROVE SearchInv'
<1>1. /\ start = "join" /\ \A w \in Searchers : where[w] = "exit"
      /\ printed' = Append(printed, [found |-> found, hashes |-> hashcount])
      /\ where' = [w \in Searchers |-> "none"]
      /\ user' = user + 1 /\ start' = "start"
      /\ UNCHANGED <<passwords, found, hashcount, tried, tmp>>
  BY DEF C2!Join, Searchers
<1>2. /\ user \in DOMAIN passwords /\ user \in Nat /\ Strings2 \in Nat
      /\ Password \in (0..Strings2 - 1) \union {None}
  BY <1>1, WorkSharingAssumption DEF SearchInv, CrackTypeOK, PhaseInv, Password
<1>3. found \in {0, 1} /\ hashcount \in Nat
  BY DEF SearchInv, CrackTypeOK
<1>4. ASSUME found = 0, NEW x \in 0..Strings2 - 1 PROVE x \in Counted
  <2>1. PICK w \in Searchers : Cut(w - 1) <= x /\ x < Cut(w)
    BY SharesCover
  <2>2. tried[w] = Cut(w)
    BY <1>1, <1>4 DEF SearchInv, ShareInv
  <2> QED BY <1>1, <2>1, <2>2 DEF Counted, Hashed
<1>5. found = (IF Password # None THEN 1 ELSE 0)
  <2>1. CASE Password # None
    BY <1>2, <1>3, <1>4, <2>1, CountedIs
  <2>2. CASE Password = None
    BY <1>1, <1>3, <2>2 DEF SearchInv, CountInv
  <2> QED BY <2>1, <2>2
<1>6. hashcount <= (IF Password # None THEN Strings2 - 1 ELSE Strings2)
  <2>1. hashcount <= Cardinality(Counted)
    BY <1>1 DEF SearchInv, CountInv
  <2>2. IsFiniteSet(0..Strings2 - 1) /\ Cardinality(0..Strings2 - 1) = Strings2
    <3>1. PICK b \in Int : b = Strings2 - 1
      BY <1>2
    <3>2. IsFiniteSet(0..b) /\ Cardinality(0..b) = IF 0 > b THEN 0 ELSE b - 0 + 1
      BY ONLY b \in Int, 0 \in Int, FS_Interval
    <3> QED BY <1>2, <3>1, <3>2
  <2>3. CASE Password = None
    <3>1. Cardinality(Counted) <= Strings2
      BY <2>2, CountedIs, FS_Subset
    <3> QED BY <1>2, <1>3, <2>1, <2>3, <3>1, CountedIs
  <2>4. CASE Password # None
    <3> DEFINE Others == (0..Strings2 - 1) \ {Password}
    <3>1. IsFiniteSet(Others) /\ Cardinality(Others) = Strings2 - 1
      <4>1. Password \in 0..Strings2 - 1
        BY <1>2, <2>4
      <4> QED BY <2>2, <4>1, FS_RemoveElement
    <3>2. Counted \subseteq Others
      BY CountedIs
    <3>3. Cardinality(Counted) <= Strings2 - 1
      BY <3>1, <3>2, FS_Subset
    <3> QED BY <1>2, <1>3, <2>1, <2>4, <3>3, CountedIs
  <2> QED BY <2>3, <2>4
<1>7. Password = None /\ Strings2 > 0 => hashcount >= 1
  <2> SUFFICES ASSUME Password = None, Strings2 > 0 PROVE hashcount >= 1
    OBVIOUS
  <2>1. 0 \in 0..Strings2 - 1 /\ found = 0
    BY <1>2, <1>5
  <2>2. Counted # {}
    BY <1>4, <2>1
  <2> QED BY <1>1, <1>3, <2>2 DEF SearchInv, CountInv
<1>8. PICK p : p = [found |-> found, hashes |-> hashcount]
  OBVIOUS
<1>9. p \in [found : {0, 1}, hashes : Nat] /\ p.found = found /\ p.hashes = hashcount
  BY <1>3, <1>8
<1>10. /\ printed' \in Seq([found : {0, 1}, hashes : Nat]) /\ Len(printed') = user
       /\ DOMAIN printed' = 1..user /\ printed'[user] = p
       /\ \A u \in 1..(user - 1) : printed'[u] = printed[u]
  BY <1>1, <1>2, <1>8, <1>9 DEF SearchInv, CrackTypeOK
<1>11. CrackTypeOK'
  BY <1>1, <1>2, <1>10 DEF SearchInv, CrackTypeOK
<1>12. PhaseInv' /\ ShareInv' /\ CountInv'
  BY <1>1 DEF PhaseInv, ShareInv, CountInv
<1>13. C2!SummariesRight'
  <2> SUFFICES ASSUME NEW u \in 1..user
               PROVE  LET there == passwords[u] # None
                      IN /\ printed'[u].found = (IF there THEN 1 ELSE 0)
                         /\ printed'[u].hashes <= (IF there THEN Strings2 - 1 ELSE Strings2)
                         /\ ~there /\ Strings2 > 0 => printed'[u].hashes >= 1
    BY <1>1, <1>10 DEF C2!SummariesRight
  <2>1. CASE u = user
    BY <1>5, <1>6, <1>7, <1>9, <1>10, <2>1 DEF Password
  <2>2. CASE u \in 1..(user - 1)
    <3>1. u \in DOMAIN printed
      BY <1>2, <2>2 DEF SearchInv, CrackTypeOK
    <3> QED BY <1>10, <2>2, <3>1 DEF SearchInv, C2!SummariesRight
  <2> QED BY <1>2, <2>1, <2>2
<1> QED BY <1>11, <1>12, <1>13 DEF SearchInv

\* What a step of one thread leaves as it was.
LEMMA OneMoves ==
  ASSUME SearchInv, NEW w \in Searchers, NEW l,
         l \in {"check", "hash", "read", "write", "exit"},
         where[w] # "none", where' = [where EXCEPT ![w] = l],
         UNCHANGED <<passwords, user, start, printed>>
  PROVE  /\ PhaseInv' /\ C2!SummariesRight' /\ Password' = Password /\ where'[w] = l
         /\ where' \in [Searchers -> {"none", "check", "hash", "read", "write", "exit"}]
         /\ \A v \in Searchers : v # w => where'[v] = where[v]
         /\ start # "start"
<1>1. /\ where' \in [Searchers -> {"none", "check", "hash", "read", "write", "exit"}]
      /\ where'[w] = l /\ \A v \in Searchers : v # w => where'[v] = where[v]
      /\ start # "start"
  BY DEF SearchInv, CrackTypeOK, PhaseInv
<1>2. PhaseInv' /\ C2!SummariesRight' /\ Password' = Password
  BY <1>1 DEF SearchInv, PhaseInv, C2!SummariesRight, Password
<1> QED BY <1>1, <1>2

LEMMA CheckKeeps == ASSUME SearchInv, NEW w \in Searchers, C2!Check(w) PROVE SearchInv'
<1>1. PICK l : l = IF tried[w] = Cut(w) \/ found = 1 THEN "exit" ELSE "hash"
  OBVIOUS
<1>2. /\ where[w] = "check" /\ where' = [where EXCEPT ![w] = l]
      /\ UNCHANGED <<passwords, user, start, found, hashcount, tried, tmp, printed>>
  BY <1>1, ShareIs DEF C2!Check
<1>3. /\ PhaseInv' /\ C2!SummariesRight' /\ Password' = Password /\ where'[w] = l
      /\ where' \in [Searchers -> {"none", "check", "hash", "read", "write", "exit"}]
      /\ \A v \in Searchers : v # w => where'[v] = where[v]
      /\ start # "start"
  BY <1>1, <1>2, OneMoves
<1>4. CrackTypeOK'
  BY <1>2, <1>3 DEF SearchInv, CrackTypeOK
<1>5. Cut(w) \in Nat /\ tried[w] \in Nat /\ found \in {0, 1}
  BY CutIs, WorkSharingAssumption DEF SearchInv, CrackTypeOK, Searchers
<1>6. ShareInv'
  <2> SUFFICES ASSUME NEW v \in Searchers, where'[v] # "none"
      PROVE /\ Cut(v - 1) <= tried[v] /\ tried[v] <= Cut(v)
            /\ where'[v] \in {"hash", "read"} => tried[v] < Cut(v)
            /\ where'[v] = "read" => tried[v] # Password
            /\ where'[v] = "write" => Cut(v - 1) < tried[v]
            /\ where'[v] = "exit" /\ found = 0 => tried[v] = Cut(v)
            /\ \A x \in 0..Strings2 - 1 : Cut(v - 1) <= x /\ x < tried[v] => x # Password
    BY <1>2, <1>3 DEF ShareInv, Cut
  <2>1. CASE v = w
    BY <1>1, <1>2, <1>3, <1>5, <2>1 DEF SearchInv, ShareInv
  <2>2. CASE v # w
    BY <1>3, <2>2 DEF SearchInv, ShareInv
  <2> QED BY <2>1, <2>2
<1>7. Counted' = Counted
  <2>1. \A v \in Searchers : (Hashed(v))' = Hashed(v) /\ (where'[v] = "none" <=> where[v] = "none")
    BY <1>1, <1>2, <1>3 DEF Hashed
  <2> QED BY <2>1 DEF Counted, Cut
<1>8. CountInv'
  BY <1>1, <1>2, <1>3, <1>7 DEF SearchInv, CountInv
<1> QED BY <1>3, <1>4, <1>6, <1>8 DEF SearchInv

LEMMA HashKeeps == ASSUME SearchInv, NEW w \in Searchers, C2!Hash(w) PROVE SearchInv'
<1>1. PICK l, f : /\ l = IF tried[w] = Password THEN "exit" ELSE "read"
                  /\ f = IF tried[w] = Password THEN 1 ELSE found
  OBVIOUS
<1>2. /\ where[w] = "hash" /\ where' = [where EXCEPT ![w] = l] /\ found' = f
      /\ UNCHANGED <<passwords, user, start, hashcount, tried, tmp, printed>>
  BY <1>1 DEF C2!Hash, Password
<1>3. /\ PhaseInv' /\ C2!SummariesRight' /\ Password' = Password /\ where'[w] = l
      /\ where' \in [Searchers -> {"none", "check", "hash", "read", "write", "exit"}]
      /\ \A v \in Searchers : v # w => where'[v] = where[v]
      /\ start # "start"
  BY <1>1, <1>2, OneMoves
<1>4. f \in {0, 1} /\ (f = 0 => found = 0) /\ tried[w] \in Nat
  BY <1>1 DEF SearchInv, CrackTypeOK
<1>5. CrackTypeOK'
  BY <1>2, <1>3, <1>4 DEF SearchInv, CrackTypeOK
<1>6. ShareInv'
  <2> SUFFICES ASSUME NEW v \in Searchers, where'[v] # "none"
      PROVE /\ Cut(v - 1) <= tried[v] /\ tried[v] <= Cut(v)
            /\ where'[v] \in {"hash", "read"} => tried[v] < Cut(v)
            /\ where'[v] = "read" => tried[v] # Password
            /\ where'[v] = "write" => Cut(v - 1) < tried[v]
            /\ where'[v] = "exit" /\ f = 0 => tried[v] = Cut(v)
            /\ \A x \in 0..Strings2 - 1 : Cut(v - 1) <= x /\ x < tried[v] => x # Password
    BY <1>2, <1>3 DEF ShareInv, Cut
  <2>1. CASE v = w
    BY <1>1, <1>2, <1>3, <1>4, <2>1 DEF SearchInv, ShareInv
  <2>2. CASE v # w
    BY <1>3, <1>4, <2>2 DEF SearchInv, ShareInv
  <2> QED BY <2>1, <2>2
<1>7. Counted' = Counted
  <2>1. \A v \in Searchers : (Hashed(v))' = Hashed(v) /\ (where'[v] = "none" <=> where[v] = "none")
    BY <1>1, <1>2, <1>3 DEF Hashed
  <2> QED BY <2>1 DEF Counted, Cut
<1>8. f = 1 => Password # None
  <2>1. None \notin Nat
    BY WorkSharingAssumption
  <2> QED BY <1>1, <1>3, <1>4, <2>1 DEF SearchInv, CountInv
<1>9. CountInv'
  BY <1>1, <1>2, <1>3, <1>7, <1>8 DEF SearchInv, CountInv
<1> QED BY <1>3, <1>5, <1>6, <1>9 DEF SearchInv

LEMMA ReadKeeps == ASSUME SearchInv, NEW w \in Searchers, C2!ReadCount(w) PROVE SearchInv'
<1>1. PICK a, h : a = tried[w] /\ h = hashcount
  OBVIOUS
<1>2. /\ where[w] = "read" /\ where' = [where EXCEPT ![w] = "write"]
      /\ tried' = [tried EXCEPT ![w] = a + 1] /\ tmp' = [tmp EXCEPT ![w] = h]
      /\ UNCHANGED <<passwords, user, start, found, hashcount, printed>>
  BY <1>1 DEF C2!ReadCount
<1>3. /\ PhaseInv' /\ C2!SummariesRight' /\ Password' = Password /\ where'[w] = "write"
      /\ where' \in [Searchers -> {"none", "check", "hash", "read", "write", "exit"}]
      /\ \A v \in Searchers : v # w => where'[v] = where[v]
      /\ start # "start"
  BY <1>2, OneMoves
<1>4. /\ a \in Nat /\ h \in Nat /\ tried'[w] = a + 1 /\ tmp'[w] = h
      /\ \A v \in Searchers : v # w => tried'[v] = tried[v] /\ tmp'[v] = tmp[v]
      /\ tried' \in [Searchers -> Nat] /\ tmp' \in [Searchers -> Nat]
  BY <1>1, <1>2 DEF SearchInv, CrackTypeOK
<1>5. CrackTypeOK'
  BY <1>2, <1>3, <1>4 DEF SearchInv, CrackTypeOK
<1>6. Cut(w) \in Nat /\ Cut(w - 1) \in Nat
  <2>1. w \in 0..num_searchers /\ w - 1 \in 0..num_searchers
    BY WorkSharingAssumption DEF Searchers
  <2> QED BY <2>1, CutIs
<1>7. /\ Cut(w - 1) <= a /\ a < Cut(w) /\ a # Password
      /\ \A x \in 0..Strings2 - 1 : Cut(w - 1) <= x /\ x < a => x # Password
  BY <1>1, <1>2 DEF SearchInv, ShareInv
<1>8. ShareInv'
  <2> SUFFICES ASSUME NEW v \in Searchers, where'[v] # "none"
      PROVE /\ Cut(v - 1) <= tried'[v] /\ tried'[v] <= Cut(v)
            /\ where'[v] \in {"hash", "read"} => tried'[v] < Cut(v)
            /\ where'[v] = "read" => tried'[v] # Password
            /\ where'[v] = "write" => Cut(v - 1) < tried'[v]
            /\ where'[v] = "exit" /\ found = 0 => tried'[v] = Cut(v)
            /\ \A x \in 0..Strings2 - 1 : Cut(v - 1) <= x /\ x < tried'[v] => x # Password
    BY <1>2, <1>3 DEF ShareInv, Cut
  <2>1. CASE v = w
    BY <1>3, <1>4, <1>6, <1>7, <2>1
  <2>2. CASE v # w
    BY <1>3, <1>4, <2>2 DEF SearchInv, ShareInv
  <2> QED BY <2>1, <2>2
<1>9. Counted' = Counted
  <2>1. \A v \in Searchers : (Hashed(v))' = Hashed(v) /\ (where'[v] = "none" <=> where[v] = "none")
    BY <1>1, <1>2, <1>3, <1>4 DEF Hashed
  <2> QED BY <2>1 DEF Counted, Cut
<1>10. CountInv'
  BY <1>1, <1>2, <1>3, <1>4, <1>9 DEF SearchInv, CountInv
<1> QED BY <1>3, <1>5, <1>8, <1>10 DEF SearchInv

LEMMA WriteKeeps == ASSUME SearchInv, NEW w \in Searchers, C2!WriteCount(w) PROVE SearchInv'
<1>1. PICK a, h : a = tried[w] - 1 /\ h = tmp[w]
  OBVIOUS
<1>2. /\ where[w] = "write" /\ where' = [where EXCEPT ![w] = "check"]
      /\ hashcount' = h + 1
      /\ UNCHANGED <<passwords, user, start, found, tried, tmp, printed>>
  BY <1>1 DEF C2!WriteCount
<1>3. /\ PhaseInv' /\ C2!SummariesRight' /\ Password' = Password /\ where'[w] = "check"
      /\ where' \in [Searchers -> {"none", "check", "hash", "read", "write", "exit"}]
      /\ \A v \in Searchers : v # w => where'[v] = where[v]
      /\ start # "start"
  BY <1>2, OneMoves
<1>4. /\ tried[w] \in Nat /\ h \in Nat /\ Cardinality(Counted) \in Nat
      /\ Cut(w - 1) \in Nat /\ Cut(w) \in Nat
  <2>1. w \in 0..num_searchers /\ w - 1 \in 0..num_searchers
    BY WorkSharingAssumption DEF Searchers
  <2> QED BY <1>1, <2>1, CutIs, CountedIs DEF SearchInv, CrackTypeOK
<1>5. CrackTypeOK'
  BY <1>2, <1>3, <1>4 DEF SearchInv, CrackTypeOK
<1>6. ShareInv'
  <2> SUFFICES ASSUME NEW v \in Searchers, where'[v] # "none"
      PROVE /\ Cut(v - 1) <= tried[v] /\ tried[v] <= Cut(v)
            /\ where'[v] \in {"hash", "read"} => tried[v] < Cut(v)
            /\ where'[v] = "read" => tried[v] # Password
            /\ where'[v] = "write" => Cut(v - 1) < tried[v]
            /\ where'[v] = "exit" /\ found = 0 => tried[v] = Cut(v)
            /\ \A x \in 0..Strings2 - 1 : Cut(v - 1) <= x /\ x < tried[v] => x # Password
    BY <1>2, <1>3 DEF ShareInv, Cut
  <2>1. CASE v = w
    BY <1>2, <1>3, <2>1 DEF SearchInv, ShareInv
  <2>2. CASE v # w
    BY <1>3, <2>2 DEF SearchInv, ShareInv
  <2> QED BY <2>1, <2>2
<1>7. a \in Nat /\ Cut(w - 1) <= a /\ a < Cut(w) /\ tried[w] = a + 1 /\ h <= Cardinality(Counted)
  <2>1. Cut(w - 1) < tried[w] /\ tried[w] <= Cut(w)
    BY <1>2 DEF SearchInv, ShareInv
  <2>2. h <= Cardinality(Counted)
    BY <1>1, <1>2, <1>3 DEF SearchInv, CountInv
  <2> QED BY <1>1, <1>4, <2>1, <2>2
<1>8. a \in 0..Strings2 - 1
  <2>1. Cut(w) <= Strings2 /\ Strings2 \in Nat
    BY CutIs, WorkSharingAssumption DEF Searchers
  <2> QED BY <1>4, <1>7, <2>1
<1>9. a \notin Counted
  <2> SUFFICES ASSUME a \in Counted PROVE FALSE
    OBVIOUS
  <2>1. PICK v \in Searchers : where[v] # "none" /\ Cut(v - 1) <= a /\ a < Hashed(v)
    BY DEF Counted
  <2>2. CASE v = w
    BY <1>1, <1>2, <1>4, <2>1, <2>2 DEF Hashed
  <2>3. CASE v # w
    <3>1. tried[v] <= Cut(v) /\ tried[v] \in Nat /\ Cut(v) \in Nat
      BY <2>1, CutIs, WorkSharingAssumption DEF SearchInv, ShareInv, CrackTypeOK, Searchers
    <3>2. a < Cut(v)
      BY <1>7, <2>1, <3>1 DEF Hashed
    <3> QED BY <1>7, <2>1, <2>3, <3>2, SharesApart
  <2> QED BY <2>2, <2>3
<1>10. Counted' = Counted \union {a}
  <2>1. \A v \in Searchers : v # w => (Hashed(v))' = Hashed(v)
    BY <1>2, <1>3 DEF Hashed
  <2>2. Hashed(w) = a /\ (Hashed(w))' = a + 1
    BY <1>1, <1>2, <1>3, <1>7 DEF Hashed
  <2>3. \A v \in Searchers : (Cut(v - 1))' = Cut(v - 1)
    BY DEF Cut
  <2>4. \A x \in 0..Strings2 - 1 : x < a + 1 <=> x < a \/ x = a
    BY <1>7
  <2>5. ASSUME NEW x \in 0..Strings2 - 1 PROVE x \in Counted' <=> x \in Counted \/ x = a
    BY <1>2, <1>3, <1>7, <2>1, <2>2, <2>3, <2>4 DEF Counted
  <2>6. Counted \subseteq 0..Strings2 - 1 /\ Counted' \subseteq 0..Strings2 - 1
    BY DEF Counted
  <2> QED BY <1>8, <2>5, <2>6
<1>11. Cardinality(Counted') = Cardinality(Counted) + 1
  BY <1>9, <1>10, CountedIs, FS_AddElement
<1>12. CountInv'
  <2>1. ASSUME NEW v \in Searchers, where'[v] = "write" PROVE tmp[v] <= Cardinality(Counted)
    BY <1>3, <2>1 DEF SearchInv, CountInv
  <2>2. \A v \in Searchers : tmp[v] \in Nat
    BY DEF SearchInv, CrackTypeOK
  <2>3. \A v \in Searchers : where'[v] = "write" => tmp'[v] <= Cardinality(Counted')
    BY <1>2, <1>4, <1>11, <2>1, <2>2
  <2>4. hashcount' <= Cardinality(Counted') /\ hashcount' # 0
    BY <1>2, <1>4, <1>7, <1>11
  <2>5. found' = 1 => Password' # None
    BY <1>2, <1>3 DEF SearchInv, CountInv
  <2> QED BY <2>3, <2>4, <2>5 DEF CountInv
<1> QED BY <1>3, <1>5, <1>6, <1>12 DEF SearchInv

\* For any strings, any passwords and any number of threads every summary of
\* cracker2.c is right, although found and hashcount are shared without a mutex:
\* found is set in time, and at most the increments that raced are lost.
THEOREM SummariesCorrect == C2!Spec => []C2!SummariesRight
<1>1. SearchInv /\ [C2!Next]_C2!vars => SearchInv'
  <2> SUFFICES ASSUME SearchInv, [C2!Next]_C2!vars PROVE SearchInv'
    OBVIOUS
  <2>1. CASE C2!Main
    BY <2>1, StartKeeps, SearchCreateKeeps, SearchJoinKeeps DEF C2!Main
  <2>2. CASE \E w \in Searchers : C2!Thread(w)
    BY <2>2, CheckKeeps, HashKeeps, ReadKeeps, WriteKeeps DEF C2!Thread
  <2>3. CASE UNCHANGED C2!vars
    <3>1. UNCHANGED <<passwords, user, start, found, hashcount, where, tried, tmp, printed>>
      BY <2>3 DEF C2!vars, C2!locals
    <3>2. Counted' = Counted /\ Password' = Password
      BY <3>1 DEF Counted, Hashed, Cut, Password
    <3>3. CrackTypeOK' /\ PhaseInv' /\ C2!SummariesRight'
      BY <3>1 DEF SearchInv, CrackTypeOK, PhaseInv, C2!SummariesRight
    <3> QED BY <3>1, <3>2, <3>3 DEF SearchInv, ShareInv, CountInv, Cut
  <2> QED BY <2>1, <2>2, <2>3 DEF C2!Next, Searchers
<1>2. SearchInv => C2!SummariesRight
  BY DEF SearchInv
<1> QED BY <1>1, <1>2, SearchInitInv, PTL DEF C2!Spec

-----------------------------------------------------------------------------
(***************************************************************************)
(* The parallel reduce.                                                    *)
(***************************************************************************)
\* The part of thread t.
From(t) == (t - 1) * offset
To(t) == IF t = num_threads THEN call[1] ELSE t * offset
Positions(a, b) == [i \in 1..b - a |-> a + i - 1]

ReduceTypeOK ==
    /\ call \in Nat \X Nat /\ num_threads \in Nat /\ offset \in Nat
    /\ step \in {"start", "create", "done", "crashed"}
    /\ created \in Nat /\ merged \in Nat
    /\ next \in Seq(Nat) /\ last \in Seq(Nat)
    /\ Len(next) = created /\ Len(last) = created
    /\ reduced_output \in Seq(Seq(Nat)) /\ Len(reduced_output) = created

\* The list is divided among the threads.
DivideInv ==
    /\ step = "start" => num_threads = call[2] /\ created = 0 /\ merged = 0
    /\ step = "crashed" => call[2] = 0 \/ (call[1] < 2 /\ call[2] > call[1])
    /\ step = "crashed" => created = 0 /\ merged = 0 /\ num_threads = 0
    /\ step \in {"create", "done"} =>
         /\ num_threads # 0 /\ created <= num_threads /\ merged <= num_threads
         /\ \A t \in 0..num_threads : t * offset \in Nat /\ t * offset <= call[1]
    /\ step = "done" => merged = num_threads

\* Every thread has reduced its part up to the position it comes to next.
PartInv ==
    \A t \in 1..created : /\ last[t] = To(t)
                          /\ From(t) <= next[t] /\ next[t] <= last[t]
                          /\ reduced_output[t] = Positions(From(t), next[t])

\* What has been joined is the front of the list.
MergeInv ==
    /\ merged # 0 => created = num_threads
    /\ sum = Positions(0, IF merged = 0 THEN 0 ELSE To(merged))

ReduceInv == ReduceTypeOK /\ DivideInv /\ PartInv /\ MergeInv

-----------------------------------------------------------------------------
LEMMA Product ==
  ASSUME NEW m \in Nat, NEW n \in Nat \ {0}
  PROVE  /\ m \div n \in Nat
         /\ \A t \in 0..n : t * (m \div n) \in Nat /\ t * (m \div n) <= m
<1>1. m \div n \in Nat /\ n * (m \div n) <= m
  OBVIOUS
<1>2. PICK q : q = m \div n
  OBVIOUS
<1>3. ASSUME NEW t \in 0..n PROVE t * q \in Nat /\ t * q <= n * q
  BY <1>1, <1>2
<1> QED BY <1>1, <1>2, <1>3

LEMMA PositionsJoin ==
  ASSUME NEW a \in Nat, NEW b \in Nat, NEW c \in Nat, a <= b, b <= c
  PROVE  /\ Positions(a, b) \in Seq(Nat) /\ Len(Positions(a, b)) = b - a
         /\ Positions(a, b) \o Positions(b, c) = Positions(a, c)
<1> USE DEF Positions
<1>1. /\ Positions(a, b) \in Seq(Nat) /\ Len(Positions(a, b)) = b - a
  OBVIOUS
<1>2. /\ Positions(b, c) \in Seq(Nat) /\ Len(Positions(b, c)) = c - b
  OBVIOUS
<1>3. /\ Positions(a, c) \in Seq(Nat) /\ Len(Positions(a, c)) = c - a
  OBVIOUS
<1>4. Positions(a, b) \o Positions(b, c) = Positions(a, c)
  BY <1>1, <1>2, <1>3
<1> QED BY <1>1, <1>4

LEMMA PositionsAppend ==
  ASSUME NEW a \in Nat, NEW b \in Nat, a <= b
  PROVE  Append(Positions(a, b), b) = Positions(a, b + 1)
<1> USE DEF Positions
<1>1. /\ Positions(a, b) \in Seq(Nat) /\ Len(Positions(a, b)) = b - a
  OBVIOUS
<1> QED BY <1>1

LEMMA ReduceInitInv == R!Init => ReduceInv
  BY WorkSharingAssumption
     DEF R!Init, ReduceInv, ReduceTypeOK, DivideInv, PartInv, MergeInv, Positions

LEMMA DivideKeeps == ASSUME ReduceInv, R!Divide PROVE ReduceInv'
<1>1. PICK n : n = IF num_threads > call[1] THEN call[1] \div 2 ELSE num_threads
  OBVIOUS
<1>2. /\ step = "start" /\ num_threads' = n
      /\ n = 0 => step' = "crashed" /\ offset' = offset
      /\ n # 0 => step' = "create" /\ offset' = call[1] \div n
      /\ UNCHANGED <<call, created, merged, next, last, reduced_output, sum>>
  BY <1>1 DEF R!Divide, R!list_len
<1>3. /\ call[1] \in Nat /\ call[2] \in Nat /\ num_threads = call[2] /\ created = 0 /\ merged = 0
  BY <1>2 DEF ReduceInv, ReduceTypeOK, DivideInv
<1>4. n \in Nat
  BY <1>1, <1>3
<1>5. CASE n = 0
  <2>1. call[2] = 0 \/ (call[1] < 2 /\ call[2] > call[1])
    BY <1>1, <1>3, <1>5
  <2> QED BY <1>2, <1>3, <1>5, <2>1
          DEF ReduceInv, ReduceTypeOK, DivideInv, PartInv, MergeInv, Positions
<1>6. CASE n # 0
  <2>1. /\ offset' \in Nat
        /\ \A t \in 0..n : t * offset' \in Nat /\ t * offset' <= call[1]
    BY <1>2, <1>3, <1>4, <1>6, Product
  <2>2. ReduceTypeOK'
    BY <1>2, <1>4, <1>6, <2>1 DEF ReduceInv, ReduceTypeOK
  <2>3. DivideInv'
    <3>1. \A t \in 0..num_threads' : t * offset' \in Nat /\ t * offset' <= call'[1]
      BY <1>2, <2>1
    <3>2. created' <= num_threads' /\ merged' <= num_threads'
      BY <1>2, <1>3, <1>4
    <3> QED BY <1>2, <1>6, <3>1, <3>2 DEF DivideInv
  <2>4. PartInv' /\ MergeInv'
    BY <1>2, <1>3 DEF ReduceInv, PartInv, MergeInv
  <2> QED BY <2>2, <2>3, <2>4 DEF ReduceInv
<1> QED BY <1>5, <1>6

LEMMA ReduceCreateKeeps == ASSUME ReduceInv, R!Create PROVE ReduceInv'
<1>1. PICK a, c : c = created /\ a = IF c = 0 THEN 0 ELSE last[c]
  OBVIOUS
<1>2. /\ step = "create" /\ c < num_threads
      /\ next' = Append(next, a)
      /\ last' = Append(last, IF c = num_threads - 1 THEN call[1] ELSE a + offset)
      /\ reduced_output' = Append(reduced_output, <<>>) /\ created' = c + 1
      /\ UNCHANGED <<call, num_threads, offset, step, merged, sum>>
  BY <1>1 DEF R!Create, R!list_len
<1>3. /\ call[1] \in Nat /\ num_threads \in Nat \ {0} /\ offset \in Nat /\ c \in Nat /\ merged = 0
      /\ \A t \in 0..num_threads : t * offset \in Nat /\ t * offset <= call[1]
  BY <1>1, <1>2 DEF ReduceInv, ReduceTypeOK, DivideInv, MergeInv
<1>4. a = c * offset
  BY <1>1, <1>2, <1>3 DEF ReduceInv, PartInv, To
<1>5. a \in Nat /\ a <= call[1] /\ From(c + 1) = a
  BY <1>2, <1>3, <1>4 DEF From
<1>6. (c + 1) * offset = a + offset /\ (c + 1) * offset \in Nat /\ (c + 1) * offset <= call[1]
  <2>1. PICK q \in Nat : q = offset
    BY <1>3
  <2>2. (c + 1) * q = c * q + q
    BY <1>3
  <2>3. c + 1 \in 0..num_threads
    BY <1>2, <1>3
  <2> QED BY <1>3, <1>4, <2>1, <2>2, <2>3
<1>7. /\ last' \in Seq(Nat) /\ Len(last') = c + 1
      /\ last'[c + 1] = To(c + 1) /\ a <= last'[c + 1]
      /\ \A t \in 1..c : last'[t] = last[t]
  <2>1. PICK b \in Nat : b = (IF c = num_threads - 1 THEN call[1] ELSE a + offset)
    BY <1>3, <1>5
  <2>2. b = To(c + 1) /\ a <= b
    <3>1. CASE c = num_threads - 1
      BY <1>3, <1>5, <2>1, <3>1 DEF To
    <3>2. CASE c # num_threads - 1
      BY <1>3, <1>5, <1>6, <2>1, <3>2 DEF To
    <3> QED BY <3>1, <3>2
  <2>3. last' = Append(last, b) /\ last \in Seq(Nat) /\ Len(last) = c
    BY <1>1, <1>2, <2>1 DEF ReduceInv, ReduceTypeOK
  <2> QED BY <2>2, <2>3
<1>8. /\ next' \in Seq(Nat) /\ Len(next') = c + 1 /\ next'[c + 1] = a
      /\ \A t \in 1..c : next'[t] = next[t]
  BY <1>1, <1>2, <1>5 DEF ReduceInv, ReduceTypeOK
<1>9. /\ reduced_output' \in Seq(Seq(Nat)) /\ Len(reduced_output') = c + 1
      /\ reduced_output'[c + 1] = <<>>
      /\ \A t \in 1..c : reduced_output'[t] = reduced_output[t]
  BY <1>1, <1>2 DEF ReduceInv, ReduceTypeOK
<1>10. Positions(a, a) = <<>>
  BY <1>5 DEF Positions
<1>11. ReduceTypeOK' /\ DivideInv'
  BY <1>1, <1>2, <1>3, <1>7, <1>8, <1>9 DEF ReduceInv, ReduceTypeOK, DivideInv
<1>12. \A t : (From(t))' = From(t) /\ (To(t))' = To(t)
  BY <1>2 DEF From, To
<1>13. PartInv'
  <2> SUFFICES ASSUME NEW t \in 1..(c + 1)
               PROVE  /\ last'[t] = To(t) /\ From(t) <= next'[t] /\ next'[t] <= last'[t]
                      /\ reduced_output'[t] = Positions(From(t), next'[t])
    BY <1>2, <1>12 DEF PartInv
  <2>1. CASE t = c + 1
    BY <1>5, <1>7, <1>8, <1>9, <1>10, <2>1
  <2>2. CASE t \in 1..c
    BY <1>1, <1>7, <1>8, <1>9, <2>2 DEF ReduceInv, PartInv
  <2> QED BY <1>3, <2>1, <2>2
<1>14. MergeInv'
  BY <1>2, <1>3 DEF ReduceInv, MergeInv
<1> QED BY <1>11, <1>13, <1>14 DEF ReduceInv

LEMMA ReducePartKeeps == ASSUME ReduceInv, NEW t \in 1..created, R!Reduce(t) PROVE ReduceInv'
<1>1. PICK a : a = next[t]
  OBVIOUS
<1>2. /\ a < last[t] /\ reduced_output' = [reduced_output EXCEPT ![t] = Append(reduced_output[t], a)]
      /\ next' = [next EXCEPT ![t] = a + 1]
      /\ UNCHANGED <<call, num_threads, offset, step, created, merged, last, sum>>
  BY <1>1 DEF R!Reduce
<1>3. /\ a \in Nat /\ last[t] \in Nat /\ From(t) \in Int /\ From(t) <= a
      /\ reduced_output[t] = Positions(From(t), a) /\ reduced_output[t] \in Seq(Nat)
  BY <1>1 DEF ReduceInv, ReduceTypeOK, PartInv, From
<1>4. From(t) \in Nat
  <2>1. offset \in Nat /\ t - 1 \in Nat
    BY DEF ReduceInv, ReduceTypeOK
  <2> QED BY <2>1 DEF From
<1>5. Append(reduced_output[t], a) = Positions(From(t), a + 1)
  BY <1>3, <1>4, PositionsAppend
<1>6. /\ next' \in Seq(Nat) /\ Len(next') = created /\ next'[t] = a + 1
      /\ \A u \in 1..created : u # t => next'[u] = next[u]
  BY <1>2, <1>3 DEF ReduceInv, ReduceTypeOK
<1>7. /\ reduced_output' \in Seq(Seq(Nat)) /\ Len(reduced_output') = created
      /\ reduced_output'[t] = Positions(From(t), a + 1)
      /\ \A u \in 1..created : u # t => reduced_output'[u] = reduced_output[u]
  <2>1. PICK x \in Seq(Nat) : x = Append(reduced_output[t], a)
    <3>1. PICK y : y = reduced_output[t]
      OBVIOUS
    <3>2. y \in Seq(Nat) /\ a \in Nat
      BY <1>3, <3>1
    <3>3. Append(y, a) \in Seq(Nat)
      BY ONLY <3>2
    <3> QED BY <3>1, <3>3
  <2> QED BY <1>2, <1>5, <2>1 DEF ReduceInv, ReduceTypeOK
<1>8. ReduceTypeOK' /\ DivideInv' /\ MergeInv'
  BY <1>2, <1>6, <1>7 DEF ReduceInv, ReduceTypeOK, DivideInv, MergeInv, To
<1>9. PartInv'
  <2>1. \A u : (From(u))' = From(u) /\ (To(u))' = To(u)
    BY <1>2 DEF From, To
  <2>2. ASSUME NEW u \in 1..created
        PROVE  /\ last[u] = To(u) /\ From(u) <= next'[u] /\ next'[u] <= last[u]
               /\ reduced_output'[u] = Positions(From(u), next'[u])
    <3>1. CASE u = t
      BY <1>2, <1>3, <1>4, <1>6, <1>7, <3>1 DEF ReduceInv, PartInv
    <3>2. CASE u # t
      BY <1>6, <1>7, <3>2 DEF ReduceInv, PartInv
    <3> QED BY <3>1, <3>2
  <2> QED BY <1>2, <2>1, <2>2 DEF PartInv
<1> QED BY <1>8, <1>9 DEF ReduceInv

LEMMA ReduceJoinKeeps == ASSUME ReduceInv, R!Join PROVE ReduceInv'
<1>1. PICK m : m = merged
  OBVIOUS
<1>2. /\ step = "create" /\ created = num_threads /\ m < num_threads
      /\ next[m + 1] >= last[m + 1] /\ sum' = sum \o reduced_output[m + 1]
      /\ merged' = m + 1
      /\ UNCHANGED <<call, num_threads, offset, step, created, next, last, reduced_output>>
  BY <1>1 DEF R!Join
<1>3. /\ call[1] \in Nat /\ num_threads \in Nat /\ offset \in Nat /\ m \in Nat
      /\ m + 1 \in 1..created
      /\ \A t \in 0..num_threads : t * offset \in Nat /\ t * offset <= call[1]
  BY <1>1, <1>2 DEF ReduceInv, ReduceTypeOK, DivideInv
<1>4. next[m + 1] \in Nat /\ last[m + 1] \in Nat
  <2>1. /\ next \in Seq(Nat) /\ m + 1 \in 1..Len(next)
        /\ last \in Seq(Nat) /\ m + 1 \in 1..Len(last)
    BY <1>3 DEF ReduceInv, ReduceTypeOK
  <2> QED BY <2>1, ElementOfSeq
<1>5. /\ reduced_output[m + 1] = Positions(From(m + 1), To(m + 1)) /\ last[m + 1] = To(m + 1)
      /\ From(m + 1) <= To(m + 1)
  BY <1>2, <1>3, <1>4 DEF ReduceInv, PartInv
<1>6. From(m + 1) = m * offset /\ From(m + 1) \in Nat
  BY <1>2, <1>3 DEF From
<1>7. sum = Positions(0, From(m + 1))
  BY <1>1, <1>2, <1>3, <1>6 DEF ReduceInv, MergeInv, To
<1>8. sum' = Positions(0, To(m + 1))
  <2>1. PICK f, g : f = From(m + 1) /\ g = To(m + 1)
    OBVIOUS
  <2>2. f \in Nat /\ g \in Nat /\ f <= g
    BY <1>4, <1>5, <1>6, <2>1
  <2>3. Positions(0, f) \o Positions(f, g) = Positions(0, g)
    BY ONLY <2>2, 0 \in Nat, 0 <= f, PositionsJoin
  <2> QED BY <1>2, <1>5, <1>7, <2>1, <2>3
<1>9. \A u : (From(u))' = From(u) /\ (To(u))' = To(u)
  BY <1>2 DEF From, To
<1>10. ReduceTypeOK' /\ DivideInv'
  BY <1>1, <1>2, <1>3 DEF ReduceInv, ReduceTypeOK, DivideInv
<1>11. PartInv'
  BY <1>2, <1>9 DEF ReduceInv, PartInv
<1>12. MergeInv'
  BY <1>2, <1>3, <1>8, <1>9 DEF MergeInv
<1> QED BY <1>10, <1>11, <1>12 DEF ReduceInv

LEMMA ReturnKeeps == ASSUME ReduceInv, R!Return PROVE ReduceInv'
  BY DEF R!Return, ReduceInv, ReduceTypeOK, DivideInv, PartInv, MergeInv, From, To

LEMMA ReduceInvariant == R!Spec => []ReduceInv
<1>1. ReduceInv /\ [R!Next]_R!vars => ReduceInv'
  <2> SUFFICES ASSUME ReduceInv, [R!Next]_R!vars PROVE ReduceInv'
    OBVIOUS
  <2>1. CASE R!Next
    BY <2>1, DivideKeeps, ReduceCreateKeeps, ReducePartKeeps, ReduceJoinKeeps, ReturnKeeps
       DEF R!Next, R!Main
  <2>2. CASE UNCHANGED R!vars
    BY <2>2 DEF R!vars, ReduceInv, ReduceTypeOK, DivideInv, PartInv, MergeInv, From, To
  <2> QED BY <2>1, <2>2
<1> QED BY <1>1, ReduceInitInv, PTL DEF R!Spec

\* For lists of any length and any number of threads par_reduce returns the
\* reduction of the whole list, each element once and in order, or traps where
\* it divides by zero.
THEOREM ReduceCorrect == R!Spec => []R!ReducesList
<1>1. ReduceInv => R!ReducesList
  <2> SUFFICES ASSUME ReduceInv PROVE R!ReducesList
    OBVIOUS
  <2>1. ASSUME step = "done" PROVE sum = [i \in 1..call[1] |-> i - 1]
    <3>1. call[1] \in Nat /\ merged # 0 /\ merged = num_threads
      BY <2>1 DEF ReduceInv, ReduceTypeOK, DivideInv
    <3>2. sum = Positions(0, call[1])
      BY <3>1 DEF ReduceInv, MergeInv, To
    <3> QED BY <3>1, <3>2 DEF Positions
  <2> QED BY <2>1 DEF ReduceInv, DivideInv, R!ReducesList, R!list_len
<1> QED BY <1>1, ReduceInvariant, PTL

(***************************************************************************)
(* The crackers report every password and par_reduce.c reduces every list  *)
(* rightly, whatever the interleaving of their threads: WorkDivided holds  *)
(* for any number of threads.  The three programs do not interact, and     *)
(* each is as its specification says.                                      *)
(***************************************************************************)
THEOREM WorkCorrect == C1!Spec /\ C2!Spec /\ R!Spec => []WorkDivided
BY ReportsCorrect, SummariesCorrect, ReduceCorrect, PTL DEF WorkDivided
==============================================================================
