----------------------------- MODULE MapReduce -----------------------------
(***************************************************************************)
(* mapreduce/mapreduce.c: main makes a pipe for every mapper and one for   *)
(* the reducer, forks a splitter and a mapper for every piece and one      *)
(* reducer, closes its ends of the pipes and waits for the reducer and the *)
(* mappers.  A child holds all ends that main held at the fork until       *)
(* descriptors_closeall and exec; a reader gets an end of file only once   *)
(* nobody holds the write end, and a writer is killed by SIGPIPE once      *)
(* nobody holds the read end.                                              *)
(*                                                                         *)
(* The programs are external: a splitter writes its piece, a mapper reads  *)
(* to the end and writes a result for every item, the reducer reads to the *)
(* end.  What is counted as output is what the reducer has read.           *)
(***************************************************************************)
EXTENDS Integers, Sequences, SequencesExt

CONSTANTS num_mappers,
          Pieces,     \* the number of items in a piece
          Capacity    \* of a pipe, in items

ASSUME MapReduceAssumption == num_mappers \in Nat /\ Pieces \in Nat /\ Capacity \in Nat

Mappers == 1..num_mappers

Splitter(i) == <<"splitter", i>>
Mapper(i) == <<"mapper", i>>
Reducer == <<"reducer", 0>>
Driver == <<"main", 0>>
Children == {Splitter(i) : i \in Mappers} \union {Mapper(i) : i \in Mappers} \union {Reducer}

\* A pipe is named by its reader.
Pipes == {Mapper(i) : i \in Mappers} \union {Reducer}
Stdout(c) == IF c[1] = "splitter" THEN Mapper(c[2]) ELSE Reducer

VARIABLES turn,      \* what main does next: fork child number turn, then wait
          proc,      \* none, forked, running or ended, for every child; main's state
          code,      \* exit codes; Killed for a signal
          readers, writers,   \* who holds the ends of every pipe
          pipe,      \* the items in every pipe
          written,   \* the items a splitter has written
          held,      \* the item a mapper has read and not yet written
          received,  \* what the reducer has read
          reported   \* the children whose exit code main has printed

pipeVars == <<readers, writers, pipe>>
driverVars == <<turn, proc, code, pipeVars, written, held, received, reported>>

Killed == 256
Nothing == <<>>
Items == {<<i, k>> : i \in Mappers, k \in 1..Pieces}

\* The order in which main forks, and in which it waits.
Forks == [n \in 1..(2 * num_mappers + 1) |-> IF n <= num_mappers THEN Splitter(n)
                                             ELSE IF n <= 2 * num_mappers
                                                  THEN Mapper(n - num_mappers) ELSE Reducer]
WaitOrder == [n \in 1..(num_mappers + 1) |-> IF n = 1 THEN Reducer ELSE Mapper(n - 1)]

DriverInit ==
    /\ turn = 1
    /\ proc = [c \in Children \union {Driver} |-> IF c = Driver THEN "forking" ELSE "none"]
    /\ code = [c \in Children \union {Driver} |-> 0]
    /\ readers = [p \in Pipes |-> {Driver}] /\ writers = [p \in Pipes |-> {Driver}]
    /\ pipe = [p \in Pipes |-> <<>>]
    /\ written = [i \in Mappers |-> 0] /\ held = [i \in Mappers |-> Nothing]
    /\ received = <<>> /\ reported = {}

\* descriptors_closeall by c, which keeps the ends in keep.
CloseAll(c, keep) ==
    /\ readers' = [p \in Pipes |-> IF <<p, "r">> \in keep THEN readers[p] ELSE readers[p] \ {c}]
    /\ writers' = [p \in Pipes |-> IF <<p, "w">> \in keep THEN writers[p] ELSE writers[p] \ {c}]

\* c ends; the system closes what it holds.
End(c, status) == /\ proc' = [proc EXCEPT ![c] = "ended"]
                  /\ code' = [code EXCEPT ![c] = status]
                  /\ CloseAll(c, {})

-----------------------------------------------------------------------------
\* fork in exec_splitter and exec_process; end(2) if it fails.
Fork == LET c == Forks[turn]
        IN /\ proc[Driver] = "forking" /\ turn <= Len(Forks)
           /\ proc' = [proc EXCEPT ![c] = "forked"]
           /\ readers' = [p \in Pipes |-> readers[p] \union {c}]
           /\ writers' = [p \in Pipes |-> writers[p] \union {c}]
           /\ turn' = turn + 1
           /\ UNCHANGED <<code, pipe, written, held, received, reported>>

ForkFails == /\ proc[Driver] = "forking" /\ turn <= Len(Forks)
             /\ End(Driver, 2)
             /\ UNCHANGED <<turn, pipe, written, held, received, reported>>

\* Mutant of ForkDone: main keeps its ends of the pipes.
ForkDoneOpen == /\ proc[Driver] = "forking" /\ turn > Len(Forks)
                /\ proc' = [proc EXCEPT ![Driver] = "waiting"] /\ turn' = 1
                /\ UNCHANGED <<code, pipeVars, written, held, received, reported>>

ForkDone == /\ proc[Driver] = "forking" /\ turn > Len(Forks)
            /\ CloseAll(Driver, {})
            /\ proc' = [proc EXCEPT ![Driver] = "waiting"] /\ turn' = 1
            /\ UNCHANGED <<code, pipe, written, held, received, reported>>

\* Mutant of Wait: the exit codes of mappers are not looked at.
WaitReducerOnly == LET c == WaitOrder[turn]
                   IN /\ proc[Driver] = "waiting" /\ turn <= Len(WaitOrder)
                      /\ proc[c] = "ended"
                      /\ reported' = IF c = Reducer /\ code[c] \notin {0, Killed} THEN {c}
                                     ELSE reported
                      /\ turn' = turn + 1
                      /\ UNCHANGED <<proc, code, pipeVars, written, held, received>>

\* waitpid, first for the reducer, then for the mappers.  Exit codes are
\* printed, signals are not; the order of the lines is left out.
Wait == LET c == WaitOrder[turn]
        IN /\ proc[Driver] = "waiting" /\ turn <= Len(WaitOrder)
           /\ proc[c] = "ended"
           /\ reported' = IF code[c] \notin {0, Killed} THEN reported \union {c} ELSE reported
           /\ turn' = turn + 1
           /\ UNCHANGED <<proc, code, pipeVars, written, held, received>>

Finish == /\ proc[Driver] = "waiting" /\ turn > Len(WaitOrder)
          /\ End(Driver, 0)
          /\ UNCHANGED <<turn, pipe, written, held, received, reported>>

\* The child makes the ends it needs its standard input and output, closes
\* the others and executes its program.
Exec(c) == /\ proc[c] = "forked"
           /\ CloseAll(c, {<<c, "r">>} \union (IF c = Reducer THEN {} ELSE {<<Stdout(c), "w">>}))
           /\ proc' = [proc EXCEPT ![c] = "running"]
           /\ UNCHANGED <<turn, code, pipe, written, held, received, reported>>

\* dup2 or execlp fails.
ExecFails(c) == /\ proc[c] = "forked"
                /\ \E status \in {1, 2} : End(c, status)
                /\ UNCHANGED <<turn, pipe, written, held, received, reported>>

-----------------------------------------------------------------------------
CanWrite(p) == readers[p] # {} /\ Len(pipe[p]) < Capacity
EndOfFile(p) == pipe[p] = <<>> /\ writers[p] = {}

Split(i) == /\ proc[Splitter(i)] = "running" /\ written[i] < Pieces /\ CanWrite(Mapper(i))
            /\ written' = [written EXCEPT ![i] = @ + 1]
            /\ pipe' = [pipe EXCEPT ![Mapper(i)] = Append(@, <<i, written[i] + 1>>)]
            /\ UNCHANGED <<turn, proc, code, readers, writers, held, received, reported>>

Map(i) == /\ proc[Mapper(i)] = "running"
          /\ \/ /\ held[i] = Nothing /\ pipe[Mapper(i)] # <<>>
                /\ held' = [held EXCEPT ![i] = Head(pipe[Mapper(i)])]
                /\ pipe' = [pipe EXCEPT ![Mapper(i)] = Tail(@)]
             \/ /\ held[i] # Nothing /\ CanWrite(Reducer)
                /\ held' = [held EXCEPT ![i] = Nothing]
                /\ pipe' = [pipe EXCEPT ![Reducer] = Append(@, held[i])]
          /\ UNCHANGED <<turn, proc, code, readers, writers, written, received, reported>>

Reduce == /\ proc[Reducer] = "running" /\ pipe[Reducer] # <<>>
          /\ received' = Append(received, Head(pipe[Reducer]))
          /\ pipe' = [pipe EXCEPT ![Reducer] = Tail(@)]
          /\ UNCHANGED <<turn, proc, code, readers, writers, written, held, reported>>

\* A program has nothing left to do, or writes to a pipe without a reader.
Exit(c) == /\ proc[c] = "running"
           /\ \/ /\ \/ c[1] = "splitter" /\ written[c[2]] = Pieces
                    \/ c[1] = "mapper" /\ held[c[2]] = Nothing /\ EndOfFile(c)
                    \/ c = Reducer /\ EndOfFile(c)
                 /\ End(c, 0)
              \/ /\ \/ c[1] = "splitter" /\ written[c[2]] < Pieces
                    \/ c[1] = "mapper" /\ held[c[2]] # Nothing
                 /\ readers[Stdout(c)] = {}
                 /\ End(c, Killed)
           /\ UNCHANGED <<turn, pipe, written, held, received, reported>>

DriverStep == Fork \/ ForkFails \/ ForkDone \/ Wait \/ Finish
Child(c) == \/ Exec(c) \/ ExecFails(c) \/ Exit(c)
            \/ c[1] = "splitter" /\ Split(c[2])
            \/ c[1] = "mapper" /\ Map(c[2])
            \/ c = Reducer /\ Reduce

DriverNext == DriverStep \/ \E c \in Children : Child(c)

DriverSpec == /\ DriverInit /\ [][DriverNext]_driverVars
              /\ WF_driverVars(DriverStep) /\ \A c \in Children : WF_driverVars(Child(c))

-----------------------------------------------------------------------------
(***************************************************************************)
(* When main ends with exit code 0 and has printed no exit code, the       *)
(* reducer has read the result of every item once: whichever of mappers    *)
(* and reducer could not be started or were killed.  (Splitters are not    *)
(* waited for: that one could not be started goes unnoticed.)              *)
(***************************************************************************)
SilentMeansComplete ==
    /\ proc[Driver] = "ended" /\ code[Driver] = 0 /\ reported = {}
    /\ \A i \in Mappers : code[Splitter(i)] \in {0, Killed}
    => ToSet(received) = Items /\ Len(received) = Cardinality(Items)

(***************************************************************************)
(* Everything ends, main and every process it has started: also when forks *)
(* and execs fail, no process waits for ever for an end of file or for     *)
(* room in a pipe.                                                         *)
(***************************************************************************)
AllEnd == <>[](proc[Driver] = "ended" /\ \A c \in Children : proc[c] \in {"none", "ended"})
=============================================================================
