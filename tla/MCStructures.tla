---------------------------- MODULE MCStructures ----------------------------
(***************************************************************************)
(* Small instances of the programs that run in one thread (the MMU, the    *)
(* vector, the scheduler, the allocator, the leak checker, the file system *)
(* and the shell) for TLC.  A behaviour exercises one of them, chosen at   *)
(* the start.  The allocator has words that are smaller and greater than   *)
(* any block, and room for three blocks.                                   *)
(***************************************************************************)
EXTENDS Mmu, Scheduler, Memory, TLC

CONSTANTS j1, j2, j3, e1, e2, Junk, Exercised

VARIABLES program,
          vec, live, erased, expected,
          fs, wrote,
          newlines, shellRuns, cwd, history, history_file_path, files, last, entered, saved, count

vecVars == <<vec, live, erased, expected>>
fsVars == <<fs, wrote>>
shellVars == <<newlines, shellRuns, cwd, history, history_file_path, files, last, entered, saved,
               count>>

MCPages == {<<0, 1>>, <<0, 3>>, <<1, 1>>}
MCSegmented == {<<0, 1>>, <<1, 1>>}

\* The capacity grows once, from 2 to 4.
V == INSTANCE Vector WITH INITIAL_CAPACITY <- 2, MaxSize <- 4, Values <- {e1, e2}, Default <- None

\* Running times and priorities in different orders.
MCWorkload == j1 :> [rt |-> 3, priority |-> 2] @@ j2 :> [rt |-> 2, priority |-> 1]
                @@ j3 :> [rt |-> 1, priority |-> 2]
MCWorkloads == {MCWorkload}

\* Files of up to four blocks, two of them indirect, on a disk of six.
F == INSTANCE Minixfs WITH Paths <- {"p", "q", "r"}, Disk <- 1..6, BlockSize <- 2,
       NUM_DIRECT_BLOCKS <- 2, NUM_INDIRECT_BLOCKS <- 2, MaxInodes <- 2, EntriesPerBlock <- 2,
       Offsets <- {0, 1, 2, 4, 5}, Counts <- {1, 3}, MaxCalls <- 3

\* Two sessions and four lines in all: commands, their operators, changes of
\* directory and replays.
ShellLines == {<<"a">>, <<"a", "&&", "b">>, <<"cd", "d">>, <<"cd", "x", "||", "b">>, <<"a;", "b">>,
               <<"#1">>, <<"!">>, <<"!a">>, <<"!history">>}
H == INSTANCE Shell WITH Dirs <- {"h", "d"}, Lines <- ShellLines, MaxLines <- 4, MaxSessions <- 2,
       running <- shellRuns

\* The inputs of the programs that are not exercised do not vary.
StructuresInit == /\ program \in Exercised
                  /\ Init /\ V!Init /\ SchedulerInit /\ A!Init /\ M!Init /\ F!Init /\ H!Init
                  /\ program # "vector" => vec.owning
                  /\ program # "scheduler" => pqueue_scheme = "RR"
                  /\ program # "shell" => newlines

StructuresNext ==
    /\ \/ /\ program = "mmu" /\ Next
          /\ UNCHANGED <<vecVars, schedulerVars, allocVars, checkVars, fsVars, calls, shellVars>>
       \/ /\ program = "vector" /\ V!Next
          /\ UNCHANGED <<vars, schedulerVars, allocVars, checkVars, fsVars, calls, shellVars>>
       \/ /\ program = "scheduler" /\ SchedulerNext
          /\ UNCHANGED <<vars, vecVars, allocVars, checkVars, fsVars, calls, shellVars>>
       \/ /\ program = "alloc" /\ A!Next
          /\ UNCHANGED <<vars, vecVars, schedulerVars, checkVars, fsVars, calls, shellVars>>
       \/ /\ program = "memcheck" /\ M!Next
          /\ UNCHANGED <<vars, vecVars, schedulerVars, allocVars, fsVars, shellVars>>
       \/ /\ program = "minixfs" /\ F!Next
          /\ UNCHANGED <<vars, vecVars, schedulerVars, allocVars, checkVars, shellVars>>
       \/ /\ program = "shell" /\ H!Next
          /\ UNCHANGED <<vars, vecVars, schedulerVars, allocVars, checkVars, fsVars, calls>>
    /\ UNCHANGED program

allVars == <<program, vars, vecVars, schedulerVars, allocVars, checkVars, fsVars, calls, shellVars>>

StructuresSpec == StructuresInit /\ [][StructuresNext]_allVars

-----------------------------------------------------------------------------
(***************************************************************************)
(* vector.c keeps the elements it is given, and frees what it no longer    *)
(* holds (KeepsElements of Vector).                                        *)
(***************************************************************************)
VectorKeepsElements == V!KeepsElements

(***************************************************************************)
(* minixfs.c reads what was written and keeps the blocks of files apart    *)
(* (MinixfsSound of Minixfs).                                              *)
(***************************************************************************)
MinixfsSound == F!MinixfsSound

(***************************************************************************)
(* shell.c keeps its history over directories and sessions, and runs what  *)
(* a line means (HistoryKept and RunsWhatIsMeant of Shell).                *)
(***************************************************************************)
ShellSound == H!HistoryKept /\ H!RunsWhatIsMeant
=============================================================================
