----------------------------- MODULE MCPrograms -----------------------------
(***************************************************************************)
(* Small instances of the programs with several threads or processes (the  *)
(* chat client, the password crackers, parallel reduce and the map-reduce  *)
(* driver) for TLC, together with the monitors of MCSync.  A behaviour     *)
(* exercises one of them, chosen at the start.                             *)
(***************************************************************************)
EXTENDS MCSync, MapReduce, ChatClient, WorkSharing

\* Four strings and up to three jobs for two threads: the password is the
\* first or another of the strings, or not among them.
MCInputs1 == {<<1, 3>>, <<2, None, 0>>, <<>>}

\* Three strings for two threads, two passwords one after the other.
MCInputs2 == {<<i, j>> : i \in {0, 1, None}, j \in {2, None}}

\* Lists that the threads divide evenly and unevenly, more threads than
\* elements, and none.
MCReduceCalls == {<<5, 3>>, <<4, 2>>, <<2, 3>>, <<3, 3>>, <<1, 2>>, <<0, 0>>, <<2, 0>>}

MCCrackers == {t1, t2}

\* The inputs of the programs that are not exercised do not vary.
ProgramsInit == /\ SyncInit
                /\ C1!Init /\ C2!Init /\ DriverInit /\ R!Init /\ ClientInit
                /\ component # "cracker1" => input = <<>>
                /\ component # "cracker2" => passwords = <<0, 2>>
                /\ component # "par_reduce" => call = <<5, 3>>

programVars == <<cracker1Vars, cracker2Vars, driverVars, reduceVars, clientVars>>
monitors == <<monitorVars, barrierOnly, semOnly>>
allVars == <<component, monitors, programVars>>

\* A step of one of the programs, or of a monitor.
Crack1(A) == /\ component = "cracker1" /\ A
             /\ UNCHANGED <<component, monitors, cracker2Vars, driverVars, reduceVars, clientVars>>
Crack2(A) == /\ component = "cracker2" /\ A
             /\ UNCHANGED <<component, monitors, cracker1Vars, driverVars, reduceVars, clientVars>>
Drive(A) == /\ component = "mapreduce" /\ A
            /\ UNCHANGED <<component, monitors, cracker1Vars, cracker2Vars, reduceVars, clientVars>>
OfReduce(A) == /\ component = "par_reduce" /\ A
               /\ UNCHANGED <<component, monitors, cracker1Vars, cracker2Vars, driverVars,
                              clientVars>>
Chat(A) == /\ component = "chat client" /\ A
           /\ UNCHANGED <<component, monitors, cracker1Vars, cracker2Vars, driverVars, reduceVars>>
Sync(A) == A /\ UNCHANGED programVars

ProgramsNext == \/ Crack1(C1!Next) \/ Crack2(C2!Next)
                \/ Drive(DriverNext) \/ OfReduce(R!Next) \/ Chat(ClientNext)
                \/ Sync(SyncNext)

\* Every thread and every process keeps running.
ProgramsSpec ==
    /\ ProgramsInit /\ [][ProgramsNext]_allVars
    /\ \A t \in Threads : WF_allVars(Sync(SyncStep(t)))
    /\ WF_allVars(Crack1(C1!Main)) /\ \A t \in {t1, t2} : WF_allVars(Crack1(C1!Thread(t)))
    /\ WF_allVars(Crack2(C2!Main)) /\ \A w \in {1, 2} : WF_allVars(Crack2(C2!Thread(w)))
    /\ WF_allVars(Drive(DriverStep)) /\ \A c \in Children : WF_allVars(Drive(Child(c)))
    /\ WF_allVars(OfReduce(R!Main)) /\ \A t \in 1..3 : WF_allVars(OfReduce(R!Reduce(t)))
    /\ WF_allVars(Chat(ClientMain)) /\ WF_allVars(Chat(Handler))
    /\ WF_allVars(Chat(Writer)) /\ WF_allVars(Chat(Reader))

-----------------------------------------------------------------------------
(***************************************************************************)
(* The programs come to an end: the NULL reaches every thread of the first *)
(* cracker, every thread of the second stops for every password,           *)
(* par_reduce joins its threads, nobody in a map-reduce waits for ever for *)
(* an end of file (AllEnd), and a chat client ends after SIGINT            *)
(* (InterruptEnds).                                                        *)
(***************************************************************************)
ProgramsEnd == /\ component \in {"cracker1", "cracker2", "par_reduce"}
                    ~> \/ component = "cracker1" /\ parent = "done"
                       \/ component = "cracker2" /\ user > Len(passwords)
                       \/ component = "par_reduce" /\ step \in {"done", "crashed"}
               /\ component = "mapreduce" => AllEnd
               /\ InterruptEnds
=============================================================================
