------------------------------ MODULE Cracker1 ------------------------------
(***************************************************************************)
(* password_cracker/cracker1.c: start queues one job per password and a    *)
(* NULL; every thread pulls jobs until it pulls the NULL, which it passes  *)
(* on.  The queue is the one Queue models, so its operations are atomic    *)
(* here, as BoundedFifo states.                                            *)
(*                                                                         *)
(* A job is reduced to the position of the password among the Size strings *)
(* with the known prefix; None stands for one that is not among them.      *)
(***************************************************************************)
EXTENDS Integers, Sequences, FiniteSets

CONSTANTS Threads, Size, Inputs, None

NULL == 0

VARIABLES input,      \* the positions read by scanf
          jobs,       \* the queue: numbers of jobs, or NULL
          main, total, cracked, joined,
          pc, task, key, hash_count, num_found,
          reports     \* history: what v1_print_thread_result printed

search == <<task, key, hash_count>>
vars == <<input, jobs, main, total, cracked, joined, pc, search, num_found, reports>>

Init == /\ input \in Inputs
        /\ jobs = <<>>
        /\ main = "read" /\ total = 0 /\ cracked = 0 /\ joined = {}
        /\ pc = [t \in Threads |-> "none"]
        /\ task = [t \in Threads |-> NULL]
        /\ key = [t \in Threads |-> 0]
        /\ hash_count = [t \in Threads |-> 0]
        /\ num_found = [t \in Threads |-> 0]
        /\ reports = <<>>

\* start: all jobs and the NULL are queued before any thread exists.
Load == /\ main = "read"
        /\ jobs' = [i \in 1..Len(input) |-> i] \o <<NULL>>
        /\ total' = Len(input)
        /\ main' = "create"
        /\ UNCHANGED <<input, cracked, joined, pc, search, num_found, reports>>

Create == /\ main = "create"
          /\ \E t \in Threads : pc[t] = "none" /\ pc' = [pc EXCEPT ![t] = "pull"]
          /\ main' = IF \E t \in Threads : pc'[t] = "none" THEN "create" ELSE "join"
          /\ UNCHANGED <<input, jobs, total, cracked, joined, search, num_found, reports>>

\* crack
Pull(t) == /\ pc[t] = "pull" /\ jobs # <<>>
           /\ jobs' = Tail(jobs)
           /\ IF Head(jobs) = NULL
              THEN pc' = [pc EXCEPT ![t] = "null"] /\ UNCHANGED search
              ELSE /\ task' = [task EXCEPT ![t] = Head(jobs)]
                   /\ key' = [key EXCEPT ![t] = 0]
                   /\ hash_count' = [hash_count EXCEPT ![t] = 1]
                   /\ pc' = [pc EXCEPT ![t] = "try"]
           /\ UNCHANGED <<input, main, total, cracked, joined, num_found, reports>>

\* The next string is made before the hash is compared, so the first one is
\* never tried; incrementString returns 0 when it is back at the first.
Try(t) == /\ pc[t] = "try"
          /\ key' = [key EXCEPT ![t] = (@ + 1) % Size]
          /\ IF key'[t] = 0
             THEN pc' = [pc EXCEPT ![t] = "missed"] /\ UNCHANGED hash_count
             ELSE /\ hash_count' = [hash_count EXCEPT ![t] = @ + 1]
                  /\ pc' = [pc EXCEPT ![t] = IF key'[t] = input[task[t]] THEN "found" ELSE "try"]
          /\ UNCHANGED <<input, jobs, main, total, cracked, joined, task, num_found, reports>>

Report(t) == /\ pc[t] \in {"found", "missed"}
             /\ reports' = Append(reports, [job |-> task[t], result |-> pc[t],
                                            hashes |-> hash_count[t]])
             /\ num_found' = [num_found EXCEPT ![t] = IF pc[t] = "found" THEN @ + 1 ELSE @]
             /\ pc' = [pc EXCEPT ![t] = "pull"]
             /\ UNCHANGED <<input, jobs, main, total, cracked, joined, search>>

PassOn(t) == /\ pc[t] = "null"
             /\ jobs' = Append(jobs, NULL)
             /\ pc' = [pc EXCEPT ![t] = "exit"]
             /\ UNCHANGED <<input, main, total, cracked, joined, search, num_found, reports>>

\* The joins and the summary; their order is of no consequence.
Join == /\ main = "join"
        /\ \E t \in Threads \ joined : /\ pc[t] = "exit"
                                       /\ cracked' = cracked + num_found[t]
                                       /\ joined' = joined \union {t}
        /\ main' = IF joined' = Threads THEN "done" ELSE "join"
        /\ UNCHANGED <<input, jobs, total, pc, search, num_found, reports>>

Thread(t) == Pull(t) \/ Try(t) \/ Report(t) \/ PassOn(t)
Main == Load \/ Create \/ Join

Next == Main \/ \E t \in Threads : Thread(t)

Spec == Init /\ [][Next]_vars

-----------------------------------------------------------------------------
(***************************************************************************)
(* When start prints the summary every job has been reported once, found   *)
(* exactly if its password is among the strings and not the first of them, *)
(* after that many hashes, the totals add up, and the queue holds nothing  *)
(* but the NULL.                                                           *)
(***************************************************************************)
Reportable == {i \in DOMAIN input : input[i] # None /\ input[i] > 0}
EachReportedOnce ==
    main = "done" =>
        /\ {reports[i].job : i \in DOMAIN reports} = 1..total
        /\ Len(reports) = total
        /\ \A i \in DOMAIN reports :
             LET r == reports[i]
             IN /\ r.result = (IF r.job \in Reportable THEN "found" ELSE "missed")
                /\ r.hashes = (IF r.job \in Reportable THEN input[r.job] + 1 ELSE Size)
        /\ cracked = Cardinality(Reportable)
        /\ jobs = <<NULL>>
=============================================================================
