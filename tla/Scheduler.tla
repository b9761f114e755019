----------------------------- MODULE Scheduler -----------------------------
(***************************************************************************)
(* savvy_scheduler/libscheduler.c: the ready queue, the bookkeeping of the *)
(* jobs and the totals of the statistics, for all six schemes.             *)
(*                                                                         *)
(* The callers (gthreads) and the priority queue are libraries: a job runs *)
(* for its running time, the scheduler is asked once per unit of time, and *)
(* an offered job goes to any place its comparison function allows.        *)
(***************************************************************************)
EXTENDS Integers, Sequences, FiniteSets, FiniteSetsExt, SequencesExt

CONSTANTS Jobs,
          Workloads,  \* the running times and priorities a behaviour may have
          MaxTime,    \* bound of the clock
          Idle        \* no job

\* A job runs for some time.
ASSUME SchedulerAssumption ==
    /\ IsFiniteSet(Jobs) /\ Idle \notin Jobs
    /\ Workloads \subseteq [Jobs -> [rt : Nat \ {0}, priority : Int]]
    /\ MaxTime \in Nat

Schemes == {"FCFS", "PRI", "PPRI", "PSRTF", "RR", "SJF"}

VARIABLES pqueue_scheme,
          pqueue,     \* the jobs that are ready, best first
          info,       \* metadata of the jobs
          totals,     \* job_count, twt, ttat, trt
          workload, time, running,
          asked,      \* whether the scheduler has been asked since the clock moved
          came, started, ran, waited,  \* history of the jobs
          passed,     \* history: the jobs that had a turn since this one is ready
          sums        \* history: the totals by the history of the jobs

fixed == <<pqueue_scheme, workload>>
world == <<time, running, asked>>
jobHistory == <<came, started, ran, waited, passed, sums>>
schedulerVars == <<fixed, pqueue, info, totals, world, jobHistory>>

NoInfo == [priority |-> 0, rt |-> 0, rr_time |-> 0, xxtime |-> 0, ut |-> 0, st |-> 0]
NoTotals == [job_count |-> 0, twt |-> 0, ttat |-> 0, trt |-> 0]

\* scheduler_start_up; the clock of the callers is past 0.
SchedulerInit ==
    /\ pqueue_scheme \in Schemes /\ workload \in Workloads
    /\ pqueue = <<>> /\ info = [j \in Jobs |-> NoInfo] /\ totals = NoTotals
    /\ time = 1 /\ running = Idle /\ asked = FALSE
    /\ came = [j \in Jobs |-> 0] /\ started = [j \in Jobs |-> 0]
    /\ ran = [j \in Jobs |-> 0] /\ waited = [j \in Jobs |-> 0]
    /\ passed = [j \in Jobs |-> {}] /\ sums = NoTotals

Preemptive == pqueue_scheme \in {"PPRI", "PSRTF", "RR"}

\* The comparison functions as keys, compared from left to right; break_tie
\* makes the second part.
Key(m) == CASE pqueue_scheme = "FCFS" -> <<m.xxtime, 0>>
            [] pqueue_scheme \in {"PRI", "PPRI"} -> <<m.priority, m.xxtime>>
            [] pqueue_scheme = "PSRTF" -> <<m.rt - m.ut, m.xxtime>>
            [] pqueue_scheme = "RR" -> <<m.rr_time, 0>>
            [] pqueue_scheme = "SJF" -> <<m.rt, m.xxtime>>
Less(k, l) == k[1] < l[1] \/ (k[1] = l[1] /\ k[2] < l[2])

\* The queues that priqueue_offer can make of q and job j, with metadata m.
Offers(q, j, m) ==
    {InsertAt(q, i, j) :
       i \in {k \in 1..Len(q) + 1 :
                /\ \A h \in 1..k - 1 : ~Less(Key(m[j]), Key(m[q[h]]))
                /\ \A h \in k..Len(q) : ~Less(Key(m[q[h]]), Key(m[j]))}}

scheduler_new_job(j) ==
    /\ came[j] = 0
    /\ info' = [info EXCEPT ![j] = [NoInfo EXCEPT !.xxtime = time, !.rt = workload[j].rt,
                                                  !.priority = workload[j].priority]]
    /\ pqueue' \in Offers(pqueue, j, info')
    /\ came' = [came EXCEPT ![j] = time]
    /\ UNCHANGED <<fixed, totals, world, started, ran, waited, passed, sums>>

Done == running # Idle /\ ran[running] = workload[running].rt

\* Taking the best job off the queue q, with metadata m.
Poll(q, m) ==
    /\ pqueue' = Tail(q) /\ running' = Head(q)
    /\ LET x == m[Head(q)]
       IN info' = [m EXCEPT ![Head(q)] = [x EXCEPT !.rr_time = time,
                                                   !.st = IF x.ut = 0 THEN time ELSE x.st]]
    /\ started' = IF started[Head(q)] = 0 THEN [started EXCEPT ![Head(q)] = time] ELSE started
    /\ passed' = [j \in Jobs |-> IF j = Head(q) THEN {} ELSE passed[j] \union {Head(q)}]

\* Mutant: the time a job has used is not counted when it is evicted.
EvictUncounted ==
    /\ ~asked /\ Preemptive /\ running # Idle /\ ~Done
    /\ \E q \in Offers(pqueue, running, info) : Poll(q, info)
    /\ asked' = TRUE
    /\ UNCHANGED <<fixed, totals, time, came, ran, waited, sums>>

\* scheduler_quantum_expired with a job, under a preemptive scheme ...
Evict ==
    /\ ~asked /\ Preemptive /\ running # Idle /\ ~Done
    /\ LET used == [info EXCEPT ![running].ut = @ + time - info[running].rr_time]
       IN \E q \in Offers(pqueue, running, used) : Poll(q, used)
    /\ asked' = TRUE
    /\ UNCHANGED <<fixed, totals, time, came, ran, waited, sums>>

\* ... under another one ...
Keep ==
    /\ ~asked /\ ~Preemptive /\ running # Idle /\ ~Done
    /\ asked' = TRUE
    /\ UNCHANGED <<fixed, pqueue, info, totals, time, running, jobHistory>>

\* ... and without one.
Dispatch ==
    /\ ~asked /\ running = Idle
    /\ IF pqueue = <<>> THEN UNCHANGED <<pqueue, running, info, started, passed>>
                        ELSE Poll(pqueue, info)
    /\ asked' = TRUE
    /\ UNCHANGED <<fixed, totals, time, came, ran, waited, sums>>

\* Mutant: the response time is counted from the last start.
FinishedLastStart ==
    /\ ~asked /\ Done
    /\ LET x == info[running]
       IN totals' = [job_count |-> totals.job_count + 1,
                     ttat |-> totals.ttat + time - x.xxtime,
                     twt |-> totals.twt + time - x.xxtime - x.rt,
                     trt |-> totals.trt + x.rr_time - x.xxtime]
    /\ sums' = [job_count |-> sums.job_count + 1,
                ttat |-> sums.ttat + waited[running] + ran[running],
                twt |-> sums.twt + waited[running],
                trt |-> sums.trt + started[running] - came[running]]
    /\ info' = [info EXCEPT ![running] = NoInfo]
    /\ running' = Idle
    /\ UNCHANGED <<fixed, pqueue, time, asked, came, started, ran, waited, passed>>

scheduler_job_finished ==
    /\ ~asked /\ Done
    /\ LET x == info[running]
       IN totals' = [job_count |-> totals.job_count + 1,
                     ttat |-> totals.ttat + time - x.xxtime,
                     twt |-> totals.twt + time - x.xxtime - x.rt,
                     trt |-> totals.trt + x.st - x.xxtime]
    /\ sums' = [job_count |-> sums.job_count + 1,
                ttat |-> sums.ttat + waited[running] + ran[running],
                twt |-> sums.twt + waited[running],
                trt |-> sums.trt + started[running] - came[running]]
    /\ info' = [info EXCEPT ![running] = NoInfo]
    /\ running' = Idle
    /\ UNCHANGED <<fixed, pqueue, time, asked, came, started, ran, waited, passed>>

\* The running job runs and the ready jobs wait for a unit of time.
Pass ==
    /\ asked /\ time < MaxTime
    /\ time' = time + 1 /\ asked' = FALSE
    /\ ran' = IF running = Idle THEN ran ELSE [ran EXCEPT ![running] = @ + 1]
    /\ waited' = [j \in Jobs |-> waited[j] + (IF j \in ToSet(pqueue) THEN 1 ELSE 0)]
    /\ UNCHANGED <<fixed, pqueue, info, totals, running, came, started, passed, sums>>

SchedulerNext == \/ \E j \in Jobs : scheduler_new_job(j)
                 \/ Evict \/ Keep \/ Dispatch \/ scheduler_job_finished \/ Pass

SchedulerSpec == SchedulerInit /\ [][SchedulerNext]_schedulerVars

-----------------------------------------------------------------------------
\* Whether j should rather run than k, by what has happened to both.
Left(j) == workload[j].rt - ran[j]
Better(j, k) ==
    CASE pqueue_scheme = "FCFS" -> came[j] < came[k]
      [] pqueue_scheme \in {"PRI", "PPRI"} ->
           Less(<<workload[j].priority, came[j]>>, <<workload[k].priority, came[k]>>)
      [] pqueue_scheme = "PSRTF" -> Less(<<Left(j), came[j]>>, <<Left(k), came[k]>>)
      [] pqueue_scheme = "RR" -> k \in passed[j]
      [] pqueue_scheme = "SJF" ->
           Less(<<workload[j].rt, came[j]>>, <<workload[k].rt, came[k]>>)

(***************************************************************************)
(* scheduler_quantum_expired answers with the best job there is, by the    *)
(* rule of the scheme and the true history of the jobs: under RR nobody    *)
(* has two turns while another waits for one; under PSRTF the time left is *)
(* what it really is.  It never takes the processor from a job unless the  *)
(* scheme is preemptive, and never leaves it idle while a job is ready.    *)
(***************************************************************************)
ChoosesBest ==
    [][~asked /\ asked' =>
          /\ running' = Idle => pqueue' = <<>>
          /\ running = Idle \/ Preemptive => \A j \in ToSet(pqueue') : ~Better(j, running')
          /\ running # Idle /\ ~Preemptive => running' = running]_schedulerVars

(***************************************************************************)
(* No job is lost, queued twice or both queued and running, and the totals *)
(* behind the three averages are those of the jobs that have finished:     *)
(* time spent ready, time until the first turn, and both with the time run.*)
(***************************************************************************)
Finished == {j \in Jobs : came[j] # 0 /\ ran[j] = workload[j].rt /\ j # running}
Ready == {j \in Jobs : came[j] # 0} \ (Finished \union {running})
StatisticsTrue == /\ ToSet(pqueue) = Ready /\ Len(pqueue) = Cardinality(Ready)
                  /\ totals = sums
                  /\ totals.job_count = Cardinality(Finished)
=============================================================================
