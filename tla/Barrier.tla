------------------------------ MODULE Barrier ------------------------------
(***************************************************************************)
(* critical_concurrency/barrier.c, driven the way barrier_tests.c drives   *)
(* it: each of n_threads threads repeats { count++; barrier_wait; look at  *)
(* count; barrier_wait } on one barrier.  barrier_wait calls               *)
(* pthread_cond_wait without a loop, so what it guarantees depends on      *)
(* whether a wait may return spuriously (MaxSpurious of Monitor).          *)
(***************************************************************************)
EXTENDS Integers, FiniteSets, Monitor

CONSTANTS n_threads,   \* the argument of barrier_init
          Waits        \* how many times each thread calls barrier_wait

ASSUME BarrierAssumption ==
    /\ IsFiniteSet(Threads)
    /\ n_threads = Cardinality(Threads)
    /\ Waits \in Nat

VARIABLES pc,
          count, times_used,   \* the fields of barrier_t
          tally,               \* the variable "count" of barrier_tests.c
          arrived,             \* history: how often each thread reached line 33
          left                 \* how many calls of barrier_wait have returned

barrier == <<count, times_used>>
vars == <<monitorVars, pc, barrier, tally, arrived, left>>

PcValues == {"client", "call", "arrive", "asleep", "unlock"}

-----------------------------------------------------------------------------
\* barrier_init
Init == /\ MonitorInit
        /\ pc = [t \in Threads |-> "client"]
        /\ count = 0 /\ times_used = 0
        /\ tally = 0
        /\ arrived = [t \in Threads |-> 0]
        /\ left = [t \in Threads |-> 0]

Goto(t, label) == pc' = [pc EXCEPT ![t] = label]

\* The client: it increments its tally before every other call.
Client(t) == /\ pc[t] = "client" /\ left[t] < Waits
             /\ tally' = IF left[t] % 2 = 0 THEN tally + 1 ELSE tally
             /\ Goto(t, "call")
             /\ UNCHANGED <<monitorVars, barrier, arrived, left>>

Lock(t) == /\ pc[t] = "call"
           /\ MutexLock(t)
           /\ Goto(t, "arrive")
           /\ UNCHANGED <<waiting, spurious, barrier, tally, arrived, left>>

\* Mutants of Arrive: the barrier opens one thread early; one thread is woken
\* instead of all.
ArriveEarly(t) ==
    /\ pc[t] = "arrive"
    /\ arrived' = [arrived EXCEPT ![t] = arrived[t] + 1]
    /\ IF count + 1 >= n_threads - 1
       THEN /\ CondBroadcast /\ count' = 0 /\ times_used' = times_used + 1
            /\ Goto(t, "unlock") /\ UNCHANGED mutex
       ELSE /\ CondWait(t) /\ count' = count + 1
            /\ Goto(t, "asleep") /\ UNCHANGED times_used
    /\ UNCHANGED <<spurious, tally, left>>

ArriveSignals(t) ==
    /\ pc[t] = "arrive"
    /\ arrived' = [arrived EXCEPT ![t] = arrived[t] + 1]
    /\ IF count + 1 = n_threads
       THEN /\ CondSignal /\ count' = 0 /\ times_used' = times_used + 1
            /\ Goto(t, "unlock") /\ UNCHANGED mutex
       ELSE /\ CondWait(t) /\ count' = count + 1
            /\ Goto(t, "asleep") /\ UNCHANGED times_used
    /\ UNCHANGED <<spurious, tally, left>>

\* Lines 33-42: the last of the threads opens the barrier, the others wait.
Arrive(t) ==
    /\ pc[t] = "arrive"
    /\ arrived' = [arrived EXCEPT ![t] = arrived[t] + 1]
    /\ IF count + 1 = n_threads
       THEN /\ CondBroadcast
            /\ count' = 0
            /\ times_used' = times_used + 1
            /\ Goto(t, "unlock")
            /\ UNCHANGED mutex
       ELSE /\ CondWait(t)
            /\ count' = count + 1
            /\ Goto(t, "asleep")
            /\ UNCHANGED times_used
    /\ UNCHANGED <<spurious, tally, left>>

\* pthread_cond_wait returns: nothing is tested again.
Wake(t) == /\ pc[t] = "asleep"
           /\ MutexLock(t)
           /\ Goto(t, "unlock")
           /\ UNCHANGED <<waiting, spurious, barrier, tally, arrived, left>>

Unlock(t) == /\ pc[t] = "unlock"
             /\ MutexUnlock(t)
             /\ left' = [left EXCEPT ![t] = left[t] + 1]
             /\ Goto(t, "client")
             /\ UNCHANGED <<waiting, spurious, barrier, tally, arrived>>

Spurious == SpuriousWakeup /\ UNCHANGED <<pc, barrier, tally, arrived, left>>

Step(t) == Client(t) \/ Lock(t) \/ Arrive(t) \/ Wake(t) \/ Unlock(t)

Next == (\E t \in Threads : Step(t)) \/ Spurious

Spec == Init /\ [][Next]_vars

-----------------------------------------------------------------------------
TypeOK == /\ MonitorTypeOK
          /\ pc \in [Threads -> PcValues]
          /\ count \in Nat /\ times_used \in Nat /\ tally \in Nat
          /\ arrived \in [Threads -> Nat]
          /\ left \in [Threads -> Nat]

(***************************************************************************)
(* What a barrier is for: no thread returns from its k-th barrier_wait     *)
(* before every thread has arrived at its k-th, also when fast threads are *)
(* already back for the next round while slow ones have not left this one; *)
(* as long as no wait has returned spuriously.                             *)
(***************************************************************************)
NoEarlyExit == spurious = 0 => \A t, u \in Threads : left[t] <= arrived[u]

(***************************************************************************)
(* The field count is the number of threads blocked in this round and      *)
(* times_used the number of completed rounds, as long as no wait of        *)
(* barrier_wait has returned spuriously.                                   *)
(***************************************************************************)
CountsMatch == /\ count = Cardinality(waiting)
               /\ \A t \in Threads :
                    arrived[t] = times_used + (IF t \in waiting THEN 1 ELSE 0)
CountsWaiters == spurious = 0 => CountsMatch

(***************************************************************************)
(* The check of barrier_tests.c, line 42 ("if (count % 5) pass2 = 0;"):    *)
(* between its two waits a thread sees a tally that is a multiple of the   *)
(* number of threads.                                                      *)
(***************************************************************************)
ReusableTestPasses == \A t \in Threads :
    pc[t] = "client" /\ left[t] % 2 = 1 => tally % n_threads = 0

=============================================================================
