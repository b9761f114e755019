------------------------------ MODULE Semamore ------------------------------
(***************************************************************************)
(* critical_concurrency/semamore.c: a semaphore with an upper bound.       *)
(* semm_wait blocks at 0, semm_post blocks at max_val; both sleep on one   *)
(* condition variable and wake one sleeper with pthread_cond_signal.       *)
(* Waiters call semm_wait Calls[t] times, posters semm_post.               *)
(***************************************************************************)
EXTENDS Integers, FiniteSets, Functions, Monitor

CONSTANTS Waiters, Posters,
          Calls,   \* the number of calls each thread makes
          Inits    \* the pairs of arguments semm_init is called with

VARIABLES at,
          value, max_val,   \* the fields of Semamore
          init_val,         \* history: the first value
          done              \* how many calls of each thread have returned

semFixed == <<max_val, init_val>>
semVars == <<monitorVars, at, value, semFixed, done>>

\* Every thread is a waiter or a poster, and semm_init is not given a value
\* above the bound.
ASSUME SemamoreAssumption ==
    /\ IsFiniteSet(Threads)
    /\ Threads = Waiters \union Posters /\ Waiters \intersect Posters = {}
    /\ Calls \in [Threads -> Nat]
    /\ \A i \in Inits : i[1] \in Nat /\ i[2] \in Nat /\ i[1] <= i[2]

-----------------------------------------------------------------------------
\* semm_init
semm_init == /\ MonitorInit
             /\ at = [t \in Threads |-> "start"]
             /\ \E i \in Inits : value = i[1] /\ init_val = i[1] /\ max_val = i[2]
             /\ done = [t \in Threads |-> 0]

Move(t, label) == at' = [at EXCEPT ![t] = label]

Blocked(t) == value = (IF t \in Waiters THEN 0 ELSE max_val)

Enter(t) == /\ at[t] = "start" /\ done[t] < Calls[t]
            /\ MutexLock(t)
            /\ Move(t, "test")
            /\ UNCHANGED <<waiting, spurious, value, done, semFixed>>

Sleep(t) == /\ at[t] = "test" /\ Blocked(t)
            /\ CondWait(t)
            /\ Move(t, "asleep")
            /\ UNCHANGED <<spurious, value, done, semFixed>>

\* Mutant of Retest: an if instead of the while loop.
RetestNot(t) == /\ at[t] = "asleep"
                /\ MutexLock(t)
                /\ value' = IF t \in Waiters THEN value - 1 ELSE value + 1
                /\ Move(t, "signal")
                /\ UNCHANGED <<waiting, spurious, done, semFixed>>

Retest(t) == /\ at[t] = "asleep"
             /\ MutexLock(t)
             /\ Move(t, "test")
             /\ UNCHANGED <<waiting, spurious, value, done, semFixed>>

\* The loop ends: value-- in semm_wait, value++ in semm_post.
Change(t) == /\ at[t] = "test" /\ ~Blocked(t)
             /\ value' = IF t \in Waiters THEN value - 1 ELSE value + 1
             /\ Move(t, "signal")
             /\ UNCHANGED <<monitorVars, done, semFixed>>

Signal(t) == /\ at[t] = "signal"
             /\ CondSignal
             /\ Move(t, "unlock")
             /\ UNCHANGED <<mutex, spurious, value, done, semFixed>>

Leave(t) == /\ at[t] = "unlock"
            /\ MutexUnlock(t)
            /\ done' = [done EXCEPT ![t] = done[t] + 1]
            /\ Move(t, "start")
            /\ UNCHANGED <<waiting, spurious, value, semFixed>>

SemSpurious == SpuriousWakeup /\ UNCHANGED <<at, value, done, semFixed>>

SemStep(t) == \/ Enter(t) \/ Sleep(t) \/ Retest(t) \/ Change(t) \/ Signal(t) \/ Leave(t)

SemNext == (\E t \in Threads : SemStep(t)) \/ SemSpurious

SemSpec == semm_init /\ [][SemNext]_semVars

-----------------------------------------------------------------------------
(***************************************************************************)
(* No semm_wait or semm_post is lost or counted twice, and the value stays *)
(* between 0 and max_val, whatever the interleaving: the equality tests of *)
(* the two loops are never stepped over.                                   *)
(***************************************************************************)
Changes(t) == done[t] + (IF at[t] \in {"signal", "unlock"} THEN 1 ELSE 0)
SemamoreAccounted ==
    /\ value \in 0..max_val
    /\ value = init_val + SumFunction([t \in Posters |-> Changes(t)])
                        - SumFunction([t \in Waiters |-> Changes(t)])

\* Nothing more can happen by itself: every unfinished thread is asleep.
Quiet == \A t \in Threads : t \in waiting \/ (at[t] = "start" /\ done[t] = Calls[t])

\* No poster can ever meet max_val.
Roomy == init_val + SumFunction([t \in Posters |-> Calls[t]]) <= max_val

(***************************************************************************)
(* The comment on semm_post: it "should block when the value ... is at     *)
(* max_value.  Otherwise, should increment the value": no poster is left   *)
(* asleep for good below max_val.                                          *)
(***************************************************************************)
PostersBlockAtMax == Quiet => \A t \in Posters \intersect waiting : value = max_val

=============================================================================
