------------------------------ MODULE Monitor ------------------------------
(***************************************************************************)
(* One pthread mutex and one pthread condition variable, as the modules of *)
(* critical_concurrency use them.  The C library is not part of the        *)
(* repository: these operators say what POSIX promises its callers, and    *)
(* nothing more.  A thread woken from pthread_cond_wait competes for the   *)
(* mutex like any other, and a wait may return without a signal (a         *)
(* spurious wakeup), at most MaxSpurious times in a behaviour.             *)
(***************************************************************************)
EXTENDS Naturals

CONSTANTS Threads,      \* the threads that use the monitor
          MaxSpurious   \* bound on the spurious wakeups of a behaviour

ASSUME MonitorAssumption == MaxSpurious \in Nat

VARIABLES mutex,        \* the thread that holds the mutex, as a set: {} is free
          waiting,      \* the threads inside pthread_cond_wait, not yet woken
          spurious      \* how many spurious wakeups have happened

monitorVars == <<mutex, waiting, spurious>>

MonitorTypeOK == /\ mutex \in SUBSET Threads
                 /\ \A t, u \in mutex : t = u
                 /\ waiting \in SUBSET Threads
                 /\ spurious \in 0..MaxSpurious

MonitorInit == mutex = {} /\ waiting = {} /\ spurious = 0

\* pthread_mutex_lock, and the re-acquisition at the end of pthread_cond_wait.
MutexLock(t) == /\ mutex = {}
                /\ t \notin waiting
                /\ mutex' = {t}

MutexUnlock(t) == mutex' = mutex \ {t}

\* pthread_cond_wait releases the mutex and starts waiting in one step.
CondWait(t) == /\ mutex' = mutex \ {t}
               /\ waiting' = waiting \union {t}

CondBroadcast == waiting' = {}

CondSignal == IF waiting = {} THEN waiting' = {}
                              ELSE \E t \in waiting : waiting' = waiting \ {t}

SpuriousWakeup == /\ spurious < MaxSpurious
                  /\ spurious' = spurious + 1
                  /\ \E t \in waiting : waiting' = waiting \ {t}
                  /\ UNCHANGED mutex
=============================================================================
