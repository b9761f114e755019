------------------------------- MODULE MCSync -------------------------------
(***************************************************************************)
(* The barrier and the semaphore of critical_concurrency, for TLC.  A      *)
(* behaviour exercises one of them, chosen at the start, while the other   *)
(* stays as it was initialised: four threads meet at the barrier, or two   *)
(* waiters and two posters use the semaphore.  The mutex and the condition *)
(* variable are those of the one that is exercised.                        *)
(***************************************************************************)
EXTENDS Barrier, Semamore, TLC

CONSTANTS t1, t2, t3, t4,
          Exercised    \* the components to exercise

MCThreads == {t1, t2, t3, t4}
MCWaiters == {t1, t2}
MCPosters == {t3, t4}

\* Two calls of each thread: one call suffices to lose a wakeup.
MCCalls == [t \in MCThreads |-> 2]
MCOneCall == [t \in MCThreads |-> 1]

\* semm_init(s, 1, 2): both bounds are met.  semm_init(s, 0, 4): room for all.
MCInits == {<<1, 2>>, <<0, 4>>}
\* semm_init(s, 0, 1): every post fills it.
MCTightInits == {<<0, 1>>}

VARIABLE component   \* the component of this behaviour

barrierOnly == <<pc, barrier, tally, arrived, left>>
semOnly == <<at, value, semFixed, done>>

\* The input of what is not exercised does not vary.
SyncInit == /\ component \in Exercised
            /\ Init /\ semm_init
            /\ component # "semamore" => <<init_val, max_val>> = CHOOSE i \in Inits : TRUE

\* A step of one of the components.
OfBarrier(A) == component = "barrier" /\ A /\ UNCHANGED <<component, semOnly>>
OfSemamore(A) == component = "semamore" /\ A /\ UNCHANGED <<component, barrierOnly>>

SyncNext == OfBarrier(Next) \/ OfSemamore(SemNext)

syncVars == <<monitorVars, barrierOnly, semOnly, component>>

SyncSpec == SyncInit /\ [][SyncNext]_syncVars

\* A step of a thread: threads keep running, and nothing is assumed about who
\* gets the mutex first.
SyncStep(t) == OfBarrier(Step(t)) \/ OfSemamore(SemStep(t))

-----------------------------------------------------------------------------
(***************************************************************************)
(* barrier_wait: if no wait ever returns spuriously, every thread returns  *)
(* from all its waits, also one that a fast thread has overtaken.          *)
(***************************************************************************)
BarrierReturns ==
    [](component = "barrier" /\ spurious = 0) => <>(\A t \in Threads : left[t] = Waits)

(***************************************************************************)
(* semm_wait, semm_post: with as many posts as waits every call returns,   *)
(* while max_val is out of reach: then one signal per change is enough.    *)
(***************************************************************************)
SemamoreReturns ==
    component = "semamore" /\ Roomy ~> \A t \in Threads : done[t] = Calls[t]

(***************************************************************************)
(* The calls of both monitors return.                                      *)
(***************************************************************************)
SyncReturns == BarrierReturns /\ SemamoreReturns
=============================================================================
