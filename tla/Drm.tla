-------------------------------- MODULE Drm --------------------------------
(***************************************************************************)
(* deadlock_demolition/libdrm.c: mutexes that refuse to be waited for when *)
(* waiting would deadlock.  A resource allocation graph (rag) is guarded   *)
(* by global_mut; drm->mut is taken and the graph is updated in separate   *)
(* critical sections, so the graph lags behind the real ownership.         *)
(* Each thread calls drm_wait and drm_post in any order, with any drm.     *)
(***************************************************************************)
EXTENDS WaitGraph

CONSTANT NoThread   \* the holder of a mutex that is free

ASSUME DrmAssumption == Threads \intersect Drms = {} /\ NoThread \notin Threads

VARIABLES pc,          \* where each thread is in drm_wait or drm_post
          arg,         \* the drm each thread passed to its current call
          owner,       \* owner[d]: the thread that holds d->mut
          global_mut,  \* the thread that holds global_mut
          vertices, rag,   \* vertices and edges of the graph
          destroyed    \* the drms for which drm_destroy has been called

vars == <<pc, arg, owner, global_mut, vertices, rag, destroyed>>

PcValues == {"idle", "check", "lock", "relock", "swap", "post"}

-----------------------------------------------------------------------------
Init == /\ pc = [t \in Threads |-> "idle"]
        /\ arg \in [Threads -> Drms]
        /\ owner = [d \in Drms |-> NoThread]
        /\ global_mut = NoThread
        /\ vertices = {} /\ rag = {}
        /\ destroyed = {}

Goto(t, label) == pc' = [pc EXCEPT ![t] = label]

\* drm_init, as one step: it holds global_mut throughout and waits for nothing else.
drm_init(d) == /\ global_mut = NoThread /\ destroyed = {}
               /\ d \notin vertices
               /\ vertices' = vertices \union {d}
               /\ UNCHANGED <<pc, arg, owner, global_mut, rag, destroyed>>

\* drm_wait and drm_post begin by taking global_mut.
Call(t, d, label) == /\ pc[t] = "idle" /\ global_mut = NoThread
                     /\ d \in vertices /\ destroyed = {}
                     /\ global_mut' = t
                     /\ arg' = [arg EXCEPT ![t] = d]
                     /\ Goto(t, label)
                     /\ UNCHANGED <<owner, vertices, rag, destroyed>>

drm_wait(t, d) == Call(t, d, "check")
drm_post(t, d) == Call(t, d, "post")

\* Mutants of WouldDeadlock: only a relock by the owner is refused; whatever
\* some thread holds is refused.
OnlyRelock(t, d) == <<d, t>> \in rag
RefusesHeld(t, d) == \E u \in Threads : <<d, u>> \in rag
WouldDeadlock(t, d) == \/ <<d, t>> \in rag
                       \/ contains_cycle(t, rag \union {<<t, d>>})

\* Lines 73-82 of drm_wait: the request edge stays only if no cycle arises.
Check(t) == /\ pc[t] = "check"
            /\ vertices' = vertices \union {t}
            /\ IF WouldDeadlock(t, arg[t])
               THEN rag' = rag \ {<<t, arg[t]>>} /\ Goto(t, "idle")
               ELSE rag' = rag \union {<<t, arg[t]>>} /\ Goto(t, "lock")
            /\ global_mut' = NoThread
            /\ UNCHANGED <<arg, owner, destroyed>>

\* Line 83: blocks while another thread holds the drm.
Lock(t) == /\ pc[t] = "lock" /\ owner[arg[t]] = NoThread
           /\ owner' = [owner EXCEPT ![arg[t]] = t]
           /\ Goto(t, "relock")
           /\ UNCHANGED <<arg, global_mut, vertices, rag, destroyed>>

Relock(t) == /\ pc[t] = "relock" /\ global_mut = NoThread
             /\ global_mut' = t
             /\ Goto(t, "swap")
             /\ UNCHANGED <<arg, owner, vertices, rag, destroyed>>

\* Mutant of Swap: the request edge stays.
SwapKeepsRequest(t) == /\ pc[t] = "swap"
                       /\ rag' = rag \union {<<arg[t], t>>}
                       /\ global_mut' = NoThread
                       /\ Goto(t, "idle")
                       /\ UNCHANGED <<arg, owner, vertices, destroyed>>

\* Lines 87-91: the request edge becomes an assignment edge.
Swap(t) == /\ pc[t] = "swap"
           /\ rag' = (rag \ {<<t, arg[t]>>}) \union {<<arg[t], t>>}
           /\ global_mut' = NoThread
           /\ Goto(t, "idle")
           /\ UNCHANGED <<arg, owner, vertices, destroyed>>

\* Lines 37-48 of drm_post: only the thread the graph calls the owner unlocks.
Post(t) == /\ pc[t] = "post"
           /\ IF /\ arg[t] \in vertices /\ t \in vertices
                 /\ <<arg[t], t>> \in rag
              THEN /\ rag' = rag \ {<<arg[t], t>>}
                   /\ owner' = [owner EXCEPT ![arg[t]] = NoThread]
              ELSE UNCHANGED <<rag, owner>>
           /\ global_mut' = NoThread
           /\ Goto(t, "idle")
           /\ UNCHANGED <<arg, vertices, destroyed>>

\* drm_destroy also destroys global_mut, so it is for the end of the program:
\* when every call has returned and every drm has been posted.
drm_destroy(d) == /\ \A t \in Threads : pc[t] = "idle"
                  /\ \A e \in Drms : owner[e] = NoThread
                  /\ d \in vertices
                  /\ destroyed' = destroyed \union {d}
                  /\ vertices' = vertices \ {d}
                  /\ rag' = {e \in rag : e[1] # d /\ e[2] # d}
                  /\ UNCHANGED <<pc, arg, owner, global_mut>>

Step(t) == Check(t) \/ Lock(t) \/ Relock(t) \/ Swap(t) \/ Post(t)

Next == \/ \E t \in Threads : Step(t)
        \/ \E t \in Threads, d \in Drms : drm_wait(t, d) \/ drm_post(t, d)
        \/ \E d \in Drms : drm_init(d) \/ drm_destroy(d)

Spec == Init /\ [][Next]_vars

(***************************************************************************)
(* For liveness: threads keep running, neither mutex starves a thread that *)
(* competes for it for ever, and every client posts what it holds.         *)
(***************************************************************************)
PostHeld(t, d) == owner[d] = t /\ drm_post(t, d)

FairSpec == /\ Spec
            /\ \A t \in Threads : /\ SF_vars(Step(t))
                                  /\ \A d \in Drms : SF_vars(PostHeld(t, d))

-----------------------------------------------------------------------------
TypeOK == /\ pc \in [Threads -> PcValues]
          /\ arg \in [Threads -> Drms]
          /\ owner \in [Drms -> Threads \union {NoThread}]
          /\ global_mut \in Threads \union {NoThread}
          /\ vertices \in SUBSET (Threads \union Drms)
          /\ rag \in SUBSET ((Threads \X Drms) \union (Drms \X Threads))
          /\ destroyed \in SUBSET Drms

(***************************************************************************)
(* The graph tells the truth, up to the window between line 83 and line    *)
(* 88: a request edge for exactly the threads between their check and      *)
(* their swap, an assignment edge for exactly the owners that are out of   *)
(* that window.  In particular no vertex has two outgoing edges.           *)
(***************************************************************************)
Requesting(t, d) == pc[t] \in {"lock", "relock", "swap"} /\ arg[t] = d
InWindow(t, d) == pc[t] \in {"relock", "swap"} /\ arg[t] = d

RagMatchesOwners == \A t \in Threads, d \in Drms :
    /\ <<t, d>> \in rag <=> Requesting(t, d)
    /\ <<d, t>> \in rag <=> owner[d] = t /\ ~InWindow(t, d)
    /\ InWindow(t, d) => owner[d] = t

(***************************************************************************)
(* Deadlock is demolished: at no time does every thread of a group sit in  *)
(* pthread_mutex_lock at line 83 waiting for a drm->mut that a thread of   *)
(* the group holds.  It is about the mutexes, not about the graph.         *)
(***************************************************************************)
WaitsFor(t, u) == pc[t] = "lock" /\ owner[arg[t]] = u
NoDeadlock == \A S \in SUBSET Threads :
    S # {} => \E t \in S : \A u \in S : ~WaitsFor(t, u)

(***************************************************************************)
(* drm_wait refuses (returns 0 after its check) only when waiting really   *)
(* would deadlock: the caller holds the drm, or the drm's owner waits,     *)
(* through mutexes that are really held, for the caller.                   *)
(***************************************************************************)
WaitIsFatal(t) ==
    \/ owner[arg[t]] = t
    \/ \E S \in SUBSET Threads :
        /\ t \in S
        /\ \E u \in S : owner[arg[t]] = u
        /\ \A u \in S \ {t} : \E v \in S : WaitsFor(u, v)
RefusalsJustified ==
    [][\A t \in Threads : pc[t] = "check" /\ pc'[t] = "idle" => WaitIsFatal(t)]_vars

(***************************************************************************)
(* If clients post what they hold, every drm_wait returns.                 *)
(***************************************************************************)
EveryWaitReturns == \A t \in Threads : pc[t] = "check" ~> pc[t] = "idle"
=============================================================================
