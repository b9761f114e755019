----------------------------- MODULE WaitGraph -----------------------------
(***************************************************************************)
(* Cycles in the resource allocation graph of deadlock_demolition/libdrm.c.*)
(* An edge <<t, d>> is a request of thread t for drm d, an edge <<d, t>>   *)
(* says that t holds d.                                                    *)
(***************************************************************************)
CONSTANTS Threads, Drms

\* A set of threads each of which waits, along the edges, for one of the set.
Closed(S, edges) == \A t \in S : \E d \in Drms, u \in S :
                       <<t, d>> \in edges /\ <<d, u>> \in edges

(***************************************************************************)
(* contains_cycle: the walk from t never ends.  Module DrmCycle checks     *)
(* that this is what the recursive search of the code computes on graphs   *)
(* whose vertices have at most one outgoing edge, and module Drm that the  *)
(* graph is always one of those (RagMatchesOwners).                        *)
(***************************************************************************)
contains_cycle(t, edges) == \E S \in SUBSET Threads : t \in S /\ Closed(S, edges)
=============================================================================
