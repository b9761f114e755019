------------------------------- MODULE MCDrm -------------------------------
(***************************************************************************)
(* A small instance of Drm for TLC, which also runs the literal search of  *)
(* module DrmCycle on every graph that libdrm builds.                      *)
(***************************************************************************)
EXTENDS Drm, TLC

Cycle == INSTANCE DrmCycle WITH Vertices <- Threads \union Drms

(***************************************************************************)
(* Where drm_wait calls contains_cycle (line 76), the recursive search     *)
(* over the graph with the request edge gives the answer that module Drm   *)
(* assumes, and leaves the global visited empty for the next call.         *)
(***************************************************************************)
SearchIsCorrect == \A t \in Threads : pc[t] = "check" =>
    LET edges == rag \union {<<t, arg[t]>>}
        search == Cycle!Search(edges, t, {})
    IN /\ search.cycle = contains_cycle(t, edges)
       /\ search.visited = {}
=============================================================================
