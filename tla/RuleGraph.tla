----------------------------- MODULE RuleGraph -----------------------------
(***************************************************************************)
(* The dependency graph of parallel_make: a function deps from rules to    *)
(* the sequence of their dependencies, in the order graph_neighbors        *)
(* returns them.  The goals are the dependencies of the sentinel Root (the *)
(* rule "" of parser.c).                                                   *)
(***************************************************************************)
EXTENDS Sequences, SequencesExt

CONSTANTS Rules, Root

ASSUME RulesAssumption == Root \in Rules

\* S is complete: it has the dependencies of its members.
Complete(deps, S) == \A r \in S : ToSet(deps[r]) \subseteq S

\* What is needed to build the goals: it is in every complete set that has them.
NeededBy(deps) == {r \in Rules : \A S \in SUBSET Rules :
                     ToSet(deps[Root]) \subseteq S /\ Complete(deps, S) => r \in S}
=============================================================================
