---------------------------- MODULE ParmakeLoad ----------------------------
(***************************************************************************)
(* parallel_make/parmake.c before the workers start: load_rules visits the *)
(* goals, marks what is to be built and drops the goals that depend on a   *)
(* cycle.                                                                  *)
(***************************************************************************)
EXTENDS Integers, FiniteSets, Parser

\* The globals that cycles() reads and writes, and what it returned.
Fresh == [state |-> [r \in Rules |-> "DEFAULT"], visited |-> {}, ret |-> "UNPROCESSED"]

RECURSIVE cycles(_, _, _), Scan(_, _, _, _)

\* cycles(node), called in the globals g.
cycles(deps, node, g) ==
    IF g.state[node] = "IGNORED" THEN [g EXCEPT !.ret = "IGNORED"]
    ELSE Scan(deps, node, deps[node], [g EXCEPT !.state[node] = "UNPROCESSED"])

\* Mutant of Scan: the set_remove after a neighbor is missing.
ScanKeepsVisited(deps, node, ns, g) ==
    IF ns = <<>> THEN [g EXCEPT !.ret = "UNPROCESSED"]
    ELSE IF Head(ns) \in g.visited THEN [g EXCEPT !.ret = "IGNORED"]
    ELSE LET h == cycles(deps, Head(ns), [g EXCEPT !.visited = @ \union {Head(ns)}])
         IN IF h.ret = "IGNORED" THEN [h EXCEPT !.state[node] = "IGNORED"]
            ELSE Scan(deps, node, Tail(ns), h)

\* Its loop over the remaining neighbors ns.
Scan(deps, node, ns, g) ==
    IF ns = <<>> THEN [g EXCEPT !.ret = "UNPROCESSED"]
    ELSE IF Head(ns) \in g.visited THEN [g EXCEPT !.ret = "IGNORED"]
    ELSE LET h == cycles(deps, Head(ns), [g EXCEPT !.visited = @ \union {Head(ns)}])
         IN IF h.ret = "IGNORED" THEN [h EXCEPT !.state[node] = "IGNORED"]
            ELSE Scan(deps, node, Tail(ns), [h EXCEPT !.visited = @ \ {Head(ns)}])

\* The loop of load_rules over the goals, from the globals g.
Load(deps, g) ==
    FoldLeft(LAMBDA acc, goal :
               LET h == cycles(deps, goal, acc.g)
               IN [g |-> h, valid |-> IF h.ret = "IGNORED" THEN acc.valid
                                                          ELSE acc.valid \union {goal}],
             [g |-> g, valid |-> {}], deps[Root])

-----------------------------------------------------------------------------
\* Reference notions, by reachability over the dependency edges.
RECURSIVE Closure(_, _)
Closure(deps, S) == LET T == S \union UNION {ToSet(deps[r]) : r \in S}
                    IN IF T = S THEN S ELSE Closure(deps, T)
Descendants(deps, r) == Closure(deps, ToSet(deps[r]))
Cyclic(deps, r) == \E s \in {r} \union Descendants(deps, r) : s \in Descendants(deps, s)
=============================================================================
