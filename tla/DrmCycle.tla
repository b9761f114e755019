------------------------------ MODULE DrmCycle ------------------------------
(***************************************************************************)
(* The recursive search contains_cycle of deadlock_demolition/libdrm.c in  *)
(* its literal form, with the global "visited" set that it allocates,      *)
(* shares between its recursive calls and drops.                           *)
(***************************************************************************)
EXTENDS Naturals, SequencesExt

CONSTANT Vertices

RECURSIVE Search(_, _, _), Scan(_, _, _)

graph_neighbors(rag, node) == SetToSeq({w \in Vertices : <<node, w>> \in rag})

\* One call of contains_cycle: its answer and the visited it leaves behind;
\* {} stands for NULL, which acts the same.
Search(rag, node, seen) ==
    IF node \in seen THEN [cycle |-> TRUE, visited |-> {}]
    ELSE Scan(rag, graph_neighbors(rag, node), seen \union {node})

\* Mutant of Scan: visited is not dropped after the loop.
ScanKeepsVisited(rag, neighbors, seen) ==
    IF neighbors = <<>> THEN [cycle |-> FALSE, visited |-> seen]
    ELSE LET r == Search(rag, Head(neighbors), seen)
         IN IF r.cycle THEN r ELSE Scan(rag, Tail(neighbors), r.visited)

\* Its loop over the neighbors, and the two lines after the loop.
Scan(rag, neighbors, seen) ==
    IF neighbors = <<>> THEN [cycle |-> FALSE, visited |-> {}]
    ELSE LET r == Search(rag, Head(neighbors), seen)
         IN IF r.cycle THEN r ELSE Scan(rag, Tail(neighbors), r.visited)
=============================================================================
