------------------------------ MODULE MCQueue ------------------------------
(***************************************************************************)
(* Small instances of Queue for TLC.                                       *)
(***************************************************************************)
EXTENDS Queue, TLC
CONSTANTS p1, p2, c1, c2

MCThreads == {p1, p2, c1, c2}
MCProducers == {p1, p2}
MCConsumers == {c1, c2}
\* Four items, two of which are pulled: queue_destroy has two to free.
MCPushes == [p \in MCProducers |-> 2]
MCPulls == [c \in MCConsumers |-> 1]
=============================================================================
