---------------------------- MODULE BoundedFifo ----------------------------
(***************************************************************************)
(* What the queue of critical_concurrency promises: a FIFO buffer of       *)
(* unbounded (max_size <= 0) or bounded capacity whose operations are      *)
(* atomic.  Each producer pushes its own items <<p, 1>>, <<p, 2>>, ... in  *)
(* that order; each consumer keeps the sequence of the items it pulled.    *)
(***************************************************************************)
EXTENDS Integers, Sequences

CONSTANTS Producers, Consumers, max_size

VARIABLES items,    \* the contents of the queue, oldest first
          pushed,   \* pushed[p]: how many items producer p has pushed
          got       \* got[c]: the items consumer c has pulled, in order

Init == /\ items = <<>>
        /\ pushed = [p \in Producers |-> 0]
        /\ got = [c \in Consumers |-> <<>>]

Push(p) == /\ max_size > 0 => Len(items) < max_size
           /\ items' = Append(items, <<p, pushed[p] + 1>>)
           /\ pushed' = [pushed EXCEPT ![p] = pushed[p] + 1]
           /\ UNCHANGED got

Pull(c) == /\ items # <<>>
           /\ got' = [got EXCEPT ![c] = Append(got[c], Head(items))]
           /\ items' = Tail(items)
           /\ UNCHANGED pushed

Next == \/ \E p \in Producers : Push(p)
        \/ \E c \in Consumers : Pull(c)

Spec == Init /\ [][Next]_<<items, pushed, got>>
=============================================================================
