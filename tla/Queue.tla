------------------------------- MODULE Queue -------------------------------
(***************************************************************************)
(* critical_concurrency/queue.c: the thread-safe queue, a singly linked    *)
(* list of malloc'ed nodes under one mutex and one condition variable.     *)
(* Producers call queue_push Pushes[p] times, consumers call queue_pull    *)
(* Pulls[c] times; once all calls have returned the owner calls            *)
(* queue_destroy.  Between any two steps of one thread, all others run.    *)
(***************************************************************************)
EXTENDS Integers, Sequences, FiniteSets, Monitor

CONSTANTS Producers, Consumers,
          Pushes, Pulls,   \* number of calls each thread makes
          max_size,        \* the argument of queue_create
          Nodes,           \* the addresses malloc can return
          NULL

ASSUME QueueAssumption ==
    /\ Threads = Producers \union Consumers
    /\ Producers \intersect Consumers = {}
    /\ max_size \in Int
    /\ Pushes \in [Producers -> Nat]
    /\ Pulls \in [Consumers -> Nat]
    /\ NULL \notin Nodes

VARIABLES pc,          \* where each thread is
          head, tail, size,
          data, next,  \* the two fields of every queue_node
          heap,        \* the nodes that are allocated
          node,        \* the local variable "node" of each thread
          calls,       \* how many calls each thread has completed
          got,         \* the values queue_pull has returned to each consumer
          live,        \* FALSE once queue_destroy has been called
          iter,        \* the local variable "iter" of queue_destroy
          list         \* history: the nodes linked in, in order (not in the code)

list_vars == <<head, tail, size, data, next, heap, list>>
vars == <<monitorVars, list_vars, pc, node, calls, got, live, iter>>

PcValues == {"start", "test", "asleep", "link", "free", "signal", "unlock"}


Items == Producers \X (Nat \ {0})

Quota(t) == IF t \in Producers THEN Pushes[t] ELSE Pulls[t]

\* Mutant of Full: off by one.
FullOffByOne == max_size > 0 /\ size > max_size
Full == max_size > 0 /\ size >= max_size
Empty == size <= 0

-----------------------------------------------------------------------------
\* queue_create
Init == /\ MonitorInit
        /\ head = NULL /\ tail = NULL /\ size = 0
        /\ data \in [Nodes -> {NULL}] /\ next \in [Nodes -> {NULL}]
        /\ heap = {} /\ list = <<>>
        /\ pc = [t \in Threads |-> "start"]
        /\ node = [t \in Threads |-> NULL]
        /\ calls = [t \in Threads |-> 0]
        /\ got = [c \in Consumers |-> <<>>]
        /\ live = TRUE /\ iter = NULL

Goto(t, label) == pc' = [pc EXCEPT ![t] = label]

\* Line 73 of queue_push, line 101 of queue_pull.
Lock(t) == /\ pc[t] = "start" /\ calls[t] < Quota(t)
           /\ MutexLock(t)
           /\ Goto(t, "test")
           /\ UNCHANGED <<waiting, spurious, list_vars, node, calls, got, live, iter>>

\* The body of the while loops: the condition still holds, so wait.
Wait(t) == /\ pc[t] = "test"
           /\ IF t \in Producers THEN Full ELSE Empty
           /\ CondWait(t)
           /\ Goto(t, "asleep")
           /\ UNCHANGED <<spurious, list_vars, node, calls, got, live, iter>>

\* pthread_cond_wait returns, with the mutex, to the test of the while loop.
Wake(t) == /\ pc[t] = "asleep"
           /\ MutexLock(t)
           /\ Goto(t, "test")
           /\ UNCHANGED <<waiting, spurious, list_vars, node, calls, got, live, iter>>

\* The loop of queue_push ends: allocate and fill a node.
PushAlloc(p) ==
    /\ pc[p] = "test" /\ ~Full
    /\ \E n \in Nodes \ heap :
        /\ heap' = heap \union {n}
        /\ node' = [node EXCEPT ![p] = n]
        /\ data' = [data EXCEPT ![n] = <<p, calls[p] + 1>>]
        /\ next' = [next EXCEPT ![n] = NULL]
    /\ Goto(p, "link")
    /\ UNCHANGED <<monitorVars, head, tail, size, list, calls, got, live, iter>>

\* Mutant of PushLink: the else branch forgets to move tail.
PushLinkOldTail(p) ==
    /\ pc[p] = "link"
    /\ IF size = 0
       THEN tail' = node[p] /\ head' = node[p] /\ UNCHANGED next
       ELSE next' = [next EXCEPT ![tail] = node[p]] /\ UNCHANGED <<tail, head>>
    /\ size' = size + 1
    /\ list' = Append(list, node[p])
    /\ Goto(p, "signal")
    /\ UNCHANGED <<monitorVars, data, heap, node, calls, got, live, iter>>

PushLink(p) ==
    /\ pc[p] = "link"
    /\ IF size = 0
       THEN tail' = node[p] /\ head' = node[p] /\ UNCHANGED next
       ELSE /\ next' = [next EXCEPT ![tail] = node[p]]
            /\ tail' = node[p]
            /\ UNCHANGED head
    /\ size' = size + 1
    /\ list' = Append(list, node[p])
    /\ Goto(p, "signal")
    /\ UNCHANGED <<monitorVars, data, heap, node, calls, got, live, iter>>

\* The loop of queue_pull ends: unlink the head.
PullUnlink(c) ==
    /\ pc[c] = "test" /\ ~Empty
    /\ node' = [node EXCEPT ![c] = head]
    /\ IF size = 1
       THEN tail' = NULL /\ head' = NULL
       ELSE head' = next[head] /\ UNCHANGED tail
    /\ list' = Tail(list)
    /\ Goto(c, "free")
    /\ UNCHANGED <<monitorVars, size, data, next, heap, calls, got, live, iter>>

\* Mutant of PullFree: the node is not freed.
PullFreeLeaks(c) ==
    /\ pc[c] = "free"
    /\ got' = [got EXCEPT ![c] = Append(got[c], data[node[c]])]
    /\ size' = size - 1
    /\ Goto(c, "signal")
    /\ UNCHANGED <<monitorVars, head, tail, data, next, heap, list, node, calls, live, iter>>

PullFree(c) ==
    /\ pc[c] = "free"
    /\ got' = [got EXCEPT ![c] = Append(got[c], data[node[c]])]
    /\ heap' = heap \ {node[c]}
    /\ size' = size - 1
    /\ Goto(c, "signal")
    /\ UNCHANGED <<monitorVars, head, tail, data, next, list, node, calls, live, iter>>

\* Mutant of Broadcast: one of the sleepers is woken instead of all.
BroadcastToOne(t) == /\ pc[t] = "signal"
                     /\ CondSignal
                     /\ Goto(t, "unlock")
                     /\ UNCHANGED <<mutex, spurious, list_vars, node, calls, got, live, iter>>

\* Mutant of Broadcast: nobody is woken.
BroadcastToNone(t) == /\ pc[t] = "signal"
                      /\ Goto(t, "unlock")
                      /\ UNCHANGED <<monitorVars, list_vars, node, calls, got, live, iter>>

Broadcast(t) == /\ pc[t] = "signal"
                /\ CondBroadcast
                /\ Goto(t, "unlock")
                /\ UNCHANGED <<mutex, spurious, list_vars, node, calls, got, live, iter>>

Unlock(t) == /\ pc[t] = "unlock"
             /\ MutexUnlock(t)
             /\ calls' = [calls EXCEPT ![t] = calls[t] + 1]
             /\ Goto(t, "start")
             /\ UNCHANGED <<waiting, spurious, list_vars, node, got, live, iter>>

Done == \A t \in Threads : pc[t] = "start" /\ calls[t] = Quota(t)

\* queue_destroy, called by the owner once every other call has returned.
Destroy == /\ live /\ Done
           /\ live' = FALSE
           /\ iter' = head
           /\ UNCHANGED <<monitorVars, list_vars, pc, node, calls, got>>

\* Mutant of DestroyFree: the node is freed before its next pointer is read,
\* and malloc has cleared it.
DestroyFreeFirst == /\ ~live /\ iter \in Nodes
                    /\ iter' = NULL
                    /\ heap' = heap \ {iter}
                    /\ UNCHANGED <<monitorVars, head, tail, size, data, next, list,
                                   pc, node, calls, got, live>>

DestroyFree == /\ ~live /\ iter \in Nodes
               /\ iter' = next[iter]
               /\ heap' = heap \ {iter}
               /\ UNCHANGED <<monitorVars, head, tail, size, data, next, list,
                              pc, node, calls, got, live>>

Spurious == /\ SpuriousWakeup
            /\ UNCHANGED <<list_vars, pc, node, calls, got, live, iter>>

Step(t) == \/ Lock(t) \/ Wait(t) \/ Wake(t) \/ Broadcast(t) \/ Unlock(t)
           \/ t \in Producers /\ (PushAlloc(t) \/ PushLink(t))
           \/ t \in Consumers /\ (PullUnlink(t) \/ PullFree(t))

Next == \/ \E t \in Threads : Step(t)
        \/ Destroy
        \/ DestroyFree
        \/ Spurious

Spec == Init /\ [][Next]_vars

\* Every thread that can run does run: nothing is assumed of the order in
\* which threads get the mutex.
FairSpec == /\ Spec
            /\ \A t \in Threads : WF_vars(Step(t))
            /\ WF_vars(Destroy \/ DestroyFree)

-----------------------------------------------------------------------------
TypeOK == /\ MonitorTypeOK
          /\ pc \in [Threads -> PcValues]
          /\ head \in Nodes \union {NULL}
          /\ tail \in Nodes \union {NULL}
          /\ size \in Nat
          /\ data \in [Nodes -> Items \union {NULL}]
          /\ next \in [Nodes -> Nodes \union {NULL}]
          /\ heap \in SUBSET Nodes
          /\ node \in [Threads -> Nodes \union {NULL}]
          /\ calls \in [Threads -> Nat]
          /\ got \in [Consumers -> Seq(Items)]
          /\ live \in BOOLEAN
          /\ iter \in Nodes \union {NULL}
          /\ list \in Seq(Nodes)

\* Between lock and unlock, except while asleep, a thread owns the mutex.
Inside(t) == pc[t] \in {"test", "link", "free", "signal", "unlock"}

Unlinking == \E c \in Consumers : pc[c] = "free"

(***************************************************************************)
(* The pointers head, tail and next thread exactly the nodes pushed and    *)
(* not yet pulled, in order, without a cycle, and size counts them (one    *)
(* more while queue_pull is between its unlink and its decrement), however *)
(* calls of queue_push and queue_pull interleave.                          *)
(***************************************************************************)
ListOK ==
    /\ size = Len(list) + (IF Unlinking THEN 1 ELSE 0)
    /\ head = (IF list = <<>> THEN NULL ELSE list[1])
    /\ tail = (IF list = <<>> THEN NULL ELSE list[Len(list)])
    /\ \A i \in 1..Len(list) :
        next[list[i]] = (IF i = Len(list) THEN NULL ELSE list[i + 1])
    /\ \A i, j \in 1..Len(list) : list[i] = list[j] => i = j

InFlight(t) == pc[t] \in {"link", "free"}
InFlightNodes == {node[t] : t \in {u \in Threads : InFlight(u)}}
ListNodes == {list[i] : i \in 1..Len(list)}

(***************************************************************************)
(* Until queue_destroy, the allocated nodes are exactly those in the list  *)
(* and those a thread is about to link or to free: queue_push and          *)
(* queue_pull leak no node, free none twice and link no freed one.         *)
(***************************************************************************)
NoLeak == live => heap = ListNodes \union InFlightNodes

(***************************************************************************)
(* queue_destroy reads the next pointer of allocated nodes only (iter      *)
(* moves on before free), and frees every node that was left.              *)
(***************************************************************************)
DestroyOK == ~live => IF iter = NULL THEN heap = {} ELSE iter \in heap

(***************************************************************************)
(* No lost wakeup: a thread that still sleeps on the one condition         *)
(* variable does so for a reason that holds now, unless a thread is on its *)
(* way from a change of size to its broadcast.                             *)
(***************************************************************************)
NoLostWakeup ==
    \/ \E t \in Threads : pc[t] \in {"free", "signal"}
    \/ /\ \A p \in Producers \intersect waiting : Full
       /\ \A c \in Consumers \intersect waiting : Empty

(***************************************************************************)
(* The queue refines the atomic FIFO buffer: a push takes effect when its  *)
(* node is linked, a pull when its node is unlinked, although the value is *)
(* read from the node, and the caller sees it, only later.                 *)
(***************************************************************************)
Contents == [i \in 1..Len(list) |-> data[list[i]]]
Pushed == [p \in Producers |->
             calls[p] + (IF pc[p] \in {"signal", "unlock"} THEN 1 ELSE 0)]
Returned == [c \in Consumers |->
               IF pc[c] = "free" THEN Append(got[c], data[node[c]]) ELSE got[c]]

Fifo == INSTANCE BoundedFifo WITH
          items <- Contents, pushed <- Pushed, got <- Returned

ImplementsFifo == Fifo!Spec

(***************************************************************************)
(* With no more pulls than pushes and capacity for the rest, every call    *)
(* returns and queue_destroy leaves nothing allocated.                     *)
(***************************************************************************)
Termination == <>(~live /\ heap = {})
=============================================================================
