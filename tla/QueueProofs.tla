---------------------------- MODULE QueueProofs ----------------------------
(***************************************************************************)
(* TLAPS proofs about Queue, for every set of threads, number of calls,    *)
(* capacity, set of node addresses and bound on spurious wakeups.          *)
(***************************************************************************)
EXTENDS Queue, SequenceTheorems, TLAPS

-----------------------------------------------------------------------------
\* The mutex is held by exactly the thread that is inside the monitor.
MutexInv ==
    /\ \A t \in Threads : t \in mutex <=> Inside(t)
    /\ \A t \in waiting : pc[t] = "asleep"
    /\ \A t \in Threads : /\ pc[t] = "link" => t \in Producers
                          /\ pc[t] = "free" => t \in Consumers

\* What is known of the node a thread holds and of the nodes in the list.
NodeInv ==
    /\ \A t \in Threads : InFlight(t) =>
        /\ node[t] \in heap
        /\ \A i \in 1..Len(list) : list[i] # node[t]
        /\ data[node[t]] \in Items
    /\ \A p \in Threads : pc[p] = "link" =>
        next[node[p]] = NULL /\ data[node[p]] = <<p, calls[p] + 1>> /\ ~Full
    /\ \A i \in 1..Len(list) : data[list[i]] \in Items

\* queue_destroy has freed the list up to, and not including, iter.
DestroyInv ==
    ~live => /\ Done
             /\ \E k \in 1..Len(list) + 1 :
                  /\ heap = {list[i] : i \in k..Len(list)}
                  /\ iter = (IF k = Len(list) + 1 THEN NULL ELSE list[k])

Inv == /\ TypeOK
       /\ MutexInv
       /\ ListOK
       /\ NoLeak
       /\ NodeInv
       /\ NoLostWakeup
       /\ DestroyInv

USE DEF Goto, PcValues

-----------------------------------------------------------------------------
\* Every step of Init, one lemma per action below.
LEMMA InitInv == Init => Inv
  BY QueueAssumption, MonitorAssumption
  DEF Init, Inv, MonitorInit, TypeOK, MonitorTypeOK, MutexInv, ListOK, NoLeak,
      NodeInv, NoLostWakeup, DestroyInv, Inside, InFlight, InFlightNodes,
      ListNodes, Unlinking, Items, Full

\* The thread inside the monitor is alone there, and the queue is live.
LEMMA Exclusive ==
  ASSUME Inv, NEW t \in Threads, Inside(t)
  PROVE  /\ t \in mutex
         /\ live
         /\ \A u \in Threads : u # t => ~Inside(u)
         /\ \A u \in Threads : u # t => pc[u] \in {"start", "asleep"}
         /\ InFlightNodes = IF InFlight(t) THEN {node[t]} ELSE {}
<1>1. t \in mutex /\ \A u \in Threads : u # t => ~Inside(u)
  BY DEF Inv, TypeOK, MonitorTypeOK, MutexInv
<1>2. live
  BY DEF Inv, TypeOK, DestroyInv, Done, Inside
<1>3. \A u \in Threads : u # t => pc[u] \in {"start", "asleep"}
  BY <1>1 DEF Inv, TypeOK, Inside
<1>4. InFlightNodes = IF InFlight(t) THEN {node[t]} ELSE {}
  BY <1>3 DEF InFlightNodes, InFlight
<1> QED
  BY <1>1, <1>2, <1>3, <1>4

LEMMA LockInv == ASSUME NEW t \in Threads, Inv, Lock(t) PROVE Inv'
<1> USE DEF Inv, Lock, MutexLock, list_vars
<1>1. TypeOK'
  BY DEF TypeOK, MonitorTypeOK
<1>2. MutexInv'
  BY DEF TypeOK, MutexInv, Inside
<1>3. ListOK'
  BY DEF TypeOK, ListOK, Unlinking
<1>4. NoLeak'
  BY DEF TypeOK, NoLeak, InFlight, InFlightNodes, ListNodes
<1>5. NodeInv'
  BY DEF TypeOK, NodeInv, InFlight, Full
<1>6. NoLostWakeup'
  BY DEF TypeOK, NoLostWakeup, Full, Empty
<1>7. DestroyInv'
  BY DEF TypeOK, DestroyInv, Done
<1> QED
  BY <1>1, <1>2, <1>3, <1>4, <1>5, <1>6, <1>7

LEMMA WaitInv == ASSUME NEW t \in Threads, Inv, Wait(t) PROVE Inv'
<1> USE DEF Inv, Wait, CondWait, list_vars
<1>1. TypeOK'
  BY DEF TypeOK, MonitorTypeOK
<1>2. MutexInv'
  BY DEF TypeOK, MonitorTypeOK, MutexInv, Inside
<1>3. ListOK'
  BY DEF TypeOK, ListOK, Unlinking
<1>4. NoLeak'
  BY DEF TypeOK, NoLeak, InFlight, InFlightNodes, ListNodes
<1>5. NodeInv'
  BY DEF TypeOK, NodeInv, InFlight, Full
<1>6. NoLostWakeup'
  <2>1. \A u \in Threads : pc[u] \notin {"free", "signal"}
    BY DEF TypeOK, MonitorTypeOK, MutexInv, Inside
  <2> QED
    BY <2>1, QueueAssumption DEF TypeOK, NoLostWakeup, Full, Empty
<1>7. DestroyInv'
  BY DEF TypeOK, DestroyInv, Done
<1> QED
  BY <1>1, <1>2, <1>3, <1>4, <1>5, <1>6, <1>7

LEMMA WakeInv == ASSUME NEW t \in Threads, Inv, Wake(t) PROVE Inv'
<1> USE DEF Inv, Wake, MutexLock, list_vars
<1>1. TypeOK'
  BY DEF TypeOK, MonitorTypeOK
<1>2. MutexInv'
  BY DEF TypeOK, MonitorTypeOK, MutexInv, Inside
<1>3. ListOK'
  BY DEF TypeOK, ListOK, Unlinking
<1>4. NoLeak'
  BY DEF TypeOK, NoLeak, InFlight, InFlightNodes, ListNodes
<1>5. NodeInv'
  BY DEF TypeOK, NodeInv, InFlight, Full
<1>6. NoLostWakeup'
  BY DEF TypeOK, NoLostWakeup, Full, Empty
<1>7. DestroyInv'
  BY DEF TypeOK, DestroyInv, Done
<1> QED
  BY <1>1, <1>2, <1>3, <1>4, <1>5, <1>6, <1>7

LEMMA BroadcastInv == ASSUME NEW t \in Threads, Inv, Broadcast(t) PROVE Inv'
<1> USE DEF Inv, Broadcast, CondBroadcast, list_vars
<1>1. TypeOK'
  BY DEF TypeOK, MonitorTypeOK
<1>2. MutexInv'
  BY DEF TypeOK, MonitorTypeOK, MutexInv, Inside
<1>3. ListOK'
  BY DEF TypeOK, ListOK, Unlinking
<1>4. NoLeak'
  BY DEF TypeOK, NoLeak, InFlight, InFlightNodes, ListNodes
<1>5. NodeInv'
  BY DEF TypeOK, NodeInv, InFlight, Full
<1>6. NoLostWakeup'
  BY DEF TypeOK, NoLostWakeup, Full, Empty
<1>7. DestroyInv'
  BY DEF TypeOK, DestroyInv, Done
<1> QED
  BY <1>1, <1>2, <1>3, <1>4, <1>5, <1>6, <1>7

LEMMA UnlockInv == ASSUME NEW t \in Threads, Inv, Unlock(t) PROVE Inv'
<1> USE DEF Inv, Unlock, MutexUnlock, list_vars
<1>1. TypeOK'
  BY DEF TypeOK, MonitorTypeOK
<1>2. MutexInv'
  BY DEF TypeOK, MonitorTypeOK, MutexInv, Inside
<1>3. ListOK'
  BY DEF TypeOK, ListOK, Unlinking
<1>4. NoLeak'
  BY DEF TypeOK, NoLeak, InFlight, InFlightNodes, ListNodes
<1>5. NodeInv'
  BY DEF TypeOK, NodeInv, InFlight, Full
<1>6. NoLostWakeup'
  BY DEF TypeOK, NoLostWakeup, Full, Empty
<1>7. DestroyInv'
  BY DEF TypeOK, DestroyInv, Done
<1> QED
  BY <1>1, <1>2, <1>3, <1>4, <1>5, <1>6, <1>7

LEMMA SpuriousInv == ASSUME Inv, Spurious PROVE Inv'
<1> USE DEF Inv, Spurious, SpuriousWakeup, list_vars
<1>1. TypeOK'
  BY MonitorAssumption DEF TypeOK, MonitorTypeOK
<1>2. MutexInv'
  BY DEF TypeOK, MonitorTypeOK, MutexInv, Inside
<1>3. ListOK'
  BY DEF TypeOK, ListOK, Unlinking
<1>4. NoLeak'
  BY DEF TypeOK, NoLeak, InFlight, InFlightNodes, ListNodes
<1>5. NodeInv'
  BY DEF TypeOK, NodeInv, InFlight, Full
<1>6. NoLostWakeup'
  BY DEF TypeOK, NoLostWakeup, Full, Empty
<1>7. DestroyInv'
  <2>1. UNCHANGED <<heap, list, pc, calls, live, iter>>
    OBVIOUS
  <2> QED
    BY <2>1 DEF DestroyInv, Done, Quota
<1> QED
  BY <1>1, <1>2, <1>3, <1>4, <1>5, <1>6, <1>7

LEMMA DestroyStepInv == ASSUME Inv, Destroy PROVE Inv'
<1> USE DEF Inv, Destroy, list_vars, monitorVars
<1>1. TypeOK' /\ MutexInv'
  BY DEF TypeOK, MonitorTypeOK, MutexInv, Inside
<1>2. ListOK' /\ NoLeak' /\ NodeInv' /\ NoLostWakeup'
  BY DEF TypeOK, ListOK, Unlinking, NoLeak, NodeInv, InFlight, NoLostWakeup,
         Full, Empty
<1>3. DestroyInv'
  <2>1. heap = {list[i] : i \in 1..Len(list)}
    BY DEF Done, TypeOK, NoLeak, InFlight, InFlightNodes, ListNodes
  <2>2. head = (IF 1 = Len(list) + 1 THEN NULL ELSE list[1])
    BY DEF TypeOK, ListOK
  <2>3. 1 \in 1..Len(list) + 1
    BY DEF TypeOK
  <2> QED
    BY <2>1, <2>2, <2>3 DEF DestroyInv, Done
<1> QED
  BY <1>1, <1>2, <1>3

LEMMA DestroyFreeInv == ASSUME Inv, DestroyFree PROVE Inv'
<1> USE DEF Inv, DestroyFree, monitorVars
<1>1. TypeOK' /\ MutexInv'
  BY DEF TypeOK, MonitorTypeOK, MutexInv, Inside
<1>2. ListOK' /\ NoLeak' /\ NoLostWakeup'
  BY DEF TypeOK, ListOK, Unlinking, NoLeak, NoLostWakeup, Full, Empty
<1>3. NodeInv'
  <2>1. \A t \in Threads : pc[t] = "start"
    BY DEF DestroyInv, Done
  <2> QED
    BY <2>1 DEF NodeInv, InFlight, Full
<1>4. DestroyInv'
  <2>1. PICK k \in 1..Len(list) + 1 :
          /\ heap = {list[i] : i \in k..Len(list)}
          /\ iter = (IF k = Len(list) + 1 THEN NULL ELSE list[k])
    BY DEF DestroyInv
  <2>2. k \in 1..Len(list) /\ Len(list) \in Nat
    BY <2>1, QueueAssumption DEF TypeOK
  <2>3. heap' = {list[i] : i \in k + 1..Len(list)}
    <3>1. \A i \in k + 1..Len(list) : list[i] # list[k]
      BY <2>2 DEF ListOK
    <3> QED
      BY <2>1, <2>2, <3>1
  <2>4. iter' = (IF k + 1 = Len(list) + 1 THEN NULL ELSE list[k + 1])
    BY <2>1, <2>2 DEF ListOK
  <2>5. k + 1 \in 1..Len(list) + 1
    BY <2>2
  <2> QED
    BY <2>3, <2>4, <2>5 DEF DestroyInv, Done
<1> QED
  BY <1>1, <1>2, <1>3, <1>4

LEMMA PushAllocInv == ASSUME NEW p \in Producers, Inv, PushAlloc(p) PROVE Inv'
<1> USE DEF Inv, PushAlloc, monitorVars
<1>1. p \in Threads /\ Inside(p) /\ ~InFlight(p)
  BY QueueAssumption DEF Inside, InFlight
<1>2. /\ live
      /\ InFlightNodes = {}
      /\ \A u \in Threads : u # p => pc[u] \in {"start", "asleep"}
  BY <1>1, Exclusive
<1>3. PICK n \in Nodes \ heap :
        /\ heap' = heap \union {n}
        /\ node' = [node EXCEPT ![p] = n]
        /\ data' = [data EXCEPT ![n] = <<p, calls[p] + 1>>]
        /\ next' = [next EXCEPT ![n] = NULL]
  OBVIOUS
<1>4. <<p, calls[p] + 1>> \in Items
  BY <1>1 DEF TypeOK, Items
<1>5. \A i \in 1..Len(list) : list[i] \in Nodes /\ list[i] # n
  BY <1>2, <1>3 DEF TypeOK, NoLeak, ListNodes
<1>6. TypeOK'
  BY <1>1, <1>3, <1>4 DEF TypeOK, MonitorTypeOK
<1>7. MutexInv'
  BY <1>1 DEF TypeOK, MutexInv, Inside
<1>8. ListOK'
  <2>1. Unlinking' <=> Unlinking
    BY <1>1 DEF Unlinking, TypeOK
  <2>2. \A i \in 1..Len(list) : next'[list[i]] = next[list[i]]
    BY <1>3, <1>5 DEF TypeOK
  <2> QED
    BY <2>1, <2>2 DEF ListOK
<1>9. NoLeak'
  <2>1. InFlightNodes' = {n}
    <3>1. node'[p] = n /\ \A u \in Threads : InFlight(u)' <=> u = p
      BY <1>1, <1>2, <1>3 DEF InFlight, TypeOK
    <3> QED
      BY <1>1, <3>1 DEF InFlightNodes
  <2> QED
    BY <2>1, <1>2, <1>3 DEF NoLeak, ListNodes
<1>10. NodeInv'
  <2>1. /\ node'[p] = n /\ n \in heap'
        /\ data'[n] = <<p, calls[p] + 1>> /\ next'[n] = NULL
    BY <1>1, <1>3 DEF TypeOK
  <2>2. \A u \in Threads : u # p => pc'[u] \in {"start", "asleep"}
    BY <1>2 DEF TypeOK
  <2>3. \A i \in 1..Len(list) : data'[list[i]] = data[list[i]]
    BY <1>3, <1>5 DEF TypeOK
  <2> QED
    BY <1>1, <1>4, <1>5, <2>1, <2>2, <2>3 DEF NodeInv, InFlight, Full
<1>11. NoLostWakeup'
  BY <1>1 DEF TypeOK, NoLostWakeup, Full, Empty
<1>12. DestroyInv'
  BY <1>2 DEF DestroyInv
<1> QED
  BY <1>6, <1>7, <1>8, <1>9, <1>10, <1>11, <1>12

LEMMA PushLinkInv == ASSUME NEW p \in Producers, Inv, PushLink(p) PROVE Inv'
<1> USE DEF Inv, PushLink, monitorVars
<1> DEFINE n == node[p]
           L == Len(list)
<1>1. p \in Threads /\ Inside(p) /\ InFlight(p) /\ n \in Nodes /\ L \in Nat
  BY QueueAssumption DEF Inside, InFlight, NodeInv, TypeOK
<1>2. /\ live
      /\ InFlightNodes = {n}
      /\ \A u \in Threads : u # p => pc[u] \in {"start", "asleep"}
  BY <1>1, Exclusive
<1>3. /\ Len(list') = L + 1
      /\ \A i \in 1..L : list'[i] = list[i] /\ list[i] \in Nodes
      /\ list'[L + 1] = n
      /\ list' # <<>>
  BY <1>1 DEF TypeOK
<1>4. ~Unlinking /\ ~Unlinking' /\ size = L
  <2>1. ~Unlinking /\ ~Unlinking'
    BY <1>1, <1>2, QueueAssumption DEF Unlinking, TypeOK
  <2> QED
    BY <1>1, <2>1 DEF ListOK
<1>5. TypeOK'
  <2>1. next' \in [Nodes -> Nodes \union {NULL}]
    BY <1>1 DEF TypeOK
  <2>2. list' \in Seq(Nodes)
    BY <1>1 DEF TypeOK
  <2>3. head' \in Nodes \union {NULL} /\ tail' \in Nodes \union {NULL}
    BY <1>1 DEF TypeOK
  <2> QED
    BY <1>1, <2>1, <2>2, <2>3 DEF TypeOK, MonitorTypeOK
<1>6. MutexInv'
  BY <1>1 DEF TypeOK, MutexInv, Inside
<1>7. ListOK'
  <2>1. size' = Len(list')
    BY <1>3, <1>4
  <2>2. head' = list'[1] /\ tail' = list'[Len(list')]
    BY <1>1, <1>3, <1>4 DEF ListOK, TypeOK
  <2>3. \A i \in 1..L : list[i] # n
    BY <1>1 DEF NodeInv
  <2>4. \A i, j \in 1..L + 1 : list'[i] = list'[j] => i = j
    BY <1>1, <1>3, <2>3 DEF ListOK
  <2>5. next[n] = NULL
    BY <1>1 DEF NodeInv
  <2>6. next'[n] = NULL
    BY <1>1, <1>3, <1>4, <2>3, <2>5 DEF ListOK, TypeOK
  <2>7. \A i \in 1..L : next'[list[i]] = IF i = L THEN n ELSE list[i + 1]
    BY <1>1, <1>3, <1>4, <2>3 DEF ListOK, TypeOK
  <2>8. \A i \in 1..L + 1 :
          next'[list'[i]] = (IF i = L + 1 THEN NULL ELSE list'[i + 1])
    BY <1>1, <1>3, <2>6, <2>7
  <2> QED
    BY <1>3, <1>4, <2>1, <2>2, <2>4, <2>8 DEF ListOK
<1>8. NoLeak'
  <2>1. InFlightNodes' = {}
    BY <1>1, <1>2 DEF InFlightNodes, InFlight, TypeOK
  <2>2. ListNodes' = ListNodes \union {n}
    BY <1>1, <1>3 DEF ListNodes
  <2> QED
    BY <2>1, <2>2, <1>2 DEF NoLeak
<1>9. NodeInv'
  <2>1. \A u \in Threads : pc'[u] \notin {"link", "free"}
    BY <1>1, <1>2 DEF TypeOK
  <2>2. \A i \in 1..L + 1 : data[list'[i]] \in Items
    BY <1>1, <1>3 DEF NodeInv
  <2> QED
    BY <1>3, <2>1, <2>2 DEF NodeInv, InFlight, Full
<1>10. NoLostWakeup'
  BY <1>1 DEF TypeOK, NoLostWakeup
<1>11. DestroyInv'
  BY <1>2 DEF DestroyInv
<1> QED
  BY <1>5, <1>6, <1>7, <1>8, <1>9, <1>10, <1>11

LEMMA PullUnlinkInv == ASSUME NEW c \in Consumers, Inv, PullUnlink(c) PROVE Inv'
<1> USE DEF Inv, PullUnlink, monitorVars
<1> DEFINE L == Len(list)
<1>1. c \in Threads /\ Inside(c) /\ ~InFlight(c) /\ c \notin Producers
  BY QueueAssumption DEF Inside, InFlight
<1>2. /\ live
      /\ InFlightNodes = {}
      /\ \A u \in Threads : u # c => pc[u] \in {"start", "asleep"}
  BY <1>1, Exclusive
<1>3. ~Unlinking /\ Unlinking' /\ size = L /\ L \in Nat \ {0}
  <2>1. ~Unlinking /\ Unlinking'
    BY <1>1, <1>2, QueueAssumption DEF Unlinking, TypeOK
  <2> QED
    BY <2>1 DEF ListOK, TypeOK, Empty
<1>4. /\ Len(list') = L - 1
      /\ \A i \in 1..L - 1 : list'[i] = list[i + 1]
      /\ \A i \in 1..L : list[i] \in Nodes
      /\ list' \in Seq(Nodes)
      /\ list # <<>>
      /\ L = 1 <=> list' = <<>>
  <2>1. list \in Seq(Nodes) /\ list # <<>> /\ list' = Tail(list)
    BY <1>3 DEF TypeOK
  <2>2. Len(list') = L - 1 /\ list' \in Seq(Nodes)
    BY <2>1, <1>3
  <2>3. \A i \in 1..L - 1 : list'[i] = list[i + 1]
    BY <2>1, <1>3
  <2>4. L = 1 <=> list' = <<>>
    <3>1. list' = <<>> <=> Len(list') = 0
      BY <2>2, EmptySeq
    <3> QED
      BY <2>2, <3>1, <1>3
  <2> QED
    BY <2>1, <2>2, <2>3, <2>4
<1>5. head = list[1] /\ node'[c] = list[1]
  BY <1>1, <1>4 DEF ListOK, TypeOK
<1>6. TypeOK'
  BY <1>1, <1>4, <1>5, <1>3 DEF TypeOK, MonitorTypeOK
<1>7. MutexInv'
  BY <1>1 DEF TypeOK, MutexInv, Inside
<1>8. ListOK'
  <2>1. size' = Len(list') + 1
    BY <1>3, <1>4
  <2>2. head' = (IF list' = <<>> THEN NULL ELSE list'[1])
    BY <1>3, <1>4, <1>5 DEF ListOK
  <2>3. tail' = (IF list' = <<>> THEN NULL ELSE list'[Len(list')])
    BY <1>3, <1>4, <1>5 DEF ListOK
  <2>4. \A i \in 1..L - 1 :
          next[list'[i]] = (IF i = L - 1 THEN NULL ELSE list'[i + 1])
    BY <1>3, <1>4 DEF ListOK
  <2>5. \A i, j \in 1..L - 1 : list'[i] = list'[j] => i = j
    BY <1>3, <1>4 DEF ListOK
  <2> QED
    <3> HIDE DEF L, Inv, PullUnlink
    <3>1. L - 1 = Len(list') /\ next' = next
      BY <1>4 DEF PullUnlink
    <3> QED
      BY <1>3, <2>1, <2>2, <2>3, <2>4, <2>5, <3>1 DEF ListOK
<1>9. NoLeak'
  <2>1. InFlightNodes' = {list[1]}
    BY <1>1, <1>2, <1>5 DEF InFlightNodes, InFlight, TypeOK
  <2>2. ListNodes = ListNodes' \union {list[1]}
    <3>1. ASSUME NEW x \in ListNodes PROVE x \in ListNodes' \union {list[1]}
      <4>1. PICK i \in 1..L : x = list[i]
        BY DEF ListNodes
      <4>2. i = 1 \/ i - 1 \in 1..L - 1
        BY <1>3
      <4>3. i # 1 => list'[i - 1] = list[i]
        BY <1>3, <1>4, <4>2
      <4> QED
        BY <1>4, <4>1, <4>2, <4>3 DEF ListNodes
    <3>2. ASSUME NEW x \in ListNodes' \union {list[1]} PROVE x \in ListNodes
      BY <1>3, <1>4 DEF ListNodes
    <3> QED
      BY <3>1, <3>2
  <2> QED
    BY <2>1, <2>2, <1>2 DEF NoLeak
<1>10. NodeInv'
  <2>1. \A u \in Threads : u # c => pc'[u] \in {"start", "asleep"}
    BY <1>2 DEF TypeOK
  <2>2. \A i \in 1..L - 1 : list'[i] # list[1]
    BY <1>3, <1>4 DEF ListOK
  <2>3. \A i \in 1..L - 1 : data[list'[i]] \in Items
    BY <1>3, <1>4 DEF NodeInv
  <2>4. data[list[1]] \in Items /\ list[1] \in heap
    BY <1>2, <1>3 DEF NodeInv, NoLeak, ListNodes
  <2>5. pc'[c] = "free"
    BY <1>1 DEF TypeOK
  <2> QED
    <3> HIDE DEF L, Inv, PullUnlink
    <3>1. L - 1 = Len(list') /\ data' = data /\ heap' = heap
      BY <1>4 DEF PullUnlink
    <3> QED
      BY <1>5, <2>1, <2>2, <2>3, <2>4, <2>5, <3>1 DEF NodeInv, InFlight, Full
<1>11. NoLostWakeup'
  BY <1>1 DEF TypeOK, NoLostWakeup
<1>12. DestroyInv'
  BY <1>2 DEF DestroyInv
<1> QED
  BY <1>6, <1>7, <1>8, <1>9, <1>10, <1>11, <1>12

LEMMA PullFreeInv == ASSUME NEW c \in Consumers, Inv, PullFree(c) PROVE Inv'
<1> USE DEF Inv, PullFree, monitorVars
<1>1. c \in Threads /\ Inside(c) /\ InFlight(c) /\ c \notin Producers
  BY QueueAssumption DEF Inside, InFlight
<1>2. /\ live
      /\ InFlightNodes = {node[c]}
      /\ \A u \in Threads : u # c => pc[u] \in {"start", "asleep"}
  BY <1>1, Exclusive
<1>3. Unlinking /\ ~Unlinking' /\ size = Len(list) + 1 /\ Len(list) \in Nat
  <2>1. Unlinking /\ ~Unlinking'
    BY <1>1, <1>2, QueueAssumption DEF Unlinking, TypeOK
  <2> QED
    BY <2>1 DEF ListOK, TypeOK
<1>4. data[node[c]] \in Items
  BY <1>1 DEF NodeInv
<1>5. TypeOK'
  BY <1>1, <1>3, <1>4 DEF TypeOK, MonitorTypeOK
<1>6. MutexInv'
  BY <1>1 DEF TypeOK, MutexInv, Inside
<1>7. ListOK'
  BY <1>3 DEF ListOK
<1>8. NoLeak'
  <2>1. InFlightNodes' = {}
    BY <1>1, <1>2 DEF InFlightNodes, InFlight, TypeOK
  <2>2. node[c] \notin ListNodes
    BY <1>1 DEF NodeInv, ListNodes
  <2> QED
    BY <2>1, <2>2, <1>2 DEF NoLeak, ListNodes
<1>9. NodeInv'
  <2>1. \A u \in Threads : pc'[u] \notin {"link", "free"}
    BY <1>1, <1>2 DEF TypeOK
  <2> QED
    BY <2>1 DEF NodeInv, InFlight, Full
<1>10. NoLostWakeup'
  BY <1>1 DEF TypeOK, NoLostWakeup
<1>11. DestroyInv'
  BY <1>2 DEF DestroyInv
<1> QED
  BY <1>5, <1>6, <1>7, <1>8, <1>9, <1>10, <1>11

\* Every step of the specification preserves the invariant.
LEMMA NextInv == Inv /\ [Next]_vars => Inv'
<1> SUFFICES ASSUME Inv, [Next]_vars PROVE Inv'
  OBVIOUS
<1>1. CASE UNCHANGED vars
  BY <1>1
  DEF vars, monitorVars, list_vars, Inv, TypeOK, MonitorTypeOK, MutexInv, ListOK,
      NoLeak, NodeInv, NoLostWakeup, DestroyInv, Inside, InFlight, InFlightNodes,
      ListNodes, Unlinking, Done, Full, Empty
<1>2. ASSUME NEW t \in Threads, Step(t) PROVE Inv'
  BY <1>2, LockInv, WaitInv, WakeInv, BroadcastInv, UnlockInv, PushAllocInv,
     PushLinkInv, PullUnlinkInv, PullFreeInv DEF Step
<1> QED
  BY <1>1, <1>2, DestroyStepInv, DestroyFreeInv, SpuriousInv DEF Next

LEMMA Invariance == Spec => []Inv
  BY InitInv, NextInv, PTL DEF Spec

(***************************************************************************)
(* Every variable keeps its type: in particular queue_pull only returns    *)
(* items that were pushed, and size never goes below zero.                 *)
(***************************************************************************)
THEOREM TypeCorrect == Spec => []TypeOK
  BY Invariance, PTL DEF Inv

(***************************************************************************)
(* For any number of threads and any capacity, queue_push and queue_pull   *)
(* keep the linked list well formed and size equal to its length.          *)
(***************************************************************************)
THEOREM ListCorrect == Spec => []ListOK
  BY Invariance, PTL DEF Inv

(***************************************************************************)
(* No node is leaked, freed twice or used after free by queue_push and     *)
(* queue_pull.                                                             *)
(***************************************************************************)
THEOREM NoLeakCorrect == Spec => []NoLeak
  BY Invariance, PTL DEF Inv

(***************************************************************************)
(* No wakeup is lost on the one condition variable that producers and      *)
(* consumers share.                                                        *)
(***************************************************************************)
THEOREM NoLostWakeupCorrect == Spec => []NoLostWakeup
  BY Invariance, PTL DEF Inv

(***************************************************************************)
(* queue_destroy reads allocated nodes only and frees all of them.         *)
(***************************************************************************)
THEOREM DestroyCorrect == Spec => []DestroyOK
<1>1. Inv => DestroyOK
  <2> SUFFICES ASSUME Inv, ~live
               PROVE IF iter = NULL THEN heap = {} ELSE iter \in heap
    BY DEF DestroyOK
  <2>1. PICK k \in 1..Len(list) + 1 :
          /\ heap = {list[i] : i \in k..Len(list)}
          /\ iter = (IF k = Len(list) + 1 THEN NULL ELSE list[k])
    BY DEF Inv, DestroyInv
  <2>2. Len(list) \in Nat /\ \A i \in 1..Len(list) : list[i] # NULL
    BY QueueAssumption DEF Inv, TypeOK
  <2>3. CASE k = Len(list) + 1
    BY <2>1, <2>2, <2>3
  <2>4. CASE k \in 1..Len(list)
    BY <2>1, <2>2, <2>4
  <2> QED
    BY <2>2, <2>3, <2>4
<1> QED
  BY <1>1, Invariance, PTL

-----------------------------------------------------------------------------
\* The mapped contents are a sequence of items, one per node of the list.
LEMMA ContentsSeq ==
  ASSUME Inv
  PROVE  /\ Contents \in Seq(Items)
         /\ Len(Contents) = Len(list)
         /\ \A i \in 1..Len(list) : Contents[i] = data[list[i]]
<1>1. Len(list) \in Nat /\ \A i \in 1..Len(list) : data[list[i]] \in Items
  BY DEF Inv, TypeOK, NodeInv
<1> QED
  BY <1>1 DEF Contents

\* The same after a step.
LEMMA ContentsSeqNext ==
  ASSUME Inv'
  PROVE  /\ Contents' \in Seq(Items)
         /\ Len(Contents') = Len(list')
         /\ \A i \in 1..Len(list') : Contents'[i] = data'[list'[i]]
<1>1. Len(list') \in Nat /\ \A i \in 1..Len(list') : data'[list'[i]] \in Items
  BY DEF Inv, TypeOK, NodeInv
<1> QED
  BY <1>1 DEF Contents

\* Linking a node is an atomic push.
LEMMA PushLinkRefines ==
  ASSUME NEW p \in Producers, Inv, Inv', PushLink(p)
  PROVE  Fifo!Push(p)
<1> DEFINE n == node[p]
           L == Len(list)
<1>1. p \in Threads /\ InFlight(p) /\ Inside(p) /\ L \in Nat
  BY QueueAssumption DEF PushLink, InFlight, Inside, Inv, TypeOK
<1>2. /\ data[n] = <<p, calls[p] + 1>>
      /\ data[n] \in Items
      /\ \A u \in Threads : u # p => pc[u] \in {"start", "asleep"}
  BY <1>1, Exclusive DEF PushLink, Inv, NodeInv
<1>3. Len(list') = L + 1 /\ list'[L + 1] = n /\ \A i \in 1..L : list'[i] = list[i]
  BY <1>1 DEF PushLink, Inv, TypeOK
<1>4. Pushed[p] = calls[p]
  BY <1>1 DEF Pushed, PushLink, Inv, TypeOK
<1>5. Contents' = Append(Contents, <<p, Pushed[p] + 1>>)
  <2>1. Contents' \in Seq(Items) /\ Len(Contents') = L + 1
    BY <1>3, ContentsSeqNext
  <2>2. \A i \in 1..L + 1 : Contents'[i] = data[list'[i]]
    BY <1>3, ContentsSeqNext DEF PushLink
  <2> QED
    <3> DEFINE A == Append(Contents, data[n])
    <3>1. /\ A \in Seq(Items) /\ Len(A) = L + 1 /\ A[L + 1] = data[n]
          /\ \A i \in 1..L : A[i] = data[list[i]]
      BY <1>1, <1>2, ContentsSeq
    <3>2. \A i \in 1..L + 1 : Contents'[i] = A[i]
      BY <1>1, <1>3, <2>2, <3>1
    <3>3. Contents' = A
      <4> HIDE DEF A
      <4> QED
        BY <2>1, <3>1, <3>2, SeqEqual
    <3> QED
      BY <3>3, <1>2, <1>4
<1>6. Pushed' = [Pushed EXCEPT ![p] = Pushed[p] + 1]
  <2>1. \A u \in Producers : u \in Threads
    BY QueueAssumption
  <2> QED
    BY <1>1, <1>4, <2>1 DEF Pushed, PushLink, Inv, TypeOK
<1>7. Returned' = Returned
  BY <1>1, QueueAssumption DEF Returned, PushLink, Inv, TypeOK
<1>8. max_size > 0 => Len(Contents) < max_size
  <2>1. ~Unlinking
    BY <1>1, <1>2, QueueAssumption DEF Unlinking, PushLink
  <2> QED
    BY <1>1, <2>1, ContentsSeq, QueueAssumption
    DEF Inv, NodeInv, ListOK, TypeOK, Full, PushLink
<1> QED
  BY <1>5, <1>6, <1>7, <1>8 DEF Fifo!Push

\* Unlinking the head is an atomic pull.
LEMMA PullUnlinkRefines ==
  ASSUME NEW c \in Consumers, Inv, Inv', PullUnlink(c)
  PROVE  Fifo!Pull(c)
<1> DEFINE L == Len(list)
<1>1. c \in Threads /\ c \notin Producers /\ Inside(c)
  BY QueueAssumption DEF PullUnlink, Inside
<1>2. ~Unlinking
  BY <1>1, Exclusive, QueueAssumption DEF Unlinking, PullUnlink
<1>3. L \in Nat \ {0} /\ list # <<>> /\ head = list[1]
  BY <1>2 DEF PullUnlink, Inv, ListOK, TypeOK, Empty
<1>4. Len(list') = L - 1 /\ \A i \in 1..L - 1 : list'[i] = list[i + 1]
  BY <1>3 DEF PullUnlink, Inv, TypeOK
<1>5. Contents # <<>> /\ Head(Contents) = data[head]
  BY <1>3, ContentsSeq
<1>6. Contents' = Tail(Contents)
  <2> DEFINE T == Tail(Contents)
  <2>1. T \in Seq(Items) /\ Len(T) = L - 1 /\ \A i \in 1..L - 1 : T[i] = Contents[i + 1]
    BY <1>3, <1>5, ContentsSeq
  <2>2. Contents' \in Seq(Items) /\ Len(Contents') = L - 1
    BY <1>4, ContentsSeqNext
  <2>3. \A i \in 1..L - 1 : Contents'[i] = T[i]
    <3>1. \A i \in 1..L - 1 : Contents'[i] = data'[list'[i]]
      BY <1>4, ContentsSeqNext
    <3>2. \A i \in 1..L - 1 : i + 1 \in 1..L
      BY <1>3
    <3>3. \A i \in 1..L - 1 : Contents[i + 1] = data[list[i + 1]]
      BY <3>2, ContentsSeq
    <3> QED
      BY <1>4, <2>1, <3>1, <3>3 DEF PullUnlink
  <2> HIDE DEF T
  <2>4. Contents' = T
    BY <2>1, <2>2, <2>3, SeqEqual
  <2> QED
    BY <2>4 DEF T
<1>7. Returned' = [Returned EXCEPT ![c] = Append(Returned[c], data[head])]
  <2>1. \A u \in Consumers : u \in Threads
    BY QueueAssumption
  <2> QED
    BY <1>1, <2>1 DEF Returned, PullUnlink, Inv, TypeOK
<1>8. Pushed' = Pushed
  <2>1. \A u \in Producers : u \in Threads
    BY QueueAssumption
  <2> QED
    BY <1>1, <2>1 DEF Pushed, PullUnlink, Inv, TypeOK
<1> QED
  BY <1>5, <1>6, <1>7, <1>8 DEF Fifo!Pull

\* The other steps change nothing the abstract buffer can see.
LEMMA StutterRefines ==
  ASSUME Inv, NEW t \in Threads,
         \/ Lock(t) \/ Wait(t) \/ Wake(t) \/ Broadcast(t) \/ Unlock(t)
         \/ t \in Producers /\ PushAlloc(t)
         \/ t \in Consumers /\ PullFree(t)
  PROVE  UNCHANGED <<Contents, Pushed, Returned>>
<1> USE QueueAssumption DEF Inv, TypeOK
<1>1. /\ \A u \in Producers : u \in Threads
      /\ \A u \in Consumers : u \in Threads /\ u \notin Producers
  OBVIOUS
<1>2. CASE Lock(t) \/ Wait(t) \/ Wake(t) \/ Broadcast(t)
  BY <1>1, <1>2
  DEF Lock, Wait, Wake, Broadcast, list_vars, Contents, Pushed, Returned
<1>3. CASE Unlock(t)
  BY <1>1, <1>3 DEF Unlock, list_vars, Contents, Pushed, Returned
<1>4. CASE t \in Producers /\ PushAlloc(t)
  <2>1. PICK n \in Nodes \ heap : data' = [data EXCEPT ![n] = <<t, calls[t] + 1>>]
    BY <1>4 DEF PushAlloc
  <2>2. live /\ \A u \in Threads : pc[u] # "free"
    BY <1>4, Exclusive DEF PushAlloc, Inside
  <2>3. \A i \in 1..Len(list) : list[i] \in Nodes /\ list[i] # n
    BY <2>1, <2>2 DEF NoLeak, ListNodes
  <2>4. Contents' = Contents
    BY <1>4, <2>1, <2>3 DEF Contents, PushAlloc
  <2>5. Pushed' = Pushed
    BY <1>1, <1>4 DEF Pushed, PushAlloc
  <2>6. Returned' = Returned
    BY <1>1, <1>4, <2>2 DEF Returned, PushAlloc
  <2> QED
    BY <2>4, <2>5, <2>6
<1>5. CASE t \in Consumers /\ PullFree(t)
  BY <1>1, <1>5 DEF PullFree, Contents, Pushed, Returned
<1> QED
  BY <1>2, <1>3, <1>4, <1>5

(***************************************************************************)
(* For any number of threads, calls and any capacity, the linked-list      *)
(* queue implements the atomic (bounded) FIFO buffer: items come out once, *)
(* in the order they went in, and never more than max_size are inside.     *)
(***************************************************************************)
THEOREM Refinement == Spec => ImplementsFifo
<1>1. Init => Fifo!Init
  BY QueueAssumption
  DEF Init, Fifo!Init, Contents, Pushed, Returned
<1>2. Inv /\ Inv' /\ [Next]_vars => [Fifo!Next]_<<Contents, Pushed, Returned>>
  <2> SUFFICES ASSUME Inv, Inv', [Next]_vars
               PROVE [Fifo!Next]_<<Contents, Pushed, Returned>>
    OBVIOUS
  <2>1. ASSUME NEW t \in Threads, Step(t)
        PROVE [Fifo!Next]_<<Contents, Pushed, Returned>>
    BY <2>1, PushLinkRefines, PullUnlinkRefines, StutterRefines
    DEF Step, Fifo!Next
  <2>2. CASE Destroy \/ DestroyFree \/ Spurious \/ UNCHANGED vars
    BY <2>2
    DEF Destroy, DestroyFree, Spurious, vars, list_vars, Contents, Pushed, Returned
  <2> QED
    BY <2>1, <2>2 DEF Next
<1> QED
  BY <1>1, <1>2, Invariance, PTL DEF Spec, ImplementsFifo, Fifo!Spec
=============================================================================
