----------------------------- MODULE DrmProofs -----------------------------
(***************************************************************************)
(* TLAPS proofs about Drm, for every set of threads and of drms.           *)
(***************************************************************************)
EXTENDS Drm, TLAPS

\* The critical sections under global_mut exclude each other.
GlobalMutInv == \A t \in Threads : pc[t] \in {"check", "swap", "post"} =>
                                     global_mut = t

\* No cycle in the graph: the set form of acyclicity.
Acyclic == \A S \in SUBSET Threads : Closed(S, rag) => S = {}

Inv == /\ TypeOK
       /\ GlobalMutInv
       /\ RagMatchesOwners
       /\ Acyclic

USE DEF Goto, PcValues

-----------------------------------------------------------------------------
\* The initial states satisfy the invariant.
LEMMA InitInv == Init => Inv
<1> SUFFICES ASSUME Init PROVE Inv
  OBVIOUS
<1>1. TypeOK /\ GlobalMutInv /\ Acyclic
  BY DEF Init, TypeOK, GlobalMutInv, Acyclic, Closed
<1>2. RagMatchesOwners
  BY DrmAssumption DEF Init, RagMatchesOwners, Requesting, InWindow
<1> QED
  BY <1>1, <1>2 DEF Inv

\* Fewer edges close fewer sets.
LEMMA ClosedMonotonic ==
  ASSUME NEW E, NEW F, F \subseteq E, NEW S, Closed(S, F)
  PROVE  Closed(S, E)
  BY DEF Closed

\* The types that the steps below need.
LEMMA Types ==
  ASSUME Inv
  PROVE  /\ pc \in [Threads -> PcValues]
         /\ arg \in [Threads -> Drms]
         /\ owner \in [Drms -> Threads \union {NoThread}]
  BY DEF Inv, TypeOK

\* A step that moves no thread into or out of the request or the window.
LEMMA RagFrame ==
  ASSUME Inv, rag' = rag, owner' = owner, NEW t \in Threads,
         NEW label \in PcValues, Goto(t, label),
         arg'[t] = arg[t] \/ label \notin {"lock", "relock", "swap"},
         \A u \in Threads : u # t => arg'[u] = arg[u],
         pc[t] \in {"lock"} <=> label \in {"lock"},
         pc[t] \in {"relock", "swap"} <=> label \in {"relock", "swap"}
  PROVE  RagMatchesOwners'
<1> SUFFICES ASSUME NEW u \in Threads, NEW d \in Drms
             PROVE /\ Requesting(u, d)' <=> Requesting(u, d)
                   /\ InWindow(u, d)' <=> InWindow(u, d)
  BY DEF Inv, RagMatchesOwners
<1>1. pc'[t] = label /\ (u # t => pc'[u] = pc[u] /\ arg'[u] = arg[u])
  BY Types
<1> QED
  BY <1>1 DEF Requesting, InWindow

LEMMA CallInv ==
  ASSUME Inv, NEW t \in Threads, NEW d \in Drms, NEW label \in {"check", "post"},
         Call(t, d, label)
  PROVE  Inv'
<1>1. TypeOK'
  BY DEF Inv, Call, TypeOK
<1>2. GlobalMutInv' /\ Acyclic'
  BY Types, DrmAssumption DEF Inv, Call, GlobalMutInv, Acyclic
<1>3. RagMatchesOwners'
  BY Types, RagFrame DEF Call
<1> QED
  BY <1>1, <1>2, <1>3 DEF Inv

LEMMA CheckInv == ASSUME Inv, NEW t \in Threads, Check(t) PROVE Inv'
<1> DEFINE d == arg[t]
<1>1. d \in Drms /\ t \notin Drms /\ <<t, d>> \notin rag
  BY Types, DrmAssumption DEF Check, Inv, RagMatchesOwners, Requesting
<1>2. TypeOK'
  BY <1>1 DEF Inv, Check, TypeOK
<1>3. GlobalMutInv'
  BY Types, DrmAssumption DEF Inv, Check, GlobalMutInv
<1>4. CASE WouldDeadlock(t, d)
  <2>1. rag' = rag /\ pc' = [pc EXCEPT ![t] = "idle"]
    BY <1>1, <1>4 DEF Check
  <2>2. RagMatchesOwners'
    BY <2>1, RagFrame DEF Check
  <2>3. Acyclic'
    BY <2>1 DEF Inv, Acyclic
  <2> QED
    BY <1>2, <1>3, <2>2, <2>3 DEF Inv
<1>5. CASE ~WouldDeadlock(t, d)
  <2>1. /\ rag' = rag \union {<<t, d>>}
        /\ pc' = [pc EXCEPT ![t] = "lock"]
        /\ arg' = arg /\ owner' = owner
        /\ pc[t] = "check"
    BY <1>5 DEF Check
  <2>2. RagMatchesOwners'
    <3> SUFFICES ASSUME NEW u \in Threads, NEW e \in Drms
                 PROVE /\ (<<u, e>> \in rag <=> Requesting(u, e))'
                       /\ (<<e, u>> \in rag <=> owner[e] = u /\ ~InWindow(u, e))'
                       /\ (InWindow(u, e) => owner[e] = u)'
      BY DEF RagMatchesOwners
    <3>1. <<u, e>> \in rag' <=> <<u, e>> \in rag \/ (u = t /\ e = d)
      BY <2>1
    <3>2. <<e, u>> \in rag' <=> <<e, u>> \in rag
      BY <1>1, <2>1
    <3>3. Requesting(u, e)' <=> Requesting(u, e) \/ (u = t /\ e = d)
      BY <2>1, Types DEF Requesting
    <3>4. InWindow(u, e)' <=> InWindow(u, e)
      BY <2>1, Types DEF InWindow
    <3> QED
      BY <2>1, <3>1, <3>2, <3>3, <3>4 DEF Inv, RagMatchesOwners
  <2>3. Acyclic'
    <3> SUFFICES ASSUME NEW S \in SUBSET Threads, Closed(S, rag') PROVE S = {}
      BY DEF Acyclic
    <3>1. t \notin S
      BY <2>1, <1>5 DEF WouldDeadlock, contains_cycle
    <3>2. Closed(S, rag)
      <4> SUFFICES ASSUME NEW v \in S
                   PROVE \E e \in Drms, w \in S : <<v, e>> \in rag /\ <<e, w>> \in rag
        BY DEF Closed
      <4>1. PICK e \in Drms, w \in S : <<v, e>> \in rag' /\ <<e, w>> \in rag'
        BY DEF Closed
      <4>2. v # t /\ e # t
        BY <1>1, <3>1
      <4>3. <<v, e>> \in rag /\ <<e, w>> \in rag
        BY <2>1, <4>1, <4>2
      <4> QED
        BY <4>3
    <3> QED
      BY <3>2 DEF Inv, Acyclic
  <2> QED
    BY <1>2, <1>3, <2>2, <2>3 DEF Inv
<1> QED
  BY <1>4, <1>5

LEMMA LockInv == ASSUME Inv, NEW t \in Threads, Lock(t) PROVE Inv'
<1> DEFINE d == arg[t]
<1>1. TypeOK'
  BY DEF Inv, Lock, TypeOK
<1>2. GlobalMutInv' /\ Acyclic'
  BY Types DEF Inv, Lock, GlobalMutInv, Acyclic
<1>3. RagMatchesOwners'
  <2> SUFFICES ASSUME NEW u \in Threads, NEW e \in Drms
               PROVE /\ (<<u, e>> \in rag <=> Requesting(u, e))'
                     /\ (<<e, u>> \in rag <=> owner[e] = u /\ ~InWindow(u, e))'
                     /\ (InWindow(u, e) => owner[e] = u)'
    BY DEF RagMatchesOwners
  <2>1. Requesting(u, e)' <=> Requesting(u, e)
    BY Types DEF Lock, Requesting
  <2>2. InWindow(u, e)' <=> InWindow(u, e) \/ (u = t /\ e = d)
    BY Types DEF Lock, InWindow
  <2>3. owner'[e] = IF e = d THEN t ELSE owner[e]
    BY Types DEF Lock
  <2>4. owner[d] = NoThread /\ rag' = rag /\ NoThread \notin Threads
    BY DrmAssumption DEF Lock
  <2> QED
    BY <2>1, <2>2, <2>3, <2>4 DEF Inv, RagMatchesOwners
<1> QED
  BY <1>1, <1>2, <1>3 DEF Inv

LEMMA RelockInv == ASSUME Inv, NEW t \in Threads, Relock(t) PROVE Inv'
<1>1. TypeOK'
  BY DEF Inv, Relock, TypeOK
<1>2. GlobalMutInv' /\ Acyclic'
  BY Types, DrmAssumption DEF Inv, Relock, GlobalMutInv, Acyclic
<1>3. RagMatchesOwners'
  BY Types, RagFrame DEF Relock
<1> QED
  BY <1>1, <1>2, <1>3 DEF Inv

LEMMA SwapInv == ASSUME Inv, NEW t \in Threads, Swap(t) PROVE Inv'
<1> DEFINE d == arg[t]
<1>1. d \in Drms /\ t \notin Drms /\ owner[d] = t /\ d \notin Threads
  <2>1. d \in Drms /\ t \notin Drms /\ d \notin Threads
    BY DrmAssumption DEF Inv, TypeOK
  <2>2. InWindow(t, d)
    BY DEF Swap, InWindow
  <2>3. owner[d] = t
    BY <2>1, <2>2 DEF Inv, RagMatchesOwners
  <2> QED
    BY <2>1, <2>3
<1>2. TypeOK'
  BY <1>1 DEF Inv, Swap, TypeOK
<1>3. GlobalMutInv'
  BY Types, DrmAssumption DEF Inv, Swap, GlobalMutInv
<1>4. \A u \in Threads, e \in Drms :
        /\ <<u, e>> \in rag' <=> <<u, e>> \in rag /\ ~(u = t /\ e = d)
        /\ <<e, u>> \in rag' <=> <<e, u>> \in rag \/ (e = d /\ u = t)
  BY <1>1, DrmAssumption DEF Swap
<1>5. RagMatchesOwners'
  <2> SUFFICES ASSUME NEW u \in Threads, NEW e \in Drms
               PROVE /\ (<<u, e>> \in rag <=> Requesting(u, e))'
                     /\ (<<e, u>> \in rag <=> owner[e] = u /\ ~InWindow(u, e))'
                     /\ (InWindow(u, e) => owner[e] = u)'
    BY DEF RagMatchesOwners
  <2>1. Requesting(u, e)' <=> Requesting(u, e) /\ ~(u = t /\ e = d)
    BY Types DEF Swap, Requesting
  <2>2. InWindow(u, e)' <=> InWindow(u, e) /\ ~(u = t /\ e = d)
    BY Types DEF Swap, InWindow
  <2>3. InWindow(t, d) /\ owner' = owner
    BY DEF Swap, InWindow
  <2> QED
    BY <1>1, <1>4, <2>1, <2>2, <2>3 DEF Inv, RagMatchesOwners
<1>6. Acyclic'
  <2> SUFFICES ASSUME NEW S \in SUBSET Threads, Closed(S, rag') PROVE S = {}
    BY DEF Acyclic
  <2>1. t \notin S
    <3>1. \A e \in Drms : <<t, e>> \notin rag'
      BY <1>1, <1>4 DEF Inv, RagMatchesOwners, Requesting
    <3> QED
      BY <3>1 DEF Closed
  <2>2. Closed(S, rag)
    <3> SUFFICES ASSUME NEW v \in S
                 PROVE \E e \in Drms, w \in S : <<v, e>> \in rag /\ <<e, w>> \in rag
      BY DEF Closed
    <3>1. PICK e \in Drms, w \in S : <<v, e>> \in rag' /\ <<e, w>> \in rag'
      BY DEF Closed
    <3>2. v \in Threads /\ w \in Threads /\ w # t
      BY <2>1
    <3>3. <<v, e>> \in rag /\ <<e, w>> \in rag
      BY <1>4, <3>1, <3>2
    <3> QED
      BY <3>3
  <2> QED
    BY <2>2 DEF Inv, Acyclic
<1> QED
  BY <1>2, <1>3, <1>5, <1>6 DEF Inv

LEMMA PostInv == ASSUME Inv, NEW t \in Threads, Post(t) PROVE Inv'
<1> DEFINE d == arg[t]
<1>1. d \in Drms /\ t \notin Drms /\ d \notin Threads
  BY Types, DrmAssumption
<1>2. TypeOK'
  BY <1>1 DEF Inv, Post, TypeOK
<1>3. GlobalMutInv'
  BY Types, DrmAssumption DEF Inv, Post, GlobalMutInv
<1>4. Acyclic'
  <2>1. rag' \subseteq rag
    BY DEF Post
  <2> QED
    BY <2>1, ClosedMonotonic DEF Inv, Acyclic
<1>5. RagMatchesOwners'
  <2>1. CASE UNCHANGED <<rag, owner>>
    BY <2>1, RagFrame DEF Post
  <2>2. CASE /\ <<d, t>> \in rag
             /\ rag' = rag \ {<<d, t>>}
             /\ owner' = [owner EXCEPT ![d] = NoThread]
    <3> SUFFICES ASSUME NEW u \in Threads, NEW e \in Drms
                 PROVE /\ (<<u, e>> \in rag <=> Requesting(u, e))'
                       /\ (<<e, u>> \in rag <=> owner[e] = u /\ ~InWindow(u, e))'
                       /\ (InWindow(u, e) => owner[e] = u)'
      BY DEF RagMatchesOwners
    <3>1. <<u, e>> \in rag' <=> <<u, e>> \in rag
      BY <1>1, <2>2
    <3>2. <<e, u>> \in rag' <=> <<e, u>> \in rag /\ ~(e = d /\ u = t)
      BY <2>2
    <3>3. owner[d] = t /\ ~InWindow(t, d)
      BY <1>1, <2>2 DEF Inv, RagMatchesOwners
    <3>4. owner'[e] = IF e = d THEN NoThread ELSE owner[e]
      BY <2>2, Types
    <3>5. Requesting(u, e)' <=> Requesting(u, e)
      BY Types DEF Post, Requesting
    <3>6. InWindow(u, e)' <=> InWindow(u, e)
      BY Types DEF Post, InWindow
    <3> QED
      BY <3>1, <3>2, <3>3, <3>4, <3>5, <3>6, DrmAssumption
      DEF Inv, RagMatchesOwners
  <2> QED
    BY <2>1, <2>2 DEF Post
<1> QED
  BY <1>2, <1>3, <1>4, <1>5 DEF Inv

LEMMA DestroyInv == ASSUME Inv, NEW d \in Drms, drm_destroy(d) PROVE Inv'
<1>1. rag' = rag
  <2>1. \A t \in Threads, e \in Drms : <<t, e>> \notin rag /\ <<e, t>> \notin rag
    <3> SUFFICES ASSUME NEW t \in Threads, NEW e \in Drms
                 PROVE <<t, e>> \notin rag /\ <<e, t>> \notin rag
      OBVIOUS
    <3>1. pc[t] = "idle" /\ owner[e] # t
      BY DrmAssumption DEF drm_destroy
    <3> QED
      BY <3>1 DEF Inv, RagMatchesOwners, Requesting
  <2>2. rag = {}
    <3>1. ASSUME NEW e \in rag PROVE FALSE
      <4>1. CASE e \in Threads \X Drms
        <5>1. PICK t \in Threads, d1 \in Drms : e = <<t, d1>>
          BY <4>1
        <5> QED
          BY <2>1, <5>1
      <4>2. CASE e \in Drms \X Threads
        <5>1. PICK d1 \in Drms, t \in Threads : e = <<d1, t>>
          BY <4>2
        <5> QED
          BY <2>1, <5>1
      <4> QED
        BY <4>1, <4>2 DEF Inv, TypeOK
    <3> QED
      BY <3>1
  <2> QED
    BY <2>2 DEF drm_destroy
<1>2. TypeOK'
  BY <1>1 DEF Inv, drm_destroy, TypeOK
<1> QED
  BY <1>1, <1>2
  DEF Inv, drm_destroy, GlobalMutInv, RagMatchesOwners, Acyclic, Requesting, InWindow

\* Every step preserves the invariant.
LEMMA NextInv == Inv /\ [Next]_vars => Inv'
<1> SUFFICES ASSUME Inv, [Next]_vars PROVE Inv'
  OBVIOUS
<1>1. CASE UNCHANGED vars
  BY <1>1 DEF vars, Inv, TypeOK, GlobalMutInv, RagMatchesOwners, Acyclic,
              Requesting, InWindow
<1>2. ASSUME NEW t \in Threads, Step(t) PROVE Inv'
  BY <1>2, CheckInv, LockInv, RelockInv, SwapInv, PostInv DEF Step
<1>3. ASSUME NEW t \in Threads, NEW d \in Drms, drm_wait(t, d) \/ drm_post(t, d)
      PROVE Inv'
  BY <1>3, CallInv DEF drm_wait, drm_post
<1>4. ASSUME NEW d \in Drms, drm_init(d) PROVE Inv'
  BY <1>4 DEF drm_init, Inv, TypeOK, GlobalMutInv, RagMatchesOwners, Acyclic,
              Requesting, InWindow
<1> QED
  BY <1>1, <1>2, <1>3, <1>4, DestroyInv DEF Next

LEMMA Invariance == Spec => []Inv
  BY InitInv, NextInv, PTL DEF Spec

-----------------------------------------------------------------------------
(***************************************************************************)
(* Type correctness of drm_init, drm_wait, drm_post and drm_destroy.       *)
(***************************************************************************)
THEOREM TypeCorrect == Spec => []TypeOK
  BY Invariance, PTL DEF Inv

(***************************************************************************)
(* The graph of libdrm agrees with the mutexes at every step, but for the  *)
(* window of drm_wait between locking drm->mut and updating the graph.     *)
(***************************************************************************)
THEOREM RagCorrect == Spec => []RagMatchesOwners
  BY Invariance, PTL DEF Inv

(***************************************************************************)
(* Clients of drm_wait and drm_post never deadlock, however many they are  *)
(* and however many drms they use, in spite of that window.                *)
(***************************************************************************)
THEOREM DeadlockFree == Spec => []NoDeadlock
<1>1. Inv => NoDeadlock
  <2> SUFFICES ASSUME Inv, NEW S \in SUBSET Threads, S # {},
                      \A t \in S : \E u \in S : WaitsFor(t, u)
               PROVE FALSE
    BY DEF NoDeadlock
  <2>1. Closed(S, rag)
    <3> SUFFICES ASSUME NEW t \in S
                 PROVE \E d \in Drms, u \in S : <<t, d>> \in rag /\ <<d, u>> \in rag
      BY DEF Closed
    <3>1. PICK u \in S : WaitsFor(t, u)
      OBVIOUS
    <3>2. arg[t] \in Drms /\ pc[u] = "lock"
      BY Types DEF WaitsFor
    <3>3. <<t, arg[t]>> \in rag /\ <<arg[t], u>> \in rag
      <4>1. t \in Threads /\ u \in Threads
        OBVIOUS
      <4>2. /\ Requesting(t, arg[t])
            /\ owner[arg[t]] = u /\ ~InWindow(u, arg[t])
        BY <3>1, <3>2 DEF WaitsFor, Requesting, InWindow
      <4> QED
        BY <3>2, <4>1, <4>2 DEF Inv, RagMatchesOwners
    <3> QED
      BY <3>2, <3>3
  <2> QED
    BY <2>1 DEF Inv, Acyclic
<1> QED
  BY <1>1, Invariance, PTL

\* The edges of a closed set other than the new request edge are real waits.
LEMMA ClosedWaits ==
  ASSUME Inv, NEW t \in Threads, NEW S \in SUBSET Threads,
         Closed(S, rag \union {<<t, arg[t]>>}), pc[t] = "check"
  PROVE  /\ \A v \in S \ {t} : \E w \in S : WaitsFor(v, w)
         /\ t \in S => \E w \in S : owner[arg[t]] = w
<1> DEFINE E == rag \union {<<t, arg[t]>>}
<1>1. ASSUME NEW v \in S
      PROVE \E d \in Drms, w \in S :
              /\ <<v, d>> \in rag \/ (v = t /\ d = arg[t])
              /\ owner[d] = w
              /\ owner[d] # v \/ v = t \/ ~InWindow(v, d)
  <2>1. PICK d \in Drms, w \in S : <<v, d>> \in E /\ <<d, w>> \in E
    BY DEF Closed
  <2>2. d # t
    BY DrmAssumption
  <2>3. <<d, w>> \in rag
    BY <2>1, <2>2
  <2>4. owner[d] = w /\ ~InWindow(w, d)
    BY <2>3 DEF Inv, RagMatchesOwners
  <2> QED
    BY <2>1, <2>4
<1>2. ASSUME NEW v \in S \ {t} PROVE \E w \in S : WaitsFor(v, w)
  <2>1. PICK d \in Drms, w \in S :
          /\ <<v, d>> \in rag
          /\ owner[d] = w
          /\ owner[d] # v \/ ~InWindow(v, d)
    BY <1>1
  <2>2. Requesting(v, d)
    BY <2>1 DEF Inv, RagMatchesOwners
  <2>3. InWindow(v, d) => owner[d] = v
    BY DEF Inv, RagMatchesOwners
  <2>4. ~InWindow(v, d)
    BY <2>1, <2>3
  <2> QED
    BY <2>1, <2>2, <2>4 DEF WaitsFor, Requesting, InWindow
<1>3. ASSUME t \in S PROVE \E w \in S : owner[arg[t]] = w
  <2>1. PICK d \in Drms, w \in S :
          (<<t, d>> \in rag \/ d = arg[t]) /\ owner[d] = w
    BY <1>1, <1>3
  <2>2. <<t, d>> \notin rag
    BY DEF Inv, RagMatchesOwners, Requesting
  <2> QED
    BY <2>1, <2>2
<1> QED
  BY <1>2, <1>3

(***************************************************************************)
(* drm_wait never refuses a wait that would have been safe: whenever it    *)
(* returns 0, the owners and waiters of the real mutexes form a cycle.     *)
(***************************************************************************)
THEOREM RefusalsAreJustified == Spec => RefusalsJustified
<1>1. Inv /\ [Next]_vars =>
        [\A t \in Threads : pc[t] = "check" /\ pc'[t] = "idle" => WaitIsFatal(t)]_vars
  <2> SUFFICES ASSUME Inv, Next, NEW t \in Threads, pc[t] = "check", pc'[t] = "idle"
               PROVE WaitIsFatal(t)
    OBVIOUS
  <2>1. Check(t)
    <3>1. ASSUME NEW u \in Threads, u # t, Step(u) PROVE FALSE
      BY <3>1, Types DEF Step, Check, Lock, Relock, Swap, Post
    <3>2. ASSUME NEW u \in Threads, NEW d \in Drms, drm_wait(u, d) \/ drm_post(u, d)
          PROVE FALSE
      BY <3>2, Types DEF drm_wait, drm_post, Call
    <3>3. ASSUME NEW d \in Drms, drm_init(d) \/ drm_destroy(d) PROVE FALSE
      BY <3>3 DEF drm_init, drm_destroy
    <3>4. Step(t)
      BY <3>1, <3>2, <3>3 DEF Next
    <3> QED
      BY <3>4 DEF Step, Lock, Relock, Swap, Post
  <2>2. WouldDeadlock(t, arg[t])
    BY <2>1, Types DEF Check
  <2>3. CASE <<arg[t], t>> \in rag
    BY <2>3, Types DEF Inv, RagMatchesOwners, WaitIsFatal
  <2>4. CASE contains_cycle(t, rag \union {<<t, arg[t]>>})
    <3>1. PICK S \in SUBSET Threads :
            t \in S /\ Closed(S, rag \union {<<t, arg[t]>>})
      BY <2>4 DEF contains_cycle
    <3>2. /\ \A v \in S \ {t} : \E w \in S : WaitsFor(v, w)
          /\ \E w \in S : owner[arg[t]] = w
      BY <3>1, ClosedWaits
    <3> QED
      BY <3>1, <3>2 DEF WaitIsFatal
  <2> QED
    BY <2>2, <2>3, <2>4 DEF WouldDeadlock
<1> QED
  BY <1>1, Invariance, PTL DEF Spec, RefusalsJustified
=============================================================================
