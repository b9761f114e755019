-------------------------- MODULE ChatServerProofs --------------------------
(***************************************************************************)
(* TLAPS proofs about ChatServer, for every number of users, of places, of *)
(* messages and of signals.                                                *)
(***************************************************************************)
EXTENDS ChatServer, FiniteSetTheorems, TLAPS

\* Where a client's thread is before it has closed its descriptor.
Serving == {"loop", "enter", "read", "lock", "write", "leave"}

\* The values of the variables (budget is only counted down).
TypeOK ==
    /\ endSession \in {0, 1} /\ clientsCount \in Int
    /\ clients \in [Slots -> Fds \union {-1}]
    /\ mutex \in SUBSET Clients
    /\ main \in {"loop", "accept", "check", "place", "spawn", "cleanup"}
    /\ fresh \in Fds \union {0} /\ swept \in Nat
    /\ sock \in [Fds -> Clients \union {None}]
    /\ peer \in [Clients -> {"off", "pending", "on", "left", "absent"}]
    /\ shut \in SUBSET Clients
    /\ unread \in [Clients -> Int]
    /\ pc \in [Clients -> Serving \union {"none", "clear", "done"}]
    /\ slot \in [Clients -> Slots \union {-1}]
    /\ iter \in [Clients -> Nat]
    /\ log \in Nat
    /\ current \in [Clients -> Nat]
    /\ inbox \in [Clients -> Seq(Nat)]
    /\ joined \in [Clients -> Nat]

\* The client whose thread main is about to start.
Arriving(c) == main = "spawn" /\ sock[fresh] = c

\* The clients that have a slot.
Seated(c) == pc[c] \in Serving \union {"clear"} \/ Arriving(c)

\* A connection has one descriptor, and only users who have been accepted
\* have one, or a thread.
SockInv == /\ \A f, g \in Fds : sock[f] # None /\ sock[f] = sock[g] => f = g
           /\ \A f \in Fds : sock[f] # None => peer[sock[f]] \in {"on", "left"}
           /\ \A c \in Clients : pc[c] # "none" => peer[c] \in {"on", "left"}
           /\ shut # {} => main = "cleanup"

\* main puts only an accepted client into a slot, and finds one for it.
FreshInv == /\ main = "check" => fresh \in Fds \/ endSession = 1
            /\ main = "place" => fresh \in Fds
            /\ main = "spawn" => fresh \in Fds /\ clients[slot[sock[fresh]]] = fresh
            /\ main \in {"check", "place", "spawn"} /\ fresh \in Fds
                 => sock[fresh] \in Clients /\ pc[sock[fresh]] = "none"

\* clientsCount counts the occupied slots, and only main adds to it: what
\* main saw in its loop still holds when it fills a slot.
RoomInv == /\ clientsCount = Cardinality(Occupied)
           /\ main \in {"accept", "check", "place"} => clientsCount < MAX_CLIENTS

\* Every client has a slot of its own, with its descriptor until it is closed.
SeatInv == /\ \A c \in Clients : Seated(c) => slot[c] \in Slots /\ clients[slot[c]] # -1
           /\ \A c, d \in Clients : Seated(c) /\ Seated(d) /\ c # d => slot[c] # slot[d]
           /\ \A c \in Clients : pc[c] \in Serving =>
                 \/ sock[clients[slot[c]]] = c
                 \/ sock[clients[slot[c]]] = None /\ c \in shut

\* What the table of clients needs.
TableInv == TypeOK /\ SockInv /\ FreshInv /\ RoomInv /\ SeatInv

-----------------------------------------------------------------------------
\* At most one thread is writing, and it holds the mutex.
MutexInv == /\ \A c \in Clients : c \in mutex <=> pc[c] = "write"
            /\ \A c, d \in mutex : c = d

\* It makes the last broadcast, and none of a later number has been sent.
LogInv == /\ \A c \in mutex : current[c] = log /\ iter[c] \in 0..MAX_CLIENTS
          /\ \A c \in Clients : \A i \in DOMAIN inbox[c] : inbox[c][i] <= log
          /\ \A c \in Clients : \A i, j \in DOMAIN inbox[c] :
               i < j => inbox[c][i] <= inbox[c][j]

\* The last broadcast has still to come to the client's slot.
Due(c) == \E w \in mutex : iter[w] <= slot[c]

\* A client that is in its slot and connected.
Present(c) == (pc[c] \in Serving \ {"leave"} \/ Arriving(c)) /\ c \notin shut

\* It has been sent the broadcast.
Heard(c, k) == \E i \in DOMAIN inbox[c] : inbox[c][i] = k

\* A client has been sent every broadcast since it was put in its slot, but
\* perhaps the one under way.
HeardInv == \A c \in Clients : Present(c) =>
              \A k \in (joined[c] + 1)..log : Heard(c, k) \/ (k = log /\ Due(c))

\* The inductive invariant.
ChatInv == TableInv /\ MutexInv /\ LogInv /\ HeardInv

-----------------------------------------------------------------------------
\* The least element of a set of numbers is one of the set.
LEMMA MinIn == ASSUME NEW S, S \subseteq Nat, S # {} PROVE Min(S) \in S
<1> DEFINE R == OpToRel(<, Nat)
<1>1. IsWellFoundedOn(R, Nat)
  BY NatLessThanWellFounded
<1>2. PICK x \in S : \A y \in S : ~ (<<y, x>> \in R)
  <2> HIDE DEF R
  <2> QED BY <1>1, WFMin
<1>3. \A y \in S : ~ (y < x)
  BY <1>2 DEF OpToRel
<1>4. \A y \in S : x <= y
  BY <1>3
<1> QED BY <1>4 DEF Min

\* There is a descriptor for every user that waits to be accepted.
LEMMA FreeFd ==
  ASSUME TypeOK, SockInv, NEW c \in Clients, peer[c] = "pending"
  PROVE  LET fd == Min({f \in Fds : sock[f] = None}) IN fd \in Fds /\ sock[fd] = None
<1> DEFINE free == {f \in Fds : sock[f] = None}
<1>0. Cardinality(Clients) \in Nat
  BY FS_CardinalityType, ChatAssumption
<1>1. free # {}
  <2> SUFFICES ASSUME free = {} PROVE FALSE
    OBVIOUS
  <2> DEFINE others == Clients \ {c}
  <2>0. \A f \in Fds : sock[f] \in others
    <3> SUFFICES ASSUME NEW f \in Fds PROVE sock[f] \in others
      OBVIOUS
    <3>1. sock[f] # None /\ sock[f] \in Clients
      BY DEF TypeOK
    <3>2. peer[sock[f]] \in {"on", "left"}
      BY <3>1 DEF SockInv
    <3>3. sock[f] # c
      BY <3>2
    <3> QED BY <3>1, <3>3
  <2>a. sock \in [Fds -> others]
    BY <2>0 DEF TypeOK
  <2>b. \A f, g \in Fds : sock[f] = sock[g] => f = g
    BY DEF SockInv
  <2>1. sock \in Injection(Fds, others)
    BY <2>a, <2>b DEF Injection, IsInjective
  <2>2. IsFiniteSet(others) /\ Cardinality(others) = Cardinality(Clients) - 1
    BY FS_RemoveElement, ChatAssumption
  <2>3. Cardinality(Fds) = Cardinality(Clients)
    BY <1>0, FS_Interval DEF Fds
  <2>4. Cardinality(Fds) <= Cardinality(others)
    BY <2>1, <2>2, FS_Injection
  <2> QED BY <1>0, <2>2, <2>3, <2>4
<1>2. free \subseteq Nat
  BY <1>0 DEF Fds
<1>3. Min(free) \in free
  BY <1>1, <1>2, MinIn
<1> QED BY <1>3

\* A slot is free as long as fewer than MAX_CLIENTS are occupied.
LEMMA SlotsFinite ==
  IsFiniteSet(Slots) /\ Cardinality(Slots) = MAX_CLIENTS /\ Slots \subseteq Nat
BY FS_Interval, ChatAssumption DEF Slots

LEMMA RoomMeansFree ==
  ASSUME RoomInv, clientsCount < MAX_CLIENTS
  PROVE  FreeSlot # {} /\ Min(FreeSlot) \in FreeSlot
<1>1. FreeSlot # {}
  BY SlotsFinite, ChatAssumption DEF FreeSlot, Occupied, RoomInv
<1>2. FreeSlot \subseteq Nat
  BY SlotsFinite DEF FreeSlot
<1> QED BY <1>1, <1>2, MinIn

\* The initial states satisfy it.
LEMMA InitTable == Init => TableInv
<1> SUFFICES ASSUME Init PROVE TableInv
  OBVIOUS
<1>1. TypeOK
  BY DEF Init, TypeOK
<1>2. SockInv /\ FreshInv /\ SeatInv
  BY DEF Init, SockInv, FreshInv, SeatInv, Seated, Arriving, Serving
<1>3. RoomInv
  <2>1. Occupied = {}
    BY DEF Init, Occupied
  <2> QED BY <2>1, FS_EmptySet DEF Init, RoomInv
<1> QED BY <1>1, <1>2, <1>3 DEF TableInv

-----------------------------------------------------------------------------
\* accept: the descriptor is not in use, so no other client has it.
LEMMA AcceptTable == ASSUME TableInv, Accept PROVE TableInv'
<1> USE DEF TableInv
<1>1. PICK c \in Clients :
        LET fd == Min({f \in Fds : sock[f] = None})
        IN /\ peer[c] = "pending"
           /\ peer' = [peer EXCEPT ![c] = "on"]
           /\ sock' = [sock EXCEPT ![fd] = c]
           /\ fresh' = fd
  BY DEF Accept
<1> DEFINE fd == Min({f \in Fds : sock[f] = None})
<1>2. fd \in Fds /\ sock[fd] = None
  BY <1>1, FreeFd
<1>3. /\ peer[c] = "pending" /\ peer' = [peer EXCEPT ![c] = "on"]
      /\ sock' = [sock EXCEPT ![fd] = c] /\ fresh' = fd
  BY <1>1
<1> HIDE DEF fd
<1>u. /\ main = "accept" /\ main' = "check"
      /\ UNCHANGED <<shared, swept, shut, unread, budget, threadVars, history>>
  BY DEF Accept
<1>4. TypeOK'
  BY <1>2, <1>3, <1>u DEF TypeOK, shared, threadVars, history
<1>a. /\ sock'[fd] = c /\ c # None /\ \A f \in Fds : f # fd => sock'[f] = sock[f]
      /\ \A d \in Clients : d # c => peer'[d] = peer[d]
      /\ peer'[c] = "on"
  BY <1>2, <1>3, ChatAssumption DEF TypeOK
<1>b. \A f \in Fds : sock[f] # c
  BY <1>3, <1>a DEF SockInv
<1>5. SockInv'
  <2>1. \A f, g \in Fds : sock'[f] # None /\ sock'[f] = sock'[g] => f = g
    BY <1>a, <1>b DEF SockInv
  <2>2. \A f \in Fds : sock'[f] # None => peer'[sock'[f]] \in {"on", "left"}
    <3> SUFFICES ASSUME NEW f \in Fds, sock'[f] # None PROVE peer'[sock'[f]] \in {"on", "left"}
      OBVIOUS
    <3>1. CASE f = fd
      BY <3>1, <1>a
    <3>2. CASE f # fd
      BY <3>2, <1>a, <1>b DEF SockInv, TypeOK
    <3> QED BY <3>1, <3>2
  <2>3. \A d \in Clients : pc'[d] # "none" => peer'[d] \in {"on", "left"}
    BY <1>u, <1>a DEF SockInv, threadVars
  <2> QED BY <1>u, <2>1, <2>2, <2>3 DEF SockInv
<1>6. FreshInv'
  BY <1>2, <1>3, <1>u, ChatAssumption DEF SockInv, FreshInv, TypeOK, shared, threadVars
<1>7. RoomInv'
  BY <1>2, <1>3, <1>u DEF RoomInv, Occupied, shared, threadVars
<1>8. SeatInv'
  <2>1. \A d \in Clients : pc[d] # "none" => d # c
    BY <1>3 DEF SockInv
  <2>2. \A d \in Clients : Seated(d)' => Seated(d)
    BY <1>u DEF Seated, Arriving, threadVars
  <2>3. \A d \in Clients : pc[d] \in Serving => slot[d] \in Slots /\ clients[slot[d]] \in Fds
    BY DEF SeatInv, Seated, TypeOK
  <2>4. shut = {}
    BY <1>u DEF SockInv
  <2>5. \A d \in Clients : pc[d] \in Serving => sock'[clients[slot[d]]] = d
    <3> SUFFICES ASSUME NEW d \in Clients, pc[d] \in Serving PROVE sock'[clients[slot[d]]] = d
      OBVIOUS
    <3>1. sock[clients[slot[d]]] = d
      BY <2>4 DEF SeatInv
    <3> QED BY <3>1, <2>3, <1>2, <1>a, ChatAssumption
  <2> QED BY <2>2, <2>5, <1>u DEF SeatInv, shared, threadVars
<1> QED BY <1>4, <1>5, <1>6, <1>7, <1>8

\* Lines 150-164: the slot was free, and there was one.
LEMMA PlaceTable == ASSUME TableInv, Place PROVE TableInv'
<1> USE DEF TableInv
<1> DEFINE i == Min(FreeSlot)
           c == sock[fresh]
<1>1. i \in Slots /\ clients[i] = -1 /\ FreeSlot # {}
  BY RoomMeansFree DEF Place, RoomInv, FreeSlot, Occupied
<1>2. fresh \in Fds /\ c \in Clients /\ pc[c] = "none" /\ fresh # -1
  <2>1. fresh \in Fds /\ c \in Clients /\ pc[c] = "none"
    BY DEF Place, FreshInv
  <2>2. Cardinality(Clients) \in Nat
    BY FS_CardinalityType, ChatAssumption
  <2> QED BY <2>1, <2>2 DEF Fds
<1>u. /\ main = "place" /\ main' = "spawn"
      /\ clients' = [clients EXCEPT ![i] = fresh] /\ slot' = [slot EXCEPT ![c] = i]
      /\ clientsCount' = clientsCount + 1 /\ joined' = [joined EXCEPT ![c] = log]
      /\ UNCHANGED <<endSession, mutex, fresh, swept, sock, shut, peer, unread, pc, iter,
                     current, log, inbox>>
  BY <1>1 DEF Place, remote
<1> HIDE DEF i
<1>4. TypeOK'
  BY <1>1, <1>2, <1>u DEF TypeOK
<1>5. SockInv'
  BY <1>u DEF SockInv
<1>6. FreshInv'
  BY <1>1, <1>2, <1>u DEF FreshInv, TypeOK
<1>7. RoomInv'
  <2>1. Occupied' = Occupied \union {i} /\ i \notin Occupied
    BY <1>1, <1>2, <1>u DEF Occupied, TypeOK
  <2>2. IsFiniteSet(Occupied)
    BY SlotsFinite, FS_Subset DEF Occupied
  <2> QED BY <2>1, <2>2, FS_AddElement, <1>u DEF RoomInv
<1>8. SeatInv'
  <2>1. \A d \in Clients : Seated(d)' <=> Seated(d) \/ d = c
    BY <1>u DEF Seated, Arriving
  <2>2. \A d \in Clients : Seated(d) => d # c /\ slot[d] # i
    BY <1>1, <1>2, <1>u DEF SeatInv, Seated, Arriving, Serving
  <2>3. slot'[c] = i /\ \A d \in Clients : Seated(d) => slot'[d] = slot[d]
    BY <1>2, <2>2, <1>u DEF TypeOK
  <2>4. clients'[i] = fresh /\ \A j \in Slots : j # i => clients'[j] = clients[j]
    BY <1>1, <1>u DEF TypeOK
  <2>5. \A d \in Clients : pc[d] \in Serving => Seated(d)
    BY DEF Seated
  <2> QED BY <1>2, <2>1, <2>2, <2>3, <2>4, <2>5, <1>u, <1>1 DEF SeatInv
<1> QED BY <1>4, <1>5, <1>6, <1>7, <1>8

\* The thread that main starts is seated already.
LEMMA SpawnTable == ASSUME TableInv, Spawn PROVE TableInv'
<1> USE DEF TableInv
<1> DEFINE c == sock[fresh]
<1>2. /\ fresh \in Fds /\ c \in Clients /\ pc[c] = "none" /\ clients[slot[c]] = fresh
  BY DEF Spawn, FreshInv
<1>u. /\ main = "spawn" /\ main' = "loop" /\ pc' = [pc EXCEPT ![c] = "loop"]
      /\ UNCHANGED <<shared, fresh, swept, sock, shut, remote, slot, iter, current, history>>
  BY DEF Spawn
<1>4. TypeOK'
  BY <1>2, <1>u DEF TypeOK, shared, remote, history, Serving
<1>5. SockInv'
  BY <1>2, <1>u, ChatAssumption DEF SockInv, TypeOK, shared, remote, history
<1>6. FreshInv'
  BY <1>u DEF FreshInv
<1>7. RoomInv'
  BY <1>u DEF RoomInv, Occupied, shared
<1>8. SeatInv'
  <2>1. \A d \in Clients : Seated(d)' <=> Seated(d)
    BY <1>2, <1>u DEF Seated, Arriving, TypeOK, Serving
  <2>2. \A d \in Clients : pc'[d] \in Serving => pc[d] \in Serving \/ d = c
    BY <1>2, <1>u DEF TypeOK
  <2> QED BY <1>2, <2>1, <2>2, <1>u DEF SeatInv, shared
<1> QED BY <1>4, <1>5, <1>6, <1>7, <1>8

\* cleanup shuts a connection and closes its descriptor: main never accepts
\* again, so the descriptor is not given to another client.
LEMMA CleanupTable == ASSUME TableInv, Cleanup PROVE TableInv'
<1> USE DEF TableInv
<1>u. /\ main = "cleanup" /\ main' = "cleanup" /\ swept' = swept + 1 /\ swept \in Slots
      /\ UNCHANGED <<shared, fresh, remote, threadVars, history>>
  BY ChatAssumption DEF Cleanup, TypeOK, Slots
<1>1. CASE shut' = shut /\ sock' = sock
  <2>1. TypeOK'
    BY <1>1, <1>u DEF TypeOK, shared, remote, threadVars, history
  <2>2. SockInv' /\ FreshInv'
    BY <1>1, <1>u DEF SockInv, FreshInv, shared, remote, threadVars
  <2>3. RoomInv'
    BY <1>u DEF RoomInv, Occupied, shared
  <2>4. SeatInv'
    BY <1>1, <1>u DEF SeatInv, Seated, Arriving, shared, threadVars
  <2> QED BY <2>1, <2>2, <2>3, <2>4
<1>2. CASE \E f \in Fds : /\ sock[f] # None
                          /\ shut' = shut \union {sock[f]}
                          /\ sock' = [sock EXCEPT ![f] = None]
  <2>0. PICK f \in Fds : /\ sock[f] # None
                         /\ shut' = shut \union {sock[f]}
                         /\ sock' = [sock EXCEPT ![f] = None]
    BY <1>2
  <2>1. TypeOK'
    BY <2>0, <1>u DEF TypeOK, shared, remote, threadVars, history
  <2>2. SockInv' /\ FreshInv'
    BY <2>0, <1>u DEF SockInv, FreshInv, shared, remote, threadVars, TypeOK
  <2>3. RoomInv'
    BY <1>u DEF RoomInv, Occupied, shared
  <2>4. SeatInv'
    <3>1. \A d \in Clients : Seated(d)' <=> Seated(d)
      BY <1>u DEF Seated, Arriving, threadVars
    <3>2. \A d \in Clients : pc[d] \in Serving => slot[d] \in Slots /\ clients[slot[d]] \in Fds
      BY DEF SeatInv, Seated, TypeOK
    <3> QED BY <3>1, <3>2, <2>0, <1>u DEF SeatInv, shared, threadVars, TypeOK
  <2> QED BY <2>1, <2>2, <2>3, <2>4
<1>3. clients[swept] # -1 => clients[swept] \in Fds
  BY <1>u DEF TypeOK
<1> QED BY <1>1, <1>2, <1>3 DEF Cleanup

\* Line 231: the descriptor in the slot is the client's own, or closed.
LEMMA CloseTable == ASSUME TableInv, NEW c \in Clients, Close(c) PROVE TableInv'
<1> USE DEF TableInv
<1> DEFINE f == clients[slot[c]]
<1>u. /\ pc[c] = "leave" /\ pc' = [pc EXCEPT ![c] = "clear"]
      /\ sock' = [sock EXCEPT ![f] = None]
      /\ UNCHANGED <<shared, mainVars, shut, remote, slot, iter, current, history>>
  BY DEF Close
<1>1. f \in Fds /\ (sock[f] = c \/ sock[f] = None)
  BY <1>u DEF SeatInv, Seated, Serving, TypeOK
<1>4. TypeOK'
  BY <1>1, <1>u DEF TypeOK, shared, mainVars, remote, history
<1>5. SockInv'
  BY <1>1, <1>u DEF SockInv, TypeOK, shared, mainVars, remote
<1>6. FreshInv'
  <2>1. main \in {"check", "place", "spawn"} /\ fresh \in Fds => fresh # f /\ sock[fresh] # c
    BY <1>1, <1>u, ChatAssumption DEF FreshInv, TypeOK
  <2> QED BY <2>1, <1>1, <1>u DEF FreshInv, TypeOK, shared, mainVars
<1>7. RoomInv'
  BY <1>u DEF RoomInv, Occupied, shared, mainVars
<1>8. SeatInv'
  <2>0. main = "spawn" => fresh \in Fds /\ fresh # f
    BY <1>1, <1>u, ChatAssumption DEF FreshInv, TypeOK
  <2>1. \A d \in Clients : Seated(d)' <=> Seated(d)
    BY <1>u, <1>1, <2>0 DEF Seated, Arriving, Serving, TypeOK, mainVars
  <2>2. \A d \in Clients : pc'[d] \in Serving => pc[d] \in Serving /\ d # c
    BY <1>u DEF TypeOK, Serving
  <2>3. \A d \in Clients : pc[d] \in Serving => clients[slot[d]] \in Fds
    BY DEF SeatInv, Seated, TypeOK
  <2>4. \A d \in Clients : pc[d] \in Serving /\ d # c
           => \/ sock'[clients[slot[d]]] = d
              \/ sock'[clients[slot[d]]] = None /\ d \in shut
    BY <2>3, <1>1, <1>u, ChatAssumption DEF SeatInv, TypeOK
  <2> QED BY <2>1, <2>2, <2>4, <1>u DEF SeatInv, shared
<1> QED BY <1>4, <1>5, <1>6, <1>7, <1>8

\* Lines 233-236: only the client's own slot is emptied.
LEMMA ClearTable == ASSUME TableInv, NEW c \in Clients, Clear(c) PROVE TableInv'
<1> USE DEF TableInv
<1> DEFINE i == slot[c]
<1>u. /\ pc[c] = "clear" /\ pc' = [pc EXCEPT ![c] = "done"]
      /\ clients' = [clients EXCEPT ![i] = -1] /\ clientsCount' = clientsCount - 1
      /\ UNCHANGED <<endSession, mutex, mainVars, sock, shut, remote, slot, iter, current,
                     history>>
  BY DEF Clear
<1>1. i \in Slots /\ clients[i] # -1
  BY <1>u DEF SeatInv, Seated
<1>2. main = "spawn" => sock[fresh] # c /\ slot[sock[fresh]] \in Slots /\ slot[sock[fresh]] # i
  BY <1>u DEF FreshInv, SeatInv, Seated, Arriving
<1>4. TypeOK'
  BY <1>1, <1>u DEF TypeOK, mainVars, remote, history
<1>5. SockInv'
  BY <1>u DEF SockInv, TypeOK, mainVars, remote
<1>6. FreshInv'
  BY <1>1, <1>2, <1>u DEF FreshInv, TypeOK, mainVars
<1>7. RoomInv'
  <2>1. Occupied' = Occupied \ {i} /\ i \in Occupied
    BY <1>1, <1>u DEF Occupied, TypeOK
  <2>2. IsFiniteSet(Occupied)
    BY SlotsFinite, FS_Subset DEF Occupied
  <2>3. Cardinality(Occupied') = clientsCount - 1
    BY <2>1, <2>2, FS_RemoveElement DEF RoomInv
  <2> QED BY <2>3, <1>u, ChatAssumption DEF RoomInv, mainVars, TypeOK
<1>8. SeatInv'
  <2>1. \A d \in Clients : Seated(d)' => Seated(d) /\ d # c
    BY <1>u, <1>2 DEF Seated, Arriving, Serving, TypeOK, mainVars
  <2>2. \A d \in Clients : Seated(d) /\ d # c => slot[d] # i
    BY <1>u DEF SeatInv, Seated
  <2>3. \A d \in Clients : pc'[d] \in Serving => pc[d] \in Serving /\ d # c
    BY <1>u DEF TypeOK, Serving
  <2>4. \A d \in Clients : pc[d] \in Serving => Seated(d)
    BY DEF Seated
  <2> QED BY <2>1, <2>2, <2>3, <2>4, <1>1, <1>u DEF SeatInv, TypeOK
<1> QED BY <1>4, <1>5, <1>6, <1>7, <1>8

\* The steps of main that only move it on, and the signal.
LEMMA MainTable ==
  ASSUME TableInv, Loop \/ CheckEnd \/ close_server
  PROVE  TableInv'
<1> USE DEF TableInv
<1>u. UNCHANGED <<clientsCount, clients, mutex, swept, sock, shut, peer, unread, threadVars,
                  history>>
  BY DEF Loop, CheckEnd, close_server, shared, remote
<1>1. CASE Loop
  <2>1. TypeOK'
    BY <1>1, <1>u DEF Loop, TypeOK, shared, threadVars, history
  <2>2. SockInv' /\ FreshInv'
    BY <1>1, <1>u DEF Loop, SockInv, FreshInv, shared, threadVars
  <2>3. RoomInv'
    BY <1>1, <1>u DEF Loop, RoomInv, Occupied, shared
  <2>4. SeatInv'
    BY <1>1, <1>u DEF Loop, SeatInv, Seated, Arriving, shared, threadVars
  <2> QED BY <2>1, <2>2, <2>3, <2>4
<1>2. CASE CheckEnd
  <2>1. TypeOK'
    BY <1>2, <1>u DEF CheckEnd, TypeOK, shared, threadVars, history
  <2>2. SockInv' /\ FreshInv'
    BY <1>2, <1>u DEF CheckEnd, SockInv, FreshInv, shared, threadVars, TypeOK
  <2>3. RoomInv'
    BY <1>2, <1>u DEF CheckEnd, RoomInv, Occupied, shared
  <2>4. SeatInv'
    BY <1>2, <1>u DEF CheckEnd, SeatInv, Seated, Arriving, shared, threadVars
  <2> QED BY <2>1, <2>2, <2>3, <2>4
<1>3. CASE close_server
  <2>0. 0 \notin Fds
    <3>1. Cardinality(Clients) \in Nat
      BY FS_CardinalityType, ChatAssumption
    <3> QED BY <3>1 DEF Fds
  <2>1. TypeOK'
    BY <1>3, <1>u DEF close_server, TypeOK, threadVars, history
  <2>2. SockInv' /\ FreshInv'
    BY <1>3, <1>u, <2>0 DEF close_server, SockInv, FreshInv, threadVars
  <2>3. RoomInv'
    BY <1>3, <1>u DEF close_server, RoomInv, Occupied
  <2>4. SeatInv'
    BY <1>3, <1>u DEF close_server, SeatInv, Seated, Arriving, threadVars
  <2> QED BY <2>1, <2>2, <2>3, <2>4
<1> QED BY <1>1, <1>2, <1>3

\* What a remote user does.
LEMMA RemoteTable ==
  ASSUME TableInv, NEW c \in Clients, Connect(c) \/ Send(c) \/ Leave(c)
  PROVE  TableInv'
<1> USE DEF TableInv
<1>u. UNCHANGED <<shared, mainVars, sock, shut, threadVars, history>>
  BY DEF Connect, Send, Leave
<1>1. TypeOK'
  <2>1. peer' \in [Clients -> {"off", "pending", "on", "left", "absent"}]
    BY DEF Connect, Send, Leave, TypeOK
  <2>2. unread' \in [Clients -> Int]
    BY DEF Connect, Send, Leave, TypeOK
  <2> QED BY <2>1, <2>2, <1>u DEF TypeOK, shared, mainVars, threadVars, history
<1>2. SockInv'
  <2>1. \A d \in Clients : peer[d] \in {"on", "left"} => peer'[d] \in {"on", "left"}
    BY DEF Connect, Send, Leave, TypeOK
  <2> QED BY <2>1, <1>u DEF SockInv, TypeOK, mainVars, threadVars
<1>3. FreshInv' /\ SeatInv'
  BY <1>u DEF FreshInv, SeatInv, Seated, Arriving, shared, mainVars, threadVars
<1>4. RoomInv'
  BY <1>u DEF RoomInv, Occupied, shared, mainVars
<1> QED BY <1>1, <1>2, <1>3, <1>4

\* The steps of a client's thread that leave the table alone.
LEMMA ThreadTable ==
  ASSUME TableInv, NEW c \in Clients,
         Test(c) \/ Enter(c) \/ Read(c) \/ Lock(c) \/ Write(c) \/ Unlock(c)
  PROVE  TableInv'
<1> USE DEF TableInv
<1>u. UNCHANGED <<endSession, clientsCount, clients, mainVars, sock, shut, peer, slot, joined>>
  BY DEF Test, Enter, Read, Lock, Write, Unlock, shared, remote, history
<1>p. /\ pc[c] \in Serving
      /\ \E p \in Serving : pc' = [pc EXCEPT ![c] = p]
  <2>1. CASE Write(c)
    <3>1. pc' = [pc EXCEPT ![c] = "write"]
      BY <2>1 DEF Write, TypeOK
    <3> QED BY <3>1, <2>1 DEF Write, Serving
  <2> QED BY <2>1 DEF Test, Enter, Read, Lock, Unlock, Serving
<1>1. TypeOK'
  <2>1. pc' \in [Clients -> Serving \union {"none", "clear", "done"}]
    BY <1>p DEF TypeOK
  <2>2. mutex' \in SUBSET Clients
    BY DEF Test, Enter, Read, Lock, Write, Unlock, shared, TypeOK
  <2>3. unread' \in [Clients -> Int]
    BY DEF Test, Enter, Read, Lock, Write, Unlock, remote, TypeOK
  <2>4. log' \in Nat /\ current' \in [Clients -> Nat] /\ iter' \in [Clients -> Nat]
    <3>1. CASE Lock(c)
      BY <3>1 DEF Lock, TypeOK
    <3>2. CASE Write(c)
      BY <3>2 DEF Write, TypeOK
    <3> QED BY <3>1, <3>2 DEF Test, Enter, Read, Unlock, history, TypeOK
  <2>5. inbox' \in [Clients -> Seq(Nat)]
    <3>1. CASE Write(c) /\ clients[iter[c]] # -1
      <4> DEFINE d == sock[clients[iter[c]]]
      <4>1. inbox' = [inbox EXCEPT ![d] = Append(@, current[c])]
        BY <3>1 DEF Write
      <4>2. d \in Clients
        <5>1. iter[c] \in Slots
          BY <3>1, ChatAssumption DEF Write, TypeOK, Slots
        <5> QED BY <3>1, <5>1 DEF Write, TypeOK
      <4>3. Append(inbox[d], current[c]) \in Seq(Nat)
        BY <4>2 DEF TypeOK
      <4> QED BY <4>1, <4>2, <4>3 DEF TypeOK
    <3>2. CASE UNCHANGED inbox
      BY <3>2 DEF TypeOK
    <3> QED BY <3>1, <3>2 DEF Test, Enter, Read, Lock, Write, Unlock, history
  <2> QED BY <2>1, <2>2, <2>3, <2>4, <2>5, <1>u DEF TypeOK, mainVars
<1>2. \A d \in Clients : (pc'[d] = "none" <=> pc[d] = "none")
                         /\ (pc'[d] \in Serving <=> pc[d] \in Serving)
                         /\ (pc'[d] = "clear" <=> pc[d] = "clear")
  BY <1>p DEF TypeOK, Serving
<1>3. SockInv'
  BY <1>2, <1>u DEF SockInv, mainVars
<1>4. FreshInv'
  BY <1>2, <1>u DEF FreshInv, mainVars
<1>5. RoomInv'
  BY <1>u DEF RoomInv, Occupied, mainVars
<1>6. SeatInv'
  <2>1. \A d \in Clients : Seated(d)' <=> Seated(d)
    BY <1>2, <1>u DEF Seated, Arriving, mainVars
  <2> QED BY <2>1, <1>2, <1>u DEF SeatInv
<1> QED BY <1>1, <1>3, <1>4, <1>5, <1>6

\* A step that changes nothing.
LEMMA StutterTable == ASSUME TableInv, UNCHANGED vars PROVE TableInv'
BY DEF TableInv, TypeOK, SockInv, FreshInv, RoomInv, SeatInv, Seated, Arriving, Occupied, vars,
       shared, mainVars, remote, threadVars, history

\* Every step keeps the table sound.
LEMMA NextTable == ASSUME TableInv, [Next]_vars PROVE TableInv'
<1>1. CASE Main
  BY <1>1, MainTable, AcceptTable, PlaceTable, SpawnTable, CleanupTable DEF Main
<1>2. CASE close_server
  BY <1>2, MainTable
<1>3. ASSUME NEW c \in Clients, Thread(c) PROVE TableInv'
  BY <1>3, ThreadTable, CloseTable, ClearTable DEF Thread
<1>4. ASSUME NEW c \in Clients, Connect(c) \/ Send(c) \/ Leave(c) PROVE TableInv'
  BY <1>4, RemoteTable
<1>5. CASE UNCHANGED vars
  BY <1>5, StutterTable
<1> QED BY <1>1, <1>2, <1>3, <1>4, <1>5 DEF Next

\* The table is always sound.
LEMMA TableAlways == Spec => []TableInv
BY InitTable, NextTable, PTL DEF Spec

(***************************************************************************)
(* run_server, process_client: in every reachable state clientsCount,      *)
(* which main reads without the mutex, is the number of occupied slots,    *)
(* and a client that main is about to place finds a free slot, for every   *)
(* number of places and of clients that come and leave.                    *)
(***************************************************************************)
THEOREM SlotsCorrect == Spec => []SlotsConsistent
<1>1. TableInv => SlotsConsistent
  BY RoomMeansFree DEF TableInv, RoomInv, SlotsConsistent
<1> QED BY <1>1, TableAlways, PTL

(***************************************************************************)
(* process_client closes its descriptor outside the mutex, after others    *)
(* may have been accepted: no step closes a descriptor that is open for    *)
(* another client, except in cleanup at the end of the session.            *)
(***************************************************************************)
THEOREM ClosesCorrect == Spec => ClosesItsOwn
<1> DEFINE Own == \A f \in Fds : sock[f] # None /\ sock'[f] = None
                                 => main = "cleanup" \/ pc[sock[f]] = "leave"
<1>1. TableInv /\ [Next]_vars => [Own]_vars
  <2> SUFFICES ASSUME TableInv, Next, NEW f \in Fds, sock[f] # None, sock'[f] = None
               PROVE  main = "cleanup" \/ pc[sock[f]] = "leave"
    BY DEF vars
  <2>1. CASE Main
    <3>1. CASE Accept
      <4>1. PICK c \in Clients : \E g : sock' = [sock EXCEPT ![g] = c]
        BY <3>1 DEF Accept
      <4> QED BY <4>1, ChatAssumption DEF TableInv, TypeOK
    <3> QED BY <2>1, <3>1 DEF Main, Loop, CheckEnd, Place, Spawn, Cleanup
  <2>2. CASE close_server
    BY <2>2 DEF close_server
  <2>3. ASSUME NEW c \in Clients, Thread(c) PROVE main = "cleanup" \/ pc[sock[f]] = "leave"
    <3>1. CASE Close(c)
      BY <3>1 DEF Close, TableInv, SeatInv, Serving, TypeOK
    <3> QED BY <2>3, <3>1 DEF Thread, Test, Enter, Read, Lock, Write, Unlock, Clear, mainVars
  <2>4. ASSUME NEW c \in Clients, Connect(c) \/ Send(c) \/ Leave(c) PROVE FALSE
    BY <2>4 DEF Connect, Send, Leave
  <2> QED BY <2>1, <2>2, <2>3, <2>4 DEF Next
<1> QED BY <1>1, TableAlways, PTL DEF Spec, ClosesItsOwn

-----------------------------------------------------------------------------
\* Only Lock, Write and Unlock touch the mutex or the broadcasts.
NoBroadcast == UNCHANGED <<mutex, iter, current, log, inbox>>
Elsewhere == Main \/ close_server \/ \E c \in Clients :
               Test(c) \/ Enter(c) \/ Read(c) \/ Close(c) \/ Clear(c)
                 \/ Connect(c) \/ Send(c) \/ Leave(c)

\* None of the other steps does.
LEMMA ElsewhereQuiet ==
  ASSUME TableInv, Elsewhere
  PROVE  NoBroadcast /\ \A c \in Clients : pc'[c] = "write" <=> pc[c] = "write"
<1>1. CASE Main
  <2>1. CASE Spawn
    <3>1. sock[fresh] \in Clients /\ pc[sock[fresh]] = "none"
      BY <2>1 DEF Spawn, TableInv, FreshInv
    <3> QED BY <3>1, <2>1 DEF Spawn, NoBroadcast, TableInv, TypeOK, shared, history
  <2> QED BY <1>1, <2>1 DEF Main, Loop, Accept, CheckEnd, Place, Cleanup, NoBroadcast, shared,
                          threadVars, history
<1>2. CASE close_server
  BY <1>2 DEF close_server, NoBroadcast, threadVars, history
<1>3. ASSUME NEW c \in Clients, Test(c) \/ Enter(c) \/ Read(c) \/ Close(c) \/ Clear(c)
      PROVE  NoBroadcast /\ \A d \in Clients : pc'[d] = "write" <=> pc[d] = "write"
  <2>1. \E p \in Serving \union {"clear", "done"} :
           pc[c] # "write" /\ p # "write" /\ pc' = [pc EXCEPT ![c] = p]
    BY <1>3 DEF Test, Enter, Read, Close, Clear, Serving
  <2>2. \A d \in Clients : pc'[d] = "write" <=> pc[d] = "write"
    BY <2>1 DEF TableInv, TypeOK
  <2> QED BY <1>3, <2>2 DEF Test, Enter, Read, Close, Clear, NoBroadcast, shared, history
<1>4. ASSUME NEW c \in Clients, Connect(c) \/ Send(c) \/ Leave(c)
      PROVE  NoBroadcast /\ \A d \in Clients : pc'[d] = "write" <=> pc[d] = "write"
  BY <1>4 DEF Connect, Send, Leave, NoBroadcast, shared, threadVars, history
<1> QED BY <1>1, <1>2, <1>3, <1>4 DEF Elsewhere

\* Initially nothing has been broadcast and nobody is connected.
LEMMA InitBroadcast == Init => MutexInv /\ LogInv /\ HeardInv
<1> SUFFICES ASSUME Init PROVE MutexInv /\ LogInv /\ HeardInv
  OBVIOUS
<1>1. MutexInv /\ LogInv
  BY DEF Init, MutexInv, LogInv
<1>2. \A c \in Clients : ~ Present(c)
  BY DEF Init, Present, Arriving, Serving
<1> QED BY <1>1, <1>2 DEF HeardInv

\* The mutex of write_to_clients is held by one thread at most.
LEMMA NextMutex == ASSUME TableInv, MutexInv, [Next]_vars PROVE MutexInv'
<1>1. CASE Elsewhere
  BY <1>1, ElsewhereQuiet DEF NoBroadcast, MutexInv, TableInv, TypeOK
<1>2. ASSUME NEW c \in Clients, Lock(c) PROVE MutexInv'
  BY <1>2 DEF Lock, MutexInv, TableInv, TypeOK
<1>3. ASSUME NEW c \in Clients, Write(c) PROVE MutexInv'
  BY <1>3 DEF Write, MutexInv, shared
<1>4. ASSUME NEW c \in Clients, Unlock(c) PROVE MutexInv'
  BY <1>4 DEF Unlock, MutexInv, TableInv, TypeOK
<1>5. CASE UNCHANGED vars
  BY <1>5 DEF MutexInv, vars, shared, threadVars
<1> QED BY <1>1, <1>2, <1>3, <1>4, <1>5 DEF Next, Thread, Elsewhere

\* A turn of the loop of write_to_clients: the client whose descriptor is in
\* the slot, if there is one, is sent the broadcast.
Sent(c, d) == /\ clients[iter[c]] # -1 /\ d = sock[clients[iter[c]]] /\ d \in Clients
              /\ inbox' = [inbox EXCEPT ![d] = Append(@, log)]

\* The thread holds the mutex, and what it sends is the last broadcast.
LEMMA WriteSends ==
  ASSUME TableInv, MutexInv, LogInv, NEW c \in Clients, Write(c)
  PROVE  /\ mutex = {c} /\ mutex' = {c} /\ iter[c] \in Slots
         /\ iter' = [iter EXCEPT ![c] = @ + 1]
         /\ \/ clients[iter[c]] = -1 /\ inbox' = inbox
            \/ \E d \in Clients : Sent(c, d)
<1>1. mutex = {c} /\ mutex' = {c} /\ current[c] = log
  BY DEF Write, MutexInv, LogInv, TableInv, TypeOK, shared
<1>2. iter[c] \in Slots
  BY ChatAssumption DEF Write, TableInv, TypeOK, Slots
<1>3. CASE clients[iter[c]] # -1
  <2>1. clients[iter[c]] \in Fds
    BY <1>2, <1>3 DEF TableInv, TypeOK
  <2>2. sock[clients[iter[c]]] \in Clients
    BY <1>3, <2>1 DEF Write, TableInv, TypeOK
  <2> QED BY <1>1, <1>2, <1>3, <2>2 DEF Write, Sent
<1> QED BY <1>1, <1>2, <1>3 DEF Write

\* Broadcasts are sent in the order they began.
LEMMA NextLog ==
  ASSUME TableInv, MutexInv, LogInv, [Next]_vars PROVE LogInv'
<1>1. CASE Elsewhere
  BY <1>1, ElsewhereQuiet DEF NoBroadcast, LogInv
<1>2. ASSUME NEW c \in Clients, Lock(c) PROVE LogInv'
  <2>1. log' = log + 1 /\ inbox' = inbox /\ mutex' = {c}
    BY <1>2 DEF Lock
  <2>2. current'[c] = log' /\ iter'[c] \in 0..MAX_CLIENTS
    BY <1>2, ChatAssumption DEF Lock, TableInv, TypeOK
  <2>3. \A d \in Clients : \A i \in DOMAIN inbox[d] : inbox[d][i] <= log + 1
    <3> SUFFICES ASSUME NEW d \in Clients, NEW i \in DOMAIN inbox[d] PROVE inbox[d][i] <= log + 1
      OBVIOUS
    <3>1. inbox[d] \in Seq(Nat) /\ inbox[d][i] \in Nat /\ log \in Nat
      BY DEF TableInv, TypeOK
    <3> QED BY <3>1 DEF LogInv
  <2> QED BY <2>1, <2>2, <2>3 DEF LogInv
<1>3. ASSUME NEW c \in Clients, Write(c) PROVE LogInv'
  <2>0. log' = log /\ current' = current
    BY <1>3 DEF Write
  <2>1. mutex = {c} /\ mutex' = {c} /\ iter'[c] \in 0..MAX_CLIENTS
    <3>1. /\ mutex = {c} /\ mutex' = {c} /\ iter[c] \in Slots
          /\ iter' = [iter EXCEPT ![c] = @ + 1]
      BY <1>3, WriteSends
    <3> QED BY <3>1, ChatAssumption DEF TableInv, TypeOK, Slots
  <2>2. ASSUME NEW d \in Clients, Sent(c, d) PROVE LogInv'
    <3> DEFINE s == inbox[d]
    <3>1. s \in Seq(Nat) /\ log \in Nat
      BY DEF TableInv, TypeOK
    <3>2. \A e \in Clients : e # d => inbox'[e] = inbox[e]
      BY <2>2 DEF Sent, TableInv, TypeOK
    <3>3. inbox'[d] = Append(s, log)
      BY <2>2 DEF Sent, TableInv, TypeOK
    <3>4. \A i \in DOMAIN s : s[i] <= log
      BY DEF LogInv
    <3>5. \A i, j \in DOMAIN s : i < j => s[i] <= s[j]
      BY DEF LogInv
    <3> HIDE DEF s
    <3>6. /\ \A i \in DOMAIN Append(s, log) : Append(s, log)[i] <= log
          /\ \A i, j \in DOMAIN Append(s, log) : i < j => Append(s, log)[i] <= Append(s, log)[j]
      BY <3>1, <3>4, <3>5
    <3> QED BY <2>0, <2>1, <3>2, <3>3, <3>6 DEF LogInv
  <2> QED BY <1>3, <2>0, <2>1, <2>2, WriteSends DEF LogInv
<1>4. ASSUME NEW c \in Clients, Unlock(c) PROVE LogInv'
  BY <1>4 DEF Unlock, LogInv, history
<1>5. CASE UNCHANGED vars
  BY <1>5 DEF LogInv, vars, shared, threadVars, history
<1> QED BY <1>1, <1>2, <1>3, <1>4, <1>5 DEF Next, Thread, Elsewhere

-----------------------------------------------------------------------------
\* Steps that no client is put in a slot by, and that broadcast nothing.
LEMMA HeardStays ==
  ASSUME HeardInv, UNCHANGED <<mutex, iter, slot, log, inbox, joined>>,
         \A c \in Clients : Present(c)' => Present(c)
  PROVE  HeardInv'
BY DEF HeardInv, Heard, Due

\* A client that is put in its slot waits for no earlier broadcast; other
\* steps add no client.
LEMMA ElsewhereHeard ==
  ASSUME TableInv, HeardInv, Elsewhere PROVE HeardInv'
<1>q. NoBroadcast
  BY ElsewhereQuiet
<1>1. CASE Place
  <2> DEFINE c == sock[fresh]
             i == Min(FreeSlot)
  <2>1. /\ c \in Clients /\ pc[c] = "none" /\ main # "spawn" /\ FreeSlot # {}
        /\ slot' = [slot EXCEPT ![c] = i] /\ joined' = [joined EXCEPT ![c] = log]
        /\ UNCHANGED <<pc, shut, fresh, sock>> /\ main' = "spawn"
    BY <1>1, RoomMeansFree DEF Place, TableInv, FreshInv, RoomInv
  <2> HIDE DEF i
  <2>2. joined'[c] = log /\ log' = log
    BY <2>1, <1>q DEF TableInv, TypeOK, NoBroadcast
  <2>3. \A d \in Clients : d # c => joined'[d] = joined[d] /\ slot'[d] = slot[d]
                                  /\ (Present(d)' => Present(d))
    BY <2>1 DEF TableInv, TypeOK, Present, Arriving
  <2>4. (joined'[c] + 1)..log' = {}
    BY <2>2 DEF TableInv, TypeOK
  <2> SUFFICES ASSUME NEW d \in Clients, Present(d)', NEW k \in (joined'[d] + 1)..log'
               PROVE  Heard(d, k)' \/ (k = log' /\ Due(d)')
    BY DEF HeardInv
  <2>5. d # c
    BY <2>4
  <2>6. Heard(d, k) \/ (k = log /\ Due(d))
    BY <2>5, <2>3, <2>2 DEF HeardInv
  <2> QED BY <2>6, <2>5, <2>3, <1>q DEF NoBroadcast, Heard, Due
<1>2. CASE Spawn
  <2>1. sock[fresh] \in Clients /\ pc' = [pc EXCEPT ![sock[fresh]] = "loop"]
        /\ main = "spawn" /\ main' = "loop" /\ shut' = shut
    BY <1>2 DEF Spawn, TableInv, FreshInv
  <2>2. \A c \in Clients : Present(c)' => Present(c)
    BY <2>1 DEF Present, Arriving, TableInv, TypeOK
  <2> QED BY <1>2, <2>2, <1>q, HeardStays DEF Spawn, NoBroadcast, history
<1>3. CASE Loop \/ Accept \/ CheckEnd \/ Cleanup \/ close_server
  <2>1. /\ UNCHANGED <<pc, slot, joined>> /\ shut \subseteq shut'
        /\ main' = "spawn" => main = "spawn" /\ UNCHANGED <<fresh, sock>>
    BY <1>3 DEF Loop, Accept, CheckEnd, Cleanup, close_server, threadVars, history
  <2>2. \A c \in Clients : Present(c)' => Present(c)
    BY <2>1 DEF Present, Arriving
  <2> QED BY <2>1, <2>2, <1>q, HeardStays DEF NoBroadcast
<1>4. ASSUME NEW c \in Clients,
             Test(c) \/ Enter(c) \/ Read(c) \/ Close(c) \/ Clear(c)
               \/ Connect(c) \/ Send(c) \/ Leave(c)
      PROVE  HeardInv'
  <2>1. UNCHANGED <<slot, joined, shut, main, fresh>>
    BY <1>4 DEF Test, Enter, Read, Close, Clear, Connect, Send, Leave, mainVars, threadVars,
                history
  <2>2. sock' = sock \/ \E f : sock' = [sock EXCEPT ![f] = None]
    BY <1>4 DEF Test, Enter, Read, Close, Clear, Connect, Send, Leave
  <2>3. \A d \in Clients : Arriving(d)' => Arriving(d)
    <3> SUFFICES ASSUME NEW d \in Clients, Arriving(d)' PROVE Arriving(d)
      OBVIOUS
    <3>1. main = "spawn" /\ fresh \in Fds /\ sock'[fresh] = d
      BY <2>1 DEF Arriving, TableInv, FreshInv
    <3>2. sock[fresh] = d
      BY <3>1, <2>2, ChatAssumption DEF TableInv, TypeOK
    <3> QED BY <3>1, <3>2 DEF Arriving
  <2>4. pc' = pc \/ \E p : pc' = [pc EXCEPT ![c] = p]
                         /\ (p \in Serving \ {"leave"} => pc[c] \in Serving \ {"leave"})
    BY <1>4 DEF Test, Enter, Read, Close, Clear, Connect, Send, Leave, Serving, threadVars
  <2>5. \A d \in Clients : pc'[d] \in Serving \ {"leave"} => pc[d] \in Serving \ {"leave"}
    BY <2>4 DEF TableInv, TypeOK
  <2>6. \A d \in Clients : Present(d)' => Present(d)
    BY <2>1, <2>3, <2>5 DEF Present
  <2> QED BY <2>1, <2>6, <1>q, HeardStays DEF NoBroadcast
<1> QED BY <1>1, <1>2, <1>3, <1>4 DEF Elsewhere, Main

\* A new broadcast is due to every client, and no other is: the mutex was free.
LEMMA LockHeard ==
  ASSUME TableInv, HeardInv, NEW c \in Clients, Lock(c) PROVE HeardInv'
<1>1. /\ pc[c] = "lock" /\ pc' = [pc EXCEPT ![c] = "write"] /\ mutex = {} /\ mutex' = {c}
      /\ log' = log + 1 /\ iter' = [iter EXCEPT ![c] = 0]
      /\ UNCHANGED <<main, fresh, sock, shut, slot, inbox, joined>>
  BY DEF Lock, mainVars
<1>2. \A d \in Clients : Present(d)' => Present(d)
  BY <1>1 DEF Present, Arriving, Serving, TableInv, TypeOK
<1> SUFFICES ASSUME NEW d \in Clients, Present(d)', NEW k \in (joined'[d] + 1)..log'
             PROVE  Heard(d, k)' \/ (k = log' /\ Due(d)')
  BY DEF HeardInv
<1>3. Present(d) /\ joined[d] \in Nat /\ log \in Nat /\ k \in (joined[d] + 1)..(log + 1)
  BY <1>1, <1>2 DEF TableInv, TypeOK
<1>4. CASE k \in (joined[d] + 1)..log
  BY <1>1, <1>3, <1>4 DEF HeardInv, Heard, Due
<1>5. CASE k = log + 1
  <2>1. slot[d] \in Nat
    <3>1. Seated(d)
      BY <1>3 DEF Present, Seated
    <3> QED BY <3>1, SlotsFinite DEF TableInv, SeatInv
  <2>2. iter'[c] = 0
    BY <1>1 DEF TableInv, TypeOK
  <2> QED BY <1>1, <1>5, <2>1, <2>2 DEF Due
<1> QED BY <1>3, <1>4, <1>5

\* The turn for a client's slot sends it the broadcast: its descriptor is
\* still its own.
LEMMA WriteHeard ==
  ASSUME TableInv, MutexInv, LogInv, HeardInv, NEW c \in Clients, Write(c)
  PROVE  HeardInv'
<1>1. UNCHANGED <<main, fresh, sock, shut, pc, slot, log, joined>>
  BY DEF Write, mainVars
<1>2. \A d \in Clients : Present(d)' => Present(d)
  BY <1>1 DEF Present, Arriving
<1>3. /\ mutex = {c} /\ mutex' = {c} /\ iter[c] \in Nat /\ iter'[c] = iter[c] + 1
  BY WriteSends DEF TableInv, TypeOK
<1> SUFFICES ASSUME NEW d \in Clients, Present(d), NEW k \in (joined[d] + 1)..log
             PROVE  Heard(d, k)' \/ (k = log /\ Due(d)')
  BY <1>1, <1>2 DEF HeardInv
<1>4. Heard(d, k) \/ (k = log /\ iter[c] <= slot[d])
  BY <1>3 DEF HeardInv, Due
<1>s. inbox[d] \in Seq(Nat) /\ log \in Nat
  BY DEF TableInv, TypeOK
<1>5. inbox'[d] = inbox[d] \/ inbox'[d] = Append(inbox[d], log)
  <2>1. ASSUME NEW e \in Clients, Sent(c, e)
        PROVE  inbox'[d] = inbox[d] \/ inbox'[d] = Append(inbox[d], log)
    <3>1. inbox' = [inbox EXCEPT ![e] = Append(inbox[e], log)] /\ inbox \in [Clients -> Seq(Nat)]
      BY <2>1 DEF Sent, TableInv, TypeOK
    <3>2. CASE d = e
      BY <3>1, <3>2
    <3> QED BY <3>1, <3>2
  <2> QED BY <2>1, WriteSends
<1>6. CASE Heard(d, k)
  <2>1. PICK i \in DOMAIN inbox[d] : inbox[d][i] = k
    BY <1>6 DEF Heard
  <2>2. i \in DOMAIN Append(inbox[d], log) /\ Append(inbox[d], log)[i] = k
    BY <2>1, <1>s
  <2>3. i \in DOMAIN inbox'[d] /\ inbox'[d][i] = k
    BY <2>1, <2>2, <1>5
  <2> QED BY <2>3 DEF Heard
<1>7. CASE k = log /\ iter[c] <= slot[d]
  <2>0. slot[d] \in Slots /\ slot[d] \in Nat /\ clients[slot[d]] # -1
    <3>1. Seated(d)
      BY DEF Present, Seated
    <3> QED BY <3>1, SlotsFinite DEF TableInv, SeatInv
  <2>1. CASE iter[c] = slot[d]
    <3>1. sock[clients[slot[d]]] = d
      BY DEF Present, Arriving, TableInv, SeatInv, FreshInv
    <3>2. Sent(c, d)
      BY <2>0, <2>1, <3>1, WriteSends DEF Sent
    <3>3. inbox'[d] = Append(inbox[d], log)
      BY <3>2 DEF Sent, TableInv, TypeOK
    <3>4. /\ Len(inbox[d]) + 1 \in DOMAIN Append(inbox[d], log)
          /\ Append(inbox[d], log)[Len(inbox[d]) + 1] = log
      BY <1>s
    <3>5. \E i \in DOMAIN inbox'[d] : inbox'[d][i] = k
      BY <1>7, <3>3, <3>4
    <3> QED BY <3>5 DEF Heard
  <2>2. CASE iter[c] # slot[d]
    BY <1>1, <1>3, <1>7, <2>0, <2>2 DEF Due
  <2> QED BY <2>1, <2>2
<1> QED BY <1>4, <1>6, <1>7

\* When the loop is over it has come to every slot.
LEMMA UnlockHeard ==
  ASSUME TableInv, MutexInv, HeardInv, NEW c \in Clients, Unlock(c)
  PROVE  HeardInv'
<1>1. /\ pc[c] = "write" /\ pc' = [pc EXCEPT ![c] = "loop"] /\ iter[c] = MAX_CLIENTS
      /\ UNCHANGED <<main, fresh, sock, shut, slot, log, inbox, joined>>
  BY DEF Unlock, mainVars, history
<1>2. \A d \in Clients : Present(d)' => Present(d)
  BY <1>1 DEF Present, Arriving, Serving, TableInv, TypeOK
<1>3. mutex = {c}
  BY <1>1 DEF MutexInv, TableInv, TypeOK
<1> SUFFICES ASSUME NEW d \in Clients, Present(d), NEW k \in (joined[d] + 1)..log
             PROVE  Heard(d, k)
  BY <1>1, <1>2 DEF HeardInv, Heard
<1>4. slot[d] \in Slots
  <2>1. Seated(d)
    BY DEF Present, Seated
  <2> QED BY <2>1 DEF TableInv, SeatInv
<1>5. ~ (MAX_CLIENTS <= slot[d])
  BY <1>4, ChatAssumption DEF Slots
<1> QED BY <1>1, <1>3, <1>5 DEF HeardInv, Due

\* Every step keeps what the clients have heard.
LEMMA NextHeard ==
  ASSUME TableInv, MutexInv, LogInv, HeardInv, [Next]_vars PROVE HeardInv'
<1>1. CASE Elsewhere
  BY <1>1, ElsewhereHeard
<1>2. ASSUME NEW c \in Clients, Lock(c) \/ Write(c) \/ Unlock(c) PROVE HeardInv'
  BY <1>2, LockHeard, WriteHeard, UnlockHeard
<1>3. CASE UNCHANGED vars
  <2>1. \A c \in Clients : Present(c)' => Present(c)
    BY <1>3 DEF vars, shared, mainVars, threadVars, history, Present, Arriving
  <2> QED BY <1>3, <2>1, HeardStays DEF vars, shared, threadVars, history
<1> QED BY <1>1, <1>2, <1>3 DEF Next, Thread, Elsewhere

\* The invariant always holds.
LEMMA ChatAlways == Spec => []ChatInv
<1>1. Init => ChatInv
  BY InitTable, InitBroadcast DEF ChatInv
<1>2. ChatInv /\ [Next]_vars => ChatInv'
  BY NextTable, NextMutex, NextLog, NextHeard DEF ChatInv
<1> QED BY <1>1, <1>2, PTL DEF Spec

(***************************************************************************)
(* write_to_clients: the broadcasts are sent in one order to all, and      *)
(* between broadcasts every client that is connected has been sent all of  *)
(* them since it was put in its slot, for every number of clients, of      *)
(* places and of messages, however clients come and leave meanwhile.       *)
(***************************************************************************)
THEOREM BroadcastsCorrect == Spec => []BroadcastsAgree
<1>1. ChatInv => BroadcastsAgree
  <2> SUFFICES ASSUME ChatInv PROVE BroadcastsAgree
    OBVIOUS
  <2>1. \A c \in Clients : \A i, j \in DOMAIN inbox[c] : i < j => inbox[c][i] <= inbox[c][j]
    BY DEF ChatInv, LogInv
  <2>2. ASSUME mutex = {}, NEW c \in Clients, Connected(c), NEW k \in (joined[c] + 1)..log
        PROVE  k \in ToSet(inbox[c])
    <3>1. Present(c)
      BY <2>2 DEF Connected, Present, Serving
    <3>2. Heard(c, k)
      BY <2>2, <3>1 DEF ChatInv, HeardInv, Due
    <3> QED BY <3>2 DEF Heard, ToSet
  <2> QED BY <2>1, <2>2 DEF BroadcastsAgree
<1> QED BY <1>1, ChatAlways, PTL
=============================================================================
