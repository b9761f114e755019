----------------------------- MODULE ChatServer -----------------------------
(***************************************************************************)
(* charming_chatroom/server.c: the main thread accepts connections and     *)
(* starts a thread per client, which broadcasts every message it reads to  *)
(* all clients.  The table of clients is under a mutex, except that main   *)
(* reads clientsCount, and a client thread closes its own descriptor,      *)
(* outside of it.  Descriptors are small integers and accept reuses the    *)
(* lowest free one.  A client is a remote user; it connects once, sends    *)
(* messages and may leave at any time.                                     *)
(***************************************************************************)
EXTENDS Integers, Sequences, FiniteSets, FiniteSetsExt, SequencesExt

CONSTANTS Clients,       \* the remote users
          MAX_CLIENTS,
          Scenarios,     \* who comes, a bound on their messages, whether SIGINT may arrive
          None

\* What the theorems assume of the constants.
ASSUME ChatAssumption ==
    /\ IsFiniteSet(Clients) /\ None \notin Clients
    /\ MAX_CLIENTS \in Nat

Slots == 0..MAX_CLIENTS - 1
Fds == 1..Cardinality(Clients)

VARIABLES endSession, clientsCount, clients,
          mutex,      \* the client thread that holds the mutex, as a set
          main,       \* where the main thread is
          fresh,      \* the descriptor main has accepted, 0 for none
          swept,      \* how many slots cleanup has closed
          sock,       \* the connection behind each open descriptor, or None
          peer,       \* the remote side: "off", "pending", "on", "left" (or "absent")
          shut,       \* the connections shut down by cleanup
          unread,     \* messages a client sent that were not read yet
          budget,     \* how many more messages will be sent, and whether SIGINT may come
          pc, slot, iter,   \* each client thread: where it is, clientId and i
          log,        \* history: the number of broadcasts begun
          current,    \* the broadcast each thread is making
          inbox,      \* the broadcasts each client has been sent
          joined      \* history: log when the client was put in its slot

shared == <<endSession, clientsCount, clients, mutex>>
mainVars == <<main, fresh, swept>>
remote == <<peer, unread, budget>>
threadVars == <<pc, slot, iter, current>>
history == <<log, inbox, joined>>
vars == <<shared, mainVars, sock, shut, remote, threadVars, history>>

Occupied == {i \in Slots : clients[i] # -1}

-----------------------------------------------------------------------------
Init == /\ endSession = 0 /\ clientsCount = 0
        /\ clients = [i \in Slots |-> -1]
        /\ mutex = {}
        /\ main = "loop" /\ fresh = 0 /\ swept = 0
        /\ sock = [f \in Fds |-> None]
        /\ shut = {}
        /\ unread = [c \in Clients |-> 0] 
        /\ \E s \in Scenarios :
             /\ peer = [c \in Clients |-> IF c \in s.users THEN "off" ELSE "absent"]
             /\ budget = [sends |-> s.sends, sigint |-> s.sigint]
        /\ pc = [c \in Clients |-> "none"]
        /\ slot = [c \in Clients |-> -1] /\ iter = [c \in Clients |-> 0]
        /\ log = 0 /\ current = [c \in Clients |-> 0]
        /\ inbox = [c \in Clients |-> <<>>] /\ joined = [c \in Clients |-> 0]

\* The remote users.
Connect(c) == /\ peer[c] = "off"
              /\ peer' = [peer EXCEPT ![c] = "pending"]
              /\ UNCHANGED <<shared, mainVars, sock, shut, unread, budget, threadVars, history>>

Send(c) == /\ peer[c] = "on" /\ budget.sends > 0
           /\ budget' = [budget EXCEPT !.sends = @ - 1]
           /\ unread' = [unread EXCEPT ![c] = @ + 1]
           /\ UNCHANGED <<shared, mainVars, sock, shut, peer, threadVars, history>>

Leave(c) == /\ peer[c] = "on"
            /\ peer' = [peer EXCEPT ![c] = "left"]
            /\ UNCHANGED <<shared, mainVars, sock, shut, unread, budget, threadVars, history>>

\* close_server, the handler of SIGINT.  If main runs it while it is blocked
\* in accept, accept returns -1; if another thread does, accept goes on.
close_server == /\ budget.sigint
                /\ budget' = [budget EXCEPT !.sigint = FALSE]
                /\ endSession' = 1
                /\ \/ main = "accept" /\ main' = "check" /\ fresh' = 0
                   \/ UNCHANGED <<main, fresh>>
                /\ UNCHANGED <<clientsCount, clients, mutex, swept, sock, shut, peer,
                               unread, threadVars, history>>

-----------------------------------------------------------------------------
\* run_server: main spins while the server is full.
Loop == /\ main = "loop"
        /\ \/ endSession = 1 /\ main' = "cleanup"
           \/ endSession = 0 /\ clientsCount < MAX_CLIENTS /\ main' = "accept"
        /\ UNCHANGED <<shared, fresh, swept, sock, shut, remote, threadVars, history>>

\* accept returns a connection, under the lowest free descriptor.
Accept == /\ main = "accept"
          /\ main' = "check"
          /\ \E c \in Clients :
               LET fd == Min({f \in Fds : sock[f] = None})
               IN /\ peer[c] = "pending"
                  /\ peer' = [peer EXCEPT ![c] = "on"]
                  /\ sock' = [sock EXCEPT ![fd] = c]
                  /\ fresh' = fd
          /\ UNCHANGED <<shared, swept, shut, unread, budget, threadVars, history>>

CheckEnd == /\ main = "check"
            /\ main' = IF endSession # 0 THEN "cleanup" ELSE "place"
            /\ UNCHANGED <<shared, fresh, swept, sock, shut, remote, threadVars, history>>

FreeSlot == Slots \ Occupied

\* Lines 150-164: under the mutex, into the first free slot.
Place == /\ main = "place" /\ mutex = {}
         /\ IF FreeSlot = {}
            THEN UNCHANGED <<clients, slot>>
            ELSE /\ clients' = [clients EXCEPT ![Min(FreeSlot)] = fresh]
                 /\ slot' = [slot EXCEPT ![sock[fresh]] = Min(FreeSlot)]
         /\ clientsCount' = clientsCount + 1
         /\ joined' = [joined EXCEPT ![sock[fresh]] = log]
         /\ main' = "spawn"
         /\ UNCHANGED <<endSession, mutex, fresh, swept, sock, shut, remote, pc, iter,
                        current, log, inbox>>

Spawn == /\ main = "spawn"
         /\ pc' = [pc EXCEPT ![sock[fresh]] = "loop"]
         /\ main' = "loop"
         /\ UNCHANGED <<shared, fresh, swept, sock, shut, remote, slot, iter, current, history>>

\* One turn of the loop of cleanup, which does not take the mutex.
Cleanup == /\ main = "cleanup" /\ swept < MAX_CLIENTS
           /\ LET fd == clients[swept]
              IN IF fd # -1 /\ sock[fd] # None
                 THEN /\ shut' = shut \union {sock[fd]}
                      /\ sock' = [sock EXCEPT ![fd] = None]
                 ELSE UNCHANGED <<shut, sock>>
           /\ swept' = swept + 1
           /\ UNCHANGED <<shared, main, fresh, remote, threadVars, history>>

-----------------------------------------------------------------------------
\* process_client: the test of its loop.
Test(c) == /\ pc[c] = "loop"
           /\ pc' = [pc EXCEPT ![c] = IF endSession = 0 THEN "enter" ELSE "leave"]
           /\ UNCHANGED <<shared, mainVars, sock, shut, remote, slot, iter, current, history>>

\* read_all_from_socket: on a closed descriptor it spins for ever.
Enter(c) == /\ pc[c] = "enter"
            /\ sock[clients[slot[c]]] = c
            /\ pc' = [pc EXCEPT ![c] = "read"]
            /\ UNCHANGED <<shared, mainVars, sock, shut, remote, slot, iter, current, history>>

\* It returns a message, or 0 when the connection has ended.
Read(c) == /\ pc[c] = "read"
           /\ \/ /\ unread[c] > 0
                 /\ unread' = [unread EXCEPT ![c] = @ - 1]
                 /\ pc' = [pc EXCEPT ![c] = "lock"]
              \/ /\ unread[c] = 0
                 /\ peer[c] = "left" \/ c \in shut
                 /\ pc' = [pc EXCEPT ![c] = "leave"]
                 /\ UNCHANGED unread
           /\ UNCHANGED <<shared, mainVars, sock, shut, peer, budget, slot, iter, current, history>>

\* Mutant: the broadcast does not take the mutex.
LockNothing(c) == /\ pc[c] = "lock"
                  /\ log' = log + 1
                  /\ current' = [current EXCEPT ![c] = log + 1]
                  /\ iter' = [iter EXCEPT ![c] = 0]
                  /\ pc' = [pc EXCEPT ![c] = "write"]
                  /\ UNCHANGED <<endSession, clientsCount, clients, mutex, mainVars, sock, shut,
                                 remote, slot, inbox, joined>>

\* write_to_clients
Lock(c) == /\ pc[c] = "lock" /\ mutex = {}
           /\ mutex' = {c}
           /\ log' = log + 1
           /\ current' = [current EXCEPT ![c] = log + 1]
           /\ iter' = [iter EXCEPT ![c] = 0]
           /\ pc' = [pc EXCEPT ![c] = "write"]
           /\ UNCHANGED <<endSession, clientsCount, clients, mainVars, sock, shut, remote, slot,
                          inbox, joined>>

\* One turn of its loop.  write_all_to_socket spins on a closed descriptor
\* (and goes on if the descriptor is opened again meanwhile).
Write(c) == /\ pc[c] = "write" /\ iter[c] < MAX_CLIENTS
            /\ LET fd == clients[iter[c]]
               IN IF fd = -1
                  THEN UNCHANGED inbox
                  ELSE /\ sock[fd] # None
                       /\ inbox' = [inbox EXCEPT ![sock[fd]] = Append(@, current[c])]
            /\ iter' = [iter EXCEPT ![c] = @ + 1]
            /\ UNCHANGED <<shared, mainVars, sock, shut, remote, pc, slot, current, log, joined>>

\* Mutant: the mutex is not released.
UnlockNothing(c) == /\ pc[c] = "write" /\ iter[c] = MAX_CLIENTS
                    /\ pc' = [pc EXCEPT ![c] = "loop"]
                    /\ UNCHANGED <<shared, mainVars, sock, shut, remote, slot, iter, current,
                                   history>>

Unlock(c) == /\ pc[c] = "write" /\ iter[c] = MAX_CLIENTS
             /\ mutex' = {}
             /\ pc' = [pc EXCEPT ![c] = "loop"]
             /\ UNCHANGED <<endSession, clientsCount, clients, mainVars, sock, shut, remote, slot,
                            iter, current, history>>

\* Line 231 of process_client closes whatever its descriptor is now, without
\* the mutex ...
Close(c) == /\ pc[c] = "leave"
            /\ sock' = [sock EXCEPT ![clients[slot[c]]] = None]
            /\ pc' = [pc EXCEPT ![c] = "clear"]
            /\ UNCHANGED <<shared, mainVars, shut, remote, slot, iter, current, history>>

\* Mutant: the descriptor is closed once more when the slot is emptied.
ClearClosesAgain(c) == /\ pc[c] = "clear" /\ mutex = {}
                       /\ sock' = [sock EXCEPT ![clients[slot[c]]] = None]
                       /\ clients' = [clients EXCEPT ![slot[c]] = -1]
                       /\ clientsCount' = clientsCount - 1
                       /\ pc' = [pc EXCEPT ![c] = "done"]
                       /\ UNCHANGED <<endSession, mutex, mainVars, shut, remote, slot, iter,
                                      current, history>>

\* Mutant: the slot is emptied but the client is still counted.
ClearNoCount(c) == /\ pc[c] = "clear" /\ mutex = {}
                   /\ clients' = [clients EXCEPT ![slot[c]] = -1]
                   /\ pc' = [pc EXCEPT ![c] = "done"]
                   /\ UNCHANGED <<endSession, clientsCount, mutex, mainVars, sock, shut, remote,
                                  slot, iter, current, history>>

\* ... and lines 233-236 empty its slot under it.
Clear(c) == /\ pc[c] = "clear" /\ mutex = {}
            /\ clients' = [clients EXCEPT ![slot[c]] = -1]
            /\ clientsCount' = clientsCount - 1
            /\ pc' = [pc EXCEPT ![c] = "done"]
            /\ UNCHANGED <<endSession, mutex, mainVars, sock, shut, remote, slot, iter, current,
                           history>>

Main == Loop \/ Accept \/ CheckEnd \/ Place \/ Spawn \/ Cleanup
Thread(c) == \/ Test(c) \/ Enter(c) \/ Read(c) \/ Lock(c) \/ Write(c) \/ Unlock(c)
             \/ Close(c) \/ Clear(c)

Next == \/ Main
        \/ close_server
        \/ \E c \in Clients : Thread(c) \/ Connect(c) \/ Send(c) \/ Leave(c)

Spec == Init /\ [][Next]_vars

\* The server's threads keep running; nothing is assumed of the users.
FairSpec == /\ Spec
            /\ WF_vars(Main)
            /\ \A c \in Clients : SF_vars(Thread(c))

-----------------------------------------------------------------------------
(***************************************************************************)
(* The table stays sound: clientsCount, which main reads without the       *)
(* mutex, counts the occupied slots, and a client that main has accepted   *)
(* always finds a free slot, however many leave meanwhile.                 *)
(***************************************************************************)
SlotsConsistent == /\ clientsCount = Cardinality(Occupied)
                   /\ main = "place" => FreeSlot # {}

(***************************************************************************)
(* write_to_clients serialises broadcasts: no client is sent an older one  *)
(* after a newer one, and when none is under way every client that is in   *)
(* its slot has been sent all of them since it was put there.              *)
(***************************************************************************)
Connected(c) == pc[c] \in {"loop", "enter", "read", "lock"} /\ c \notin shut
BroadcastsAgree ==
    /\ \A c \in Clients : \A i, j \in DOMAIN inbox[c] : i < j => inbox[c][i] <= inbox[c][j]
    /\ mutex = {} => \A c \in Clients : Connected(c) =>
                       (joined[c] + 1)..log \subseteq ToSet(inbox[c])

(***************************************************************************)
(* A descriptor is closed by the thread that serves its client, or by      *)
(* cleanup: never by a late close of a number accept has given out again.  *)
(***************************************************************************)
ClosesItsOwn ==
    [][\A f \in Fds : sock[f] # None /\ sock'[f] = None
                       => main = "cleanup" \/ pc[sock[f]] = "leave"]_vars

(***************************************************************************)
(* "Broadcasts the message to all connected clients" (comment on           *)
(* write_to_clients): a broadcast that has been begun comes to its end     *)
(* while the server is running.                                            *)
(***************************************************************************)
BroadcastsEnd == \A c \in Clients : pc[c] = "write" ~> pc[c] # "write" \/ endSession = 1

(***************************************************************************)
(* While the server is not interrupted and nobody leaves, process_client   *)
(* broadcasts every message it is sent; and as long as nobody leaves or    *)
(* nothing is broadcast, a user who waits is accepted, also one who came   *)
(* when all places were taken and main was not accepting, unless as many   *)
(* users as there are places are on.                                       *)
(***************************************************************************)
NobodyLeaves == \A c \in Clients : peer[c] # "left"
Crowded == Cardinality({c \in Clients : peer[c] = "on"}) = MAX_CLIENTS
ServesClients ==
    /\ [](endSession = 0 /\ NobodyLeaves) =>
         \A c \in Clients : unread[c] > 0 ~> unread[c] = 0 /\ pc[c] = "read"
    /\ [](endSession = 0 /\ (NobodyLeaves \/ log = 0)) =>
         \A c \in Clients : peer[c] = "pending" ~> peer[c] = "on" \/ Crowded
=============================================================================
