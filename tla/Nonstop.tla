------------------------------ MODULE Nonstop ------------------------------
(***************************************************************************)
(* nonstop_networking: server.c, a file server with one thread that serves *)
(* one connection after the other with blocking reads, and client.c, which *)
(* makes one request and reads the answer.                                 *)
(*                                                                         *)
(* A request is a sequence of fields: verb, name and, for PUT, the size    *)
(* and that many bytes.  A client may stop after any number of them, and   *)
(* what it has sent may contradict the size.  A field of which only a part *)
(* arrives reads like one that is missing, as read_all_from_socket returns *)
(* 0 for both.  A new connection is writable, so epoll_wait always returns *)
(* the one that was just accepted.                                         *)
(***************************************************************************)
EXTENDS Integers, Sequences, FiniteSets, SequencesExt

CONSTANTS Clients,
          Names,
          Requests,   \* [verb, name, size, data]
          Sessions,   \* which request each client makes, and whether SIGINT may come
          MaxStops,   \* bound on the clients that stop before their request is sent
          Absent      \* stands for "no such file"

Verbs == {"LIST", "GET", "DELETE", "PUT"}
Bytes == UNION {ToSet(r.data) : r \in Requests}

ASSUME NonstopAssumption ==
    /\ IsFiniteSet(Clients)
    /\ \A r \in Requests : /\ r.verb \in Verbs /\ r.name \in Names
                           /\ r.size \in Nat /\ r.data \in Seq(Bytes)
    /\ \A s \in Sessions : s.asks \in [Clients -> Requests] /\ s.sigint \in BOOLEAN
    /\ Absent \notin Seq(Bytes)

VARIABLES asks,       \* the request of each client
          phase,      \* of each client: "off", "pending", "waiting" or how it ended
          upto,       \* how many fields the client sends before it stops
          shutdown,   \* whether the client has closed its writing side
          answer,     \* what the server has written to each client
          accepted, closed,   \* the connections the server has accepted, and closed
          saved,      \* the local file of a client that did GET
          server,     \* where the server is
          cfd,        \* the client it serves
          nread,      \* how many fields of the request it has read
          info,       \* the file_size it was told
          files, disk,
          sigint,
          served      \* history: what the file held when GET opened it

clientVars == <<asks, phase, upto, shutdown, saved>>
vars == <<clientVars, answer, accepted, closed, server, cfd, nread, info, files, disk, sigint, served>>

Fields(r) == IF r.verb = "PUT" THEN <<r.verb, r.name, r.size>> \o r.data ELSE <<r.verb, r.name>>

Init == \E s \in Sessions :
          /\ asks = s.asks /\ sigint = s.sigint
          /\ phase = [c \in Clients |-> "off"]
          /\ upto = [c \in Clients |-> 0]
          /\ shutdown = {} /\ accepted = {} /\ closed = {}
          /\ answer = [c \in Clients |-> <<>>]
          /\ saved = [c \in Clients |-> Absent]
          /\ server = "accept" /\ cfd = CHOOSE c \in Clients : TRUE
          /\ nread = 0 /\ info = 0
          /\ files = <<>> /\ disk = [n \in Names |-> Absent]
          /\ served = [c \in Clients |-> <<>>]

-----------------------------------------------------------------------------
(***************************************************************************)
(* client.c                                                                *)
(***************************************************************************)
serverVars == <<accepted, server, cfd, nread, info, files, disk, sigint, served>>

Whole(c) == upto[c] = Len(Fields(asks[c]))
Stopped == {c \in Clients : phase[c] # "off" /\ ~Whole(c)}

\* connect_to_server, and the writes of delete, list, get or put, of which
\* only a part is made if the client is stopped.
Start(c) == /\ phase[c] = "off"
            /\ phase' = [phase EXCEPT ![c] = "pending"]
            /\ \E k \in 0..Len(Fields(asks[c])) :
                 /\ k = Len(Fields(asks[c])) \/ Cardinality(Stopped) < MaxStops
                 /\ upto' = [upto EXCEPT ![c] = k]
            /\ UNCHANGED <<asks, shutdown, saved, answer, closed, serverVars>>

\* shutdown(serverSocket, SHUT_WR), or the end of a client that was stopped.
Shut(c) == /\ phase[c] = "pending" /\ c \notin shutdown
           /\ shutdown' = shutdown \union {c}
           /\ phase' = [phase EXCEPT ![c] = IF Whole(c) THEN "waiting" ELSE "dead"]
           /\ UNCHANGED <<asks, upto, saved, answer, closed, serverVars>>

\* What delete, list, get, put and check_error make of the answer: they read
\* three bytes, and if these are not "OK" look for "ERROR".
Starts(a, word) == a # <<>> /\ Head(a) = word
Outcome(a) == CASE Starts(a, "OK") -> "success"
                [] Starts(a, "ERROR") -> "error"
                [] OTHER -> "invalid response"

\* The ends of delete, list and put.  They need not wait for the end of the
\* connection if the answer is "OK"; nothing depends on that.  A PUT that
\* succeeds gets no answer, so put reports an invalid response.
Report(c, verb) == /\ phase[c] = "waiting" /\ asks[c].verb = verb
                   /\ c \in closed
                   /\ phase' = [phase EXCEPT ![c] = Outcome(answer[c])]
                   /\ UNCHANGED <<asks, upto, shutdown, saved, answer, closed, serverVars>>
DeleteEnds(c) == Report(c, "DELETE")
ListEnds(c) == Report(c, "LIST")
PutEnds(c) == Report(c, "PUT")

\* get: the size, then that many bytes; if the connection ends early it says
\* so and saves what it has all the same.
GetEnds(c) == /\ phase[c] = "waiting" /\ asks[c].verb = "GET"
           /\ c \in closed
           /\ LET a == answer[c]
              IN /\ saved' = [saved EXCEPT ![c] = IF Starts(a, "OK") THEN SubSeq(a, 3, Len(a)) ELSE @]
                 /\ phase' = [phase EXCEPT ![c] = Outcome(a)]
           /\ UNCHANGED <<asks, upto, shutdown, answer, closed, serverVars>>

-----------------------------------------------------------------------------
(***************************************************************************)
(* server.c                                                                *)
(***************************************************************************)
Name == asks[cfd].name
Reply(s) == answer' = [answer EXCEPT ![cfd] = @ \o s]

\* read_all_from_socket: the next field is there, or never will be.
Available == nread < upto[cfd]
Eof == nread = upto[cfd] /\ cfd \in shutdown
Field == Fields(asks[cfd])[nread + 1]

Accept == /\ server = "accept"
          /\ \E c \in Clients \ accepted : /\ phase[c] # "off"
                                           /\ cfd' = c
                                           /\ accepted' = accepted \union {c}
          /\ server' = "cmd" /\ nread' = 0 /\ info' = 0
          /\ UNCHANGED <<clientVars, answer, closed, files, disk, sigint, served>>

\* get_cmd and get_file_name
ReadField(from, to) == /\ server = from
                       /\ Available
                       /\ server' = to /\ nread' = nread + 1
                       /\ UNCHANGED <<clientVars, answer, accepted, closed, cfd, info, files, disk, sigint,
                                      served>>
get_cmd == ReadField("cmd", "name")
get_file_name == ReadField("name", IF asks[cfd].verb = "PUT" THEN "size" ELSE asks[cfd].verb)

\* process_header returns 0: the answer is an error text without "ERROR",
\* and the connection is not closed.
BadRequest == /\ server \in {"cmd", "name"} /\ Eof
              /\ Reply(<<"bad request">>)
              /\ server' = "accept"
              /\ UNCHANGED <<clientVars, accepted, closed, cfd, nread, info, files, disk, sigint, served>>

\* get_message_size: 0 if the size does not arrive.
get_message_size == /\ server = "size"
                    /\ \/ Available /\ info' = Field /\ nread' = nread + 1
                       \/ Eof /\ info' = 0 /\ UNCHANGED nread
                    /\ server' = "open"
                    /\ UNCHANGED <<clientVars, answer, accepted, closed, cfd, files, disk, sigint, served>>

Listed(n) == \E i \in DOMAIN files : files[i] = n

list == /\ server = "LIST"
        /\ Reply(<<"OK", Len(files)>> \o files)
        /\ server' = "close"
        /\ UNCHANGED <<clientVars, accepted, closed, cfd, nread, info, files, disk, sigint, served>>

\* Mutant: i is not counted up, so the first entry goes, whatever its name.
DeleteFirst == /\ server = "DELETE"
               /\ IF Listed(Name)
                  THEN /\ Reply(<<"OK">>)
                       /\ disk' = [disk EXCEPT ![Name] = Absent]
                       /\ files' = Tail(files)
                  ELSE /\ Reply(<<"ERROR", "no such file">>)
                       /\ UNCHANGED <<disk, files>>
               /\ server' = "close"
               /\ UNCHANGED <<clientVars, accepted, closed, cfd, nread, info, sigint, served>>

\* delete: the first entry with the name, and the file.
delete == /\ server = "DELETE"
          /\ IF Listed(Name)
             THEN /\ Reply(<<"OK">>)
                  /\ disk' = [disk EXCEPT ![Name] = Absent]
                  /\ files' = RemoveAt(files, SelectInSeq(files, LAMBDA n : n = Name))
             ELSE /\ Reply(<<"ERROR", "no such file">>)
                  /\ UNCHANGED <<disk, files>>
          /\ server' = "close"
          /\ UNCHANGED <<clientVars, accepted, closed, cfd, nread, info, sigint, served>>

\* get: nothing is written if the name is not listed.
GetOpen == /\ server = "GET"
           /\ \/ /\ ~Listed(Name)
                 /\ server' = "close"
                 /\ UNCHANGED <<answer, info, served>>
              \/ /\ Listed(Name) /\ disk[Name] # Absent
                 /\ Reply(<<"OK", Len(disk[Name])>>)
                 /\ served' = [served EXCEPT ![cfd] = disk[Name]]
                 /\ server' = "send" /\ info' = 0
           /\ UNCHANGED <<clientVars, accepted, closed, cfd, nread, files, disk, sigint>>

\* The name is listed but the file is gone: stats is uninitialised, so the
\* size is anything; unless it is 0, read_from_file retries for ever.
GetGone == /\ server = "GET" /\ Listed(Name) /\ disk[Name] = Absent
           /\ \/ server' = "spinning" /\ Reply(<<"OK", 1>>)
              \/ server' = "close" /\ Reply(<<"OK", 0>>)
           /\ UNCHANGED <<clientVars, accepted, closed, cfd, nread, info, files, disk, sigint, served>>

\* Mutant: the loop ends one byte early.
GetChunkShort == /\ server = "send"
                 /\ IF info + 1 < Len(served[cfd])
                    THEN /\ Reply(<<served[cfd][info + 1]>>)
                         /\ info' = info + 1 /\ UNCHANGED server
                    ELSE server' = "close" /\ UNCHANGED <<answer, info>>
                 /\ UNCHANGED <<clientVars, accepted, closed, cfd, nread, files, disk, sigint,
                                served>>

\* A turn of the loop of get sends one more byte, info counts them.
GetChunk == /\ server = "send"
            /\ IF info < Len(served[cfd])
               THEN /\ Reply(<<served[cfd][info + 1]>>)
                    /\ info' = info + 1 /\ UNCHANGED server
               ELSE server' = "close" /\ UNCHANGED <<answer, info>>
            /\ UNCHANGED <<clientVars, accepted, closed, cfd, nread, files, disk, sigint, served>>

\* put: the file is created, or truncated, before anything is read ...
PutOpen == /\ server = "open"
           /\ disk' = [disk EXCEPT ![Name] = <<>>]
           /\ server' = "put"
           /\ UNCHANGED <<clientVars, answer, accepted, closed, cfd, nread, info, files, sigint, served>>

PutError == /\ Reply(<<"ERROR", "bad file size">>)
            /\ disk' = [disk EXCEPT ![Name] = Absent]
            /\ server' = "close"

\* Mutant: a PUT that is cut short keeps what it got.
PutChunkKeeps == /\ server = "put" /\ Len(disk[Name]) < info
                 /\ \/ /\ Available
                       /\ disk' = [disk EXCEPT ![Name] = Append(@, Field)]
                       /\ nread' = nread + 1
                       /\ UNCHANGED <<answer, server>>
                    \/ /\ Eof
                       /\ Reply(<<"ERROR", "bad file size">>) /\ server' = "close"
                       /\ UNCHANGED <<nread, disk>>
                 /\ UNCHANGED <<clientVars, accepted, closed, cfd, info, files, sigint, served>>

\* ... then info bytes are read and written, ...
PutChunk == /\ server = "put" /\ Len(disk[Name]) < info
            /\ \/ /\ Available
                  /\ disk' = [disk EXCEPT ![Name] = Append(@, Field)]
                  /\ nread' = nread + 1
                  /\ UNCHANGED <<answer, server>>
               \/ Eof /\ PutError /\ UNCHANGED nread
            /\ UNCHANGED <<clientVars, accepted, closed, cfd, info, files, sigint, served>>

\* ... and the client must have stopped there.
PutEnd == /\ server = "put" /\ Len(disk[Name]) = info
          /\ \/ Available /\ PutError /\ UNCHANGED files
             \/ /\ Eof
                /\ files' = Append(files, Name)
                /\ server' = "close"
                /\ UNCHANGED <<answer, disk>>
          /\ UNCHANGED <<clientVars, accepted, closed, cfd, nread, info, sigint, served>>

\* Mutant: the connection stays open, as after a bad request.
CloseNothing == /\ server = "close"
                /\ server' = "accept"
                /\ UNCHANGED <<clientVars, answer, accepted, closed, cfd, nread, info, files, disk,
                               sigint, served>>

\* run_server closes the connection after the four requests.
Close == /\ server = "close"
         /\ closed' = closed \union {cfd}
         /\ server' = "accept"
         /\ UNCHANGED <<clientVars, answer, accepted, cfd, nread, info, files, disk, sigint, served>>

\* close_server, the handler of SIGINT, removes the listed files and frees
\* the list.  It ends the wait for a connection; a request that is being
\* served would go on with the freed list, which ends the server.
close_server == /\ sigint /\ server # "ended"
                /\ sigint' = FALSE
                /\ disk' = [n \in Names |-> IF Listed(n) THEN Absent ELSE disk[n]]
                /\ files' = <<>>
                /\ server' = "ended"
                /\ closed' = Clients
                /\ UNCHANGED <<clientVars, answer, accepted, cfd, nread, info, served>>

Server == \/ Accept \/ get_cmd \/ get_file_name \/ BadRequest \/ get_message_size
          \/ list \/ delete \/ GetOpen \/ GetGone \/ GetChunk
          \/ PutOpen \/ PutChunk \/ PutEnd \/ Close

End(c) == DeleteEnds(c) \/ ListEnds(c) \/ PutEnds(c) \/ GetEnds(c)
Client(c) == Start(c) \/ Shut(c) \/ End(c)

Next == \/ Server \/ close_server
        \/ \E c \in Clients : Client(c)

Spec == Init /\ [][Next]_vars

\* The server runs, and a client that has connected goes on or dies: without
\* that, one silent client blocks the only thread.
FairSpec == /\ Spec
            /\ WF_vars(Server)
            /\ \A c \in Clients : WF_vars(Shut(c)) /\ WF_vars(End(c))

-----------------------------------------------------------------------------
Stored == {n \in Names : disk[n] # Absent}
Puts(n) == {c \in Clients : asks[c].verb = "PUT" /\ asks[c].name = n}

(***************************************************************************)
(* Between requests every file of the directory is in files, so LIST shows *)
(* it and close_server removes it; and unless a name is PUT twice files    *)
(* holds exactly the stored names, each once, whatever PUTs failed and     *)
(* whatever was deleted.                                                   *)
(***************************************************************************)
ListingAgrees ==
    server = "accept" =>
        /\ Stored \subseteq ToSet(files)
        /\ (\A n \in Names : Cardinality(Puts(n)) <= 1)
               => ToSet(files) = Stored /\ Len(files) = Cardinality(Stored)

(***************************************************************************)
(* put leaves no partial file: between requests a file holds all the bytes *)
(* that a PUT said it would send, or nothing (put takes a client that      *)
(* stops before the size for one that sends an empty file).                *)
(***************************************************************************)
Promised(c) == SubSeq(asks[c].data, 1, asks[c].size)
NoPartialFile ==
    server = "accept" =>
        \A n \in Stored : \/ disk[n] = <<>>
                          \/ \E c \in Puts(n) : /\ asks[c].size <= Len(asks[c].data)
                                                /\ disk[n] = Promised(c)

(***************************************************************************)
(* What a client saves is what the file held when the server opened it,    *)
(* and a prefix of that if the server was ended meanwhile, whoever         *)
(* replaced or deleted the file before the client read its answer.         *)
(***************************************************************************)
SavesWhatWasServed ==
    \A c \in Clients : saved[c] # Absent =>
        \/ saved[c] = served[c]
        \/ server = "ended" /\ IsPrefix(saved[c], served[c])

(***************************************************************************)
(* Every client of client.c that sends its request gets to its end, unless *)
(* the server is interrupted or a listed file is gone.                     *)
(***************************************************************************)
NothingGone == ToSet(files) \subseteq Stored \/ server \notin {"accept", "GET"}
Answered ==
    [](NothingGone /\ server # "ended") =>
        \A c \in Clients : phase[c] = "waiting" ~> phase[c] # "waiting"
=============================================================================
