----------------------------- MODULE ChatClient -----------------------------
(***************************************************************************)
(* charming_chatroom/client.c: one thread sends what the user types, one   *)
(* shows what the server sends, main waits for both.  SIGINT cancels both  *)
(* threads and closes the socket; its handler runs in main or in either    *)
(* thread.  Cancellation is deferred: it strikes in the calls that wait,   *)
(* one for every label of a thread, and then the cleanup handler frees the *)
(* thread's buffers.  The window, the socket and the server are external.  *)
(*                                                                         *)
(* pthread_cancel of a thread that is not there yet, or has been joined,   *)
(* is undefined: the program is then followed no further ("crashed").      *)
(***************************************************************************)
EXTENDS Integers, Sequences, SequencesExt

CONSTANT MaxMessages    \* typed, and sent by the server

Workers == {"writer", "reader"}

VARIABLES main,      \* what main does next, or how the program ended
          line,      \* what each thread does next
          buffer, msg, \* pointers of each thread: null, held or dangling
          cancelled, \* threads with a cancellation pending
          handler,   \* who runs the signal handler, and its next step
          interrupted, \* SIGINT has come
          sock,      \* none, open or closed
          server,    \* up or down
          inbox,     \* messages on the way: whole, or cut short by a server
                     \* that went down
          typed, shown,
          doubleFree \* history: something has been freed twice

clientVars == <<main, line, buffer, msg, cancelled, handler, interrupted, sock, server,
                inbox, typed, shown, doubleFree>>

Idle == [who |-> "nobody", step |-> "none"]
Ended == {"done", "crashed", "killed"}

ClientInit == /\ main = "connect" /\ line = [t \in Workers |-> "none"]
              /\ buffer = [t \in Workers |-> "null"] /\ msg = [t \in Workers |-> "null"]
              /\ cancelled = {} /\ handler = Idle /\ interrupted = FALSE
              /\ sock = "none" /\ server = "up" /\ inbox = <<>> /\ typed = 0 /\ shown = 0
              /\ doubleFree = FALSE

\* The threads that run: not those that run the handler.
Alive == main \notin Ended
Runs(t) == Alive /\ line[t] \notin {"none", "ended"} /\ handler.who # t
GoOn(t, label) == line' = [line EXCEPT ![t] = label]
Broken == sock = "closed" \/ server = "down"

-----------------------------------------------------------------------------
\* main: connect_to_server exits on failure.
Connect == /\ main = "connect" /\ handler.who # "main"
           /\ \/ main' = "create writer" /\ sock' = "open"
              \/ main' = "done" /\ UNCHANGED sock
           /\ UNCHANGED <<line, buffer, msg, cancelled, handler, interrupted, server, inbox, typed,
                          shown, doubleFree>>

Create == /\ handler.who # "main"
          /\ \/ /\ main = "create writer" /\ main' = "create reader" /\ GoOn("writer", "screen")
             \/ /\ main = "create reader" /\ main' = "join writer" /\ GoOn("reader", "size")
          /\ UNCHANGED <<buffer, msg, cancelled, handler, interrupted, sock, server, inbox, typed,
                         shown, doubleFree>>

Join == /\ handler.who # "main"
        /\ \/ main = "join writer" /\ line["writer"] = "ended" /\ main' = "join reader"
           \/ main = "join reader" /\ line["reader"] = "ended" /\ main' = "done"
        /\ UNCHANGED <<line, buffer, msg, cancelled, handler, interrupted, sock, server, inbox, typed,
                       shown, doubleFree>>

-----------------------------------------------------------------------------
\* close_program starts in some thread.
Interrupt == /\ Alive /\ ~interrupted
             /\ \E who \in {"main"} \union {t \in Workers : Runs(t)} :
                  handler' = [who |-> who, step |-> "cancel"]
             /\ interrupted' = TRUE
             /\ UNCHANGED <<main, line, buffer, msg, cancelled, sock, server, inbox, typed, shown,
                            doubleFree>>

Cancel == /\ Alive /\ handler.step = "cancel"
          /\ IF main \in {"join writer"}
             THEN /\ cancelled' = Workers
                  /\ handler' = [handler EXCEPT !.step = "close"]
                  /\ UNCHANGED main
             ELSE main' = "crashed" /\ UNCHANGED <<cancelled, handler>>
          /\ UNCHANGED <<line, buffer, msg, interrupted, sock, server, inbox, typed, shown, doubleFree>>

\* close_chat and close_server_connection; a thread that has cancelled itself
\* ends in them (see Strike).
Close == /\ Alive /\ handler.step = "close" /\ handler.who \notin Workers
         /\ sock' = "closed" /\ handler' = Idle
         /\ UNCHANGED <<main, line, buffer, msg, cancelled, interrupted, server, inbox, typed, shown,
                        doubleFree>>

\* The cancellation strikes: thread_cancellation_handler.
Strike(t) == /\ Alive /\ t \in cancelled /\ line[t] # "ended"
             /\ handler.who = t => handler.step = "close"
             /\ doubleFree' = (doubleFree \/ "dangling" \in {buffer[t], msg[t]})
             /\ buffer' = [buffer EXCEPT ![t] = "null"] /\ msg' = [msg EXCEPT ![t] = "null"]
             /\ GoOn(t, "ended")
             /\ handler' = IF handler.who = t THEN Idle ELSE handler
             /\ UNCHANGED <<main, cancelled, interrupted, sock, server, inbox, typed, shown>>

-----------------------------------------------------------------------------
\* write_to_server: the user types a message, or closes the window.
Type == /\ Runs("writer") /\ line["writer"] = "screen" /\ typed < MaxMessages
        /\ typed' = typed + 1
        /\ buffer' = [buffer EXCEPT !["writer"] = "held"]
        /\ msg' = [msg EXCEPT !["writer"] = "held"]
        /\ GoOn("writer", "send size")
        /\ UNCHANGED <<main, cancelled, handler, interrupted, sock, server, inbox, shown, doubleFree>>

Quit == /\ Runs("writer") /\ line["writer"] = "screen"
        /\ buffer' = [buffer EXCEPT !["writer"] = "null"]
        /\ GoOn("writer", "ended")
        /\ UNCHANGED <<main, msg, cancelled, handler, interrupted, sock, server, inbox, typed, shown,
                       doubleFree>>

\* A write that succeeds; to a server that is down it may do so once more.
Send == /\ Runs("writer") /\ sock = "open"
        /\ \/ /\ line["writer"] = "send size" /\ GoOn("writer", "send message")
              /\ UNCHANGED msg
           \/ /\ line["writer"] = "send message" /\ GoOn("writer", "screen")
              /\ msg' = [msg EXCEPT !["writer"] = "null"]
        /\ UNCHANGED <<main, buffer, cancelled, handler, interrupted, sock, server, inbox, typed,
                       shown, doubleFree>>

\* A write that fails ends the thread, or the program with SIGPIPE.
SendFails == /\ Runs("writer") /\ line["writer"] \in {"send size", "send message"} /\ Broken
             /\ \/ /\ GoOn("writer", "ended") /\ msg' = [msg EXCEPT !["writer"] = "null"]
                   /\ UNCHANGED main
                \/ /\ sock = "open" /\ main' = "killed"
                   /\ UNCHANGED <<line, msg>>
             /\ UNCHANGED <<buffer, cancelled, handler, interrupted, sock, server, inbox, typed, shown,
                            doubleFree>>

-----------------------------------------------------------------------------
\* read_from_server: a size, a message of that size, and the screen.
GetSize == /\ Runs("reader") /\ line["reader"] = "size" /\ sock = "open" /\ inbox # <<>>
           /\ buffer' = [buffer EXCEPT !["reader"] = "held"]
           /\ GoOn("reader", "message")
           /\ UNCHANGED <<main, msg, cancelled, handler, interrupted, sock, server, inbox, typed,
                          shown, doubleFree>>

NoSize == /\ Runs("reader") /\ line["reader"] = "size"
          /\ sock = "closed" \/ (server = "down" /\ inbox = <<>>)
          /\ GoOn("reader", "ended")
          /\ UNCHANGED <<main, buffer, msg, cancelled, handler, interrupted, sock, server, inbox,
                         typed, shown, doubleFree>>

GetMessage == /\ Runs("reader") /\ line["reader"] = "message" /\ sock = "open"
              /\ inbox # <<>> /\ Head(inbox) = "whole"
              /\ inbox' = Tail(inbox)
              /\ GoOn("reader", "show")
              /\ UNCHANGED <<main, buffer, msg, cancelled, handler, interrupted, sock, server, typed,
                             shown, doubleFree>>

NoMessage == /\ Runs("reader") /\ line["reader"] = "message"
             /\ sock = "closed" \/ Head(inbox) = "cut"
             /\ buffer' = [buffer EXCEPT !["reader"] = "null"]
             /\ GoOn("reader", "ended")
             /\ UNCHANGED <<main, msg, cancelled, handler, interrupted, sock, server, inbox, typed,
                            shown, doubleFree>>

\* Mutant of Show: the pointer is kept.
ShowDangling == /\ Runs("reader") /\ line["reader"] = "show"
                /\ shown' = shown + 1
                /\ buffer' = [buffer EXCEPT !["reader"] = "dangling"]
                /\ GoOn("reader", "size")
                /\ UNCHANGED <<main, msg, cancelled, handler, interrupted, sock, server, inbox, typed,
                               doubleFree>>

Show == /\ Runs("reader") /\ line["reader"] = "show"
        /\ shown' = shown + 1
        /\ buffer' = [buffer EXCEPT !["reader"] = "null"]
        /\ GoOn("reader", "size")
        /\ UNCHANGED <<main, msg, cancelled, handler, interrupted, sock, server, inbox, typed,
                       doubleFree>>

-----------------------------------------------------------------------------
\* The server sends a message, or goes down, perhaps in the middle of one.
Serve == /\ Alive /\ server = "up" /\ sock = "open"
         /\ \/ /\ shown + Len(inbox) < MaxMessages
               /\ inbox' = Append(inbox, "whole") /\ UNCHANGED server
            \/ /\ server' = "down" /\ inbox' \in {inbox, Append(inbox, "cut")}
         /\ UNCHANGED <<main, line, buffer, msg, cancelled, handler, interrupted, sock, typed, shown,
                        doubleFree>>

ClientMain == Connect \/ Create \/ Join
Handler == Cancel \/ Close
Writer == Send \/ SendFails \/ Strike("writer")
Reader == GetSize \/ NoSize \/ GetMessage \/ NoMessage \/ Show \/ Strike("reader")

ClientNext == ClientMain \/ Handler \/ Writer \/ Reader \/ Interrupt \/ Type \/ Quit \/ Serve

ClientSpec == /\ ClientInit /\ [][ClientNext]_clientVars
              /\ WF_clientVars(ClientMain) /\ WF_clientVars(Handler)
              /\ WF_clientVars(Writer) /\ WF_clientVars(Reader)

-----------------------------------------------------------------------------
(***************************************************************************)
(* Wherever the cancellation strikes, thread_cancellation_handler frees    *)
(* what the thread holds once: nothing is freed twice, and a thread that   *)
(* has been cancelled leaves nothing behind.                               *)
(***************************************************************************)
BuffersFreedOnce ==
    /\ ~doubleFree
    /\ \A t \in Workers : line[t] = "ended" => msg[t] = "null"
    /\ line["reader"] = "ended" => buffer["reader"] = "null"

(***************************************************************************)
(* After SIGINT the client ends, also when the user types nothing and the  *)
(* server sends nothing; and a reader whose server has gone down ends.     *)
(***************************************************************************)
InterruptEnds == /\ interrupted ~> ~Alive
                 /\ server = "down" /\ main = "join writer" ~> line["reader"] = "ended" \/ ~Alive
=============================================================================
