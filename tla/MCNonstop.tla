----------------------------- MODULE MCNonstop -----------------------------
(***************************************************************************)
(* Three clients of the file server, every choice of their requests.       *)
(***************************************************************************)
EXTENDS Nonstop, TLC

CONSTANTS c1, c2, c3, f, g, x, y

MCClients == {c1, c2, c3}
MCNames == {f, g}

Put(name, size, data) == [verb |-> "PUT", name |-> name, size |-> size, data |-> data]
Ask(verb, name) == [verb |-> verb, name |-> name, size |-> 0, data |-> <<>>]

\* The second PUT is longer than it says, by a byte that it need not get to
\* send; one that is shorter arises when a client stops.
MCRequestSeq == << Put(f, 2, <<x, y>>), Put(f, 1, <<x, y>>), Put(g, 1, <<y>>),
                   Ask("GET", f), Ask("DELETE", f), Ask("LIST", g) >>
MCRequests == ToSet(MCRequestSeq)

\* The first client does the first PUT; the other two are alike, so who
\* makes which request does not matter.
MCSessions == {[asks |-> c1 :> MCRequestSeq[1] @@ c2 :> MCRequestSeq[i] @@ c3 :> MCRequestSeq[j],
                sigint |-> i = 1 /\ j = 4] :
               <<i, j>> \in {t \in (1..6) \X (1..6) : t[1] <= t[2]}}
=============================================================================
