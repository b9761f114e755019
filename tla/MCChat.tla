------------------------------- MODULE MCChat -------------------------------
(***************************************************************************)
(* The chat server for TLC, with two places.                               *)
(***************************************************************************)
EXTENDS ChatServer

CONSTANTS c1, c2, c3

MCClients == {c1, c2, c3}

\* Two users and two broadcasts; three users for the two places, with one
\* broadcast; one broadcast and the end of the session.
MCScenarios == {[users |-> {c1, c2}, sends |-> 2, sigint |-> FALSE],
                [users |-> {c1, c2, c3}, sends |-> 1, sigint |-> FALSE],
                [users |-> {c1, c2}, sends |-> 1, sigint |-> TRUE]}

\* Two users and one broadcast.
MCStuck == {[users |-> {c1, c2}, sends |-> 1, sigint |-> FALSE]}
=============================================================================
