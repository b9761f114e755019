------------------------------ MODULE Cracker2 ------------------------------
(***************************************************************************)
(* password_cracker/cracker2.c: for every password start divides the Size  *)
(* strings among the threads, which all search until one of them has set   *)
(* the global found.  found and hashcount are shared without a mutex, so   *)
(* hashcount++ is a read and a write.  solution is left out: it points     *)
(* into the job, which murk frees before start prints it.                  *)
(***************************************************************************)
EXTENDS Integers, Sequences, FiniteSets

CONSTANTS Workers,   \* 1..n
          Size, Inputs, None

VARIABLES input,     \* the positions of the passwords, or None
          user,      \* the password start is at
          main,
          found, hashcount,
          pc, at, tmp,
          printed    \* history: the summaries

locals == <<pc, at, tmp>>
vars == <<input, user, main, found, hashcount, locals, printed>>

\* getSubrange: the strings of each thread, as even as they can be divided.
Share(w) == LET n == Cardinality(Workers)
            IN [offset |-> ((w - 1) * Size) \div n, end |-> (w * Size) \div n]

Init == /\ input \in Inputs
        /\ user = 1 /\ main = "start"
        /\ found = 0 /\ hashcount = 0
        /\ pc = [w \in Workers |-> "none"]
        /\ at = [w \in Workers |-> 0] /\ tmp = [w \in Workers |-> 0]
        /\ printed = <<>>

\* Mutant: found keeps what the last password left in it.
StartStale == /\ main = "start" /\ user <= Len(input)
              /\ hashcount' = 0
              /\ main' = "create"
              /\ UNCHANGED <<input, user, found, locals, printed>>

\* start: the globals are reset, ...
Start == /\ main = "start" /\ user <= Len(input)
         /\ found' = 0 /\ hashcount' = 0
         /\ main' = "create"
         /\ UNCHANGED <<input, user, locals, printed>>

\* ... the threads created, ...
Create == /\ main = "create"
          /\ \E w \in Workers :
               /\ \A v \in Workers : v < w => pc[v] # "none"
               /\ pc[w] = "none"
               /\ pc' = [pc EXCEPT ![w] = "check"]
               /\ at' = [at EXCEPT ![w] = Share(w).offset]
          /\ main' = IF \A w \in Workers : pc'[w] # "none" THEN "join" ELSE "create"
          /\ UNCHANGED <<input, user, found, hashcount, tmp, printed>>

\* ... and joined, and the summary printed.
Join == /\ main = "join" /\ \A w \in Workers : pc[w] = "exit"
        /\ printed' = Append(printed, [found |-> found, hashes |-> hashcount])
        /\ pc' = [w \in Workers |-> "none"]
        /\ user' = user + 1 /\ main' = "start"
        /\ UNCHANGED <<input, found, hashcount, at, tmp>>

\* crack: the head of the loop and the test of found.
Check(w) == /\ pc[w] = "check"
            /\ pc' = [pc EXCEPT ![w] = IF at[w] = Share(w).end \/ found = 1 THEN "exit" ELSE "hash"]
            /\ UNCHANGED <<input, user, main, found, hashcount, at, tmp, printed>>

Hash(w) == /\ pc[w] = "hash"
           /\ IF at[w] = input[user]
              THEN found' = 1 /\ pc' = [pc EXCEPT ![w] = "exit"]
              ELSE pc' = [pc EXCEPT ![w] = "read"] /\ UNCHANGED found
           /\ UNCHANGED <<input, user, main, hashcount, at, tmp, printed>>

ReadCount(w) == /\ pc[w] = "read"
                /\ at' = [at EXCEPT ![w] = @ + 1]
                /\ tmp' = [tmp EXCEPT ![w] = hashcount]
                /\ pc' = [pc EXCEPT ![w] = "write"]
                /\ UNCHANGED <<input, user, main, found, hashcount, printed>>

WriteCount(w) == /\ pc[w] = "write"
                 /\ hashcount' = tmp[w] + 1
                 /\ pc' = [pc EXCEPT ![w] = "check"]
                 /\ UNCHANGED <<input, user, main, found, at, tmp, printed>>

Thread(w) == Check(w) \/ Hash(w) \/ ReadCount(w) \/ WriteCount(w)
Main == Start \/ Create \/ Join

Next == Main \/ \E w \in Workers : Thread(w)

Spec == Init /\ [][Next]_vars

-----------------------------------------------------------------------------
(***************************************************************************)
(* Every summary is right: the password is found exactly if it is among    *)
(* the strings, whatever the threads of earlier passwords did, and races   *)
(* only ever lose increments of hashcount, of which there are as many as   *)
(* strings that were tried in vain.                                        *)
(***************************************************************************)
SummariesRight ==
    \A u \in DOMAIN printed :
        LET there == input[u] # None
        IN /\ printed[u].found = (IF there THEN 1 ELSE 0)
           /\ printed[u].hashes <= (IF there THEN Size - 1 ELSE Size)
           /\ ~there /\ Size > 0 => printed[u].hashes >= 1
=============================================================================
