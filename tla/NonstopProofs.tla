--------------------------- MODULE NonstopProofs ---------------------------
(***************************************************************************)
(* TLAPS proofs about Nonstop, for every set of clients, of names and of   *)
(* requests, and every choice of who stops where.                          *)
(***************************************************************************)
EXTENDS Nonstop, FiniteSetTheorems, SequenceTheorems, TLAPS

\* What the server writes.
Texts == {"OK", "ERROR", "bad request", "no such file", "bad file size"}
Words == Texts \union Nat \union Names \union Bytes

\* Where the server can be.
Stages == {"accept", "cmd", "name", "size", "open", "put", "LIST", "DELETE", "GET", "send",
           "spinning", "close", "ended"}

\* The values of the variables (phase is not needed).
TypeOK ==
    /\ asks \in [Clients -> Requests] /\ upto \in [Clients -> Nat]
    /\ shutdown \subseteq Clients /\ accepted \subseteq Clients /\ closed \subseteq Clients
    /\ answer \in [Clients -> Seq(Words)]
    /\ saved \in [Clients -> Seq(Words) \union {Absent}]
    /\ server \in Stages
    /\ nread \in Nat /\ info \in Nat
    /\ files \in Seq(Names) /\ disk \in [Names -> Seq(Bytes) \union {Absent}]
    /\ served \in [Clients -> Seq(Bytes)]

\* A connection is being served.
Busy == server \notin {"accept", "ended"}

\* The request is read from its beginning, for the verb of its client.
StageInv ==
    /\ Busy => cfd \in accepted \ closed
    /\ server # "ended" => closed \subseteq accepted
    /\ server = "cmd" => nread = 0
    /\ server = "name" => nread = 1
    /\ server = "size" => nread = 2
    /\ server \in {"size", "open", "put"} => asks[cfd].verb = "PUT"
    /\ server \in {"GET", "send", "spinning"} => asks[cfd].verb = "GET"
    /\ server \in {"LIST", "DELETE"} => asks[cfd].verb = server
    /\ \A c \in Clients : upto[c] <= Len(Fields(asks[c]))

\* How far a PUT has come: its file holds the bytes read so far, or the size
\* did not arrive and counts as 0.
PutInv ==
    /\ server = "open" => \/ nread = 2 /\ info = 0
                          \/ nread = 3 /\ info = asks[cfd].size
    /\ server = "put" =>
         /\ disk[Name] # Absent
         /\ \/ nread = 2 /\ info = 0 /\ disk[Name] = <<>>
            \/ /\ nread = Len(disk[Name]) + 3 /\ info = asks[cfd].size
               /\ Len(disk[Name]) <= info /\ Len(disk[Name]) <= Len(asks[cfd].data)
               /\ \A i \in 1..Len(disk[Name]) : disk[Name][i] = asks[cfd].data[i]

\* The file holds what some PUT promised.
Good(n) == \/ disk[n] = <<>>
           \/ \E c \in Puts(n) : asks[c].size <= Len(asks[c].data) /\ disk[n] = Promised(c)

\* All files are good but the one that is being written.
GoodInv == \A n \in Stored : (server # "ended" => (n = Name /\ server = "put") \/ Good(n))

\* The file that is being written.
Partial == IF server = "put" THEN {Name} ELSE {}

\* No name is PUT twice.
Once == \A n \in Names : Cardinality(Puts(n)) <= 1

\* No element occurs twice.
NoDuplicates(s) == \A i, j \in DOMAIN s : s[i] = s[j] => i = j

\* All files are listed but the one that is being written; what is listed
\* has been PUT before; and the converse if no name is PUT twice.
ListInv ==
    server # "ended" =>
      /\ Stored \subseteq ToSet(files) \union Partial
      /\ \A n \in ToSet(files) : \E c \in Puts(n) \intersect accepted :
            c # cfd \/ server \in {"close", "accept"}
      /\ Once => /\ NoDuplicates(files)
                 /\ ToSet(files) = Stored \ Partial

\* The bytes of the file in an answer to GET, after OK and the size.
Copied(c) == Len(answer[c]) - 2

\* A client is answered after its request was read; the answer to a GET has
\* a prefix of the file, and all of it when the loop of get is over.
ServedInv ==
    /\ \A c \in Clients :
         answer[c] = <<>> \/ (c \in accepted /\ ~(c = cfd /\ server \in {"cmd", "name", "GET"}))
    /\ \A c \in Clients : answer[c] = <<>> => served[c] = <<>>
    /\ \A c \in Clients : asks[c].verb = "GET" /\ Starts(answer[c], "OK") =>
         /\ 0 <= Copied(c) /\ Copied(c) <= Len(served[c])
         /\ \A i \in 1..Copied(c) : answer[c][i + 2] = served[c][i]
         /\ \/ Copied(c) = Len(served[c])
            \/ c = cfd /\ server = "send"
            \/ server = "ended"
    /\ server = "send" => Starts(answer[cfd], "OK") /\ info = Copied(cfd)

\* A client has saved what it was sent before the connection was closed.
SavedInv == \A c \in Clients : saved[c] # Absent =>
              /\ c \in closed /\ asks[c].verb = "GET" /\ Starts(answer[c], "OK")
              /\ saved[c] = SubSeq(answer[c], 3, Len(answer[c]))

\* The inductive invariant.
NonstopInv == TypeOK /\ StageInv /\ PutInv /\ GoodInv /\ ListInv /\ ServedInv /\ SavedInv

-----------------------------------------------------------------------------
\* The parts of a request.
LEMMA RequestType ==
  ASSUME NEW r \in Requests
  PROVE  /\ r.verb \in Verbs /\ r.name \in Names /\ r.size \in Nat /\ r.data \in Seq(Bytes)
BY NonstopAssumption

\* The elements of a concatenation.
LEMMA ConcatIs ==
  ASSUME NEW X, NEW u \in Seq(X), NEW v \in Seq(X)
  PROVE  /\ u \o v \in Seq(X) /\ Len(u \o v) = Len(u) + Len(v)
         /\ \A i \in 1..Len(u) : (u \o v)[i] = u[i]
         /\ \A i \in 1..Len(v) : (u \o v)[Len(u) + i] = v[i]
OBVIOUS

\* The fields of a PUT: after the size, the data.
LEMMA FieldsPut ==
  ASSUME NEW r \in Requests, r.verb = "PUT"
  PROVE  /\ Len(Fields(r)) = Len(r.data) + 3
         /\ Fields(r)[3] = r.size
         /\ \A i \in 1..Len(r.data) : Fields(r)[i + 3] = r.data[i]
<1> DEFINE h == <<r.verb, r.name, r.size>>
           S == {r.verb, r.name, r.size} \union Bytes
<1>1. h \in Seq(S) /\ Len(h) = 3 /\ h[3] = r.size
  OBVIOUS
<1>2. r.data \in Seq(S)
  BY RequestType, SeqMonotonic
<1>3. Fields(r) = h \o r.data
  BY DEF Fields
<1> HIDE DEF h, S
<1>4. /\ Len(h \o r.data) = Len(h) + Len(r.data)
      /\ \A i \in 1..Len(h) : (h \o r.data)[i] = h[i]
      /\ \A i \in 1..Len(r.data) : (h \o r.data)[Len(h) + i] = r.data[i]
  <2>1. h \in Seq(S)
    BY <1>1
  <2> QED BY <2>1, <1>2, ConcatIs
<1>5. Len(r.data) \in Nat
  BY <1>2
<1> QED BY <1>1, <1>3, <1>4, <1>5

\* The request that is being served.
LEMMA CfdType ==
  ASSUME TypeOK, StageInv, Busy
  PROVE  /\ cfd \in Clients /\ asks[cfd] \in Requests /\ Name \in Names
         /\ asks[cfd].verb \in Verbs /\ asks[cfd].size \in Nat /\ asks[cfd].data \in Seq(Bytes)
BY RequestType DEF TypeOK, StageInv, Name

\* An answer is appended to what the client was sent before.
LEMMA ReplyType ==
  ASSUME TypeOK, cfd \in Clients, NEW s \in Seq(Words), Reply(s)
  PROVE  /\ answer' \in [Clients -> Seq(Words)]
         /\ answer'[cfd] = answer[cfd] \o s
         /\ \A c \in Clients : c # cfd => answer'[c] = answer[c]
<1>1. answer[cfd] \o s \in Seq(Words)
  BY DEF TypeOK
<1> QED BY <1>1 DEF TypeOK, Reply

\* The least element of a set of numbers is one of the set.
LEMMA MinIn == ASSUME NEW S, S \subseteq Nat, S # {} PROVE Min(S) \in S
<1> DEFINE R == OpToRel(<, Nat)
<1>1. IsWellFoundedOn(R, Nat)
  BY NatLessThanWellFounded
<1>2. PICK x \in S : \A y \in S : ~ (<<y, x>> \in R)
  <2> HIDE DEF R
  <2> QED BY <1>1, WFMin
<1>3. \A y \in S : ~ (y < x)
  BY <1>2 DEF OpToRel
<1>4. \A y \in S : x <= y
  BY <1>3
<1> QED BY <1>4 DEF Min

\* The elements of a sequence after one was removed.
LEMMA RemoveAtIs ==
  ASSUME NEW T, NEW s \in Seq(T), NEW k \in 1..Len(s)
  PROVE  /\ RemoveAt(s, k) \in Seq(T) /\ Len(RemoveAt(s, k)) = Len(s) - 1
         /\ \A i \in 1..Len(s) - 1 : RemoveAt(s, k)[i] = IF i < k THEN s[i] ELSE s[i + 1]
<1> DEFINE a == SubSeq(s, 1, k - 1)
           b == SubSeq(s, k + 1, Len(s))
<1>1. a \in Seq(T) /\ Len(a) = k - 1 /\ \A i \in 1..k - 1 : a[i] = s[i]
  OBVIOUS
<1>2. b \in Seq(T) /\ Len(b) = Len(s) - k /\ \A i \in 1..Len(s) - k : b[i] = s[i + k]
  OBVIOUS
<1>3. RemoveAt(s, k) = a \o b
  BY DEF RemoveAt
<1> HIDE DEF a, b
<1>c. /\ a \o b \in Seq(T) /\ Len(a \o b) = Len(a) + Len(b)
      /\ \A i \in 1..Len(a) : (a \o b)[i] = a[i]
      /\ \A i \in 1..Len(b) : (a \o b)[Len(a) + i] = b[i]
  <2>1. a \in Seq(T) /\ b \in Seq(T)
    BY <1>1, <1>2
  <2> QED BY <2>1, ConcatIs
<1>4. a \o b \in Seq(T) /\ Len(a \o b) = Len(s) - 1
  BY <1>1, <1>2, <1>c
<1>5. ASSUME NEW i \in 1..Len(s) - 1 PROVE (a \o b)[i] = IF i < k THEN s[i] ELSE s[i + 1]
  <2>1. CASE i < k
    BY <1>1, <1>2, <2>1
  <2>2. CASE ~ (i < k)
    <3>1. (a \o b)[i] = b[i - (k - 1)]
      BY <1>1, <1>2, <2>2
    <3>2. i - (k - 1) \in 1..Len(s) - k /\ (i - (k - 1)) + k = i + 1
      BY <2>2
    <3> QED BY <1>2, <2>2, <3>1, <3>2
  <2> QED BY <2>1, <2>2
<1> QED BY <1>3, <1>4, <1>5

\* delete finds an entry with the name.
LEMMA DeletedIs ==
  ASSUME TypeOK, Listed(Name)
  PROVE  LET k == SelectInSeq(files, LAMBDA n : n = Name)
         IN  k \in 1..Len(files) /\ files[k] = Name
<1> DEFINE I == {i \in 1..Len(files) : files[i] = Name}
<1>1. I # {} /\ I \subseteq Nat
  <2>1. DOMAIN files = 1..Len(files) /\ Len(files) \in Nat
    BY DEF TypeOK
  <2> QED BY <2>1 DEF Listed
<1>2. SelectInSeq(files, LAMBDA n : n = Name) = Min(I)
  BY <1>1 DEF SelectInSeq
<1> QED BY <1>1, <1>2, MinIn

\* Sequences that an answer is made of.
LEMMA WordSeqs ==
  /\ \A w \in Words : <<w>> \in Seq(Words)
  /\ \A w, v \in Words : <<w, v>> \in Seq(Words)
  /\ \A s \in Seq(Bytes) : s \in Seq(Words)
  /\ \A s \in Seq(Names) : s \in Seq(Words)
<1>1. Names \subseteq Words /\ Bytes \subseteq Words
  BY DEF Words
<1>2. \A w, v \in Words : <<w>> \in Seq(Words) /\ <<w, v>> \in Seq(Words)
  OBVIOUS
<1>3. \A s \in Seq(Bytes) : s \in Seq(Words)
  BY <1>1, SeqMonotonic
<1>4. \A s \in Seq(Names) : s \in Seq(Words)
  BY <1>1, SeqMonotonic
<1> QED BY <1>2, <1>3, <1>4

\* The answers of the server.
LEMMA AnswerSeqs ==
  /\ <<"bad request">> \in Seq(Words) /\ <<"OK">> \in Seq(Words)
  /\ <<"ERROR", "no such file">> \in Seq(Words) /\ <<"ERROR", "bad file size">> \in Seq(Words)
  /\ \A n \in Nat : <<"OK", n>> \in Seq(Words)
<1>1. Texts \subseteq Words /\ Nat \subseteq Words
  BY DEF Words
<1>2. "OK" \in Words /\ "ERROR" \in Words /\ "bad request" \in Words /\ "no such file" \in Words
      /\ "bad file size" \in Words
  BY <1>1 DEF Texts
<1> QED BY <1>1, <1>2, WordSeqs

-----------------------------------------------------------------------------
\* The steps of a client leave the server alone.
ClientSteps == \E c \in Clients : Client(c)

\* A client that does GET saves the part of its answer after the size.
LEMMA ClientFrame ==
  ASSUME TypeOK, ClientSteps
  PROVE  /\ UNCHANGED <<asks, answer, closed, serverVars>>
         /\ shutdown' \subseteq Clients
         /\ upto' \in [Clients -> Nat]
         /\ \A c \in Clients : upto'[c] = upto[c] \/ upto'[c] \in 0..Len(Fields(asks[c]))
         /\ \/ saved' = saved
            \/ \E c \in Clients : /\ asks[c].verb = "GET" /\ c \in closed /\ Starts(answer[c], "OK")
                                  /\ saved' = [saved EXCEPT
                                                 ![c] = SubSeq(answer[c], 3, Len(answer[c]))]
<1>1. PICK c \in Clients : Client(c)
  BY DEF ClientSteps
<1>2. CASE Start(c)
  <2>1. PICK k \in 0..Len(Fields(asks[c])) : upto' = [upto EXCEPT ![c] = k]
    BY <1>2 DEF Start
  <2>2. k \in Nat
    OBVIOUS
  <2> QED BY <1>2, <2>1, <2>2 DEF Start, TypeOK
<1>3. CASE Shut(c)
  BY <1>3 DEF Shut, TypeOK
<1>4. CASE DeleteEnds(c) \/ ListEnds(c) \/ PutEnds(c)
  BY <1>4 DEF DeleteEnds, ListEnds, PutEnds, Report, TypeOK
<1>5. CASE GetEnds(c)
  <2>1. CASE Starts(answer[c], "OK")
    BY <1>5, <2>1 DEF GetEnds, TypeOK
  <2>2. CASE ~ Starts(answer[c], "OK")
    <3>1. saved' = saved
      BY <1>5, <2>2 DEF GetEnds, TypeOK
    <3> QED BY <1>5, <3>1 DEF GetEnds, TypeOK
  <2> QED BY <2>1, <2>2
<1> QED BY <1>1, <1>2, <1>3, <1>4, <1>5 DEF Client, End

\* The next field of a PUT is the next byte of its data.
LEMMA PutField ==
  ASSUME TypeOK, StageInv, PutInv, server = "put", Len(disk[Name]) < info, Available
  PROVE  LET m == Len(disk[Name]) IN
         /\ disk[Name] \in Seq(Bytes) /\ m \in Nat
         /\ nread = m + 3 /\ info = asks[cfd].size
         /\ m + 1 <= Len(asks[cfd].data)
         /\ Field = asks[cfd].data[m + 1] /\ Field \in Bytes
<1>1. Busy /\ asks[cfd].verb = "PUT"
  BY DEF Busy, StageInv
<1>2. /\ cfd \in Clients /\ asks[cfd] \in Requests /\ Name \in Names
      /\ asks[cfd].size \in Nat /\ asks[cfd].data \in Seq(Bytes)
  BY <1>1, CfdType
<1> DEFINE d == asks[cfd].data
           m == Len(disk[Name])
<1>3. disk[Name] \in Seq(Bytes) /\ m \in Nat
  BY <1>2 DEF PutInv, TypeOK
<1>4. nread = m + 3 /\ info = asks[cfd].size
  BY <1>3 DEF PutInv
<1>5. /\ Len(Fields(asks[cfd])) = Len(d) + 3
      /\ \A i \in 1..Len(d) : Fields(asks[cfd])[i + 3] = d[i]
  BY <1>1, <1>2, FieldsPut
<1>6. upto[cfd] \in Nat /\ upto[cfd] <= Len(Fields(asks[cfd])) /\ Len(d) \in Nat
  BY <1>2 DEF StageInv, TypeOK
<1>7. m + 1 \in 1..Len(d) /\ nread + 1 = (m + 1) + 3
  BY <1>3, <1>4, <1>5, <1>6 DEF Available
<1>8. Field = d[m + 1] /\ d[m + 1] \in Bytes
  BY <1>2, <1>5, <1>7 DEF Field
<1> QED BY <1>3, <1>4, <1>7, <1>8

\* put gives up.
LEMMA PutErrorType ==
  ASSUME TypeOK, StageInv, server = "put", PutError
  PROVE  /\ answer' \in [Clients -> Seq(Words)]
         /\ answer'[cfd] = answer[cfd] \o <<"ERROR", "bad file size">>
         /\ \A c \in Clients : c # cfd => answer'[c] = answer[c]
         /\ disk' = [disk EXCEPT ![Name] = Absent] /\ Name \in Names /\ server' = "close"
         /\ disk' \in [Names -> Seq(Bytes) \union {Absent}]
<1>1. cfd \in Clients /\ Name \in Names
  BY CfdType DEF Busy
<1> QED BY <1>1, ReplyType, AnswerSeqs DEF PutError, TypeOK

\* The types hold initially.
LEMMA InitType == Init => TypeOK
<1> SUFFICES ASSUME Init PROVE TypeOK
  OBVIOUS
<1> QED BY NonstopAssumption DEF Init, TypeOK, Stages

\* Every step keeps the types.
LEMMA NextType == ASSUME TypeOK, StageInv, PutInv, [Next]_vars PROVE TypeOK'
<1>1. CASE ClientSteps
  <2>1. \A c \in Clients : SubSeq(answer[c], 3, Len(answer[c])) \in Seq(Words)
    BY DEF TypeOK
  <2>2. saved' \in [Clients -> Seq(Words) \union {Absent}]
    BY <1>1, <2>1, ClientFrame DEF TypeOK
  <2> QED BY <1>1, <2>2, ClientFrame DEF TypeOK, serverVars
<1>2. CASE Accept
  BY <1>2 DEF Accept, TypeOK, clientVars, Stages
<1>3. CASE get_cmd \/ get_file_name
  <2>1. Busy
    BY <1>3 DEF Busy, get_cmd, get_file_name, ReadField
  <2>2. server' \in Stages
    BY <1>3, <2>1, CfdType DEF get_cmd, get_file_name, ReadField, Verbs, Stages
  <2> QED BY <1>3, <2>2 DEF get_cmd, get_file_name, ReadField, TypeOK, clientVars
<1>4. CASE BadRequest
  <2>1. cfd \in Clients
    BY <1>4, CfdType DEF BadRequest, Busy
  <2>2. answer' \in [Clients -> Seq(Words)]
    BY <1>4, <2>1, ReplyType, AnswerSeqs DEF BadRequest
  <2> QED BY <1>4, <2>2 DEF BadRequest, TypeOK, clientVars, Stages
<1>5. CASE get_message_size
  <2>1. Busy /\ asks[cfd].verb = "PUT" /\ nread = 2
    BY <1>5 DEF get_message_size, Busy, StageInv
  <2>2. Field = asks[cfd].size /\ Field \in Nat
    BY <2>1, CfdType, FieldsPut DEF Field
  <2> QED BY <1>5, <2>2 DEF get_message_size, TypeOK, clientVars, Stages
<1>6. CASE list
  <2>1. cfd \in Clients
    BY <1>6, CfdType DEF list, Busy
  <2>2. <<"OK", Len(files)>> \in Seq(Words) /\ files \in Seq(Words)
    <3>1. files \in Seq(Names) /\ Len(files) \in Nat
      BY DEF TypeOK
    <3> QED BY <3>1, WordSeqs, AnswerSeqs
  <2>3. <<"OK", Len(files)>> \o files \in Seq(Words)
    BY <2>2, ConcatIs
  <2>4. answer' \in [Clients -> Seq(Words)]
    BY <1>6, <2>1, <2>3, ReplyType DEF list
  <2> QED BY <1>6, <2>4 DEF list, TypeOK, clientVars, Stages
<1>7. CASE delete
  <2>1. cfd \in Clients /\ Name \in Names
    BY <1>7, CfdType DEF delete, Busy
  <2>2. answer' \in [Clients -> Seq(Words)]
    BY <1>7, <2>1, ReplyType, AnswerSeqs DEF delete, TypeOK
  <2>3. files' \in Seq(Names)
    <3>1. CASE Listed(Name)
      BY <1>7, <3>1, DeletedIs, RemoveAtIs DEF delete, TypeOK
    <3>2. CASE ~ Listed(Name)
      BY <1>7, <3>2 DEF delete, TypeOK
    <3> QED BY <3>1, <3>2
  <2>4. disk' \in [Names -> Seq(Bytes) \union {Absent}]
    BY <1>7, <2>1 DEF delete, TypeOK
  <2> QED BY <1>7, <2>2, <2>3, <2>4 DEF delete, TypeOK, clientVars, Stages
<1>8. CASE GetOpen
  <2>1. cfd \in Clients /\ Name \in Names
    BY <1>8, CfdType DEF GetOpen, Busy
  <2>2. disk[Name] # Absent => disk[Name] \in Seq(Bytes) /\ Len(disk[Name]) \in Nat
    BY <2>1 DEF TypeOK
  <2>3. answer' \in [Clients -> Seq(Words)]
    BY <1>8, <2>1, <2>2, ReplyType, AnswerSeqs DEF GetOpen, TypeOK
  <2>4. served' \in [Clients -> Seq(Bytes)]
    BY <1>8, <2>1, <2>2 DEF GetOpen, TypeOK
  <2> QED BY <1>8, <2>3, <2>4 DEF GetOpen, TypeOK, clientVars, Stages
<1>9. CASE GetGone
  <2>1. cfd \in Clients
    BY <1>9, CfdType DEF GetGone, Busy
  <2>2. answer' \in [Clients -> Seq(Words)]
    BY <1>9, <2>1, ReplyType, AnswerSeqs DEF GetGone
  <2> QED BY <1>9, <2>2 DEF GetGone, TypeOK, clientVars, Stages
<1>10. CASE GetChunk
  <2>1. cfd \in Clients
    BY <1>10, CfdType DEF GetChunk, Busy
  <2>2. info < Len(served[cfd]) => <<served[cfd][info + 1]>> \in Seq(Words)
    <3>1. info < Len(served[cfd]) => served[cfd][info + 1] \in Bytes
      BY <2>1 DEF TypeOK
    <3> QED BY <3>1, WordSeqs DEF Words
  <2>3. answer' \in [Clients -> Seq(Words)]
    BY <1>10, <2>1, <2>2, ReplyType DEF GetChunk, TypeOK
  <2> QED BY <1>10, <2>3 DEF GetChunk, TypeOK, clientVars, Stages
<1>11. CASE PutOpen
  <2>1. Name \in Names
    BY <1>11, CfdType DEF PutOpen, Busy
  <2>2. disk' \in [Names -> Seq(Bytes) \union {Absent}]
    BY <1>11, <2>1 DEF PutOpen, TypeOK
  <2> QED BY <1>11, <2>2 DEF PutOpen, TypeOK, clientVars, Stages
<1>12. CASE PutChunk
  <2>1. CASE /\ Available /\ disk' = [disk EXCEPT ![Name] = Append(@, Field)]
             /\ UNCHANGED <<answer, server>>
    <3>1. disk[Name] \in Seq(Bytes) /\ Field \in Bytes
      BY <1>12, <2>1, PutField DEF PutChunk
    <3>2. Name \in Names
      BY <1>12, CfdType DEF PutChunk, Busy
    <3>3. disk' \in [Names -> Seq(Bytes) \union {Absent}]
      BY <2>1, <3>1, <3>2 DEF TypeOK
    <3> QED BY <1>12, <2>1, <3>3 DEF PutChunk, TypeOK, clientVars
  <2>2. CASE PutError
    BY <1>12, <2>2, PutErrorType DEF PutChunk, TypeOK, clientVars, Stages
  <2> QED BY <1>12, <2>1, <2>2 DEF PutChunk
<1>13. CASE PutEnd
  <2>1. CASE PutError /\ UNCHANGED files
    BY <1>13, <2>1, PutErrorType DEF PutEnd, TypeOK, clientVars, Stages
  <2>2. CASE files' = Append(files, Name) /\ server' = "close" /\ UNCHANGED <<answer, disk>>
    <3>1. Name \in Names
      BY <1>13, CfdType DEF PutEnd, Busy
    <3>2. files' \in Seq(Names)
      BY <2>2, <3>1 DEF TypeOK
    <3> QED BY <1>13, <2>2, <3>2 DEF PutEnd, TypeOK, clientVars, Stages
  <2> QED BY <1>13, <2>1, <2>2 DEF PutEnd
<1>14. CASE Close
  <2>1. cfd \in Clients
    BY <1>14, CfdType DEF Close, Busy
  <2> QED BY <1>14, <2>1 DEF Close, TypeOK, clientVars, Stages
<1>15. CASE close_server
  BY <1>15 DEF close_server, TypeOK, clientVars, Stages
<1>16. CASE UNCHANGED vars
  BY <1>16 DEF vars, clientVars, TypeOK
<1> QED BY <1>1, <1>2, <1>3, <1>4, <1>5, <1>6, <1>7, <1>8, <1>9, <1>10, <1>11, <1>12, <1>13,
           <1>14, <1>15, <1>16 DEF Next, Server, ClientSteps

-----------------------------------------------------------------------------
\* The other conjuncts hold initially.
LEMMA InitRest == Init => StageInv /\ PutInv /\ GoodInv /\ ListInv /\ ServedInv /\ SavedInv
<1> SUFFICES ASSUME Init PROVE StageInv /\ PutInv /\ GoodInv /\ ListInv /\ ServedInv /\ SavedInv
  OBVIOUS
<1>1. StageInv
  <2>1. \A c \in Clients : Len(Fields(asks[c])) >= 0
    <3> SUFFICES ASSUME NEW c \in Clients PROVE Len(Fields(asks[c])) >= 0
      OBVIOUS
    <3>1. asks[c] \in Requests
      BY InitType DEF TypeOK
    <3>2. CASE asks[c].verb = "PUT"
      <4>1. asks[c].data \in Seq(Bytes)
        BY <3>1, RequestType
      <4> QED BY <3>1, <3>2, <4>1, FieldsPut
    <3>3. CASE asks[c].verb # "PUT"
      BY <3>3 DEF Fields
    <3> QED BY <3>2, <3>3
  <2> QED BY <2>1 DEF Init, StageInv, Busy
<1>2. PutInv /\ SavedInv
  BY DEF Init, PutInv, SavedInv
<1>3. Stored = {} /\ ToSet(files) = {} /\ Partial = {}
  BY DEF Init, Stored, ToSet, Partial
<1>4. GoodInv
  BY <1>3 DEF GoodInv
<1>5. ListInv
  BY <1>3 DEF Init, ListInv, NoDuplicates
<1>6. ServedInv
  BY DEF Init, ServedInv, Starts
<1> QED BY <1>1, <1>2, <1>4, <1>5, <1>6

\* Where the server goes when it is busy, and with what.
LEMMA NextStage == ASSUME TypeOK, StageInv, [Next]_vars PROVE StageInv'
<1>1. CASE ClientSteps
  <2>1. \A c \in Clients : upto'[c] <= Len(Fields(asks[c]))
    BY <1>1, ClientFrame DEF StageInv
  <2> QED BY <1>1, <2>1, ClientFrame DEF StageInv, Busy, serverVars
<1>2. CASE UNCHANGED vars
  BY <1>2 DEF vars, clientVars, StageInv, Busy
<1>3. CASE Accept
  BY <1>3 DEF Accept, StageInv, Busy, clientVars
<1>4. CASE get_cmd
  BY <1>4 DEF get_cmd, ReadField, StageInv, Busy, clientVars
<1>5. CASE get_file_name
  <2>1. asks[cfd].verb \in Verbs
    BY <1>5, CfdType DEF get_file_name, ReadField, Busy
  <2> QED BY <1>5, <2>1 DEF get_file_name, ReadField, StageInv, Busy, clientVars, Verbs
<1>6. CASE BadRequest \/ get_message_size \/ list \/ delete
  BY <1>6 DEF BadRequest, get_message_size, list, delete, StageInv, Busy, clientVars
<1>7. CASE GetOpen \/ GetGone \/ GetChunk
  BY <1>7 DEF GetOpen, GetGone, GetChunk, StageInv, Busy, clientVars
<1>8. CASE PutOpen \/ PutChunk \/ PutEnd
  BY <1>8 DEF PutOpen, PutChunk, PutEnd, PutError, StageInv, Busy, clientVars
<1>9. CASE Close
  BY <1>9 DEF Close, StageInv, Busy, clientVars
<1>10. CASE close_server
  BY <1>10 DEF close_server, StageInv, Busy, clientVars
<1> QED BY <1>1, <1>2, <1>3, <1>4, <1>5, <1>6, <1>7, <1>8, <1>9, <1>10
        DEF Next, Server, ClientSteps

\* Every step keeps the state of a PUT.
LEMMA NextPut == ASSUME TypeOK, StageInv, PutInv, [Next]_vars PROVE PutInv'
<1>1. CASE ClientSteps
  BY <1>1, ClientFrame DEF PutInv, Name, serverVars
<1>2. CASE UNCHANGED vars
  BY <1>2 DEF vars, clientVars, PutInv, Name
<1>3. CASE get_message_size
  <2>1. Busy /\ asks[cfd].verb = "PUT" /\ nread = 2
    BY <1>3 DEF get_message_size, Busy, StageInv
  <2>2. Field = asks[cfd].size
    BY <2>1, CfdType, FieldsPut DEF Field
  <2> QED BY <1>3, <2>1, <2>2 DEF get_message_size, PutInv, clientVars
<1>4. CASE PutOpen
  <2>1. Name \in Names /\ asks[cfd].size \in Nat /\ asks[cfd].data \in Seq(Bytes)
    BY <1>4, CfdType DEF PutOpen, Busy
  <2>2. /\ server' = "put" /\ Name' = Name /\ disk'[Name] = <<>>
        /\ UNCHANGED <<asks, cfd, nread, info>>
    BY <1>4, <2>1 DEF PutOpen, TypeOK, Name, clientVars
  <2>3. <<>> # Absent
    <3>1. <<>> \in Seq(Bytes)
      OBVIOUS
    <3> QED BY <3>1, NonstopAssumption
  <2>4. Len(asks[cfd].data) \in Nat
    BY <2>1
  <2> QED BY <1>4, <2>1, <2>2, <2>3, <2>4 DEF PutOpen, PutInv
<1>5. CASE PutChunk
  <2>1. CASE PutError
    BY <2>1 DEF PutError, PutInv
  <2>2. CASE /\ Available /\ disk' = [disk EXCEPT ![Name] = Append(@, Field)]
             /\ nread' = nread + 1 /\ UNCHANGED <<answer, server>>
    <3> DEFINE m == Len(disk[Name])
               d == asks[cfd].data
    <3>1. /\ disk[Name] \in Seq(Bytes) /\ m \in Nat /\ nread = m + 3 /\ info = asks[cfd].size
          /\ m + 1 <= Len(d) /\ Field = d[m + 1] /\ Field \in Bytes
      BY <1>5, <2>2, PutField DEF PutChunk
    <3>2. Name \in Names
      BY <1>5, CfdType DEF PutChunk, Busy
    <3>3. disk'[Name] = Append(disk[Name], Field) /\ Name' = Name /\ server' = "put"
          /\ UNCHANGED <<asks, cfd, info>>
      BY <1>5, <2>2, <3>2 DEF PutChunk, TypeOK, Name, clientVars
    <3>4. /\ Append(disk[Name], Field) \in Seq(Bytes)
          /\ Len(Append(disk[Name], Field)) = m + 1
          /\ \A i \in 1..m : Append(disk[Name], Field)[i] = disk[Name][i]
          /\ Append(disk[Name], Field)[m + 1] = Field
      BY <3>1
    <3>5. \A i \in 1..m : disk[Name][i] = d[i]
      BY <1>5, <3>1 DEF PutChunk, PutInv
    <3>6. \A i \in 1..m + 1 : Append(disk[Name], Field)[i] = d[i]
      BY <3>1, <3>4, <3>5
    <3>7. Append(disk[Name], Field) # Absent
      BY <3>4, NonstopAssumption
    <3>8. m + 1 <= info /\ info \in Nat
      BY <1>5, <3>1 DEF PutChunk, TypeOK
    <3>9. disk'[Name'] = Append(disk[Name], Field) /\ nread' = (m + 1) + 3
      BY <2>2, <3>1, <3>3
    <3> HIDE DEF m
    <3> QED BY <3>1, <3>3, <3>4, <3>6, <3>7, <3>8, <3>9 DEF PutInv
  <2> QED BY <1>5, <2>1, <2>2 DEF PutChunk
<1>6. CASE get_file_name
  <2>1. asks[cfd].verb \in Verbs
    BY <1>6, CfdType DEF get_file_name, ReadField, Busy
  <2> QED BY <1>6, <2>1 DEF get_file_name, ReadField, PutInv, Verbs
<1>7. CASE Accept \/ get_cmd \/ BadRequest \/ list \/ delete \/ GetOpen \/ GetGone \/ GetChunk
           \/ PutEnd \/ Close \/ close_server
  BY <1>7 DEF Accept, get_cmd, ReadField, BadRequest, list, delete, GetOpen, GetGone, GetChunk,
              PutEnd, PutError, Close, close_server, PutInv
<1> QED BY <1>1, <1>2, <1>3, <1>4, <1>5, <1>6, <1>7 DEF Next, Server, ClientSteps

-----------------------------------------------------------------------------
\* The steps that neither store nor list anything.
Reading == \/ ClientSteps \/ UNCHANGED vars
           \/ Accept \/ get_cmd \/ get_file_name \/ BadRequest \/ get_message_size \/ list
           \/ GetOpen \/ GetGone \/ GetChunk \/ Close

\* They leave the files and the list alone.
LEMMA ReadingFrame ==
  ASSUME TypeOK, StageInv, Reading
  PROVE  /\ UNCHANGED <<asks, files, disk>> /\ accepted \subseteq accepted'
         /\ server = "put" <=> server' = "put"
         /\ server = "ended" <=> server' = "ended"
         /\ \/ cfd' = cfd /\ (server \in {"close", "accept"} => server' \in {"close", "accept"})
            \/ cfd' \notin accepted /\ server # "put"
<1>1. CASE ClientSteps
  BY <1>1, ClientFrame DEF serverVars
<1>2. CASE UNCHANGED vars
  BY <1>2 DEF vars, clientVars
<1>3. CASE Accept
  BY <1>3 DEF Accept, clientVars
<1>4. CASE get_cmd \/ get_file_name
  <2>1. asks[cfd].verb \in Verbs
    BY <1>4, CfdType DEF get_cmd, get_file_name, ReadField, Busy
  <2> QED BY <1>4, <2>1 DEF get_cmd, get_file_name, ReadField, clientVars, Verbs
<1>5. CASE BadRequest \/ get_message_size \/ list \/ Close
  BY <1>5 DEF BadRequest, get_message_size, list, Close, clientVars
<1>6. CASE GetOpen \/ GetGone \/ GetChunk
  BY <1>6 DEF GetOpen, GetGone, GetChunk, clientVars
<1> QED BY <1>1, <1>2, <1>3, <1>4, <1>5, <1>6 DEF Reading

\* Every other step of Next.
LEMMA NextSplit ==
  ASSUME [Next]_vars
  PROVE  Reading \/ delete \/ PutOpen \/ PutChunk \/ PutEnd \/ close_server
BY DEF Next, Server, Reading, ClientSteps

\* A file keeps being what a PUT promised as long as it is not written.
LEMMA GoodFrame ==
  ASSUME asks' = asks, NEW n, disk'[n] = disk[n], Good(n) PROVE Good(n)'
BY DEF Good, Puts, Promised

\* A PUT ends with what it promised or removes its file.
LEMMA NextGood ==
  ASSUME TypeOK, StageInv, PutInv, GoodInv, [Next]_vars PROVE GoodInv'
<1>1. CASE Reading
  <2> SUFFICES ASSUME NEW n \in Stored', server' # "ended"
               PROVE  (n = Name' /\ server' = "put") \/ Good(n)'
    BY DEF GoodInv
  <2>1. n \in Stored /\ disk'[n] = disk[n] /\ asks' = asks /\ server # "ended"
    BY <1>1, ReadingFrame DEF Stored
  <2>2. CASE n = Name /\ server = "put"
    BY <1>1, <2>2, ReadingFrame DEF Name
  <2>3. CASE Good(n)
    BY <2>1, <2>3, GoodFrame
  <2> QED BY <2>1, <2>2, <2>3 DEF GoodInv
<1>2. CASE close_server
  BY <1>2 DEF close_server, GoodInv
<1>3. CASE delete \/ PutOpen \/ PutChunk \/ PutEnd
  <2>0. Busy /\ server # "ended"
    BY <1>3 DEF Busy, delete, PutOpen, PutChunk, PutEnd
  <2>1. cfd \in Clients /\ Name \in Names /\ asks[cfd].size \in Nat /\ asks[cfd].data \in Seq(Bytes)
    BY <2>0, CfdType
  <2>2. UNCHANGED <<asks, cfd, Name>>
    BY <1>3 DEF delete, PutOpen, PutChunk, PutEnd, clientVars, Name
  <2>3. \A n \in Names : n # Name => disk'[n] = disk[n]
    BY <1>3 DEF delete, PutOpen, PutChunk, PutEnd, PutError, TypeOK
  <2>4. \A n \in Names : n # Name /\ n \in Stored' => Good(n)'
    BY <2>0, <2>2, <2>3, GoodFrame DEF GoodInv, Stored
  <2>5. Name \in Stored' => server' = "put" \/ Good(Name)'
    <3>1. CASE delete /\ Listed(Name)
      BY <3>1, <2>1 DEF delete, Stored, TypeOK, Name
    <3>2. CASE delete /\ ~ Listed(Name)
      <4>1. disk' = disk /\ server = "DELETE"
        BY <3>2 DEF delete
      <4>2. Name \in Stored => Good(Name)
        BY <2>0, <4>1 DEF GoodInv
      <4> QED BY <4>1, <4>2, <2>2, GoodFrame DEF Stored
    <3>3. CASE PutOpen
      BY <3>3 DEF PutOpen
    <3>4. CASE (PutChunk \/ PutEnd) /\ PutError
      BY <3>4, <2>1 DEF PutError, Stored, TypeOK
    <3>5. CASE PutChunk /\ ~ PutError
      BY <3>5 DEF PutChunk
    <3>6. CASE PutEnd /\ ~ PutError
      <4> DEFINE f == disk[Name]
                 d == asks[cfd].data
                 z == asks[cfd].size
      <4>1. server = "put" /\ Len(f) = info /\ disk' = disk
        BY <3>6 DEF PutEnd
      <4>2. f \in Seq(Bytes)
        BY <4>1, <2>1 DEF PutInv, TypeOK
      <4>3. CASE f = <<>>
        BY <4>1, <4>3, <2>2 DEF Good
      <4>4. CASE f # <<>>
        <5>1. Len(f) = z /\ z <= Len(d) /\ \A i \in 1..Len(f) : f[i] = d[i]
          BY <4>1, <4>4 DEF PutInv
        <5>2. /\ SubSeq(d, 1, z) \in Seq(Bytes) /\ Len(SubSeq(d, 1, z)) = z
              /\ \A i \in 1..z : SubSeq(d, 1, z)[i] = d[i]
          BY <5>1, <2>1
        <5>3. f = SubSeq(d, 1, z)
          BY <5>1, <5>2, <4>2, SeqEqual
        <5>4. cfd \in Puts(Name)
          BY <4>1, <2>1 DEF StageInv, Puts, Name
        <5>5. Good(Name)
          BY <5>1, <5>3, <5>4 DEF Good, Promised
        <5> QED BY <5>5, <4>1, <2>2, GoodFrame
      <4> QED BY <4>3, <4>4
    <3> QED BY <1>3, <3>1, <3>2, <3>3, <3>4, <3>5, <3>6
  <2> QED BY <2>2, <2>4, <2>5 DEF GoodInv, Stored
<1> QED BY <1>1, <1>2, <1>3, NextSplit

-----------------------------------------------------------------------------
\* What a sequence holds after an element was removed.
LEMMA RemovedSet ==
  ASSUME NEW T, NEW s \in Seq(T), NEW k \in 1..Len(s)
  PROVE  /\ ToSet(s) \ {s[k]} \subseteq ToSet(RemoveAt(s, k))
         /\ ToSet(RemoveAt(s, k)) \subseteq ToSet(s)
         /\ NoDuplicates(s) => /\ NoDuplicates(RemoveAt(s, k))
                              /\ ToSet(RemoveAt(s, k)) = ToSet(s) \ {s[k]}
<1> DEFINE r == RemoveAt(s, k)
           at(i) == IF i < k THEN i ELSE i + 1
<1>0. Len(s) \in Nat /\ k \in Nat /\ DOMAIN s = 1..Len(s)
  OBVIOUS
<1>1. /\ r \in Seq(T) /\ Len(r) = Len(s) - 1
      /\ \A i \in 1..Len(s) - 1 : r[i] = IF i < k THEN s[i] ELSE s[i + 1]
  BY RemoveAtIs
<1>2. DOMAIN r = 1..Len(s) - 1
  BY <1>1
<1> HIDE DEF r
<1>3. \A i \in DOMAIN r : r[i] = s[at(i)] /\ at(i) \in DOMAIN s /\ at(i) # k
  BY <1>0, <1>1, <1>2
<1>4. ASSUME NEW j \in DOMAIN s, j # k PROVE \E i \in DOMAIN r : r[i] = s[j]
  <2>1. CASE j < k
    BY <1>0, <1>1, <1>2, <2>1
  <2>2. CASE ~ (j < k)
    <3>1. j - 1 \in DOMAIN r /\ ~ (j - 1 < k) /\ (j - 1) + 1 = j
      BY <1>0, <1>2, <1>4, <2>2
    <3> QED BY <1>1, <1>2, <3>1
  <2> QED BY <2>1, <2>2
<1>5. ToSet(s) \ {s[k]} \subseteq ToSet(r)
  BY <1>4 DEF ToSet
<1>6. ToSet(r) \subseteq ToSet(s)
  BY <1>3 DEF ToSet
<1>7. ASSUME NoDuplicates(s) PROVE NoDuplicates(r) /\ ToSet(r) = ToSet(s) \ {s[k]}
  <2>1. \A i \in DOMAIN r : s[at(i)] # s[k]
    BY <1>0, <1>3, <1>7 DEF NoDuplicates
  <2>2. ToSet(r) = ToSet(s) \ {s[k]}
    BY <2>1, <1>3, <1>5, <1>6 DEF ToSet
  <2>3. \A i, j \in DOMAIN r : r[i] = r[j] => at(i) = at(j)
    BY <1>3, <1>7 DEF NoDuplicates
  <2>4. \A i, j \in DOMAIN r : at(i) = at(j) => i = j
    BY <1>0, <1>2
  <2> QED BY <2>2, <2>3, <2>4 DEF NoDuplicates
<1> QED BY <1>5, <1>6, <1>7 DEF r

\* What it holds after one was appended.
LEMMA AppendedSet ==
  ASSUME NEW T, NEW s \in Seq(T), NEW e \in T
  PROVE  /\ ToSet(Append(s, e)) = ToSet(s) \union {e}
         /\ NoDuplicates(s) /\ e \notin ToSet(s) => NoDuplicates(Append(s, e))
<1> DEFINE a == Append(s, e)
<1>1. /\ DOMAIN a = 1..Len(s) + 1 /\ DOMAIN s = 1..Len(s) /\ Len(s) \in Nat
      /\ a[Len(s) + 1] = e /\ \A i \in 1..Len(s) : a[i] = s[i]
  OBVIOUS
<1> HIDE DEF a
<1>2. \A i \in DOMAIN a : (i \in DOMAIN s /\ a[i] = s[i]) \/ (i = Len(s) + 1 /\ a[i] = e)
  BY <1>1
<1>3. ToSet(a) = ToSet(s) \union {e}
  <2>1. DOMAIN s \subseteq DOMAIN a /\ Len(s) + 1 \in DOMAIN a
    BY <1>1
  <2> QED BY <1>1, <1>2, <2>1 DEF ToSet
<1>4. NoDuplicates(s) /\ e \notin ToSet(s) => NoDuplicates(a)
  BY <1>2 DEF NoDuplicates, ToSet
<1> QED BY <1>3, <1>4 DEF a

\* Without duplicates the length is the number of elements.
LEMMA NoDuplicatesCard ==
  ASSUME NEW T, NEW s \in Seq(T), NoDuplicates(s) PROVE Cardinality(ToSet(s)) = Len(s)
<1>1. DOMAIN s = 1..Len(s) /\ Len(s) \in Nat
  OBVIOUS
<1>2. s \in [1..Len(s) -> ToSet(s)]
  BY <1>1 DEF ToSet
<1>3. s \in Bijection(1..Len(s), ToSet(s))
  BY <1>1, <1>2 DEF Bijection, Injection, Surjection, IsInjective, NoDuplicates, ToSet
<1>4. IsFiniteSet(1..Len(s)) /\ Cardinality(1..Len(s)) = Len(s)
  BY <1>1, FS_Interval
<1> QED BY <1>3, <1>4, FS_Bijection DEF ExistsBijection

\* If no name is PUT twice, a name has one writer.
LEMMA OneWriter ==
  ASSUME Once, NEW n \in Names, NEW c \in Puts(n), NEW d \in Puts(n) PROVE c = d
<1> SUFFICES ASSUME c # d PROVE FALSE
  OBVIOUS
<1>1. IsFiniteSet(Puts(n))
  BY FS_Subset, NonstopAssumption DEF Puts
<1>2. Cardinality({c}) = 1 /\ IsFiniteSet({c})
  BY FS_Singleton
<1>3. Cardinality({c} \union {d}) = 2
  <2>1. d \notin {c}
    OBVIOUS
  <2> DEFINE C == {c}
  <2> HIDE DEF C
  <2>2. Cardinality(C \union {d}) = IF d \in C THEN Cardinality(C) ELSE Cardinality(C) + 1
    <3>1. IsFiniteSet(C)
      BY <1>2 DEF C
    <3> QED BY <3>1, FS_AddElement, Zenon
  <2>3. Cardinality(C) = 1 /\ d \notin C
    BY <1>2, <2>1 DEF C
  <2>4. Cardinality(C \union {d}) = 2
    BY <2>2, <2>3
  <2> QED BY <2>4 DEF C
<1>4. Cardinality({c} \union {d}) <= Cardinality(Puts(n))
  BY <1>1, FS_Subset
<1>5. Cardinality(Puts(n)) \in Nat
  BY <1>1, FS_CardinalityType
<1> QED BY <1>3, <1>4, <1>5 DEF Once

\* What is listed has been PUT by a client that was accepted before.
Put(n) == \E c \in Puts(n) \intersect accepted : c # cfd \/ server \in {"close", "accept"}

\* Every step keeps the list: PUT lists its file when it is complete,
\* DELETE removes the file with its first entry.
LEMMA NextList ==
  ASSUME TypeOK, StageInv, PutInv, ListInv, [Next]_vars PROVE ListInv'
<1>1. CASE close_server
  BY <1>1 DEF close_server, ListInv
<1>2. CASE server = "ended" /\ Reading
  BY <1>2, ReadingFrame DEF ListInv
<1>3. CASE server # "ended" /\ Reading
  <2>1. /\ UNCHANGED <<asks, files, disk>> /\ accepted \subseteq accepted'
        /\ server = "put" <=> server' = "put"
        /\ \/ cfd' = cfd /\ (server \in {"close", "accept"} => server' \in {"close", "accept"})
           \/ cfd' \notin accepted /\ server # "put"
    BY <1>3, ReadingFrame
  <2>2. UNCHANGED <<Stored, Partial, Once>> /\ \A n : Puts(n)' = Puts(n)
    BY <2>1 DEF Stored, Partial, Once, Puts, Name
  <2>3. \A n \in ToSet(files) : Put(n) => Put(n)'
    BY <2>1, <2>2 DEF Put
  <2> QED BY <1>3, <2>1, <2>2, <2>3 DEF ListInv, Put
<1>4. CASE delete \/ PutOpen \/ PutChunk \/ PutEnd
  <2>0. Busy /\ server # "ended" /\ server' # "ended"
    BY <1>4 DEF Busy, delete, PutOpen, PutChunk, PutEnd, PutError
  <2>1. /\ cfd \in Clients /\ Name \in Names /\ cfd \in accepted
        /\ server \in {"open", "put"} => cfd \in Puts(Name)
    BY <2>0, CfdType DEF StageInv, Puts, Name
  <2>2. UNCHANGED <<asks, cfd, accepted, Name, Once>> /\ \A n : Puts(n)' = Puts(n)
    BY <1>4 DEF delete, PutOpen, PutChunk, PutEnd, clientVars, Name, Once, Puts
  <2>3. server \notin {"close", "accept"}
    BY <1>4 DEF delete, PutOpen, PutChunk, PutEnd
  <2>4. \A n \in ToSet(files) : Put(n)'
    BY <2>0, <2>2, <2>3 DEF ListInv, Put
  <2>l. /\ Stored \subseteq ToSet(files) \union Partial
        /\ Once => NoDuplicates(files) /\ ToSet(files) = Stored \ Partial
    BY <2>0 DEF ListInv
  <2>n. ToSet(files) \subseteq Names
    BY DEF TypeOK, ToSet
  <2>5. ASSUME /\ Stored' \subseteq ToSet(files)' \union Partial'
               /\ \A n \in ToSet(files)' : Put(n)'
               /\ Once => NoDuplicates(files') /\ ToSet(files)' = Stored' \ Partial'
        PROVE  ListInv'
    BY <2>2, <2>5 DEF ListInv, Put
  <2>6. CASE delete
    <3>1. Partial = {} /\ Partial' = {}
      BY <2>6 DEF delete, Partial
    <3>2. CASE Listed(Name)
      <4>1. Stored' = Stored \ {Name}
        BY <2>6, <3>2, <2>1 DEF delete, Stored, TypeOK
      <4>2. PICK k \in 1..Len(files) : files[k] = Name /\ files' = RemoveAt(files, k)
        BY <2>6, <3>2, DeletedIs DEF delete
      <4>3. /\ ToSet(files) \ {Name} \subseteq ToSet(files')
            /\ ToSet(files') \subseteq ToSet(files)
            /\ NoDuplicates(files) => NoDuplicates(files') /\ ToSet(files') = ToSet(files) \ {Name}
        BY <4>2, RemovedSet DEF TypeOK
      <4> QED BY <2>4, <2>5, <2>l, <3>1, <4>1, <4>3
    <3>3. CASE ~ Listed(Name)
      <4>1. UNCHANGED <<files, disk>>
        BY <2>6, <3>3 DEF delete
      <4>2. Stored' = Stored
        BY <4>1 DEF Stored
      <4> QED BY <2>4, <2>5, <2>l, <3>1, <4>1, <4>2
    <3> QED BY <3>2, <3>3
  <2>7. CASE PutOpen
    <3>1. Partial = {} /\ Partial' = {Name} /\ files' = files /\ server = "open"
      BY <2>7, <2>2 DEF PutOpen, Partial
    <3>2. Stored' = Stored \union {Name}
      <4>1. <<>> \in Seq(Bytes)
        OBVIOUS
      <4>2. <<>> # Absent
        BY <4>1, NonstopAssumption
      <4> QED BY <2>7, <2>1, <4>2 DEF PutOpen, Stored, TypeOK
    <3>3. Once => Name \notin ToSet(files)
      BY <2>0, <2>1, <3>1, OneWriter DEF ListInv
    <3> QED BY <2>4, <2>5, <2>l, <3>1, <3>2, <3>3
  <2>8. CASE (PutChunk \/ PutEnd) /\ PutError /\ files' = files
    <3>1. Partial = {Name} /\ Partial' = {} /\ files' = files
      BY <2>8 DEF PutChunk, PutEnd, PutError, Partial
    <3>2. Stored' = Stored \ {Name}
      BY <2>8, <2>1 DEF PutError, Stored, TypeOK
    <3> QED BY <2>4, <2>5, <2>l, <3>1, <3>2
  <2>9. CASE PutChunk /\ ~ PutError
    <3>1. Partial = {Name} /\ Partial' = {Name} /\ files' = files /\ server = "put"
      BY <2>9, <2>2 DEF PutChunk, Partial
    <3>2. Stored' = Stored
      <4>1. disk' = [disk EXCEPT ![Name] = Append(disk[Name], Field)]
        BY <2>9 DEF PutChunk
      <4>2. disk[Name] \in Seq(Bytes) /\ Field \in Bytes
        BY <2>9, PutField DEF PutChunk
      <4>3. Append(disk[Name], Field) \in Seq(Bytes)
        BY <4>2
      <4>4. disk[Name] # Absent /\ Append(disk[Name], Field) # Absent
        BY <4>2, <4>3, NonstopAssumption
      <4> QED BY <2>1, <4>1, <4>4 DEF Stored, TypeOK
    <3> QED BY <2>4, <2>5, <2>l, <3>1, <3>2
  <2>10. CASE PutEnd /\ files' = Append(files, Name) /\ server' = "close" /\ disk' = disk
    <3>1. /\ Partial = {Name} /\ Partial' = {} /\ files' = Append(files, Name)
          /\ server = "put" /\ server' = "close" /\ disk' = disk
      BY <2>10, <2>2 DEF PutEnd, Partial
    <3>2. Stored' = Stored /\ Name \in Stored
      BY <2>1, <3>1 DEF Stored, PutInv
    <3>3. /\ ToSet(files') = ToSet(files) \union {Name}
          /\ NoDuplicates(files) /\ Name \notin ToSet(files) => NoDuplicates(files')
      BY <2>1, <3>1, AppendedSet DEF TypeOK
    <3>4. \A n : n = Name => Put(n)'
      BY <2>1, <2>2, <3>1 DEF Put
    <3> QED BY <2>4, <2>5, <2>l, <3>1, <3>2, <3>3, <3>4
  <2>11. PutEnd => \/ PutError /\ files' = files
                   \/ files' = Append(files, Name) /\ server' = "close" /\ disk' = disk
    BY DEF PutEnd
  <2>12. PutChunk => files' = files
    BY DEF PutChunk
  <2> QED BY <1>4, <2>6, <2>7, <2>8, <2>9, <2>10, <2>11, <2>12
<1> QED BY <1>1, <1>2, <1>3, <1>4, NextSplit

-----------------------------------------------------------------------------
\* An answer starts with its first element.
LEMMA StartsIs ==
  ASSUME NEW S, NEW a \in Seq(S), NEW w
  PROVE  Starts(a, w) <=> Len(a) > 0 /\ a[1] = w
BY DEF Starts

\* An answer that does not concern a GET, or does not begin one.
LEMMA ServedFrame ==
  ASSUME TypeOK, StageInv, ServedInv, UNCHANGED <<asks, answer, served>>,
         accepted \subseteq accepted', cfd' = cfd \/ cfd' \notin accepted,
         cfd' = cfd /\ server' \in {"cmd", "name", "GET"} => server \in {"cmd", "name", "GET"},
         cfd' # cfd => server # "send",
         server' = "send" => server = "send" /\ cfd' = cfd /\ info' = info,
         server = "send" => server' \in {"send", "ended"} \/ Copied(cfd) = Len(served[cfd]),
         server = "ended" => server' = "ended"
  PROVE  ServedInv'
<1>1. UNCHANGED <<asks, answer, served>> /\ \A c \in Clients : Copied(c)' = Copied(c)
  BY DEF Copied
<1>2. \A c \in Clients : answer'[c] = <<>>
         \/ (c \in accepted' /\ ~(c = cfd' /\ server' \in {"cmd", "name", "GET"}))
  BY <1>1 DEF ServedInv
<1>3. \A c \in Clients : asks[c].verb = "GET" /\ Starts(answer[c], "OK") =>
         \/ Copied(c) = Len(served[c])
         \/ c = cfd' /\ server' = "send"
         \/ server' = "ended"
  BY DEF ServedInv
<1>4. server' = "send" => Starts(answer'[cfd'], "OK") /\ info' = Copied(cfd)'
  BY <1>1 DEF ServedInv, Copied
<1> QED BY <1>1, <1>2, <1>3, <1>4 DEF ServedInv

\* An answer to the client that is served, by which nothing is served.
LEMMA ServedReply ==
  ASSUME TypeOK, StageInv, ServedInv, Busy, server # "send",
         NEW s \in Seq(Words), s # <<>>, Reply(s),
         asks[cfd].verb = "GET" => answer[cfd] = <<>> /\ s[1] # "OK",
         server' \in {"accept", "close"}, UNCHANGED <<asks, accepted, cfd, served>>
  PROVE  ServedInv'
<1>1. cfd \in Clients /\ cfd \in accepted
  BY CfdType DEF StageInv
<1>2. /\ answer' \in [Clients -> Seq(Words)] /\ answer'[cfd] = answer[cfd] \o s
      /\ \A c \in Clients : c # cfd => answer'[c] = answer[c]
  BY <1>1, ReplyType
<1>3. asks[cfd].verb = "GET" => ~ Starts(answer'[cfd], "OK")
  <2> SUFFICES ASSUME asks[cfd].verb = "GET" PROVE ~ Starts(answer'[cfd], "OK")
    OBVIOUS
  <2>1. answer'[cfd] = s
    BY <1>2
  <2> QED BY <2>1, StartsIs
<1>4. \A c \in Clients : answer'[c] = <<>>
         \/ (c \in accepted' /\ ~(c = cfd' /\ server' \in {"cmd", "name", "GET"}))
  BY <1>1, <1>2 DEF ServedInv
<1>6. \A c \in Clients : answer'[c] = <<>> => served[c] = <<>>
  <2>1. answer[cfd] \o s # <<>>
    <3>1. Len(answer[cfd]) \in Nat /\ Len(s) \in Nat /\ Len(s) # 0
      BY <1>1 DEF TypeOK
    <3>2. Len(answer[cfd] \o s) = Len(answer[cfd]) + Len(s)
      BY <1>1, ConcatIs DEF TypeOK
    <3> QED BY <3>1, <3>2
  <2> QED BY <1>2, <2>1 DEF ServedInv
<1>5. ASSUME NEW c \in Clients, asks[c].verb = "GET", Starts(answer'[c], "OK")
      PROVE  /\ 0 <= Copied(c)' /\ Copied(c)' <= Len(served[c])
             /\ \A i \in 1..Copied(c)' : answer'[c][i + 2] = served[c][i]
             /\ Copied(c)' = Len(served[c])
  <2>1. c # cfd
    BY <1>3, <1>5
  <2>2. Copied(c)' = Copied(c) /\ answer'[c] = answer[c]
    BY <1>2, <2>1 DEF Copied
  <2> QED BY <1>5, <2>1, <2>2 DEF ServedInv, Busy
<1> QED BY <1>4, <1>5, <1>6 DEF ServedInv

\* Every step keeps the answers: GET copies the file as it was opened.
LEMMA NextServed ==
  ASSUME TypeOK, StageInv, ServedInv, [Next]_vars PROVE ServedInv'
<1>1. CASE ClientSteps
  BY <1>1, ClientFrame, ServedFrame DEF serverVars
<1>2. CASE UNCHANGED vars
  BY <1>2, ServedFrame DEF vars, clientVars
<1>3. CASE Accept
  <2>1. /\ server = "accept" /\ server' = "cmd" /\ cfd' \notin accepted
        /\ UNCHANGED <<asks, answer, served>> /\ accepted \subseteq accepted'
    BY <1>3 DEF Accept, clientVars
  <2>2. \A c \in Clients : c \notin accepted => answer[c] = <<>>
    BY DEF ServedInv
  <2>3. \A c \in Clients : Copied(c)' = Copied(c)
    BY <2>1 DEF Copied
  <2> QED BY <2>1, <2>2, <2>3 DEF ServedInv
<1>4. CASE get_cmd \/ get_file_name
  <2>1. asks[cfd].verb \in Verbs
    BY <1>4, CfdType DEF get_cmd, get_file_name, ReadField, Busy
  <2> QED BY <1>4, <2>1, ServedFrame DEF get_cmd, get_file_name, ReadField, clientVars, Verbs
<1>5. CASE get_message_size \/ PutOpen \/ Close \/ close_server
  BY <1>5, ServedFrame DEF get_message_size, PutOpen, Close, close_server, clientVars
<1>6. CASE BadRequest
  <2>1. Busy /\ server # "send" /\ cfd \in Clients
    BY <1>6, CfdType DEF BadRequest, Busy
  <2>2. answer[cfd] = <<>>
    BY <1>6, <2>1 DEF BadRequest, ServedInv
  <2>3. <<"bad request">> # <<>> /\ <<"bad request">>[1] # "OK"
    OBVIOUS
  <2> QED BY <1>6, <2>1, <2>2, <2>3, ServedReply, AnswerSeqs DEF BadRequest, clientVars
<1>7. CASE list
  <2>1. Busy /\ server # "send" /\ asks[cfd].verb # "GET"
    BY <1>7 DEF list, Busy, StageInv
  <2>2. <<"OK", Len(files)>> \in Seq(Words) /\ files \in Seq(Words)
    <3>1. files \in Seq(Names) /\ Len(files) \in Nat
      BY DEF TypeOK
    <3> QED BY <3>1, WordSeqs, AnswerSeqs
  <2>3. <<"OK", Len(files)>> \o files \in Seq(Words) /\ <<"OK", Len(files)>> \o files # <<>>
    <3> DEFINE h == <<"OK", Len(files)>>
    <3>1. Len(h) = 2 /\ Len(files) \in Nat
      BY DEF TypeOK
    <3> HIDE DEF h
    <3>2. h \o files \in Seq(Words) /\ Len(h \o files) = Len(h) + Len(files)
      BY <2>2, ConcatIs DEF h
    <3>3. h \o files # <<>>
      BY <3>1, <3>2
    <3> QED BY <3>2, <3>3 DEF h
  <2> QED BY <1>7, <2>1, <2>3, ServedReply DEF list, clientVars
<1>8. CASE delete
  <2>1. Busy /\ server # "send" /\ asks[cfd].verb # "GET"
    BY <1>8 DEF delete, Busy, StageInv
  <2>2. <<"OK">> # <<>> /\ <<"ERROR", "no such file">> # <<>>
    OBVIOUS
  <2>3. server' = "close" /\ UNCHANGED <<asks, accepted, cfd, served>>
    BY <1>8 DEF delete, clientVars
  <2>4. Reply(<<"OK">>) \/ Reply(<<"ERROR", "no such file">>)
    BY <1>8 DEF delete
  <2> QED BY <2>1, <2>2, <2>3, <2>4, ServedReply, AnswerSeqs
<1>9. CASE PutChunk \/ PutEnd
  <2>1. Busy /\ server = "put" /\ asks[cfd].verb # "GET"
    BY <1>9 DEF PutChunk, PutEnd, Busy, StageInv
  <2>2. UNCHANGED <<asks, accepted, cfd, served, info>>
    BY <1>9 DEF PutChunk, PutEnd, clientVars
  <2>3. CASE PutError
    <3>1. <<"ERROR", "bad file size">> # <<>>
      OBVIOUS
    <3> QED BY <2>1, <2>2, <2>3, <3>1, ServedReply, AnswerSeqs DEF PutError
  <2>4. CASE answer' = answer /\ server' \in {"put", "close"}
    BY <2>1, <2>2, <2>4, ServedFrame
  <2> QED BY <1>9, <2>1, <2>3, <2>4 DEF PutChunk, PutEnd
<1>10. CASE GetOpen /\ ~ Listed(Name)
  BY <1>10, ServedFrame DEF GetOpen, clientVars
<1>11. CASE (GetOpen /\ Listed(Name)) \/ GetGone
  <2>1. Busy /\ server = "GET" /\ asks[cfd].verb = "GET"
    BY <1>11 DEF GetOpen, GetGone, Busy, StageInv
  <2>2. cfd \in Clients /\ Name \in Names /\ answer[cfd] = <<>> /\ cfd \in accepted
    BY <2>1, CfdType DEF ServedInv, StageInv
  <2>3. PICK n \in Nat : Reply(<<"OK", n>>)
    <3>1. disk[Name] # Absent => Len(disk[Name]) \in Nat
      BY <2>2 DEF TypeOK
    <3> QED BY <1>11, <3>1 DEF GetOpen, GetGone
  <2>4. /\ answer'[cfd] = <<>> \o <<"OK", n>>
        /\ \A c \in Clients : c # cfd => answer'[c] = answer[c]
    BY <2>2, <2>3, ReplyType, AnswerSeqs
  <2>5. answer'[cfd] = <<"OK", n>> /\ Copied(cfd)' = 0 /\ Starts(answer'[cfd], "OK")
    <3>1. answer'[cfd] = <<"OK", n>>
      BY <2>4
    <3>2. UNCHANGED cfd
      BY <1>11 DEF GetOpen, GetGone
    <3> QED BY <3>1, <3>2 DEF Copied, Starts
  <2>6. /\ UNCHANGED <<asks, cfd, accepted>> /\ server' \in {"send", "spinning", "close"}
        /\ server' = "send" => info' = 0
        /\ server' # "send" => served' = served
        /\ \A c \in Clients : c # cfd => served'[c] = served[c]
        /\ served'[cfd] \in Seq(Bytes)
    <3>1. CASE GetGone
      BY <3>1, <2>2 DEF GetGone, clientVars, TypeOK
    <3>2. CASE GetOpen /\ Listed(Name)
      BY <3>2, <2>2 DEF GetOpen, clientVars, TypeOK
    <3> QED BY <1>11, <3>1, <3>2
  <2>7. served'[cfd] = <<>> \/ server' = "send"
    BY <2>2, <2>6 DEF ServedInv
  <2>8. Len(served'[cfd]) \in Nat /\ (served'[cfd] = <<>> => Len(served'[cfd]) = 0)
    BY <2>6
  <2>9. ASSUME NEW c \in Clients PROVE
          /\ answer'[c] = <<>> => served'[c] = <<>>
          /\ asks[c].verb = "GET" /\ Starts(answer'[c], "OK") =>
               /\ 0 <= Copied(c)' /\ Copied(c)' <= Len(served'[c])
               /\ \A i \in 1..Copied(c)' : answer'[c][i + 2] = served'[c][i]
               /\ Copied(c)' = Len(served'[c]) \/ (c = cfd' /\ server' = "send")
    <3>1. CASE c = cfd
      <4>1. Copied(c)' = 0 /\ answer'[c] # <<>> /\ c = cfd'
        BY <2>5, <2>6, <3>1 DEF Starts, Copied
      <4>2. 1..0 = {}
        OBVIOUS
      <4> QED BY <3>1, <4>1, <4>2, <2>7, <2>8
    <3>2. CASE c # cfd
      <4>1. Copied(c)' = Copied(c) /\ answer'[c] = answer[c] /\ served'[c] = served[c]
        BY <2>4, <2>6, <3>2 DEF Copied
      <4> QED BY <4>1, <3>2, <2>1 DEF ServedInv
    <3> QED BY <3>1, <3>2
  <2>10. \A c \in Clients : answer'[c] = <<>>
           \/ (c \in accepted' /\ ~(c = cfd' /\ server' \in {"cmd", "name", "GET"}))
    BY <2>2, <2>4, <2>6 DEF ServedInv
  <2>11. server' = "send" => Starts(answer'[cfd'], "OK") /\ info' = Copied(cfd)'
    BY <2>5, <2>6
  <2> QED BY <2>6, <2>9, <2>10, <2>11 DEF ServedInv
<1>12. CASE GetChunk
  <2>1. Busy /\ server = "send" /\ asks[cfd].verb = "GET"
    BY <1>12 DEF GetChunk, Busy, StageInv
  <2>2. cfd \in Clients /\ cfd \in accepted
    BY <2>1, CfdType DEF StageInv
  <2> DEFINE a == answer[cfd]
             s == served[cfd]
  <2>3. a \in Seq(Words) /\ s \in Seq(Bytes) /\ Len(a) \in Nat /\ Len(s) \in Nat
    BY <2>2 DEF TypeOK
  <2>4. /\ Starts(a, "OK") /\ info = Len(a) - 2 /\ info \in Nat /\ info <= Len(s)
        /\ \A i \in 1..info : a[i + 2] = s[i]
    BY <2>1, <2>2 DEF ServedInv, Copied, TypeOK
  <2>5. UNCHANGED <<asks, cfd, accepted, served>>
    BY <1>12 DEF GetChunk, clientVars
  <2>6. CASE info < Len(s)
    <3>1. Reply(<<s[info + 1]>>) /\ info' = info + 1 /\ server' = "send"
      BY <1>12, <2>6 DEF GetChunk
    <3>2. s[info + 1] \in Bytes /\ <<s[info + 1]>> \in Seq(Words)
      <4>1. s[info + 1] \in Bytes
        BY <2>3, <2>4, <2>6
      <4> QED BY <4>1, WordSeqs DEF Words
    <3>3. /\ answer'[cfd] = a \o <<s[info + 1]>>
          /\ \A c \in Clients : c # cfd => answer'[c] = answer[c]
      BY <2>2, <3>1, <3>2, ReplyType
    <3> DEFINE b == a \o <<s[info + 1]>>
    <3>4. /\ b \in Seq(Words) /\ Len(b) = Len(a) + 1
          /\ \A i \in 1..Len(a) : b[i] = a[i]
          /\ b[Len(a) + 1] = s[info + 1]
      BY <2>3, <3>2
    <3> HIDE DEF b
    <3>5. answer'[cfd] = b /\ b # <<>> /\ Starts(b, "OK") /\ Len(b) - 2 = info + 1
      <4>1. Len(a) > 0 /\ a[1] = "OK"
        BY <2>3, <2>4, StartsIs
      <4>2. Len(b) > 0 /\ b[1] = "OK" /\ b # <<>> /\ Len(b) - 2 = info + 1
        BY <2>3, <2>4, <3>4, <4>1
      <4> QED BY <3>3, <3>4, <4>2, StartsIs DEF b
    <3>6. \A i \in 1..info + 1 : b[i + 2] = s[i]
      BY <2>3, <2>4, <3>4
    <3>7. ASSUME NEW c \in Clients PROVE
          /\ answer'[c] = <<>> => served[c] = <<>>
          /\ asks[c].verb = "GET" /\ Starts(answer'[c], "OK") =>
               /\ 0 <= Copied(c)' /\ Copied(c)' <= Len(served[c])
               /\ \A i \in 1..Copied(c)' : answer'[c][i + 2] = served[c][i]
               /\ Copied(c)' = Len(served[c]) \/ c = cfd
      <4>1. CASE c = cfd
        <5>1. Copied(c)' = info + 1 /\ answer'[c] = b
          BY <2>5, <3>5, <4>1 DEF Copied
        <5> QED BY <2>3, <2>4, <2>6, <3>5, <3>6, <4>1, <5>1
      <4>2. CASE c # cfd
        <5>1. Copied(c)' = Copied(c) /\ answer'[c] = answer[c]
          BY <3>3, <4>2 DEF Copied
        <5> QED BY <5>1, <4>2, <2>1 DEF ServedInv
      <4> QED BY <4>1, <4>2
    <3>8. \A c \in Clients : answer'[c] = <<>>
           \/ (c \in accepted' /\ ~(c = cfd' /\ server' \in {"cmd", "name", "GET"}))
      BY <2>2, <2>5, <3>1, <3>3 DEF ServedInv
    <3>9. Starts(answer'[cfd'], "OK") /\ info' = Copied(cfd)'
      BY <2>5, <3>1, <3>5 DEF Copied
    <3> QED BY <2>5, <3>1, <3>7, <3>8, <3>9 DEF ServedInv
  <2>7. CASE ~ (info < Len(s))
    <3>1. server' = "close" /\ UNCHANGED answer
      BY <1>12, <2>7 DEF GetChunk
    <3>2. Copied(cfd) = Len(served[cfd])
      BY <2>3, <2>4, <2>7 DEF Copied
    <3> QED BY <2>1, <2>5, <3>1, <3>2, ServedFrame
  <2> QED BY <2>6, <2>7
<1>13. GetOpen => (GetOpen /\ Listed(Name)) \/ (GetOpen /\ ~ Listed(Name))
  OBVIOUS
<1> QED BY <1>1, <1>2, <1>3, <1>4, <1>5, <1>6, <1>7, <1>8, <1>9, <1>10, <1>11, <1>12, <1>13
        DEF Next, Server, ClientSteps

\* Only the client that is served is written to, and connections stay closed.
LEMMA AnswerFrame ==
  ASSUME TypeOK, StageInv, [Next]_vars
  PROVE  /\ closed \subseteq closed' /\ asks' = asks
         /\ \A c \in closed : answer'[c] = answer[c]
         /\ ClientSteps \/ saved' = saved
<1>1. CASE ClientSteps
  BY <1>1, ClientFrame
<1>2. CASE UNCHANGED vars
  BY <1>2 DEF vars, clientVars
<1>3. CASE Server
  <2>1. closed \subseteq closed' /\ asks' = asks /\ saved' = saved
    BY <1>3 DEF Server, Accept, get_cmd, get_file_name, ReadField, BadRequest, get_message_size,
                list, delete, GetOpen, GetGone, GetChunk, PutOpen, PutChunk, PutEnd, Close,
                clientVars
  <2>2. CASE Accept \/ get_cmd \/ get_file_name \/ get_message_size \/ PutOpen \/ Close
    BY <2>1, <2>2 DEF Accept, get_cmd, get_file_name, ReadField, get_message_size, PutOpen, Close
  <2>3. CASE BadRequest \/ list \/ delete \/ GetGone
    BY <2>1, <2>3 DEF BadRequest, list, delete, GetGone, Reply, Busy, StageInv, TypeOK
  <2>4. CASE GetOpen \/ GetChunk
    BY <2>1, <2>4 DEF GetOpen, GetChunk, Reply, Busy, StageInv, TypeOK
  <2>5. CASE PutChunk \/ PutEnd
    BY <2>1, <2>5 DEF PutChunk, PutEnd, PutError, Reply, Busy, StageInv, TypeOK
  <2> QED BY <1>3, <2>2, <2>3, <2>4, <2>5 DEF Server
<1>4. CASE close_server
  BY <1>4 DEF close_server, clientVars, TypeOK
<1> QED BY <1>1, <1>2, <1>3, <1>4 DEF Next, ClientSteps

\* What is saved is not changed, nor is the answer it was taken from.
LEMMA NextSaved == ASSUME TypeOK, StageInv, SavedInv, [Next]_vars PROVE SavedInv'
<1>1. CASE saved' = saved
  BY <1>1, AnswerFrame DEF SavedInv
<1>2. CASE ClientSteps
  <2>1. UNCHANGED <<asks, answer, closed>>
    BY <1>2, ClientFrame
  <2>2. ASSUME NEW c \in Clients, asks[c].verb = "GET", c \in closed, Starts(answer[c], "OK"),
               saved' = [saved EXCEPT ![c] = SubSeq(answer[c], 3, Len(answer[c]))]
        PROVE  SavedInv'
    <3>1. saved'[c] = SubSeq(answer[c], 3, Len(answer[c]))
          /\ \A d \in Clients : d # c => saved'[d] = saved[d]
      BY <2>2 DEF TypeOK
    <3> QED BY <2>1, <2>2, <3>1 DEF SavedInv
  <2> QED BY <1>1, <1>2, <2>2, ClientFrame
<1> QED BY <1>1, <1>2, AnswerFrame

\* The invariant always holds.
LEMMA NonstopAlways == Spec => []NonstopInv
<1>1. Init => NonstopInv
  BY InitType, InitRest DEF NonstopInv
<1>2. NonstopInv /\ [Next]_vars => NonstopInv'
  BY NextType, NextStage, NextPut, NextGood, NextList, NextServed, NextSaved DEF NonstopInv
<1> QED BY <1>1, <1>2, PTL DEF Spec

-----------------------------------------------------------------------------
(***************************************************************************)
(* server.c: whatever requests are made, cut short, refused or undone,     *)
(* between requests every file of the directory is listed, and if no name  *)
(* is PUT twice the list holds exactly the stored names, each once.        *)
(***************************************************************************)
THEOREM ListingCorrect == Spec => []ListingAgrees
<1>1. NonstopInv => ListingAgrees
  <2> SUFFICES ASSUME NonstopInv, server = "accept" PROVE ListingAgrees
    BY DEF ListingAgrees
  <2>1. Partial = {}
    BY DEF Partial
  <2>2. files \in Seq(Names)
    BY DEF NonstopInv, TypeOK
  <2> QED BY <2>1, <2>2, NoDuplicatesCard DEF NonstopInv, ListInv, ListingAgrees, Once
<1> QED BY <1>1, NonstopAlways, PTL

(***************************************************************************)
(* put: between requests no file is partial, wherever a client stopped and *)
(* whatever size it had announced: a file holds all the bytes that a PUT   *)
(* promised, or none.                                                      *)
(***************************************************************************)
THEOREM PutCorrect == Spec => []NoPartialFile
<1>1. NonstopInv => NoPartialFile
  BY DEF NonstopInv, GoodInv, NoPartialFile, Good
<1> QED BY <1>1, NonstopAlways, PTL

(***************************************************************************)
(* get: what a client saves is the file as it was when the server opened   *)
(* it, or a prefix if the server was ended meanwhile, for all files and    *)
(* whatever other clients do between the request and the end of the        *)
(* answer.                                                                 *)
(***************************************************************************)
THEOREM GetCorrect == Spec => []SavesWhatWasServed
<1>1. NonstopInv => SavesWhatWasServed
  <2> SUFFICES ASSUME NonstopInv, NEW c \in Clients, saved[c] # Absent
               PROVE  \/ saved[c] = served[c]
                      \/ server = "ended" /\ IsPrefix(saved[c], served[c])
    BY DEF SavesWhatWasServed
  <2> USE DEF NonstopInv
  <2> DEFINE a == answer[c]
             s == served[c]
             m == Len(a) - 2
  <2>1. c \in closed /\ asks[c].verb = "GET" /\ Starts(a, "OK") /\ saved[c] = SubSeq(a, 3, Len(a))
    BY DEF SavedInv
  <2>2. a \in Seq(Words) /\ s \in Seq(Bytes) /\ Len(a) \in Nat /\ Len(s) \in Nat
    BY DEF TypeOK
  <2>3. /\ 0 <= m /\ m <= Len(s) /\ \A i \in 1..m : a[i + 2] = s[i]
        /\ m = Len(s) \/ server = "ended"
    BY <2>1 DEF ServedInv, Copied, StageInv, Busy
  <2>4. m \in Nat
    BY <2>2, <2>3
  <2> DEFINE u == SubSeq(a, 3, Len(a))
             v == SubSeq(s, 1, m)
  <2>5. u \in Seq(Words) /\ Len(u) = m /\ \A i \in 1..m : u[i] = a[i + 2]
    BY <2>2, <2>3, <2>4
  <2>6. v \in Seq(Bytes) /\ Len(v) = m /\ \A i \in 1..m : v[i] = s[i]
    BY <2>2, <2>3, <2>4
  <2>7. u = v
    <3>1. v \in Seq(Words)
      BY <2>6, WordSeqs
    <3> HIDE DEF u, v
    <3> QED BY <2>3, <2>5, <2>6, <3>1, SeqEqual
  <2>8. CASE m = Len(s)
    BY <2>1, <2>2, <2>7, <2>8, SubSeqFull
  <2>9. CASE server = "ended"
    <3>1. SubSeq(u, 1, Len(u)) = u
      BY <2>5, SubSeqFull
    <3> QED BY <2>1, <2>3, <2>5, <2>7, <2>9, <3>1 DEF IsPrefix
  <2> QED BY <2>3, <2>8, <2>9
<1> QED BY <1>1, NonstopAlways, PTL
=============================================================================
