------------------------------- MODULE Vector -------------------------------
(***************************************************************************)
(* vector/vector.c: a growing array of pointers.  A vector either owns its *)
(* elements (its constructors allocate an object and its destructor frees  *)
(* it) or, with the shallow defaults, holds pointers of its user.          *)
(*                                                                         *)
(* The operations are functions from vectors to vectors, as one calls the  *)
(* other.  Elements that are passed in do not belong to the vector.        *)
(***************************************************************************)
EXTENDS Integers, Sequences, FiniteSets, FiniteSetsExt, SequencesExt

CONSTANTS INITIAL_CAPACITY,
          MaxSize,    \* bound: the longest vector
          Values,     \* what the user stores
          Default,    \* what a default constructor makes
          Junk        \* what is in memory nobody has written

GROWTH_FACTOR == 2
Objects == 1..MaxSize

VARIABLES vec,        \* the vector, and the objects its constructors have made
          live,       \* before vector_destroy
          erased,     \* whether vector_erase has been called
          expected    \* history: what the user has stored, as a sequence

vars == <<vec, live, erased, expected>>

\* get_new_capacity: the first power that meets the target.
get_new_capacity(target) == Min({c \in {GROWTH_FACTOR ^ k : k \in 0..target} : c >= target})

\* vector_create
Init == /\ vec \in [owning : BOOLEAN, size : {0}, capacity : {INITIAL_CAPACITY},
                    array : {[i \in 0..INITIAL_CAPACITY - 1 |-> Junk]},
                    heap : {{}}, value : {[o \in Objects |-> Default]}, wild : {FALSE}]
        /\ live = TRUE /\ erased = FALSE
        /\ expected = <<>>

\* The destructor is called on what is in the positions S.
Destroyed(v, S) ==
    LET objects == {v.array[i] : i \in S}
    IN IF v.owning
       THEN [v EXCEPT !.heap = @ \ objects,
                      !.wild = @ \/ ~(objects \subseteq v.heap)
                                 \/ Cardinality(objects) < Cardinality(S)]
       ELSE v

\* A constructor is called for each of the positions S.
Rank(x, S) == Cardinality({y \in S : y < x})
Constructed(v, S, x) ==
    LET free == Objects \ v.heap
        object(i) == CHOOSE o \in free : Rank(o, free) = Rank(i, S)
        made == {object(i) : i \in S}
    IN IF v.owning
       THEN [v EXCEPT !.array = [i \in DOMAIN @ |-> IF i \in S THEN object(i) ELSE @[i]],
                      !.heap = @ \union made,
                      !.value = [o \in Objects |-> IF o \in made THEN x ELSE @[o]]]
       ELSE [v EXCEPT !.array = [i \in DOMAIN @ |-> IF i \in S THEN x ELSE @[i]]]

vector_reserve(v, n) ==
    IF n <= v.capacity THEN v
    ELSE LET c == get_new_capacity(n)
         IN [v EXCEPT !.capacity = c,
                      !.array = [i \in 0..c - 1 |-> IF i \in DOMAIN @ THEN @[i] ELSE Junk]]

vector_resize(v, n) ==
    IF n <= v.size
    THEN [Destroyed(v, n..v.size - 1) EXCEPT !.size = n]
    ELSE [Constructed(vector_reserve(v, n), v.size..n - 1, Default) EXCEPT !.size = n]

vector_set(v, position, x) == Constructed(Destroyed(v, {position}), {position}, x)

vector_push_back(v, x) == vector_set(vector_resize(v, v.size + 1), v.size, x)

vector_pop_back(v) == vector_resize(v, v.size - 1)

\* Mutant: the default element at the end is not destroyed before the others
\* are moved over it.
InsertLeaks(v, position, x) ==
    LET w == vector_resize(v, v.size + 1)
        moved == [w EXCEPT !.array = [i \in DOMAIN @ |->
                    IF i \in position + 1..v.size THEN @[i - 1] ELSE @[i]]]
    IN Constructed(moved, {position}, x)

vector_insert(v, position, x) ==
    LET w == Destroyed(vector_resize(v, v.size + 1), {v.size})
        moved == [w EXCEPT !.array = [i \in DOMAIN @ |->
                    IF i \in position + 1..v.size THEN @[i - 1] ELSE @[i]]]
    IN Constructed(moved, {position}, x)

\* The loop reads one position too far, perhaps beyond the array, and
\* vector_resize calls the destructor on what it found there.
vector_erase(v, position) ==
    LET w == Destroyed(v, {position})
        At(i) == IF i \in DOMAIN w.array THEN w.array[i] ELSE Junk
        moved == [w EXCEPT !.array = [i \in DOMAIN @ |->
                    IF i \in position..v.size - 1 THEN At(i + 1) ELSE @[i]]]
    IN vector_resize(moved, v.size - 1)

vector_clear(v) == vector_resize(v, 0)

-----------------------------------------------------------------------------
\* The calls of a user.  What happens to a vector that owns its elements
\* after vector_erase is undefined, and not followed.
Usable == live /\ ~(vec.owning /\ erased)

Becomes(v, s) == /\ vec' = v
                 /\ expected' = s

Resize(n) == /\ Usable
             /\ Becomes(vector_resize(vec, n),
                        [i \in 1..n |-> IF i <= Len(expected) THEN expected[i] ELSE Default])
             /\ UNCHANGED <<live, erased>>

Reserve(n) == /\ Usable
              /\ Becomes(vector_reserve(vec, n), expected)
              /\ UNCHANGED <<live, erased>>

Set(position, x) == /\ Usable
                    /\ Becomes(vector_set(vec, position, x),
                               ReplaceAt(expected, position + 1, x))
                    /\ UNCHANGED <<live, erased>>

PushBack(x) == /\ Usable /\ vec.size < MaxSize
               /\ Becomes(vector_push_back(vec, x), Append(expected, x))
               /\ UNCHANGED <<live, erased>>

PopBack == /\ Usable /\ vec.size # 0
           /\ Becomes(vector_pop_back(vec), Front(expected))
           /\ UNCHANGED <<live, erased>>

Insert(position, x) == /\ Usable /\ vec.size < MaxSize
                       /\ Becomes(vector_insert(vec, position, x),
                                  InsertAt(expected, position + 1, x))
                       /\ UNCHANGED <<live, erased>>

Erase(position) == /\ Usable
                   /\ Becomes(vector_erase(vec, position), RemoveAt(expected, position + 1))
                   /\ erased' = TRUE
                   /\ UNCHANGED live

Clear == /\ Usable
         /\ Becomes(vector_clear(vec), <<>>)
         /\ UNCHANGED <<live, erased>>

vector_destroy == /\ Usable
                  /\ Becomes(vector_clear(vec), <<>>)
                  /\ live' = FALSE
                  /\ UNCHANGED erased

Next == \/ \E n \in 0..MaxSize : Resize(n) \/ Reserve(n)
        \/ \E x \in Values : \/ PushBack(x)
                             \/ \E i \in 0..vec.size - 1 : Set(i, x)
                             \/ \E i \in 0..vec.size : Insert(i, x)
        \/ \E i \in 0..vec.size - 1 : Erase(i)
        \/ PopBack \/ Clear \/ vector_destroy

Spec == Init /\ [][Next]_vars

-----------------------------------------------------------------------------
Positions == 0..vec.size - 1
Contents == [i \in 1..vec.size |->
               IF vec.owning THEN vec.value[vec.array[i - 1]] ELSE vec.array[i - 1]]

(***************************************************************************)
(* After any calls the elements are the ones the user stored, in order,    *)
(* within the capacity and the array; a vector that owns its elements has  *)
(* destroyed every other object it ever made, none of them twice, as long  *)
(* as vector_erase is not used.                                            *)
(***************************************************************************)
KeepsElements ==
    ~(vec.owning /\ erased) =>
        /\ vec.size <= vec.capacity /\ DOMAIN vec.array = 0..vec.capacity - 1
        /\ Contents = expected
        /\ vec.owning => /\ ~vec.wild
                         /\ vec.heap = {vec.array[i] : i \in Positions}
                         /\ Cardinality(vec.heap) = vec.size
=============================================================================
