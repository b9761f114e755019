------------------------------- MODULE Alloc -------------------------------
(***************************************************************************)
(* malloc/alloc.c: blocks taken from sbrk, and a doubly linked list of the *)
(* free ones.  A block is named by the address of its header, which holds  *)
(* the block's length; the node of a free block is at its end.             *)
(*                                                                         *)
(* "*(this->size)++" in free moves the pointer size of the node from the   *)
(* header to the payload, and "*(ptr->size)--" in remove_node moves it     *)
(* back.  So malloc compares the space it needs with the first word of the *)
(* payload: what the user left there, or, in a block that is all node,     *)
(* the pointer size itself.                                                *)
(*                                                                         *)
(* A user who has been given a block smaller than what was asked for       *)
(* overruns the next block; behaviours are not followed beyond that.       *)
(***************************************************************************)
EXTENDS Integers, FiniteSets, FiniteSetsExt

CONSTANTS Sizes,     \* what the user asks for, in bytes
          Words,     \* what the user writes
          MaxBreak,  \* bound on the heap
          NULL

VARIABLES mem,     \* the memory, a record of
                   \*   brk     the end of the heap,
                   \*   space   the header of every block,
                   \*   word    the first word of every payload,
                   \*   head, next, prev   the list
          owned,   \* what the user asked for, for every block in use
          wrote    \* history: the first word as the user left it

vars == <<mem, owned, wrote>>

Word == 8
Node == 3 * Word
\* A pointer read as a size: larger than any request.
Pointer == 2^30

With(f, b, v) == [i \in DOMAIN f \union {b} |-> IF i = b THEN v ELSE f[i]]
Without(f, b) == [i \in DOMAIN f \ {b} |-> f[i]]

Init == /\ mem = [brk |-> 0, space |-> <<>>, word |-> <<>>,
                  head |-> NULL, next |-> <<>>, prev |-> <<>>]
        /\ owned = <<>> /\ wrote = <<>>

Overrun == \E b \in DOMAIN owned : owned[b] > mem.space[b] - Word

-----------------------------------------------------------------------------
Space(n) == ((Max({n, Node}) + Word + Word - 1) \div Word) * Word

\* The nodes in the order of the list, with NULL behind the last.
Nodes(m) ==
    LET at[n \in 0..Cardinality(DOMAIN m.space)] ==
          IF n = 0 THEN m.head ELSE IF at[n - 1] = NULL THEN NULL ELSE m.next[at[n - 1]]
    IN at

\* The first node whose word says that the block is large enough, or NULL.
Search(m, n) ==
    LET at == Nodes(m)
        fits == {i \in DOMAIN at : at[i] # NULL /\ m.word[at[i]] >= Space(n)}
    IN IF fits = {} THEN NULL ELSE at[Min(fits)]

\* Mutant of remove_node: the head is not moved on.
RemoveKeepsHead(m, b) ==
    IF m.prev[b] # NULL
    THEN [m EXCEPT !.next[m.prev[b]] = m.next[b],
                   !.prev = IF m.next[b] = NULL THEN @ ELSE [@ EXCEPT ![m.next[b]] = m.prev[b]]]
    ELSE [m EXCEPT !.prev = IF m.next[b] = NULL THEN @ ELSE [@ EXCEPT ![m.next[b]] = NULL],
                   !.next[b] = NULL]

remove_node(m, b) ==
    IF m.prev[b] # NULL
    THEN [m EXCEPT !.next[m.prev[b]] = m.next[b],
                   !.prev = IF m.next[b] = NULL THEN @ ELSE [@ EXCEPT ![m.next[b]] = m.prev[b]]]
    ELSE [m EXCEPT !.head = m.next[b],
                   !.prev = IF m.next[b] = NULL THEN @ ELSE [@ EXCEPT ![m.next[b]] = NULL],
                   !.next[b] = NULL]

\* The block malloc(n) returns, and the memory it leaves.
Block(m, n) == IF Search(m, n) = NULL THEN m.brk ELSE Search(m, n)
malloc(m, n) ==
    IF Search(m, n) # NULL THEN remove_node(m, Search(m, n))
    ELSE [m EXCEPT !.brk = @ + Space(n), !.space = With(@, m.brk, Space(n)),
                   !.word = With(@, m.brk, 0),
                   !.next = With(@, m.brk, NULL), !.prev = With(@, m.brk, NULL)]

calloc(m, n) == [malloc(m, n) EXCEPT !.word[Block(m, n)] = 0]

\* The node covers the first word of the smallest blocks.
free(m, b) ==
    [m EXCEPT !.head = b, !.next[b] = m.head,
              !.prev = IF m.head = NULL THEN [@ EXCEPT ![b] = NULL]
                       ELSE [@ EXCEPT ![b] = NULL, ![m.head] = b],
              !.word[b] = IF m.space[b] = Word + Node THEN Pointer ELSE @]

\* The memory after realloc(b, n), and the block that is returned.  get_size
\* counts the header.  (realloc of NULL returns NULL and does nothing.)
realloc(m, b, n) ==
    IF n = 0 THEN [mem |-> free(m, b), block |-> b]
    ELSE IF n <= m.space[b] THEN [mem |-> m, block |-> b]
    ELSE [mem |-> free([malloc(m, n) EXCEPT !.word[Block(m, n)] = m.word[b]], b),
          block |-> Block(m, n)]

-----------------------------------------------------------------------------
\* The failure of sbrk is not handled, and not modelled.
Room(n) == Search(mem, n) # NULL \/ mem.brk + Space(n) <= MaxBreak

Allocate(n) == /\ Room(n)
               /\ mem' \in {malloc(mem, n), calloc(mem, n)}
               /\ owned' = With(owned, Block(mem, n), n)
               /\ wrote' = With(wrote, Block(mem, n), mem'.word[Block(mem, n)])

Free(b) == /\ mem' = free(mem, b)
           /\ owned' = Without(owned, b) /\ wrote' = Without(wrote, b)

\* To the user a block is gone once it has been reallocated to 0 bytes.
Reallocate(b, n) ==
    LET r == realloc(mem, b, n)
    IN /\ n <= mem.space[b] \/ Room(n)
       /\ mem' = r.mem
       /\ IF n = 0 THEN owned' = Without(owned, b) /\ wrote' = Without(wrote, b)
          ELSE /\ owned' = With(Without(owned, b), r.block, n)
               /\ wrote' = With(Without(wrote, b), r.block, wrote[b])

\* The user writes the first word of a block.
Write(b, v) == /\ mem' = [mem EXCEPT !.word[b] = v]
               /\ wrote' = [wrote EXCEPT ![b] = v]
               /\ UNCHANGED owned

Next == /\ ~Overrun
        /\ \/ \E n \in Sizes : Allocate(n)
           \/ \E b \in DOMAIN owned : \/ Free(b)
                                      \/ \E n \in Sizes \union {0} : Reallocate(b, n)
                                      \/ \E v \in Words : Write(b, v)

Spec == Init /\ [][Next]_vars

-----------------------------------------------------------------------------
FreeList == {Nodes(mem)[n] : n \in DOMAIN Nodes(mem)} \ {NULL}

(***************************************************************************)
(* Until a block too small has been handed out, the list of alloc.c holds  *)
(* every block that is not in use exactly once and is linked both ways,    *)
(* and no call changes what the user wrote in a block in use, realloc      *)
(* included when it moves the block.                                       *)
(***************************************************************************)
AllocSound ==
    ~Overrun =>
      /\ FreeList = DOMAIN mem.space \ DOMAIN owned
      /\ \A b \in FreeList : IF mem.prev[b] = NULL THEN b = mem.head
                                                 ELSE mem.next[mem.prev[b]] = b
      /\ \A b \in DOMAIN owned : mem.word[b] = wrote[b]

(***************************************************************************)
(* malloc "Allocates a block of size bytes of memory": no block in use is  *)
(* shorter than what its user asked for.                                   *)
(***************************************************************************)
BlocksLargeEnough == ~Overrun
=============================================================================
