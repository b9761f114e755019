------------------------------ MODULE Memcheck ------------------------------
(***************************************************************************)
(* mini_memcheck/mini_memcheck.c: wrappers of malloc, calloc, realloc and  *)
(* free that keep a list of the allocations with their sizes, two totals,  *)
(* and the number of invalid addresses.  An address names a block; the     *)
(* user's pointer is to its payload or, when mini_realloc returned curr    *)
(* and not curr + 1, to its metadata.  File names and instructions are     *)
(* left out.                                                               *)
(*                                                                         *)
(* When realloc moves a block the list still holds the old one, which is   *)
(* freed: behaviours are not followed beyond that.                         *)
(***************************************************************************)
EXTENDS Integers, Sequences, FiniteSetsExt, SequencesExt

CONSTANTS Addresses, RequestSizes, MaxCalls

VARIABLES list,     \* the allocations from head on: records of address and request_size
          total_memory_requested, total_memory_freed, invalid_addresses,
          heap,     \* the blocks the C library has handed out
          moved,    \* realloc has moved a block
          calls,    \* history: the calls so far
          invalid   \* history: the calls with a pointer to no allocated payload

totals == <<total_memory_requested, total_memory_freed, invalid_addresses>>
vars == <<list, totals, heap, moved, calls, invalid>>

Pointers == Addresses \X {"payload", "meta"}

Init == /\ list = <<>> /\ heap = {} /\ moved = FALSE
        /\ total_memory_requested = 0 /\ total_memory_freed = 0 /\ invalid_addresses = 0
        /\ calls = 0 /\ invalid = 0

\* Where the allocation of a payload is in the list, or 0.
Found(p) == LET hits == {i \in DOMAIN list : <<list[i].address, "payload">> = p}
            IN IF hits = {} THEN 0 ELSE Min(hits)

Count(p) == invalid' = IF p[2] = "payload" /\ p[1] \in heap THEN invalid ELSE invalid + 1

-----------------------------------------------------------------------------
\* mini_malloc and mini_calloc.  A request of 0 bytes returns NULL, and so
\* does one that malloc refuses.
mini_malloc(n) ==
    /\ \/ \E a \in Addresses \ heap :
            /\ n > 0
            /\ heap' = heap \union {a}
            /\ list' = <<[address |-> a, request_size |-> n]>> \o list
            /\ total_memory_requested' = total_memory_requested + n
       \/ UNCHANGED <<heap, list, total_memory_requested>>
    /\ UNCHANGED <<total_memory_freed, invalid_addresses, moved, invalid>>

\* Mutant of mini_free: the list is not mended behind its head.
FreeKeepsLink(p) ==
    LET i == Found(p)
    IN /\ Count(p)
       /\ IF i = 0
          THEN /\ invalid_addresses' = invalid_addresses + 1
               /\ UNCHANGED <<list, heap, total_memory_freed>>
          ELSE /\ list' = IF i = 1 THEN Tail(list) ELSE list
               /\ heap' = heap \ {list[i].address}
               /\ total_memory_freed' = total_memory_freed + list[i].request_size
               /\ UNCHANGED invalid_addresses
       /\ UNCHANGED <<total_memory_requested, moved>>

\* (mini_free of NULL does nothing.)
mini_free(p) ==
    LET i == Found(p)
    IN /\ Count(p)
       /\ IF i = 0
          THEN /\ invalid_addresses' = invalid_addresses + 1
               /\ UNCHANGED <<list, heap, total_memory_freed>>
          ELSE /\ list' = RemoveAt(list, i)
               /\ heap' = heap \ {list[i].address}
               /\ total_memory_freed' = total_memory_freed + list[i].request_size
               /\ UNCHANGED invalid_addresses
       /\ UNCHANGED <<total_memory_requested, moved>>

\* mini_realloc of a payload that is in the list to another size.
Resize(i, n) ==
    LET old == list[i].request_size
    IN /\ total_memory_requested' = total_memory_requested + Max({n - old, 0})
       /\ total_memory_freed' = total_memory_freed + Max({old - n, 0})
       /\ \/ /\ list' = [list EXCEPT ![i].request_size = n]
             /\ UNCHANGED <<heap, moved>>
          \/ /\ \E a \in Addresses \ heap : heap' = (heap \ {list[i].address}) \union {a}
             /\ moved' = TRUE
             /\ UNCHANGED list
       /\ UNCHANGED invalid_addresses

\* With the same size only the names change, and the user gets the metadata's
\* address.  (NULL and 0 bytes make it mini_malloc and mini_free.)
mini_realloc(p, n) ==
    \/ n = 0 /\ mini_free(p)
    \/ /\ n > 0 /\ Count(p)
       /\ LET i == Found(p)
          IN CASE i = 0 -> /\ invalid_addresses' = invalid_addresses + 1
                           /\ UNCHANGED <<list, heap, moved, total_memory_requested,
                                          total_memory_freed>>
               [] i > 0 /\ n # list[i].request_size -> Resize(i, n)
               [] OTHER -> UNCHANGED <<list, totals, heap, moved>>

Next == /\ ~moved /\ calls < MaxCalls
        /\ calls' = calls + 1
        /\ \/ \E n \in RequestSizes : mini_malloc(n)
           \/ \E p \in Pointers : \/ mini_free(p)
                                  \/ \E n \in RequestSizes : mini_realloc(p, n)

Spec == Init /\ [][Next]_vars

-----------------------------------------------------------------------------
\* The sizes of what is in the list.
Allocated == LET sum[i \in 0..Len(list)] ==
                   IF i = 0 THEN 0 ELSE sum[i - 1] + list[i].request_size
             IN sum[Len(list)]

(***************************************************************************)
(* As long as realloc leaves the blocks where they are, the list is what   *)
(* has been allocated, the totals differ by what is still allocated (the   *)
(* leak that is reported), and the calls with a pointer that is not valid  *)
(* are counted: double frees and pointers to freed or reused blocks        *)
(* included.                                                               *)
(***************************************************************************)
MemcheckTotals ==
    ~moved =>
      /\ {list[i].address : i \in DOMAIN list} = heap
      /\ total_memory_requested - total_memory_freed
           = Allocated
      /\ invalid_addresses = invalid
=============================================================================
