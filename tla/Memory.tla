------------------------------- MODULE Memory -------------------------------
(***************************************************************************)
(* The two programs that keep lists of blocks of memory: the allocator and *)
(* the leak checker.  They do not interact; each has its own variables.    *)
(***************************************************************************)
EXTENDS Integers, Sequences, FiniteSets

CONSTANTS AllocSizes, AllocWords, MaxBreak,   \* of the allocator
          Addresses, RequestSizes, MaxCalls,  \* of the leak checker
          None                                \* NULL

\* Sizes are unsigned, and NULL is the address of no block.
ASSUME MemoryAssumption ==
    /\ AllocSizes \subseteq Nat /\ RequestSizes \subseteq Nat
    /\ IsFiniteSet(Addresses)
    /\ None \notin Nat

VARIABLES mem, owned, filled,
          list, total_memory_requested, total_memory_freed, invalid_addresses, heap, moved,
          calls, invalid

allocVars == <<mem, owned, filled>>
checkVars == <<list, total_memory_requested, total_memory_freed, invalid_addresses, heap, moved,
               invalid>>

A == INSTANCE Alloc WITH Sizes <- AllocSizes, Words <- AllocWords, NULL <- None, wrote <- filled

M == INSTANCE Memcheck

-----------------------------------------------------------------------------
(***************************************************************************)
(* alloc.c loses no block, hands none out twice and keeps what is in the   *)
(* blocks in use (AllocSound of Alloc).                                    *)
(***************************************************************************)
AllocSound == A!AllocSound

(***************************************************************************)
(* malloc "Allocates a block of size bytes of memory" (alloc.c, line 87):  *)
(* no block in use is shorter than what was asked for.                     *)
(***************************************************************************)
BlocksLargeEnough == A!BlocksLargeEnough

(***************************************************************************)
(* mini_memcheck.c keeps true totals and counts the invalid pointers       *)
(* (MemcheckTotals of Memcheck).                                           *)
(***************************************************************************)
MemcheckTotals == M!MemcheckTotals
=============================================================================
