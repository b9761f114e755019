---------------------------- MODULE WorkSharing ----------------------------
(***************************************************************************)
(* The programs whose threads divide up work: both password crackers and   *)
(* the parallel reduce.  They do not interact; each has its own variables. *)
(***************************************************************************)
EXTENDS Integers, Sequences, FiniteSets

CONSTANTS Crackers,          \* the threads of cracker1.c
          Strings1, Inputs1, \* its number of strings and its inputs
          num_searchers,     \* the number of threads of cracker2.c
          Strings2, Inputs2,
          ReduceCalls,       \* of par_reduce: the list's length and the threads
          None               \* a password that is not among the strings

\* There is a string, and a password is one of the strings or none of them.
ASSUME WorkSharingAssumption ==
    /\ IsFiniteSet(Crackers) /\ None \notin Nat
    /\ Strings1 \in Nat \ {0} /\ Inputs1 \subseteq Seq((0..Strings1 - 1) \union {None})
    /\ Strings2 \in Nat /\ Inputs2 \subseteq Seq((0..Strings2 - 1) \union {None})
    /\ num_searchers \in Nat \ {0}
    /\ ReduceCalls \subseteq Nat \X Nat

VARIABLES input, jobs, parent, total, cracked, ended, loc, task, key, hash_count, num_found, reports,
          passwords, user, start, found, hashcount, where, tried, tmp, printed,
          call, num_threads, offset, step, created, merged, next, last, reduced_output, sum

cracker1Vars == <<input, jobs, parent, total, cracked, ended, loc, task, key, hash_count, num_found,
                  reports>>
cracker2Vars == <<passwords, user, start, found, hashcount, where, tried, tmp, printed>>
reduceVars == <<call, num_threads, offset, step, created, merged, next, last, reduced_output, sum>>

C1 == INSTANCE Cracker1 WITH Threads <- Crackers, Size <- Strings1, Inputs <- Inputs1,
        main <- parent, joined <- ended, pc <- loc

C2 == INSTANCE Cracker2 WITH Workers <- 1..num_searchers, Size <- Strings2, Inputs <- Inputs2,
        input <- passwords, main <- start, pc <- where, at <- tried

R == INSTANCE ParReduce WITH Calls <- ReduceCalls, joined <- merged

-----------------------------------------------------------------------------
(***************************************************************************)
(* Threads that divide up work report it rightly: every job of cracker1.c  *)
(* is reported once and rightly, every summary of cracker2.c is right, and *)
(* par_reduce.c reduces the whole list in order (EachReportedOnce,         *)
(* SummariesRight and ReducesList).                                        *)
(***************************************************************************)
WorkDivided == C1!EachReportedOnce /\ C2!SummariesRight /\ R!ReducesList
=============================================================================
