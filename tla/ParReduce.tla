----------------------------- MODULE ParReduce -----------------------------
(***************************************************************************)
(* teaching_threads/par_reduce.c: the list is cut into one part for every  *)
(* thread, each thread reduces its part from base_case on, and the results *)
(* are reduced in turn.  A value is the sequence of list elements (named   *)
(* by their positions) that went into it, base_case the empty sequence: so *)
(* the result is right for every associative reducer with base_case as its *)
(* identity exactly if it is the whole list in order.                      *)
(***************************************************************************)
EXTENDS Integers, Sequences

CONSTANTS Calls    \* <<list_len, num_threads>> as passed to par_reduce

VARIABLES call,      \* the one of this behaviour
          num_threads, offset,
          step,      \* where par_reduce is: start, create, join, done or crashed
          created,   \* threads that have been created
          joined,    \* threads that have been joined
          next,      \* the position each thread comes to next
          last,      \* the position behind its part
          reduced_output,
          sum

vars == <<call, num_threads, offset, step, created, joined, next, last, reduced_output, sum>>

list_len == call[1]

Init == /\ call \in Calls
        /\ num_threads = call[2] /\ offset = 0 /\ step = "start" /\ created = 0 /\ joined = 0
        /\ next = <<>> /\ last = <<>> /\ reduced_output = <<>> /\ sum = <<>>

\* More threads than elements are halved; with no thread left the division
\* traps.
Divide == /\ step = "start"
          /\ LET n == IF num_threads > list_len THEN list_len \div 2 ELSE num_threads
             IN /\ num_threads' = n
                /\ IF n = 0 THEN step' = "crashed" /\ UNCHANGED offset
                            ELSE step' = "create" /\ offset' = list_len \div n
          /\ UNCHANGED <<call, created, joined, next, last, reduced_output, sum>>

\* The last thread gets what is left.
Create == /\ step = "create" /\ created < num_threads
          /\ LET start == IF created = 0 THEN 0 ELSE last[created]
             IN /\ next' = Append(next, start)
                /\ last' = Append(last, IF created = num_threads - 1 THEN list_len
                                        ELSE start + offset)
          /\ reduced_output' = Append(reduced_output, <<>>)
          /\ created' = created + 1
          /\ UNCHANGED <<call, num_threads, offset, step, joined, sum>>

\* One turn of the loop of par_reduce_start_routine.
Reduce(t) == /\ t \in DOMAIN next /\ next[t] < last[t]
             /\ reduced_output' = [reduced_output EXCEPT ![t] = Append(@, next[t])]
             /\ next' = [next EXCEPT ![t] = @ + 1]
             /\ UNCHANGED <<call, num_threads, offset, step, created, joined, last, sum>>

Join == /\ step = "create" /\ created = num_threads /\ joined < num_threads
        /\ next[joined + 1] >= last[joined + 1]
        /\ sum' = sum \o reduced_output[joined + 1]
        /\ joined' = joined + 1
        /\ UNCHANGED <<call, num_threads, offset, step, created, next, last, reduced_output>>

Return == /\ step = "create" /\ created = num_threads /\ joined = num_threads
          /\ step' = "done"
          /\ UNCHANGED <<call, num_threads, offset, created, joined, next, last, reduced_output,
                         sum>>

Main == Divide \/ Create \/ Join \/ Return

Next == Main \/ \E t \in 1..created : Reduce(t)

Spec == Init /\ [][Next]_vars

-----------------------------------------------------------------------------
(***************************************************************************)
(* par_reduce returns the reduction of the whole list, each element once   *)
(* and in order, however its length and the number of threads fit; it      *)
(* traps if there is no thread, or more threads than elements and fewer    *)
(* than two elements.                                                      *)
(***************************************************************************)
ReducesList == /\ step = "done" => sum = [i \in 1..list_len |-> i - 1]
               /\ step = "crashed" => call[2] = 0 \/ (list_len < 2 /\ call[2] > list_len)
=============================================================================
