-------------------------------- MODULE Rope --------------------------------
(***************************************************************************)
(* parallel_make/parmake.c: worker threads (rope) take rules from a shared *)
(* queue, run their commands and queue the rules that depend on them.      *)
(* States of rules are read and written one at a time under a lock, so     *)
(* whatever a worker concludes from several of them may be stale when it   *)
(* acts.  The queue is the atomic FIFO that module Queue implements; NULL  *)
(* in it tells the workers to quit.                                        *)
(***************************************************************************)
EXTENDS Integers, FiniteSets, RuleGraph

CONSTANTS Workers,     \* the threads parmake can start
          Scenarios,   \* the makefiles they can be given (see below)
          NULL

(***************************************************************************)
(* What the workers start with: the dependencies, the rules with a command *)
(* that fails, the rules for which changed() returns 0, the threads, and   *)
(* what load_rules has left: the states and the valid goals.  changed()    *)
(* compares a target with the files of its dependencies, so a rule without *)
(* any is never up to date.  What is up to date is fixed: the commands do  *)
(* not touch files that other rules are compared with.                     *)
(***************************************************************************)
LoadedStates == {"DEFAULT", "UNPROCESSED", "IGNORED"}

\* load_rules marks nothing but what the goals need.
ScenarioOK(s) ==
    /\ s.deps \in [Rules -> Seq(Rules)]
    /\ \A r \in s.uptodate : s.deps[r] # <<>>
    /\ s.threads \subseteq Workers /\ IsFiniteSet(s.threads)
    /\ \A r \in Rules : Root \notin ToSet(s.deps[r])
    /\ s.loaded.state \in [Rules -> LoadedStates]
    /\ s.loaded.state[Root] = "DEFAULT"
    /\ \A r \in Rules : s.loaded.state[r] # "DEFAULT" => r \in NeededBy(s.deps)
    /\ s.loaded.valid \subseteq ToSet(s.deps[Root])

ASSUME RopeAssumption ==
    /\ IsFiniteSet(Rules)
    /\ NULL \notin Rules
    /\ \A s \in Scenarios : ScenarioOK(s)

VARIABLES scenario,   \* the one of this behaviour
          state, valid_goals, goal_total, goal_count,
          tasks,    \* the queue: rules and NULL
          pc, rule, \* where each worker is, and the rule it works on
          todo,     \* the neighbors or antineighbors its outer loop has left
          scan,     \* the antidependencies its inner loop has left
          good,     \* its local variable "good"
          tmp,      \* what it read of goal_count at line 172
          runs,     \* history: how often the commands of a rule were started
          built,    \* history: the rules whose state has been set to SUCCEEDED,
          failed    \* and to FAILED

globals == <<state, goal_count, tasks>>
fixed == <<scenario, valid_goals, goal_total>>
locals == <<rule, todo, scan, good, tmp>>
history == <<runs, built, failed>>
vars == <<globals, fixed, pc, locals, history>>

Dependencies(r) == scenario.deps[r]
Deps(r) == ToSet(Dependencies(r))
Antineighbors(r) == SetToSeq({s \in Rules : r \in Deps(s)})

\* The leaves that load_rules queues.
Leaves == {r \in Rules : Dependencies(r) = <<>> /\ scenario.loaded.state[r] = "UNPROCESSED"}

-----------------------------------------------------------------------------
\* The end of load_rules: with no valid goal NULL is queued first, then the
\* leaves in the (unspecified) order of the vertices of the graph.
Init == /\ scenario \in Scenarios
        /\ state = scenario.loaded.state
        /\ valid_goals = scenario.loaded.valid
        /\ goal_total = Cardinality(valid_goals)
        /\ \E leaves \in SetToSeqs(Leaves) :
             tasks = (IF valid_goals = {} THEN <<NULL>> ELSE <<>>) \o leaves
        /\ goal_count = 0
        /\ pc = [w \in Workers |-> IF w \in scenario.threads THEN "pull" ELSE "gone"]
        /\ rule = [w \in Workers |-> Root]
        /\ todo = [w \in Workers |-> <<>>] /\ scan = [w \in Workers |-> <<>>]
        /\ good = [w \in Workers |-> TRUE] /\ tmp = [w \in Workers |-> 0]
        /\ runs = [r \in Rules |-> 0] /\ built = {} /\ failed = {}

Goto(w, label) == pc' = [pc EXCEPT ![w] = label]
Set(f, w, v) == [f EXCEPT ![w] = v]

\* set_state, on the rule w works on.
set_state(w, s) == /\ state' = [state EXCEPT ![rule[w]] = s]
                   /\ built' = IF s = "SUCCEEDED" THEN built \union {rule[w]} ELSE built
                   /\ failed' = IF s = "FAILED" THEN failed \union {rule[w]} ELSE failed

queue_push(task) == tasks' = Append(tasks, task)

Pull(w) == /\ pc[w] = "pull" /\ tasks # <<>>
           /\ tasks' = Tail(tasks)
           /\ IF Head(tasks) = NULL
              THEN Goto(w, "quit") /\ UNCHANGED rule
              ELSE Goto(w, "claim") /\ rule' = Set(rule, w, Head(tasks))
           /\ UNCHANGED <<state, goal_count, fixed, todo, scan, good, tmp, history>>

\* Mutant of Quit: the NULL is not passed on.
QuitSilently(w) == /\ pc[w] = "quit"
                   /\ Goto(w, "gone")
                   /\ UNCHANGED <<globals, fixed, locals, history>>

\* Line 189: pass the NULL on and return.
Quit(w) == /\ pc[w] = "quit"
           /\ queue_push(NULL)
           /\ Goto(w, "gone")
           /\ UNCHANGED <<state, goal_count, fixed, locals, history>>

\* Lines 161-166 read the state and write PROCESSING in two critical sections.
Claim(w) == /\ pc[w] = "claim"
            /\ Goto(w, IF state[rule[w]] = "PROCESSING" THEN "pull" ELSE "mark")
            /\ UNCHANGED <<globals, fixed, locals, history>>

Mark(w) == /\ pc[w] = "mark"
           /\ set_state(w, "PROCESSING")
           /\ todo' = Set(todo, w, Dependencies(rule[w]))
           /\ Goto(w, "deps")
           /\ UNCHANGED <<goal_count, tasks, fixed, rule, scan, good, tmp, runs>>

\* Mutant of CheckDep: failures of dependencies are not looked at.
CheckDepSkips(w) == /\ pc[w] = "deps" /\ todo[w] # <<>>
                    /\ todo' = Set(todo, w, Tail(todo[w]))
                    /\ UNCHANGED <<globals, fixed, pc, rule, scan, good, tmp, history>>

\* check_failed_dependencies reads one dependency at a time.
CheckDep(w) == /\ pc[w] = "deps" /\ todo[w] # <<>>
               /\ todo' = Set(todo, w, Tail(todo[w]))
               /\ Goto(w, IF state[Head(todo[w])] = "FAILED" THEN "depfail" ELSE "deps")
               /\ UNCHANGED <<globals, fixed, rule, scan, good, tmp, history>>

DepFailed(w) == /\ pc[w] = "depfail"
                /\ set_state(w, "FAILED")
                /\ todo' = Set(todo, w, <<>>)
                /\ Goto(w, "deps")
                /\ UNCHANGED <<goal_count, tasks, fixed, rule, scan, good, tmp, runs>>

\* Line 168, and the start of the commands in execute.
Changed(w) == /\ pc[w] = "deps" /\ todo[w] = <<>>
              /\ IF rule[w] \in scenario.uptodate
                 THEN Goto(w, "uptodate") /\ UNCHANGED runs
                 ELSE /\ Goto(w, "running")
                      /\ runs' = [runs EXCEPT ![rule[w]] = @ + 1]
              /\ UNCHANGED <<globals, fixed, locals, built, failed>>

\* The commands end, with the first failure if there is one.
Finish(w) == /\ pc[w] = "running"
             /\ IF rule[w] \in scenario.failing THEN set_state(w, "FAILED")
                                                ELSE UNCHANGED <<state, built, failed>>
             /\ Goto(w, "settle")
             /\ UNCHANGED <<goal_count, tasks, fixed, locals, runs>>

\* Lines 118-121 of execute.
Settle(w) == /\ pc[w] = "settle"
             /\ Goto(w, IF state[rule[w]] = "FAILED" THEN "branch" ELSE "succeed")
             /\ UNCHANGED <<globals, fixed, locals, history>>

Succeed(w) == /\ pc[w] = "succeed"
              /\ set_state(w, "SUCCEEDED")
              /\ Goto(w, "branch")
              /\ UNCHANGED <<goal_count, tasks, fixed, locals, runs>>

\* Lines 171-172: the increment is not under the lock.
SkipRule(w) == /\ pc[w] = "uptodate"
               /\ set_state(w, "SUCCEEDED")
               /\ Goto(w, "racyread")
               /\ UNCHANGED <<goal_count, tasks, fixed, locals, runs>>

RacyRead(w) == /\ pc[w] = "racyread"
               /\ tmp' = Set(tmp, w, goal_count)
               /\ Goto(w, "racywrite")
               /\ UNCHANGED <<globals, fixed, rule, todo, scan, good, history>>

RacyWrite(w) == /\ pc[w] = "racywrite"
                /\ goal_count' = tmp[w] + 1
                /\ tmp' = Set(tmp, w, 0)
                /\ Goto(w, "branch")
                /\ UNCHANGED <<state, tasks, fixed, rule, todo, scan, good, history>>

\* Lines 174-179.
Branch(w) == /\ pc[w] = "branch"
             /\ LET s == state[rule[w]]
                IN /\ Goto(w, CASE s = "FAILED" -> "pushfailed"
                                [] s = "SUCCEEDED" -> "pushok"
                                [] OTHER -> "goal")
                   /\ todo' = Set(todo, w, IF s \in {"FAILED", "SUCCEEDED"}
                                           THEN Antineighbors(rule[w]) ELSE <<>>)
             /\ UNCHANGED <<globals, fixed, rule, scan, good, tmp, history>>

\* push_failed_antineighbors
PushFailed(w) == /\ pc[w] = "pushfailed" /\ todo[w] # <<>>
                 /\ queue_push(Head(todo[w]))
                 /\ todo' = Set(todo, w, Tail(todo[w]))
                 /\ UNCHANGED <<state, goal_count, fixed, pc, rule, scan, good, tmp,
                                history>>

\* push_successful_antineighbors: its outer loop skips what is not needed ...
NextAnti(w) == /\ pc[w] = "pushok" /\ todo[w] # <<>>
               /\ IF state[Head(todo[w])] = "DEFAULT"
                  THEN /\ todo' = Set(todo, w, Tail(todo[w]))
                       /\ UNCHANGED <<pc, scan, good>>
                  ELSE /\ scan' = Set(scan, w, Dependencies(Head(todo[w])))
                       /\ good' = Set(good, w, TRUE)
                       /\ Goto(w, "scan")
                       /\ UNCHANGED todo
               /\ UNCHANGED <<globals, fixed, rule, tmp, history>>

\* ... its inner loop looks at one antidependency at a time ...
ScanAnti(w) == /\ pc[w] = "scan" /\ scan[w] # <<>>
               /\ scan' = Set(scan, w, Tail(scan[w]))
               /\ good' = Set(good, w, good[w] /\ state[Head(scan[w])] = "SUCCEEDED")
               /\ UNCHANGED <<globals, fixed, pc, rule, todo, tmp, history>>

\* Mutant of PushOk: the antineighbor is queued whatever was found.
PushAlways(w) == /\ pc[w] = "scan" /\ scan[w] = <<>>
                 /\ queue_push(Head(todo[w]))
                 /\ todo' = Set(todo, w, Tail(todo[w]))
                 /\ good' = Set(good, w, TRUE)
                 /\ Goto(w, "pushok")
                 /\ UNCHANGED <<state, goal_count, fixed, rule, scan, tmp, history>>

\* ... and the antineighbor is queued if all had succeeded when looked at.
PushOk(w) == /\ pc[w] = "scan" /\ scan[w] = <<>>
             /\ IF good[w] THEN queue_push(Head(todo[w])) ELSE UNCHANGED tasks
             /\ todo' = Set(todo, w, Tail(todo[w]))
             /\ good' = Set(good, w, TRUE)
             /\ Goto(w, "pushok")
             /\ UNCHANGED <<state, goal_count, fixed, rule, scan, tmp, history>>

\* Mutant of CountGoal: every rule is counted as a goal.
CountAll(w) == /\ \/ pc[w] = "goal"
                  \/ pc[w] \in {"pushfailed", "pushok"} /\ todo[w] = <<>>
               /\ goal_count' = goal_count + 1
               /\ Goto(w, "compare")
               /\ UNCHANGED <<state, tasks, fixed, locals, history>>

\* Lines 180-184.
CountGoal(w) == /\ \/ pc[w] = "goal"
                   \/ pc[w] \in {"pushfailed", "pushok"} /\ todo[w] = <<>>
                /\ goal_count' = IF rule[w] \in valid_goals THEN goal_count + 1
                                                            ELSE goal_count
                /\ Goto(w, "compare")
                /\ UNCHANGED <<state, tasks, fixed, locals, history>>

\* Lines 185-187.
Compare(w) == /\ pc[w] = "compare"
              /\ IF goal_count = goal_total THEN queue_push(NULL) ELSE UNCHANGED tasks
              /\ Goto(w, "pull")
              /\ UNCHANGED <<state, goal_count, fixed, locals, history>>

Step(w) == \/ Pull(w) \/ Quit(w) \/ Claim(w) \/ Mark(w) \/ CheckDep(w)
           \/ DepFailed(w) \/ Changed(w) \/ Finish(w) \/ Settle(w) \/ Succeed(w)
           \/ SkipRule(w) \/ RacyRead(w) \/ RacyWrite(w) \/ Branch(w)
           \/ PushFailed(w) \/ NextAnti(w) \/ ScanAnti(w) \/ PushOk(w)
           \/ CountGoal(w) \/ Compare(w)

Next == \E w \in Workers : Step(w)

Spec == Init /\ [][Next]_vars

\* Workers keep running, and commands end.
FairSpec == Spec /\ \A w \in Workers : WF_vars(Step(w))

-----------------------------------------------------------------------------
Needed == NeededBy(scenario.deps)
Finished == \A w \in Workers : pc[w] = "gone"

\* All commands succeed, and nothing is up to date.
Clean == scenario.failing = {} /\ scenario.uptodate = {}
\* No two workers can complete the dependencies of one rule together.
Solo == Cardinality(scenario.threads) <= 1
Chain == \A r \in Rules \ {Root} : Len(Dependencies(r)) <= 1
NoRace == Solo \/ Chain

(***************************************************************************)
(* "make sure dependencies are satisifed before rules!" (testfile2): when  *)
(* the commands of a rule run, every dependency has been built, although   *)
(* rope decides that from states it read one at a time; and "only run      *)
(* descendents of the goals and nothing more" (testfile9); as long as no   *)
(* command fails.                                                          *)
(***************************************************************************)
DependenciesFirst == \A w \in Workers :
    pc[w] = "running" /\ scenario.failing = {} =>
        rule[w] \in Needed /\ Deps(rule[w]) \subseteq built

(***************************************************************************)
(* No worker quits before every goal has been built: the NULL that rope    *)
(* pushes when goal_count reaches goal_total does not come too early.      *)
(* With a race it does: a goal that two workers queue, run and count lets  *)
(* the other goals go.                                                     *)
(***************************************************************************)
QuitMeansBuilt ==
    Clean /\ NoRace /\ (\E w \in scenario.threads : pc[w] = "gone") =>
        valid_goals \subseteq built

(***************************************************************************)
(* Failure spreads: check_failed_dependencies and push_failed_antineighbors*)
(* leave no rule SUCCEEDED above a dependency that has FAILED.  A rule     *)
(* that is up to date is set SUCCEEDED whatever its dependencies are, and  *)
(* with a race a rule can run while a failed dependency of it, queued a    *)
(* second time, is PROCESSING again.  The sentinel is no rule of the       *)
(* makefile: its state tells nobody anything.                              *)
(***************************************************************************)
FailureSpreads == NoRace /\ scenario.uptodate = {} =>
    \A r \in Rules \ {Root} : state[r] = "SUCCEEDED" => \A d \in Deps(r) : state[d] # "FAILED"

(***************************************************************************)
(* parmake finishes: every worker leaves the loop of rope.                 *)
(***************************************************************************)
Terminates == <>Finished

(***************************************************************************)
(* parmake finishes if one worker runs, or if no two can complete the      *)
(* dependencies of one rule together.                                      *)
(***************************************************************************)
TerminatesWithoutRace == Clean /\ NoRace ~> Finished
=============================================================================
