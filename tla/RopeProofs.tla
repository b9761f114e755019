---------------------------- MODULE RopeProofs ----------------------------
(***************************************************************************)
(* Theorems about the workers of parallel_make, module Rope, for every     *)
(* finite set of rules, every makefile and any number of threads.  The     *)
(* inductive invariant RopeInv has one part per thing that rope and its    *)
(* helpers rely on without holding the lock across it.                     *)
(*                                                                         *)
(* LoopInv, HistoryInv and DepInv hold whatever the threads do: a rule is  *)
(* queued by push_successful_antineighbors only after each dependency has  *)
(* been built, because SUCCEEDED, once read, stays true of the history.    *)
(*                                                                         *)
(* PhaseInv, OnceInv, GoalInv and FailInv need NoRace: a rule with two     *)
(* dependencies that two workers finish together is queued twice, and what *)
(* rope concludes from the state of such a rule is wrong.  Under NoRace no *)
(* two workers hold one rule, and a rule is queued only once it has had    *)
(* its turn with all its dependencies.                                     *)
(***************************************************************************)
EXTENDS Rope, FiniteSetTheorems, SequenceTheorems, TLAPS

\* The values of rule_t.state.
States == LoadedStates \union {"PROCESSING", "FAILED", "SUCCEEDED"}
\* The labels of rope and its helpers.
Labels == {"pull", "quit", "gone", "claim", "mark", "deps", "depfail", "running", "settle",
           "succeed", "uptodate", "racyread", "racywrite", "branch", "pushfailed", "pushok",
           "scan", "goal", "compare"}
\* The labels inside the loops over the antineighbors.
Pushing == {"pushfailed", "pushok", "scan"}
\* The rules a makefile can name.
Targets == Rules \ {Root}

\* The type invariant of module Rope; the scenario is one of those given.
TypeOK == /\ scenario \in Scenarios
          /\ valid_goals = scenario.loaded.valid
          /\ goal_total = Cardinality(valid_goals)
          /\ state \in [Rules -> States]
          /\ goal_count \in Nat
          /\ tasks \in Seq(Rules \union {NULL})
          /\ pc \in [Workers -> Labels]
          /\ rule \in [Workers -> Rules]
          /\ todo \in [Workers -> Seq(Rules)]
          /\ scan \in [Workers -> Seq(Rules)]
          /\ good \in [Workers -> BOOLEAN]
          /\ tmp \in [Workers -> Nat]
          /\ runs \in [Rules -> Nat]
          /\ built \subseteq Rules /\ failed \subseteq Rules

\* Worker w has taken r from the queue and is not yet done with it.
Holds(w, r) == pc[w] \notin {"pull", "quit", "gone"} /\ rule[w] = r
\* r is in the queue.
Queued(r) == r \in ToSet(tasks)

\* What the loops have left belongs to the rule of the worker.
LoopOK(w) ==
    /\ pc[w] # "gone" => w \in scenario.threads
    /\ pc[w] \in {"uptodate", "racyread", "racywrite"} => rule[w] \in scenario.uptodate
    /\ pc[w] = "deps" => ToSet(todo[w]) \subseteq Deps(rule[w])
    /\ pc[w] \in Pushing => /\ IsInjective(todo[w])
                            /\ \A s \in ToSet(todo[w]) : rule[w] \in Deps(s)
    /\ pc[w] = "scan" => /\ todo[w] # <<>>
                         /\ good[w] => Deps(Head(todo[w])) \subseteq built \union ToSet(scan[w])
\* LoopOK of every worker.
LoopInv == \A w \in Workers : LoopOK(w)

\* The histories record the states: what is SUCCEEDED has been built, and
\* what is FAILED has failed.
HistoryInv == \A r \in Rules : /\ state[r] = "SUCCEEDED" => r \in built
                               /\ state[r] = "FAILED" => r \in failed

\* r is below a goal and all it depends on has been built.
Ready(r) == r \in Needed /\ Deps(r) \subseteq built
\* As long as no command fails, what is queued or held is ready.
DepInv == scenario.failing = {} =>
    /\ failed = {}
    /\ \A r \in Rules : state[r] # "DEFAULT" => r \in Needed
    /\ \A r \in Rules : Queued(r) => Ready(r)
    /\ \A w \in Workers : /\ pc[w] \notin {"depfail", "pushfailed"}
                          /\ Holds(w, rule[w]) => Ready(rule[w])
                          /\ pc[w] = "scan" => Head(todo[w]) \in Needed

\* The states a rule can be in while a worker is at a label.
PhaseOK(w) == LET s == state[rule[w]] IN
    /\ pc[w] \in {"depfail", "succeed"} => s = "PROCESSING"
    /\ pc[w] = "deps" => s = "PROCESSING" \/ (s = "FAILED" /\ todo[w] = <<>>)
    /\ pc[w] \in {"running", "settle", "uptodate"} => s \in {"PROCESSING", "FAILED"}
    /\ pc[w] \in {"racyread", "racywrite", "pushok", "scan"} => s = "SUCCEEDED"
    /\ pc[w] = "pushfailed" => s = "FAILED"
    /\ pc[w] \in {"branch", "compare"} => s \in {"FAILED", "SUCCEEDED"}
    /\ pc[w] # "goal"

\* Without a race no two workers hold one rule, and its state is the one that
\* the worker has last written or read.
PhaseInv == NoRace =>
    /\ \A v, w \in Workers, r \in Targets : Holds(v, r) /\ Holds(w, r) => v = w
    /\ \A w \in Workers : rule[w] # Root => PhaseOK(w)

\* r is at most once in the sequence s.
AtMostOnce(s, r) == \A i, j \in DOMAIN s : s[i] = r /\ s[j] = r => i = j

\* The runs in which a rule is never queued twice.  (A worker alone queues the
\* rule above two failed dependencies twice.)
Once == Chain \/ (Solo /\ scenario.failing = {})
\* Some worker has set the state of r.
Begun(r) == state[r] \notin LoadedStates
\* r has left the state in which load_rules put it, or is about to.
Used(r) == Queued(r) \/ (\E w \in Workers : Holds(w, r)) \/ Begun(r)

\* r has had its turn with d
Served(d, r) == /\ state[d] \in {"FAILED", "SUCCEEDED"}
                /\ \A w \in Workers : Holds(w, d) => /\ pc[w] \in Pushing \union {"goal", "compare"}
                                                     /\ r \notin ToSet(todo[w])

\* A rule is queued once: not while it is held or after it has begun, and only
\* after its turn with each dependency.
OnceOK(r) ==
    /\ AtMostOnce(tasks, r)
    /\ \A w \in Workers : Holds(w, r) => ~Queued(r)
    /\ Queued(r) => ~Begun(r)
    /\ \A w \in Workers : Holds(w, r) /\ pc[w] \in {"claim", "mark"} => ~Begun(r)
    /\ r \in built => state[r] = "SUCCEEDED"
    /\ Used(r) => \A d \in Deps(r) : Served(d, r)
\* OnceOK of every rule a makefile can name.
OnceInv == Once => \A r \in Targets : OnceOK(r)

\* The goals that goal_count stands for: built, and past line 184.
Counted == {g \in valid_goals : /\ state[g] = "SUCCEEDED"
                                /\ \A w \in Workers : Holds(w, g) => pc[w] = "compare"}
\* goal_count is the number of the counted goals; so NULL is in the queue, or
\* has been taken from it, only when all of them have been built.
GoalInv == Clean /\ NoRace =>
    /\ goal_count = Cardinality(Counted)
    /\ NULL \in ToSet(tasks) \/ (\E w \in scenario.threads : pc[w] \in {"quit", "gone"}) =>
         valid_goals \subseteq built

\* r has to fail: by a command of its own or a failed dependency.
Hopeless(r) == r \in scenario.failing \/ \E d \in Deps(r) \ {r} : d \in failed
\* r may succeed.
Sound(r) == r \notin scenario.failing /\ Deps(r) \subseteq built
\* Nothing is both built and failed, what is queued is either fit to run or has
\* to fail, and a rule that has failed is FAILED unless it is processed again.
FailRule(r) ==
    /\ r \in built => Sound(r)
    /\ r \in failed => Hopeless(r) /\ r \notin built
    /\ Queued(r) => Deps(r) \subseteq built \/ Hopeless(r)
    /\ r \in failed => \/ state[r] = "FAILED"
                       \/ \E w \in Workers : Holds(w, r) /\ pc[w] \in {"deps", "depfail", "running"}
\* A worker past check_failed_dependencies knows of a failed dependency, or there
\* is none; one that is about to write SUCCEEDED is right to do so.
FailWorker(w) == LET r == rule[w] IN
    /\ pc[w] \in {"claim", "mark"} => Deps(r) \subseteq built \/ Hopeless(r)
    /\ pc[w] = "deps" => \/ r \in scenario.failing \/ Deps(r) \subseteq built
                         \/ state[r] = "FAILED" \/ \E f \in ToSet(todo[w]) \ {r} : f \in failed
    /\ pc[w] = "depfail" => \E f \in Deps(r) \ {r} : f \in failed
    /\ pc[w] = "running" => r \in scenario.failing \/ Deps(r) \subseteq built \/ state[r] = "FAILED"
    /\ pc[w] = "settle" => state[r] = "FAILED" \/ Sound(r)
    /\ pc[w] = "succeed" => Sound(r) /\ r \notin failed
\* FailRule of every rule and FailWorker of every worker.
FailInv == NoRace /\ scenario.uptodate = {} =>
    /\ \A r \in Targets : FailRule(r)
    /\ \A w \in Workers : rule[w] # Root => FailWorker(w)

-----------------------------------------------------------------------------
\* What Append, Head and Tail do to the elements of a sequence.
LEMMA SeqFacts ==
  ASSUME NEW T, NEW s \in Seq(T)
  PROVE  /\ DOMAIN s = 1..Len(s) /\ Len(s) \in Nat
         /\ ToSet(s) \subseteq T
         /\ \A e \in T : Append(s, e) \in Seq(T) /\ ToSet(Append(s, e)) = ToSet(s) \union {e}
         /\ s # <<>> => /\ Tail(s) \in Seq(T) /\ Head(s) \in T
                        /\ ToSet(s) = {Head(s)} \union ToSet(Tail(s))
<1>1. DOMAIN s = 1..Len(s) /\ Len(s) \in Nat /\ ToSet(s) = {s[i] : i \in 1..Len(s)}
  BY DEF ToSet
<1>2. ASSUME NEW e \in T
      PROVE  Append(s, e) \in Seq(T) /\ ToSet(Append(s, e)) = ToSet(s) \union {e}
  <2>1. /\ Append(s, e) \in Seq(T) /\ DOMAIN Append(s, e) = 1..Len(s) + 1
        /\ Append(s, e)[Len(s) + 1] = e
        /\ \A i \in 1..Len(s) : Append(s, e)[i] = s[i]
    OBVIOUS
  <2>2. ToSet(Append(s, e)) = {Append(s, e)[i] : i \in 1..Len(s) + 1}
    BY <2>1 DEF ToSet
  <2>3. 1..Len(s) + 1 = 1..Len(s) \union {Len(s) + 1}
    BY <1>1
  <2> QED BY <1>1, <2>1, <2>2, <2>3
<1>3. ASSUME s # <<>>
      PROVE  /\ Tail(s) \in Seq(T) /\ Head(s) \in T
             /\ ToSet(s) = {Head(s)} \union ToSet(Tail(s))
  <2>1. /\ Tail(s) \in Seq(T) /\ DOMAIN Tail(s) = 1..Len(s) - 1 /\ Head(s) = s[1] /\ Len(s) > 0
        /\ \A i \in 1..Len(s) - 1 : Tail(s)[i] = s[i + 1]
    BY <1>3
  <2>2. ToSet(Tail(s)) = {Tail(s)[i] : i \in 1..Len(s) - 1}
    BY <2>1 DEF ToSet
  <2>3. ToSet(Tail(s)) \subseteq ToSet(s) /\ Head(s) \in ToSet(s)
    BY <1>1, <2>1, <2>2
  <2>4. ASSUME NEW i \in 1..Len(s) PROVE s[i] \in {Head(s)} \union ToSet(Tail(s))
    <3>1. CASE i = 1
      BY <3>1, <2>1
    <3>2. CASE i # 1
      <4>1. i - 1 \in 1..Len(s) - 1 /\ Tail(s)[i - 1] = s[i]
        BY <1>1, <2>1, <3>2
      <4> QED BY <4>1, <2>2
    <3> QED BY <3>1, <3>2
  <2> QED BY <1>1, <2>1, <2>3, <2>4
<1>4. ToSet(s) \subseteq T
  BY <1>1
<1> QED BY <1>1, <1>2, <1>3, <1>4

\* The head of a sequence without repetitions is not in its tail.
LEMMA InjectiveTail ==
  ASSUME NEW T, NEW s \in Seq(T), s # <<>>, IsInjective(s)
  PROVE  IsInjective(Tail(s)) /\ Head(s) \notin ToSet(Tail(s))
<1>1. /\ Tail(s) \in Seq(T) /\ DOMAIN Tail(s) = 1..Len(s) - 1 /\ Head(s) = s[1] /\ Len(s) > 0
      /\ \A i \in 1..Len(s) - 1 : Tail(s)[i] = s[i + 1]
      /\ DOMAIN s = 1..Len(s) /\ Len(s) \in Nat
  OBVIOUS
<1> QED BY <1>1 DEF IsInjective, ToSet

\* Taking the head of the queue leaves r in it at most once, or not at all.
LEMMA AtMostOnceTail ==
  ASSUME NEW T, NEW s \in Seq(T), s # <<>>, NEW r, AtMostOnce(s, r)
  PROVE  AtMostOnce(Tail(s), r) /\ (Head(s) = r => r \notin ToSet(Tail(s)))
<1>1. /\ Tail(s) \in Seq(T) /\ DOMAIN Tail(s) = 1..Len(s) - 1 /\ Head(s) = s[1] /\ Len(s) > 0
      /\ \A i \in 1..Len(s) - 1 : Tail(s)[i] = s[i + 1]
      /\ DOMAIN s = 1..Len(s) /\ Len(s) \in Nat
  OBVIOUS
<1> QED BY <1>1 DEF AtMostOnce, ToSet

\* Appending to the queue keeps r in it at most once if r was not there.
LEMMA AtMostOnceAppend ==
  ASSUME NEW T, NEW s \in Seq(T), NEW r, NEW e \in T, AtMostOnce(s, r), r = e => r \notin ToSet(s)
  PROVE  AtMostOnce(Append(s, e), r)
<1>1. /\ DOMAIN Append(s, e) = 1..Len(s) + 1
      /\ Append(s, e)[Len(s) + 1] = e
      /\ \A i \in 1..Len(s) : Append(s, e)[i] = s[i]
      /\ DOMAIN s = 1..Len(s) /\ Len(s) \in Nat
  OBVIOUS
<1> QED BY <1>1 DEF AtMostOnce, ToSet

\* The community module's SetToSeq returns a sequence without repetitions.
LEMMA SetToSeqIs ==
  ASSUME NEW S, IsFiniteSet(S)
  PROVE  SetToSeq(S) \in Seq(S) /\ IsInjective(SetToSeq(S))
<1> DEFINE n == Cardinality(S)
<1>1. n \in Nat /\ ExistsBijection(1..n, S)
  BY FS_CardinalityType
<1>2. \E f \in [1..n -> S] : IsInjective(f)
  BY <1>1 DEF ExistsBijection, Bijection, Injection
<1>3. SetToSeq(S) \in [1..n -> S] /\ IsInjective(SetToSeq(S))
  BY <1>2 DEF SetToSeq
<1> QED BY <1>1, <1>3

\* The scenario of a behaviour satisfies the assumption made of all.
LEMMA ScenarioIs ==
  ASSUME TypeOK
  PROVE  ScenarioOK(scenario) /\ IsFiniteSet(Rules)
BY RopeAssumption DEF TypeOK

\* Dependencies are rules and never the sentinel.
LEMMA DepsType ==
  ASSUME TypeOK, NEW r \in Rules
  PROVE  /\ Dependencies(r) \in Seq(Rules) /\ Deps(r) \subseteq Rules /\ Root \notin Deps(r)
         /\ Dependencies(r) = <<>> => Deps(r) = {}
<1>1. Dependencies(r) \in Seq(Rules) /\ Root \notin Deps(r)
  BY ScenarioIs DEF ScenarioOK, Dependencies, Deps
<1>2. Deps(r) \subseteq Rules
  BY <1>1, SeqFacts DEF Deps
<1>3. ASSUME Dependencies(r) = <<>> PROVE Deps(r) = {}
  BY <1>3 DEF Deps, ToSet
<1> QED BY <1>1, <1>2, <1>3

\* The goals are finitely many rules that a makefile can name.
LEMMA GoalsType ==
  ASSUME TypeOK
  PROVE  IsFiniteSet(valid_goals) /\ valid_goals \subseteq Targets
<1>1. valid_goals \subseteq Deps(Root)
  BY ScenarioIs DEF TypeOK, ScenarioOK, Deps, Dependencies
<1>2. valid_goals \subseteq Targets
  BY <1>1, DepsType, RulesAssumption DEF Targets
<1> QED BY <1>2, ScenarioIs, FS_Subset DEF Targets

\* graph_antineighbors returns the rules that depend on r, each once.
LEMMA AntineighborsIs ==
  ASSUME NEW r \in Rules
  PROVE  /\ Antineighbors(r) \in Seq(Rules) /\ IsInjective(Antineighbors(r))
         /\ \A s \in ToSet(Antineighbors(r)) : r \in Deps(s)
<1> DEFINE S == {s \in Rules : r \in Deps(s)}
<1>1. IsFiniteSet(S)
  BY RopeAssumption, FS_Subset
<1>2. Antineighbors(r) \in Seq(S) /\ IsInjective(Antineighbors(r))
  BY <1>1, SetToSeqIs DEF Antineighbors
<1>3. ToSet(Antineighbors(r)) \subseteq S
  <2> HIDE DEF S
  <2> QED BY <1>2, SeqFacts
<1> QED BY <1>2, <1>3, SeqMonotonic

-----------------------------------------------------------------------------
\* SeqFacts of the queue.
LEMMA QueueSeq ==
  ASSUME TypeOK
  PROVE  /\ tasks # <<>> => /\ Tail(tasks) \in Seq(Rules \union {NULL})
                            /\ Head(tasks) \in Rules \union {NULL}
                            /\ ToSet(tasks) = {Head(tasks)} \union ToSet(Tail(tasks))
         /\ \A e \in Rules \union {NULL} :
              /\ Append(tasks, e) \in Seq(Rules \union {NULL})
              /\ ToSet(Append(tasks, e)) = ToSet(tasks) \union {e}
<1>1. tasks \in Seq(Rules \union {NULL})
  BY DEF TypeOK
<1> QED BY <1>1, SeqFacts

\* SeqFacts of what the loops of a worker have left.
LEMMA LoopSeqs ==
  ASSUME TypeOK, NEW w \in Workers
  PROVE  /\ todo[w] \in Seq(Rules) /\ ToSet(todo[w]) \subseteq Rules
         /\ todo[w] # <<>> => /\ Tail(todo[w]) \in Seq(Rules) /\ Head(todo[w]) \in Rules
                              /\ ToSet(todo[w]) = {Head(todo[w])} \union ToSet(Tail(todo[w]))
         /\ scan[w] # <<>> => /\ Tail(scan[w]) \in Seq(Rules) /\ Head(scan[w]) \in Rules
                              /\ ToSet(scan[w]) = {Head(scan[w])} \union ToSet(Tail(scan[w]))
<1>1. todo[w] \in Seq(Rules) /\ scan[w] \in Seq(Rules)
  BY DEF TypeOK
<1> QED BY <1>1, SeqFacts

\* Every step of a worker preserves the types.
LEMMA TypeStep ==
  ASSUME TypeOK, LoopInv, NEW w \in Workers, Step(w)
  PROVE  TypeOK'
<1> USE DEF TypeOK, fixed, globals, locals, history, set_state, queue_push, Goto, Set,
           Labels, States
<1>1. CASE Pull(w)
  BY <1>1, QueueSeq DEF Pull
<1>2. CASE Quit(w)
  BY <1>2, QueueSeq DEF Quit
<1>3. CASE Claim(w)
  BY <1>3 DEF Claim
<1>4. CASE Mark(w)
  <2>1. rule[w] \in Rules /\ Dependencies(rule[w]) \in Seq(Rules)
    <3>1. scenario \in Scenarios /\ rule[w] \in Rules
      OBVIOUS
    <3> QED BY <3>1, DepsType
  <2> QED BY <1>4, <2>1 DEF Mark
<1>5. CASE CheckDep(w)
  BY <1>5, LoopSeqs DEF CheckDep
<1>6. CASE DepFailed(w)
  BY <1>6 DEF DepFailed
<1>7. CASE Changed(w)
  <2>1. runs' \in [Rules -> Nat]
    <3>1. runs \in [Rules -> Nat] /\ rule[w] \in Rules
      OBVIOUS
    <3>2. runs[rule[w]] + 1 \in Nat
      BY <3>1
    <3>3. runs' = runs \/ runs' = [runs EXCEPT ![rule[w]] = runs[rule[w]] + 1]
      BY <1>7 DEF Changed
    <3> QED BY ONLY <3>1, <3>2, <3>3
  <2> QED BY <1>7, <2>1 DEF Changed
<1>8. CASE Finish(w)
  BY <1>8 DEF Finish
<1>9. CASE Settle(w)
  BY <1>9 DEF Settle
<1>10. CASE Succeed(w)
  BY <1>10 DEF Succeed
<1>11. CASE SkipRule(w)
  BY <1>11 DEF SkipRule
<1>12. CASE RacyRead(w)
  BY <1>12 DEF RacyRead
<1>13. CASE RacyWrite(w)
  BY <1>13 DEF RacyWrite
<1>14. CASE Branch(w)
  BY <1>14, AntineighborsIs DEF Branch
<1>15. CASE PushFailed(w)
  BY <1>15, QueueSeq, LoopSeqs DEF PushFailed
<1>16. CASE NextAnti(w)
  <2>1. Head(todo[w]) \in Rules /\ Tail(todo[w]) \in Seq(Rules)
    BY <1>16, LoopSeqs DEF NextAnti
  <2>2. Dependencies(Head(todo[w])) \in Seq(Rules)
    <3>1. scenario \in Scenarios
      OBVIOUS
    <3> QED BY <2>1, <3>1, DepsType
  <2> QED BY <1>16, <2>1, <2>2 DEF NextAnti
<1>17. CASE ScanAnti(w)
  BY <1>17, LoopSeqs DEF ScanAnti
<1>18. CASE PushOk(w)
  <2>1. todo[w] # <<>>
    BY <1>18 DEF PushOk, LoopInv, LoopOK
  <2>2. Head(todo[w]) \in Rules /\ Tail(todo[w]) \in Seq(Rules)
    BY <2>1, LoopSeqs
  <2> QED BY <1>18, <2>2, QueueSeq DEF PushOk
<1>19. CASE CountGoal(w)
  BY <1>19 DEF CountGoal
<1>20. CASE Compare(w)
  BY <1>20, QueueSeq DEF Compare
<1> QED BY <1>1, <1>2, <1>3, <1>4, <1>5, <1>6, <1>7, <1>8, <1>9, <1>10, <1>11, <1>12, <1>13,
           <1>14, <1>15, <1>16, <1>17, <1>18, <1>19, <1>20 DEF Step

\* Who moves, and what others see of it.
LEMMA Frame ==
  ASSUME TypeOK, NEW w \in Workers, Step(w)
  PROVE  /\ scenario' = scenario /\ valid_goals' = valid_goals /\ goal_total' = goal_total
         /\ pc[w] # "gone"
         /\ \A v \in Workers : v # w => /\ pc'[v] = pc[v] /\ rule'[v] = rule[v]
                                        /\ todo'[v] = todo[v] /\ scan'[v] = scan[v]
                                        /\ good'[v] = good[v]
         /\ pc[w] # "pull" => rule'[w] = rule[w]
         /\ \A r \in Rules : r # rule[w] => state'[r] = state[r]
         /\ built \subseteq built' /\ failed \subseteq failed'
         /\ \A r : Dependencies(r)' = Dependencies(r) /\ Deps(r)' = Deps(r)
         /\ Needed' = Needed /\ (NoRace <=> NoRace') /\ (Chain <=> Chain') /\ (Solo <=> Solo')
<1> USE DEF TypeOK, fixed, globals, locals, history, set_state, queue_push, Goto, Set
<1>1. scenario' = scenario /\ valid_goals' = valid_goals /\ goal_total' = goal_total
  BY
    DEF Step, Pull, Quit, Claim, Mark, CheckDep, DepFailed, Changed, Finish, Settle,
        Succeed, SkipRule, RacyRead, RacyWrite, Branch, PushFailed, NextAnti, ScanAnti,
        PushOk, CountGoal, Compare
<1>2. \A r \in Rules : r # rule[w] => state'[r] = state[r]
  BY
    DEF Step, Pull, Quit, Claim, Mark, CheckDep, DepFailed, Changed, Finish, Settle,
        Succeed, SkipRule, RacyRead, RacyWrite, Branch, PushFailed, NextAnti, ScanAnti,
        PushOk, CountGoal, Compare
<1>3. built \subseteq built' /\ failed \subseteq failed'
  BY
    DEF Step, Pull, Quit, Claim, Mark, CheckDep, DepFailed, Changed, Finish, Settle,
        Succeed, SkipRule, RacyRead, RacyWrite, Branch, PushFailed, NextAnti, ScanAnti,
        PushOk, CountGoal, Compare
<1>4. pc[w] # "gone" /\ (pc[w] # "pull" => rule'[w] = rule[w])
  BY
    DEF Step, Pull, Quit, Claim, Mark, CheckDep, DepFailed, Changed, Finish, Settle,
        Succeed, SkipRule, RacyRead, RacyWrite, Branch, PushFailed, NextAnti, ScanAnti,
        PushOk, CountGoal, Compare
<1>5. ASSUME NEW v \in Workers, v # w
      PROVE  /\ pc'[v] = pc[v] /\ rule'[v] = rule[v] /\ todo'[v] = todo[v]
             /\ scan'[v] = scan[v] /\ good'[v] = good[v]
  BY <1>5
    DEF Step, Pull, Quit, Claim, Mark, CheckDep, DepFailed, Changed, Finish, Settle,
        Succeed, SkipRule, RacyRead, RacyWrite, Branch, PushFailed, NextAnti, ScanAnti,
        PushOk, CountGoal, Compare
<1>6. \A r : Dependencies(r)' = Dependencies(r) /\ Deps(r)' = Deps(r)
  BY <1>1 DEF Dependencies, Deps
<1>7. Needed' = Needed /\ (NoRace <=> NoRace') /\ (Chain <=> Chain') /\ (Solo <=> Solo')
  BY <1>1, <1>6 DEF Needed, NoRace, Chain, Solo
<1> QED BY <1>1, <1>2, <1>3, <1>4, <1>5, <1>6, <1>7

\* Every step preserves LoopInv: what is still to be looked at shrinks, and a
\* dependency read as SUCCEEDED has been built.
LEMMA LoopStep ==
  ASSUME TypeOK, LoopInv, HistoryInv, NEW w \in Workers, Step(w)
  PROVE  LoopInv'
<1> USE DEF fixed, globals, locals, history, set_state, queue_push, Goto, Set, Pushing
<1>t. /\ pc \in [Workers -> Labels] /\ rule \in [Workers -> Rules]
      /\ todo \in [Workers -> Seq(Rules)]
      /\ scan \in [Workers -> Seq(Rules)] /\ good \in [Workers -> BOOLEAN] /\ rule[w] \in Rules
  BY DEF TypeOK
<1>d. /\ scenario' = scenario /\ built \subseteq built'
      /\ \A r : Dependencies(r)' = Dependencies(r) /\ Deps(r)' = Deps(r)
  BY Frame
<1>a. ASSUME NEW v \in Workers, v # w PROVE LoopOK(v)'
  <2>1. /\ pc'[v] = pc[v] /\ rule'[v] = rule[v] /\ todo'[v] = todo[v]
        /\ scan'[v] = scan[v] /\ good'[v] = good[v]
    BY <1>a, Frame
  <2>2. LoopOK(v)
    BY DEF LoopInv
  <2> QED BY <1>d, <2>1, <2>2 DEF LoopOK
<1>b. LoopOK(w)
  BY DEF LoopInv
<1>c. pc[w] # "gone" /\ w \in scenario.threads
  BY <1>b, Frame DEF LoopOK
<1>e. ToSet(<<>>) = {} /\ IsInjective(<<>>)
  BY DEF ToSet, IsInjective
<1>f. ASSUME pc'[w] \notin Pushing \union {"deps", "uptodate", "racyread", "racywrite"}
      PROVE  LoopOK(w)'
  BY <1>c, <1>d, <1>f DEF LoopOK
<1>g. /\ todo[w] # <<>> => /\ Tail(todo[w]) \in Seq(Rules) /\ Head(todo[w]) \in Rules
                           /\ ToSet(todo[w]) = {Head(todo[w])} \union ToSet(Tail(todo[w]))
      /\ scan[w] # <<>> => /\ Tail(scan[w]) \in Seq(Rules) /\ Head(scan[w]) \in Rules
                           /\ ToSet(scan[w]) = {Head(scan[w])} \union ToSet(Tail(scan[w]))
  BY LoopSeqs
<1>h. ASSUME pc[w] \in Pushing, todo[w] # <<>> PROVE IsInjective(Tail(todo[w]))
  BY <1>h, <1>b, <1>t, InjectiveTail DEF LoopOK
<1>z. SUFFICES LoopOK(w)'
  BY <1>a DEF LoopInv
<1> HIDE DEF Pushing
<1>1. CASE Pull(w)
  BY <1>1, <1>f, <1>t DEF Pull, Pushing
<1>2. CASE Quit(w) \/ Claim(w) \/ Finish(w) \/ Settle(w) \/ Succeed(w) \/ RacyWrite(w)
           \/ CountGoal(w) \/ Compare(w)
  BY <1>2, <1>f, <1>t
    DEF Quit, Claim, Finish, Settle, Succeed, RacyWrite, CountGoal, Compare, Pushing
<1>11. CASE Changed(w) \/ SkipRule(w) \/ RacyRead(w)
  <2>1. /\ pc'[w] \notin Pushing \union {"deps"} /\ rule'[w] = rule[w]
        /\ pc'[w] \in {"uptodate", "racyread", "racywrite"} => rule[w] \in scenario.uptodate
    <3>1. CASE Changed(w)
      BY <3>1, <1>t DEF Changed, Pushing
    <3>2. CASE SkipRule(w)
      BY <3>2, <1>b, <1>t DEF SkipRule, LoopOK, Pushing
    <3>3. CASE RacyRead(w)
      BY <3>3, <1>b, <1>t DEF RacyRead, LoopOK, Pushing
    <3> QED BY <1>11, <3>1, <3>2, <3>3
  <2> QED BY <2>1, <1>c, <1>d DEF LoopOK, Pushing
<1>3. CASE Mark(w)
  BY <1>3, <1>t, <1>c, <1>d DEF Mark, LoopOK, Pushing, Deps
<1>4. CASE CheckDep(w)
  BY <1>4, <1>t, <1>b, <1>c, <1>d, <1>g DEF CheckDep, LoopOK, Pushing
<1>5. CASE DepFailed(w)
  BY <1>5, <1>t, <1>c, <1>d, <1>e DEF DepFailed, LoopOK, Pushing
<1>6. CASE Branch(w)
  <2>1. pc'[w] \notin {"scan", "deps", "uptodate", "racyread", "racywrite"} /\ rule' = rule
        /\ (todo'[w] = <<>> \/ todo'[w] = Antineighbors(rule[w]))
    BY <1>6, <1>t DEF Branch
  <2>2. IsInjective(todo'[w]) /\ \A s \in ToSet(todo'[w]) : rule[w] \in Deps(s)
    BY <2>1, <1>e, <1>t, AntineighborsIs
  <2> QED BY <2>1, <2>2, <1>c, <1>d DEF LoopOK, Pushing
<1>7. CASE PushFailed(w)
  BY <1>7, <1>t, <1>b, <1>c, <1>d, <1>g, <1>h DEF PushFailed, LoopOK, Pushing
<1>8. CASE NextAnti(w)
  <2>1. CASE state[Head(todo[w])] = "DEFAULT"
    BY <1>8, <2>1, <1>t, <1>b, <1>c, <1>d, <1>g, <1>h DEF NextAnti, LoopOK, Pushing
  <2>2. CASE state[Head(todo[w])] # "DEFAULT"
    <3>1. /\ pc'[w] = "scan" /\ todo' = todo /\ rule' = rule
          /\ scan'[w] = Dependencies(Head(todo[w]))
          /\ pc[w] = "pushok" /\ todo[w] # <<>>
      BY <1>8, <2>2, <1>t DEF NextAnti
    <3>2. Deps(Head(todo[w])) = ToSet(scan'[w])
      BY <3>1 DEF Deps
    <3> QED BY <3>1, <3>2, <1>b, <1>c, <1>d DEF LoopOK, Pushing
  <2> QED BY <2>1, <2>2
<1>9. CASE ScanAnti(w)
  <2>1. /\ pc' = pc /\ pc[w] = "scan" /\ todo' = todo /\ rule' = rule /\ scan'[w] = Tail(scan[w])
        /\ scan[w] # <<>>
        /\ good'[w] => good[w] /\ state[Head(scan[w])] = "SUCCEEDED"
    BY <1>9, <1>t DEF ScanAnti
  <2>2. good'[w] => Head(scan[w]) \in built
    BY <2>1, <1>g DEF HistoryInv
  <2> QED BY <2>1, <2>2, <1>b, <1>c, <1>d, <1>g DEF LoopOK, Pushing
<1>10. CASE PushOk(w)
  <2>1. /\ pc[w] = "scan" /\ todo[w] # <<>> /\ pc'[w] = "pushok"
        /\ todo'[w] = Tail(todo[w]) /\ rule' = rule
    BY <1>10, <1>b, <1>t DEF PushOk, LoopOK
  <2> QED BY <2>1, <1>b, <1>c, <1>d, <1>g, <1>h DEF LoopOK, Pushing
<1> QED BY <1>1, <1>2, <1>3, <1>4, <1>5, <1>6, <1>7, <1>8, <1>9, <1>10, <1>11 DEF Step

\* Every step preserves HistoryInv, since set_state writes the history too.
LEMMA HistoryStep ==
  ASSUME TypeOK, HistoryInv, NEW w \in Workers, Step(w)
  PROVE  HistoryInv'
<1>1. state \in [Rules -> States] /\ rule[w] \in Rules
  BY DEF TypeOK
<1>2. \/ state' = state /\ built' = built /\ failed' = failed
      \/ \E s \in States : set_state(w, s)
  BY
    DEF Step, Pull, Quit, Claim, Mark, CheckDep, DepFailed, Changed, Finish, Settle,
        Succeed, SkipRule, RacyRead, RacyWrite, Branch, PushFailed, NextAnti, ScanAnti,
        PushOk, CountGoal, Compare, globals, history, States
<1>3. CASE state' = state /\ built' = built /\ failed' = failed
  BY <1>3 DEF HistoryInv
<1>4. CASE \E s \in States : set_state(w, s)
  BY <1>1, <1>4 DEF HistoryInv, set_state
<1> QED BY <1>2, <1>3, <1>4

\* What a step can do to the queue.
Pulls(w) == pc[w] = "pull" /\ tasks # <<>> /\ tasks' = Tail(tasks)
\* What queueing an antineighbor does, from either loop.
Pushes(w) == /\ pc[w] = "pushfailed" \/ (pc[w] = "scan" /\ scan[w] = <<>> /\ good[w])
             /\ todo[w] # <<>> /\ tasks' = Append(tasks, Head(todo[w]))
             /\ todo' = [todo EXCEPT ![w] = Tail(todo[w])]
             /\ state' = state /\ built' = built /\ failed' = failed
             /\ pc'[w] = IF pc[w] = "scan" THEN "pushok" ELSE "pushfailed"

\* A step leaves the queue alone, takes its head, or appends NULL or an antineighbor.
LEMMA QueueStep ==
  ASSUME TypeOK, LoopInv, NEW w \in Workers, Step(w)
  PROVE  \/ tasks' = tasks
         \/ Pulls(w)
         \/ pc[w] \in {"quit", "compare"} /\ tasks' = Append(tasks, NULL)
         \/ Pushes(w)
<1> USE DEF fixed, globals, locals, history, set_state, queue_push, Goto, Set
<1>t. pc \in [Workers -> Labels]
  BY DEF TypeOK
<1>1. CASE Pull(w)
  BY <1>1 DEF Pull, Pulls
<1>2. CASE Quit(w) \/ Compare(w)
  BY <1>2 DEF Quit, Compare
<1>3. CASE PushFailed(w)
  BY <1>3, <1>t DEF PushFailed, Pushes
<1>4. CASE PushOk(w)
  <2>1. todo[w] # <<>>
    BY <1>4 DEF PushOk, LoopInv, LoopOK
  <2> QED BY <1>4, <1>t, <2>1 DEF PushOk, Pushes
<1>5. CASE \/ Claim(w) \/ Mark(w) \/ CheckDep(w) \/ DepFailed(w) \/ Changed(w) \/ Finish(w)
           \/ Settle(w) \/ Succeed(w) \/ SkipRule(w) \/ RacyRead(w) \/ RacyWrite(w)
           \/ Branch(w) \/ NextAnti(w)
             \/ ScanAnti(w) \/ CountGoal(w)
  BY <1>5 DEF Claim, Mark, CheckDep, DepFailed, Changed, Finish, Settle,
         Succeed, SkipRule, RacyRead, RacyWrite, Branch, NextAnti, ScanAnti, CountGoal
<1> QED BY <1>1, <1>2, <1>3, <1>4, <1>5 DEF Step

\* Every step preserves DepInv.
LEMMA DepStep ==
  ASSUME TypeOK, LoopInv, HistoryInv, DepInv, NEW w \in Workers, Step(w)
  PROVE  DepInv'
<1> USE DEF fixed, globals, locals, history, set_state, queue_push, Goto, Set
<1>t. /\ pc \in [Workers -> Labels] /\ rule \in [Workers -> Rules]
      /\ todo \in [Workers -> Seq(Rules)]
      /\ state \in [Rules -> States] /\ rule[w] \in Rules
      /\ built \subseteq Rules /\ failed \subseteq Rules
  BY DEF TypeOK
<1>d. /\ scenario' = scenario /\ built \subseteq built' /\ Needed' = Needed
      /\ \A r : Dependencies(r)' = Dependencies(r) /\ Deps(r)' = Deps(r)
  BY Frame
<1> SUFFICES ASSUME scenario.failing = {}
             PROVE  DepInv!2'
  BY <1>d DEF DepInv
<1>e. /\ failed = {} /\ \A r \in Rules : state[r] # "FAILED"
      /\ \A r \in Rules : state[r] # "DEFAULT" => r \in Needed
      /\ \A r \in Rules : Queued(r) => Ready(r)
  BY DEF DepInv, HistoryInv
<1>f. \A v \in Workers : /\ pc[v] \notin {"depfail", "pushfailed"}
                         /\ Holds(v, rule[v]) => Ready(rule[v])
                         /\ pc[v] = "scan" => Head(todo[v]) \in Needed
  BY DEF DepInv
<1>g. \A r : Ready(r) => Ready(r)'
  BY <1>d DEF Ready
<1>h. /\ todo[w] # <<>> => Head(todo[w]) \in Rules
  BY LoopSeqs
<1>n. NULL \notin Rules
  BY RopeAssumption
<1>1. failed' = {}
  BY <1>e, <1>f, <1>t
    DEF Step, Pull, Quit, Claim, Mark, CheckDep, DepFailed, Changed, Finish, Settle,
        Succeed, SkipRule, RacyRead, RacyWrite, Branch, PushFailed, NextAnti, ScanAnti,
        PushOk, CountGoal, Compare
<1>2. ASSUME NEW r \in Rules, state'[r] # "DEFAULT" PROVE r \in Needed
  <2>1. CASE state' = state
    BY <1>2, <1>e, <2>1
  <2>2. CASE state' # state
    <3>1. pc[w] \in {"mark", "depfail", "running", "succeed", "uptodate"}
      BY <2>2
        DEF Step, Pull, Quit, Claim, Mark, CheckDep, DepFailed, Changed, Finish, Settle,
            Succeed, SkipRule, RacyRead, RacyWrite, Branch, PushFailed, NextAnti, ScanAnti,
            PushOk, CountGoal, Compare
    <3>2. rule[w] \in Needed
      BY <3>1, <1>f DEF Holds, Ready
    <3>3. r # rule[w] => state'[r] = state[r]
      BY Frame
    <3> QED BY <1>2, <3>2, <3>3, <1>e
  <2> QED BY <2>1, <2>2
<1>3. \A r \in Rules : Queued(r)' => Ready(r)
  <2>1. CASE Pulls(w)
    BY <2>1, <1>e, QueueSeq DEF Pulls, Queued
  <2>2. CASE tasks' = Append(tasks, NULL)
    BY <2>2, <1>e, <1>n, QueueSeq DEF Queued
  <2>3. CASE Pushes(w)
    <3>1. pc[w] = "scan" /\ todo[w] # <<>> /\ scan[w] = <<>>
          /\ \A d \in Deps(Head(todo[w])) : d \in built \union ToSet(scan[w])
      BY <2>3, <1>f DEF Pushes, LoopInv, LoopOK
    <3>2. Ready(Head(todo[w]))
      BY <3>1, <1>f DEF Ready, ToSet
    <3>3. ToSet(tasks') = ToSet(tasks) \union {Head(todo[w])}
      BY <2>3, <3>1, <1>h, QueueSeq DEF Pushes
    <3> QED BY <3>2, <3>3, <1>e DEF Queued
  <2>4. CASE tasks' = tasks
    BY <2>4, <1>e DEF Queued
  <2> QED BY <2>1, <2>2, <2>3, <2>4, QueueStep
<1>4. ASSUME NEW v \in Workers, v # w
      PROVE  /\ pc'[v] \notin {"depfail", "pushfailed"}
             /\ Holds(v, rule[v])' => Ready(rule[v])'
             /\ pc'[v] = "scan" => Head(todo'[v]) \in Needed
  <2>1. pc'[v] = pc[v] /\ rule'[v] = rule[v] /\ todo'[v] = todo[v]
    BY <1>4, Frame
  <2>2. Ready(rule[v]) => Ready(rule[v])'
    BY <2>1, <1>d DEF Ready
  <2> QED BY <2>1, <2>2, <1>f DEF Holds
<1>5. /\ pc'[w] \notin {"depfail", "pushfailed"}
      /\ pc'[w] \notin {"pull", "quit", "gone"} => Ready(rule'[w])
      /\ pc'[w] = "scan" => Head(todo'[w]) \in Needed
  <2>1. CASE Pull(w)
    <3>1. tasks # <<>> /\ Queued(Head(tasks)) /\ Head(tasks) \in Rules \union {NULL}
      BY <2>1, QueueSeq DEF Pull, Queued
    <3>2. Head(tasks) # NULL => Ready(Head(tasks))
      BY <3>1, <1>e
    <3> QED BY <2>1, <3>2, <1>t DEF Pull
  <2>2. CASE CheckDep(w)
    <3>1. state[Head(todo[w])] # "FAILED"
      BY <2>2, <1>e, <1>h DEF CheckDep
    <3> QED BY <2>2, <3>1, <1>f, <1>t DEF CheckDep, Holds
  <2>3. CASE Branch(w)
    BY <2>3, <1>e, <1>f, <1>t DEF Branch, Holds
  <2>4. CASE NextAnti(w)
    BY <2>4, <1>e, <1>f, <1>h, <1>t DEF NextAnti, Holds
  <2>5. CASE ~(Pull(w) \/ CheckDep(w) \/ Branch(w) \/ NextAnti(w))
    BY <2>5, <1>f, <1>t
      DEF Step, Quit, Claim, Mark, DepFailed, Changed, Finish, Settle, Succeed, SkipRule,
          RacyRead, RacyWrite, PushFailed, ScanAnti, PushOk, CountGoal, Compare, Holds
  <2> QED BY <2>1, <2>2, <2>3, <2>4, <2>5
<1>6. Ready(rule'[w]) => Ready(rule[w])'
  BY <1>d DEF Ready
<1>7. \A r \in Rules : (Queued(r) => Ready(r))'
  BY <1>3, <1>g
<1>8. \A v \in Workers : (/\ pc[v] \notin {"depfail", "pushfailed"}
                          /\ Holds(v, rule[v]) => Ready(rule[v])
                          /\ pc[v] = "scan" => Head(todo[v]) \in Needed)'
  BY <1>4, <1>5, <1>6, <1>d DEF Holds
<1> QED BY <1>1, <1>2, <1>7, <1>8, <1>d

-----------------------------------------------------------------------------
\* What a step can do to the states.
Writes(w, s) ==
    /\ set_state(w, s)
    /\ \/ pc[w] = "mark" /\ s = "PROCESSING" /\ pc'[w] = "deps"
       \/ pc[w] = "depfail" /\ s = "FAILED" /\ pc'[w] = "deps"
       \/ pc[w] = "running" /\ s = "FAILED" /\ rule[w] \in scenario.failing /\ pc'[w] = "settle"
       \/ pc[w] = "succeed" /\ s = "SUCCEEDED" /\ pc'[w] = "branch"
       \/ pc[w] = "uptodate" /\ s = "SUCCEEDED" /\ pc'[w] = "racyread"

\* A step leaves the states alone or is one of the five writes.
LEMMA StateStep ==
  ASSUME TypeOK, NEW w \in Workers, Step(w)
  PROVE  \/ state' = state /\ built' = built /\ failed' = failed
         \/ \E s \in States : Writes(w, s) /\ tasks' = tasks
<1> USE DEF fixed, globals, locals, history, queue_push, Goto, Set, States
<1>t. pc \in [Workers -> Labels]
  BY DEF TypeOK
<1>1. CASE Mark(w)
  BY <1>1, <1>t DEF Mark, Writes
<1>2. CASE DepFailed(w)
  BY <1>2, <1>t DEF DepFailed, Writes
<1>3. CASE Finish(w)
  BY <1>3, <1>t DEF Finish, Writes
<1>4. CASE Succeed(w)
  BY <1>4, <1>t DEF Succeed, Writes
<1>5. CASE SkipRule(w)
  BY <1>5, <1>t DEF SkipRule, Writes
<1>6. CASE Pull(w) \/ Quit(w) \/ Claim(w) \/ CheckDep(w) \/ Changed(w) \/ Settle(w) \/ RacyRead(w)
           \/ RacyWrite(w) \/ Branch(w) \/ PushFailed(w) \/ NextAnti(w) \/ ScanAnti(w) \/ PushOk(w)
           \/ CountGoal(w) \/ Compare(w)
  BY <1>6 DEF Pull, Quit, Claim, CheckDep, Changed, Settle, RacyRead,
         RacyWrite, Branch, PushFailed, NextAnti, ScanAnti, PushOk, CountGoal, Compare
<1> QED BY <1>1, <1>2, <1>3, <1>4, <1>5, <1>6 DEF Step

\* Only the worker that holds a rule changes its state.
LEMMA StateOf ==
  ASSUME TypeOK, NEW w \in Workers, Step(w), NEW r \in Rules, ~Holds(w, r)
  PROVE  state'[r] = state[r]
<1>1. state \in [Rules -> States] /\ rule[w] \in Rules
  BY DEF TypeOK
<1>2. CASE state' = state
  BY <1>2
<1>3. CASE \E s \in States : Writes(w, s)
  <2>1. rule[w] # r
    BY <1>3 DEF Writes, Holds
  <2> QED BY <1>1, <1>3, <2>1 DEF Writes, set_state
<1> QED BY <1>2, <1>3, StateStep

\* A worker comes to hold a rule by pulling it.
LEMMA HoldStep ==
  ASSUME TypeOK, NEW w \in Workers, Step(w), NEW v \in Workers, NEW r \in Rules, Holds(v, r)'
  PROVE  \/ Holds(v, r) /\ (v = w => pc[w] \notin {"pull", "quit", "compare", "gone"})
         \/ v = w /\ Pulls(w) /\ Head(tasks) = r /\ pc'[w] = "claim"
<1> USE DEF fixed, globals, locals, history, queue_push, Goto, Set
<1>t. pc \in [Workers -> Labels] /\ rule \in [Workers -> Rules]
  BY DEF TypeOK
<1>1. CASE v # w
  <2>1. pc'[v] = pc[v] /\ rule'[v] = rule[v]
    BY <1>1, Frame
  <2> QED BY <1>1, <2>1 DEF Holds
<1>2. CASE v = w /\ pc[w] # "pull"
  <2>1. rule'[w] = rule[w] /\ pc[w] # "gone"
    BY <1>2, Frame
  <2>2. pc[w] = "quit" => pc'[w] = "gone"
    BY <1>t
      DEF Step, Pull, Quit, Claim, Mark, CheckDep, DepFailed, Changed, Finish, Settle,
          Succeed, SkipRule, RacyRead, RacyWrite, Branch, PushFailed, NextAnti, ScanAnti,
          PushOk, CountGoal, Compare
  <2>3. pc[w] = "compare" => pc'[w] = "pull"
    BY <1>t
      DEF Step, Pull, Quit, Claim, Mark, CheckDep, DepFailed, Changed, Finish, Settle,
          Succeed, SkipRule, RacyRead, RacyWrite, Branch, PushFailed, NextAnti, ScanAnti,
          PushOk, CountGoal, Compare
  <2> QED BY <1>2, <2>1, <2>2, <2>3 DEF Holds
<1>3. CASE v = w /\ pc[w] = "pull"
  <2>1. Pull(w)
    BY <1>3
      DEF Step, Quit, Claim, Mark, CheckDep, DepFailed, Changed, Finish, Settle, Succeed,
          SkipRule, RacyRead, RacyWrite, Branch, PushFailed, NextAnti, ScanAnti, PushOk,
          CountGoal, Compare
  <2> QED BY <1>3, <1>t, <2>1 DEF Pull, Pulls, Holds
<1> QED BY <1>1, <1>2, <1>3

\* With one thread, nobody else is there.
LEMMA Alone ==
  ASSUME TypeOK, LoopInv, Solo, NEW v \in Workers, NEW w \in Workers,
         pc[v] # "gone", pc[w] # "gone"
  PROVE  v = w
<1>1. v \in scenario.threads /\ w \in scenario.threads
  BY DEF LoopInv, LoopOK
<1>2. IsFiniteSet(scenario.threads)
  BY ScenarioIs DEF ScenarioOK
<1>3. Cardinality(scenario.threads) \in {0, 1}
  BY <1>2, FS_CardinalityType DEF Solo
<1>4. Cardinality(scenario.threads) = 1
  BY <1>1, <1>2, <1>3, FS_EmptySet
<1>5. \E x : scenario.threads = {x}
  BY <1>2, <1>4, FS_Singleton
<1> QED BY <1>1, <1>5

\* Every step preserves PhaseInv: a rule that is pulled is held by nobody else.
LEMMA PhaseStep ==
  ASSUME TypeOK, LoopInv, PhaseInv, OnceInv, NEW w \in Workers, Step(w)
  PROVE  PhaseInv'
<1>t. /\ pc \in [Workers -> Labels] /\ rule \in [Workers -> Rules] /\ rule[w] \in Rules
      /\ state \in [Rules -> States] /\ todo \in [Workers -> Seq(Rules)]
      /\ rule' \in [Workers -> Rules]
  BY TypeStep DEF TypeOK
<1> SUFFICES ASSUME NoRace PROVE PhaseInv!2'
  BY Frame DEF PhaseInv
<1>p. /\ \A v, u \in Workers, r \in Targets : Holds(v, r) /\ Holds(u, r) => v = u
      /\ \A v \in Workers : rule[v] # Root => PhaseOK(v)
  BY DEF PhaseInv
<1>1. ASSUME NEW v \in Workers, NEW u \in Workers, NEW r \in Targets, Holds(v, r)', Holds(u, r)'
      PROVE  v = u
  <2>1. CASE Solo
    <3>1. pc[v] # "gone" /\ pc[u] # "gone"
      BY <1>1, HoldStep DEF Holds, Pulls, Targets
    <3> QED BY <2>1, <3>1, Alone
  <2>2. CASE Chain
    <3>1. \A x \in Workers : Holds(x, r) => ~Queued(r)
      BY <2>2 DEF OnceInv, OnceOK, Once
    <3>2. Pulls(w) /\ Head(tasks) = r => Queued(r)
      BY QueueSeq DEF Pulls, Queued
    <3> QED BY <1>1, <3>1, <3>2, <1>p, HoldStep DEF Targets
  <2> QED BY <2>1, <2>2 DEF NoRace
<1>2. ASSUME NEW v \in Workers, v # w, rule'[v] # Root PROVE PhaseOK(v)'
  <2>1. pc'[v] = pc[v] /\ rule'[v] = rule[v] /\ todo'[v] = todo[v]
    BY <1>2, Frame
  <2>2. PhaseOK(v) /\ rule[v] \in Targets
    BY <1>2, <2>1, <1>p, <1>t DEF Targets
  <2>3. CASE Holds(v, rule[v])
    <3>1. ~Holds(w, rule[v])
      BY <2>2, <2>3, <1>2, <1>p
    <3>2. state'[rule[v]] = state[rule[v]]
      BY <3>1, <2>2, StateOf DEF Targets
    <3> QED BY <2>1, <2>2, <3>2 DEF PhaseOK
  <2>4. CASE ~Holds(v, rule[v])
    BY <2>1, <2>4 DEF Holds, PhaseOK
  <2> QED BY <2>3, <2>4
<1>3. ASSUME rule'[w] # Root PROVE PhaseOK(w)'
  <2> USE DEF fixed, globals, locals, history, queue_push, Goto, Set, PhaseOK
  <2>1. CASE Pull(w)
    BY <2>1, <1>t DEF Pull
  <2>2. CASE ~Pull(w)
    <3>1. rule' = rule /\ PhaseOK(w)
      BY <2>2, <1>3, <1>p
        DEF Step, Quit, Claim, Mark, CheckDep, DepFailed, Changed, Finish, Settle, Succeed,
            SkipRule, RacyRead, RacyWrite, Branch, PushFailed, NextAnti, ScanAnti, PushOk,
            CountGoal, Compare
    <3>2. CASE Quit(w) \/ Claim(w) \/ Compare(w) \/ CountGoal(w)
      BY <3>1, <3>2, <1>t DEF Quit, Claim, Compare, CountGoal
    <3>3. CASE Mark(w) \/ DepFailed(w) \/ Succeed(w) \/ SkipRule(w)
      BY <3>1, <3>3, <1>t DEF Mark, DepFailed, Succeed, SkipRule, set_state
    <3>4. CASE CheckDep(w) \/ Changed(w) \/ Settle(w)
      BY <3>1, <3>4, <1>t DEF CheckDep, Changed, Settle
    <3>5. CASE Finish(w)
      BY <3>1, <3>5, <1>t DEF Finish, set_state
    <3>6. CASE RacyRead(w) \/ RacyWrite(w) \/ Branch(w) \/ PushFailed(w)
      BY <3>1, <3>6, <1>t DEF RacyRead, RacyWrite, Branch, PushFailed
    <3>7. CASE NextAnti(w) \/ ScanAnti(w) \/ PushOk(w)
      BY <3>1, <3>7, <1>t DEF NextAnti, ScanAnti, PushOk
    <3> QED BY <2>2, <3>2, <3>3, <3>4, <3>5, <3>6, <3>7 DEF Step
  <2> QED BY <2>1, <2>2
<1> QED BY <1>1, <1>2, <1>3

\* Only a push makes a rule used that was not.
LEMMA UsedStep ==
  ASSUME TypeOK, LoopInv, NEW w \in Workers, Step(w), NEW r \in Rules, Used(r)'
  PROVE  Used(r) \/ (Pushes(w) /\ Head(todo[w]) = r)
<1>1. CASE Queued(r)'
  <2>1. NULL # r
    BY RopeAssumption
  <2>2. Head(todo[w]) \in Rules \/ todo[w] = <<>>
    BY LoopSeqs
  <2>3. CASE Pushes(w)
    <3>1. ToSet(tasks') = ToSet(tasks) \union {Head(todo[w])}
      BY <2>2, <2>3, QueueSeq DEF Pushes
    <3> QED BY <1>1, <2>3, <3>1 DEF Queued, Used
  <2>4. CASE Pulls(w)
    <3>1. ToSet(tasks') \subseteq ToSet(tasks)
      BY <2>4, QueueSeq DEF Pulls
    <3> QED BY <1>1, <3>1 DEF Queued, Used
  <2>5. CASE tasks' = Append(tasks, NULL)
    <3>1. ToSet(tasks') = ToSet(tasks) \union {NULL}
      BY <2>5, QueueSeq
    <3> QED BY <1>1, <2>1, <3>1 DEF Queued, Used
  <2>6. CASE tasks' = tasks
    BY <1>1, <2>6 DEF Queued, Used
  <2> QED BY <2>3, <2>4, <2>5, <2>6, QueueStep
<1>2. CASE \E v \in Workers : Holds(v, r)'
  <2>1. PICK v \in Workers : Holds(v, r)'
    BY <1>2
  <2>2. Pulls(w) /\ Head(tasks) = r => Queued(r)
    BY QueueSeq DEF Pulls, Queued
  <2> QED BY <2>1, <2>2, HoldStep DEF Used
<1>3. CASE Begun(r)'
  <2>1. Holds(w, r) \/ state'[r] = state[r]
    BY StateOf
  <2> QED BY <1>3, <2>1 DEF Begun, Used
<1> QED BY <1>1, <1>2, <1>3 DEF Used

\* What is pushed was not used before.
LEMMA PushIsNew ==
  ASSUME TypeOK, LoopInv, NEW w \in Workers, Pushes(w), NEW r \in Rules,
         Head(todo[w]) = r, OnceOK(r)
  PROVE  ~Used(r) /\ Holds(w, rule[w]) /\ rule[w] \in Deps(r)
<1>1. r \in ToSet(todo[w])
  BY LoopSeqs DEF Pushes
<1>2. Holds(w, rule[w]) /\ pc[w] \in Pushing
  BY DEF Pushes, Holds, Pushing
<1>3. rule[w] \in Deps(r)
  BY <1>1, <1>2 DEF LoopInv, LoopOK
<1>4. ~Served(rule[w], r)
  BY <1>1, <1>2 DEF Served
<1> QED BY <1>2, <1>3, <1>4 DEF OnceOK

\* A rule that has had its turn with d keeps it.
LEMMA ServedStep ==
  ASSUME TypeOK, LoopInv, NEW w \in Workers, Step(w), NEW d \in Rules, NEW r \in Rules,
         Served(d, r), OnceOK(d)
  PROVE  Served(d, r)'
<1> USE DEF fixed, globals, locals, history, queue_push, Goto, Set
<1>t. /\ pc \in [Workers -> Labels] /\ rule \in [Workers -> Rules] /\ rule[w] \in Rules
      /\ state \in [Rules -> States] /\ todo \in [Workers -> Seq(Rules)]
  BY DEF TypeOK
<1>1. state[d] \in {"FAILED", "SUCCEEDED"}
  BY DEF Served
<1>2. Holds(w, d) => pc[w] \in Pushing \union {"goal", "compare"} /\ r \notin ToSet(todo[w])
  BY DEF Served
<1>3. state'[d] = state[d]
  <2>1. CASE Holds(w, d)
    <3>1. ~ \E s \in States : Writes(w, s)
      BY <2>1, <1>2 DEF Writes, Pushing
    <3> QED BY <3>1, StateStep
  <2>2. CASE ~Holds(w, d)
    BY <2>2, StateOf
  <2> QED BY <2>1, <2>2
<1>4. ~Queued(d)
  BY <1>1 DEF OnceOK, Begun, LoadedStates
<1>5. ASSUME NEW v \in Workers, Holds(v, d)'
      PROVE  pc'[v] \in Pushing \union {"goal", "compare"} /\ r \notin ToSet(todo'[v])
  <2>1. ~(Pulls(w) /\ Head(tasks) = d)
    BY <1>4, QueueSeq DEF Pulls, Queued
  <2>2. Holds(v, d) /\ (v = w => pc[w] \notin {"pull", "quit", "compare", "gone"})
    BY <1>5, <2>1, HoldStep
  <2>3. pc[v] \in Pushing \union {"goal", "compare"} /\ r \notin ToSet(todo[v])
    BY <2>2 DEF Served
  <2>4. CASE v # w
    BY <2>3, <2>4, Frame
  <2>5. CASE v = w
    <3>1. todo[w] # <<>> => ToSet(Tail(todo[w])) \subseteq ToSet(todo[w])
      BY LoopSeqs
    <3>2. pc[w] = "scan" => todo[w] # <<>>
      BY DEF LoopInv, LoopOK
    <3> QED BY <2>2, <2>3, <2>5, <3>1, <3>2, <1>t
              DEF Step, Pull, Quit, Claim, Mark, CheckDep, DepFailed, Changed, Finish,
                  Settle, Succeed, SkipRule, RacyRead, RacyWrite, Branch, PushFailed,
                  NextAnti, ScanAnti, PushOk, CountGoal, Compare, Pushing
  <2> QED BY <2>4, <2>5
<1> QED BY <1>1, <1>3, <1>5 DEF Served

\* When a rule is pushed, it has had its turn with all its dependencies.
LEMMA PushIsServed ==
  ASSUME TypeOK, LoopInv, HistoryInv, DepInv, PhaseInv, OnceInv, Once,
         NEW w \in Workers, Step(w), Pushes(w), NEW r \in Targets, Head(todo[w]) = r,
         NEW d \in Deps(r)
  PROVE  Served(d, r)'
<1>t. /\ pc \in [Workers -> Labels] /\ rule \in [Workers -> Rules] /\ rule[w] \in Rules
      /\ todo \in [Workers -> Seq(Rules)] /\ r \in Rules
  BY DEF TypeOK, Targets
<1>n. NoRace /\ \A q \in Targets : OnceOK(q)
  BY DEF Once, NoRace, OnceInv
<1>d. d \in Targets /\ rule[w] \in Deps(r) /\ Holds(w, rule[w]) /\ rule[w] \in Targets
  <2>1. OnceOK(r)
    BY <1>n
  <2>2. rule[w] \in Deps(r) /\ Holds(w, rule[w])
    BY <2>1, <1>t, PushIsNew
  <2>3. Deps(r) \subseteq Targets
    BY <1>t, DepsType DEF Targets
  <2> QED BY <2>2, <2>3
<1>s. state' = state /\ pc'[w] \in Pushing /\ todo'[w] = Tail(todo[w]) /\ todo[w] # <<>>
  BY <1>t DEF Pushes, Pushing
<1>h. ASSUME NEW v \in Workers, Holds(v, d)' PROVE Holds(v, d)
  BY <1>h, <1>d, HoldStep DEF Pulls, Pushes, Targets
<1>1. CASE d = rule[w]
  <2>1. PhaseOK(w)
    BY <1>n, <1>d DEF PhaseInv, Targets
  <2>2. state[d] \in {"FAILED", "SUCCEEDED"}
    BY <1>1, <2>1 DEF PhaseOK, Pushes
  <2>3. r \notin ToSet(Tail(todo[w]))
    <3>1. IsInjective(todo[w])
      BY DEF LoopInv, LoopOK, Pushes, Pushing
    <3> QED BY <3>1, <1>s, <1>t, InjectiveTail
  <2>4. ASSUME NEW v \in Workers, Holds(v, d)' PROVE v = w
    BY <2>4, <1>1, <1>h, <1>n, <1>d DEF PhaseInv
  <2> QED BY <2>2, <2>3, <2>4, <1>s DEF Served
<1>2. CASE d # rule[w]
  <2>1. ~Chain
    <3>1. SUFFICES ASSUME Len(Dependencies(r)) <= 1 PROVE FALSE
      BY DEF Chain, Targets
    <3>2. Dependencies(r) \in Seq(Rules)
      BY <1>t, DepsType
    <3>3. DOMAIN Dependencies(r) \subseteq {1}
      BY <3>1, <3>2
    <3> QED BY <3>3, <1>2, <1>d DEF Deps, ToSet
  <2>2. Solo /\ scenario.failing = {}
    BY <2>1 DEF Once
  <2>3. d \in built
    <3>1. pc[w] = "scan" /\ scan[w] = <<>> /\ good[w]
      BY <2>2 DEF Pushes, DepInv
    <3> QED BY <3>1 DEF LoopInv, LoopOK, ToSet
  <2>4. state[d] = "SUCCEEDED"
    BY <2>3, <1>n, <1>d DEF OnceOK
  <2>5. ASSUME NEW v \in Workers, Holds(v, d)' PROVE FALSE
    BY <2>5, <2>2, <1>h, <1>d, <1>2, Alone DEF Holds
  <2> QED BY <2>4, <2>5, <1>s DEF Served
<1> QED BY <1>1, <1>2

\* Every step preserves OnceInv.
LEMMA OnceStep ==
  ASSUME TypeOK, LoopInv, HistoryInv, DepInv, PhaseInv, OnceInv, NEW w \in Workers, Step(w)
  PROVE  OnceInv'
<1> SUFFICES ASSUME Once, NEW r \in Targets PROVE OnceOK(r)'
  BY Frame DEF OnceInv, Once
<1>t. /\ pc \in [Workers -> Labels] /\ rule \in [Workers -> Rules] /\ rule[w] \in Rules
      /\ state \in [Rules -> States] /\ r \in Rules /\ tasks \in Seq(Rules \union {NULL})
      /\ NULL # r /\ NULL \in Rules \union {NULL} /\ (todo[w] # <<>> => Head(todo[w]) \in Rules)
  BY RopeAssumption, LoopSeqs DEF TypeOK, Targets
<1>n. NoRace /\ \A q \in Targets : OnceOK(q)
  BY DEF Once, NoRace, OnceInv
<1>o. OnceOK(r)
  BY <1>n
<1>w. ASSUME NEW v \in Workers, Holds(v, r), Holds(w, r) PROVE v = w
  BY <1>w, <1>n DEF PhaseInv
<1>p. Pushes(w) /\ Head(todo[w]) = r => ~Used(r)
  BY <1>o, <1>t, PushIsNew
<1>q. /\ Pulls(w) => ToSet(tasks) = {Head(tasks)} \union ToSet(tasks')
      /\ tasks' = Append(tasks, NULL) => ToSet(tasks') = ToSet(tasks) \union {NULL}
      /\ Pushes(w) => ToSet(tasks') = ToSet(tasks) \union {Head(todo[w])}
  BY <1>t, QueueSeq DEF Pulls, Pushes
<1>k. ASSUME Queued(r)' PROVE Queued(r) \/ (Pushes(w) /\ Head(todo[w]) = r)
  BY <1>k, <1>q, <1>t, QueueStep DEF Queued
<1>1. AtMostOnce(tasks, r)'
  <2>0. AtMostOnce(tasks, r)
    BY <1>o DEF OnceOK
  <2>1. CASE Pulls(w)
    BY <2>0, <2>1, <1>t, AtMostOnceTail DEF Pulls, AtMostOnce
  <2>2. CASE tasks' = Append(tasks, NULL)
    <3>1. AtMostOnce(Append(tasks, NULL), r)
      BY <2>0, <1>t, AtMostOnceAppend
    <3> QED BY <2>2, <3>1 DEF AtMostOnce
  <2>3. CASE Pushes(w)
    <3>1. Head(todo[w]) \in Rules \union {NULL} /\ (r = Head(todo[w]) => r \notin ToSet(tasks))
      BY <2>3, <1>t, <1>p DEF Pushes, Used, Queued
    <3>2. AtMostOnce(Append(tasks, Head(todo[w])), r)
      BY <2>0, <3>1, <1>t, AtMostOnceAppend
    <3> QED BY <2>3, <3>2 DEF AtMostOnce, Pushes
  <2>4. CASE tasks' = tasks
    BY <2>0, <2>4 DEF AtMostOnce
  <2> QED BY <2>1, <2>2, <2>3, <2>4, QueueStep
<1>2. ASSUME NEW v \in Workers, Holds(v, r)', Queued(r)' PROVE FALSE
  <2>1. CASE Holds(v, r)
    BY <2>1, <1>2, <1>k, <1>p, <1>o DEF OnceOK, Used
  <2>2. CASE v = w /\ Pulls(w) /\ Head(tasks) = r
    <3>1. r \notin ToSet(Tail(tasks))
      BY <2>2, <1>o, <1>t, AtMostOnceTail DEF OnceOK, Pulls
    <3> QED BY <1>2, <2>2, <3>1 DEF Pulls, Queued
  <2> QED BY <1>2, <1>t, <2>1, <2>2, HoldStep
<1>3. ASSUME Queued(r)' PROVE ~Begun(r)'
  <2>1. ~Begun(r)
    BY <1>3, <1>k, <1>p, <1>o DEF OnceOK, Used
  <2>2. ~Holds(w, r) \/ state' = state
    BY <1>3, <1>k, <1>o DEF OnceOK, Pushes
  <2>3. state'[r] = state[r]
    BY <2>2, <1>t, StateOf
  <2> QED BY <2>1, <2>3 DEF Begun
<1>4. ASSUME NEW v \in Workers, Holds(v, r)', pc'[v] \in {"claim", "mark"} PROVE ~Begun(r)'
  <2>1. CASE v = w /\ Pulls(w) /\ Head(tasks) = r
    <3>1. Queued(r)
      BY <2>1, QueueSeq DEF Pulls, Queued
    <3>2. ~Begun(r) /\ ~Holds(w, r)
      BY <3>1, <1>o DEF OnceOK
    <3> QED BY <3>2, <1>t, StateOf DEF Begun
  <2>2. CASE v = w /\ pc[w] # "pull"
    <3>1. pc[w] = "claim" /\ state' = state /\ pc'[w] # "pull"
      BY <2>2, <1>4, <1>t
        DEF Step, Pull, Quit, Claim, Mark, CheckDep, DepFailed, Changed, Finish, Settle,
            Succeed, SkipRule, RacyRead, RacyWrite, Branch, PushFailed, NextAnti, ScanAnti,
            PushOk, CountGoal, Compare, Goto, globals
    <3>2. Holds(w, r)
      BY <1>4, <2>2, <3>1, <1>t, HoldStep DEF Pulls
    <3> QED BY <3>1, <3>2, <1>o DEF OnceOK, Begun
  <2>3. CASE v # w
    <3>1. Holds(v, r) /\ pc'[v] = pc[v]
      BY <1>4, <2>3, <1>t, HoldStep, Frame
    <3>2. ~Holds(w, r) /\ ~Begun(r)
      BY <3>1, <2>3, <1>4, <1>w, <1>o DEF OnceOK
    <3> QED BY <3>2, <1>t, StateOf DEF Begun
  <2> QED BY <1>4, <1>t, <2>1, <2>2, <2>3, HoldStep
<1>5. ASSUME r \in built' PROVE state'[r] = "SUCCEEDED"
  <2>1. CASE state' = state /\ built' = built
    BY <1>5, <2>1, <1>o DEF OnceOK
  <2>2. ASSUME NEW s \in States, Writes(w, s) PROVE state'[r] = "SUCCEEDED"
    <3>1. CASE r # rule[w]
      BY <1>5, <2>2, <3>1, <1>o, <1>t DEF Writes, set_state, OnceOK
    <3>2. CASE r = rule[w] /\ s = "SUCCEEDED"
      BY <2>2, <3>2, <1>t DEF Writes, set_state
    <3>3. CASE r = rule[w] /\ s # "SUCCEEDED"
      <4>1. state[r] = "SUCCEEDED" /\ Holds(w, r) /\ PhaseOK(w)
        BY <1>5, <2>2, <3>3, <1>o, <1>n
          DEF Writes, set_state, OnceOK, Holds, PhaseInv, Targets
      <4>2. ~Begun(r) => pc[w] # "mark"
        BY <4>1 DEF Begun, LoadedStates
      <4> QED BY <2>2, <3>3, <4>1, <4>2, <1>o
                DEF Writes, OnceOK, PhaseOK, Begun, LoadedStates
    <3> QED BY <3>1, <3>2, <3>3
  <2> QED BY <2>1, <2>2, StateStep
<1>6. ASSUME Used(r)', NEW d \in Deps(r) PROVE Served(d, r)'
  <2>1. d \in Targets /\ d \in Rules
    BY <1>t, DepsType DEF Targets
  <2>2. CASE Used(r)
    <3>1. Served(d, r) /\ OnceOK(d)
      BY <2>1, <2>2, <1>n, <1>o DEF OnceOK
    <3> QED BY <2>1, <3>1, <1>t, ServedStep
  <2>3. CASE Pushes(w) /\ Head(todo[w]) = r
    BY <2>3, PushIsServed
  <2> QED BY <1>6, <1>t, <2>2, <2>3, UsedStep
<1>7. Deps(r)' = Deps(r)
  BY Frame
<1> QED BY <1>1, <1>2, <1>3, <1>4, <1>5, <1>6, <1>7 DEF OnceOK

\* Only CountGoal changes which goals are counted.
LEMMA CountedStep ==
  ASSUME TypeOK, LoopInv, PhaseInv, OnceInv, NoRace, Once,
         NEW w \in Workers, Step(w), ~CountGoal(w)
  PROVE  Counted' = Counted
<1>t. /\ pc \in [Workers -> Labels] /\ rule \in [Workers -> Rules] /\ rule[w] \in Rules
      /\ state \in [Rules -> States] /\ valid_goals' = valid_goals
  BY Frame DEF TypeOK
<1> USE DEF fixed, globals, locals, history, queue_push, Goto, Set
<1>1. ASSUME NEW h \in Targets
      PROVE  (/\ state[h] = "SUCCEEDED"
              /\ \A v \in Workers : Holds(v, h) => pc[v] = "compare")'
             <=> (/\ state[h] = "SUCCEEDED"
                  /\ \A v \in Workers : Holds(v, h) => pc[v] = "compare")
  <2>t. h \in Rules
    BY DEF Targets
  <2>o. OnceOK(h)
    BY DEF OnceInv
  <2>v. ASSUME NEW v \in Workers, v # w PROVE (Holds(v, h) <=> Holds(v, h)') /\ pc'[v] = pc[v]
    BY <2>v, Frame DEF Holds
  <2>1. CASE Holds(w, h) /\ pc[w] = "compare"
    <3>1. state' = state /\ ~Holds(w, h)'
      BY <2>1, <1>t
        DEF Step, Pull, Quit, Claim, Mark, CheckDep, DepFailed, Changed, Finish, Settle,
            Succeed, SkipRule, RacyRead, RacyWrite, Branch, PushFailed, NextAnti, ScanAnti,
            PushOk, CountGoal, Compare, Holds
    <3> QED BY <2>1, <2>v, <3>1
  <2>2. CASE Holds(w, h) /\ pc[w] # "compare"
    <3>1. pc'[w] # "compare"
      BY <2>2, <1>t
        DEF Step, Pull, Quit, Claim, Mark, CheckDep, DepFailed, Changed, Finish, Settle,
            Succeed, SkipRule, RacyRead, RacyWrite, Branch, PushFailed, NextAnti, ScanAnti,
            PushOk, CountGoal, Compare
    <3>2. CASE Holds(w, h)'
      BY <2>2, <3>1, <3>2
    <3>3. CASE ~Holds(w, h)'
      <4>1. pc[w] = "claim" /\ state' = state /\ state[h] = "PROCESSING"
        BY <2>2, <3>3, <1>t
          DEF Step, Pull, Quit, Claim, Mark, CheckDep, DepFailed, Changed, Finish, Settle,
              Succeed, SkipRule, RacyRead, RacyWrite, Branch, PushFailed, NextAnti,
              ScanAnti, PushOk, CountGoal, Compare, Holds
      <4> QED BY <4>1, <2>2
    <3> QED BY <3>2, <3>3
  <2>3. CASE ~Holds(w, h)
    <3>1. state'[h] = state[h]
      BY <2>3, <2>t, StateOf
    <3>2. Holds(w, h)' => Queued(h) /\ pc'[w] = "claim"
      BY <2>3, <2>t, HoldStep, QueueSeq DEF Pulls, Queued
    <3>3. Queued(h) => state[h] # "SUCCEEDED"
      BY <2>o DEF OnceOK, Begun, LoadedStates
    <3> QED BY <2>3, <2>v, <3>1, <3>2, <3>3
  <2> QED BY <2>1, <2>2, <2>3
<1>2. valid_goals \subseteq Targets
  BY GoalsType
<1> QED BY <1>1, <1>2, <1>t DEF Counted

\* Every step preserves GoalInv: CountGoal adds one goal, and Compare pushes NULL
\* only if all are counted.
LEMMA GoalStep ==
  ASSUME TypeOK, LoopInv, HistoryInv, DepInv, PhaseInv, OnceInv, GoalInv, NEW w \in Workers, Step(w)
  PROVE  GoalInv'
<1> SUFFICES ASSUME Clean, NoRace PROVE GoalInv!2'
  BY Frame DEF GoalInv, Clean
<1>o. Once /\ scenario.failing = {} /\ scenario.uptodate = {}
  BY DEF Once, Clean, NoRace
<1>t. /\ pc \in [Workers -> Labels] /\ rule \in [Workers -> Rules] /\ rule[w] \in Rules
      /\ state \in [Rules -> States] /\ valid_goals' = valid_goals /\ scenario' = scenario
      /\ goal_total = Cardinality(valid_goals) /\ built \subseteq built'
      /\ IsFiniteSet(valid_goals) /\ valid_goals \subseteq Targets /\ NULL \notin Rules
  BY Frame, GoalsType, RopeAssumption DEF TypeOK
<1>g. /\ goal_count = Cardinality(Counted)
      /\ NULL \in ToSet(tasks) \/ (\E v \in scenario.threads : pc[v] \in {"quit", "gone"}) =>
           valid_goals \subseteq built
  BY DEF GoalInv
<1>c. Counted \subseteq valid_goals /\ IsFiniteSet(Counted)
  <2>1. Counted \subseteq valid_goals
    BY DEF Counted
  <2> QED BY <2>1, <1>t, FS_Subset
<1> USE DEF fixed, globals, locals, history, queue_push, Goto, Set
<1>1. goal_count' = Cardinality(Counted')
  <2>1. CASE CountGoal(w)
    <3> DEFINE g == rule[w]
    <3>1. /\ state' = state /\ pc'[w] = "compare" /\ rule' = rule
          /\ pc[w] \in {"goal", "pushfailed", "pushok"}
      BY <2>1, <1>t DEF CountGoal
    <3>2. ASSUME NEW h \in valid_goals, h # g
          PROVE  h \in Counted' <=> h \in Counted
      <4>1. ASSUME NEW v \in Workers
            PROVE  (Holds(v, h) => pc[v] = "compare") <=> (Holds(v, h) => pc[v] = "compare")'
        BY <3>1, <3>2, Frame DEF Holds
      <4> QED BY <4>1, <3>1, <1>t DEF Counted
    <3>3. CASE g \in valid_goals
      <4>1. g \in Targets /\ PhaseOK(w) /\ Holds(w, g)
        BY <3>1, <3>3, <1>t DEF PhaseInv, Targets, Holds
      <4>2. state[g] = "SUCCEEDED"
        BY <4>1, <3>1, <1>o DEF PhaseOK, DepInv
      <4>3. g \notin Counted
        BY <4>1, <3>1 DEF Counted
      <4>4. ASSUME NEW v \in Workers, Holds(v, g)' PROVE pc'[v] = "compare"
        <5>1. v # w => Holds(v, g)
          BY <4>4, <3>1, Frame DEF Holds
        <5> QED BY <5>1, <4>1, <3>1 DEF PhaseInv
      <4>5. g \in Counted'
        BY <4>2, <4>4, <3>1, <3>3, <1>t DEF Counted, Holds
      <4>6. Counted' \subseteq valid_goals
        BY <1>t DEF Counted
      <4>7. Counted' = Counted \union {g}
        BY <3>2, <3>3, <4>5, <4>6, <1>c
      <4>8. goal_count' = goal_count + 1
        BY <2>1, <3>3 DEF CountGoal
      <4> HIDE DEF g
      <4> QED BY <4>3, <4>7, <4>8, <1>c, <1>g, FS_AddElement
    <3>4. CASE g \notin valid_goals
      <4>1. goal_count' = goal_count
        BY <2>1, <3>4 DEF CountGoal
      <4>2. Counted' \subseteq valid_goals
        BY <1>t DEF Counted
      <4>3. Counted' = Counted
        BY <3>2, <3>4, <4>2, <1>c
      <4> QED BY <4>1, <4>3, <1>g
    <3> QED BY <3>3, <3>4
  <2>2. CASE ~CountGoal(w)
    <3>1. Counted' = Counted
      BY <2>2, <1>o, CountedStep
    <3>2. pc[w] # "racywrite"
      BY <1>o DEF LoopInv, LoopOK
    <3>3. goal_count' = goal_count
      BY <2>2, <3>2
        DEF Step, Pull, Quit, Claim, Mark, CheckDep, DepFailed, Changed, Finish, Settle,
            Succeed, SkipRule, RacyRead, RacyWrite, Branch, PushFailed, NextAnti, ScanAnti,
            PushOk, CountGoal, Compare
    <3> QED BY <3>1, <3>3, <1>g
  <2> QED BY <2>1, <2>2
<1>2. ASSUME NULL \in ToSet(tasks') \/ (\E v \in scenario.threads : pc'[v] \in {"quit", "gone"})
      PROVE  valid_goals \subseteq built
  <2>q. w \in scenario.threads
    BY Frame DEF LoopInv, LoopOK
  <2>1. CASE Pull(w)
    <3>1. tasks # <<>> /\ (pc'[w] \in {"quit", "gone"} => NULL \in ToSet(tasks))
          /\ ToSet(tasks') \subseteq ToSet(tasks)
      BY <2>1, <1>t, QueueSeq DEF Pull
    <3>2. \A v \in Workers : v # w => pc'[v] = pc[v]
      BY Frame
    <3>3. scenario.threads \subseteq Workers
      BY ScenarioIs DEF ScenarioOK
    <3> QED BY <3>1, <3>2, <3>3, <1>2, <1>g
  <2>2. CASE Quit(w)
    BY <2>2, <2>q, <1>g DEF Quit
  <2>3. CASE Compare(w)
    <3>1. CASE goal_count = goal_total
      <4>1. Counted = valid_goals
        BY <3>1, <1>c, <1>g, <1>t, FS_Subset
      <4> QED BY <4>1, <1>t DEF Counted, HistoryInv, Targets
    <3>2. CASE goal_count # goal_total
      <4>1. /\ tasks' = tasks
            /\ \A v \in scenario.threads : pc'[v] \in {"quit", "gone"} =>
                 pc[v] \in {"quit", "gone"}
        <5>1. scenario.threads \subseteq Workers
          BY ScenarioIs DEF ScenarioOK
        <5> QED BY <2>3, <3>2, <5>1, <1>t DEF Compare
      <4> QED BY <4>1, <1>2, <1>g
    <3> QED BY <3>1, <3>2
  <2>4. CASE ~Pull(w) /\ ~Quit(w) /\ ~Compare(w)
    <3>1. pc'[w] \notin {"quit", "gone"}
      BY <2>4, <1>t
        DEF Step, Claim, Mark, CheckDep, DepFailed, Changed, Finish, Settle, Succeed,
            SkipRule, RacyRead, RacyWrite, Branch, PushFailed, NextAnti, ScanAnti, PushOk,
            CountGoal
    <3>2. \A v \in Workers : v # w => pc'[v] = pc[v]
      BY Frame
    <3>3. scenario.threads \subseteq Workers
      BY ScenarioIs DEF ScenarioOK
    <3>4. CASE Pushes(w)
      <4>1. Head(todo[w]) \in Rules
        BY <3>4, LoopSeqs DEF Pushes
      <4>2. ToSet(tasks') = ToSet(tasks) \union {Head(todo[w])}
        BY <3>4, <4>1, QueueSeq DEF Pushes
      <4> QED BY <3>1, <3>2, <3>3, <4>1, <4>2, <1>2, <1>g, <1>t
    <3>5. CASE tasks' = tasks
      BY <3>1, <3>2, <3>3, <3>5, <1>2, <1>g
    <3>6. tasks' = tasks \/ Pushes(w)
      <4>1. pc[w] \notin {"pull", "quit", "compare"}
        BY <2>4
          DEF Step, Claim, Mark, CheckDep, DepFailed, Changed, Finish, Settle, Succeed,
              SkipRule, RacyRead, RacyWrite, Branch, PushFailed, NextAnti, ScanAnti, PushOk,
              CountGoal
      <4> QED BY <4>1, QueueStep DEF Pulls
    <3> QED BY <3>4, <3>5, <3>6
  <2> QED BY <2>1, <2>2, <2>3, <2>4
<1> QED BY <1>1, <1>2, <1>t

\* With one thread nobody else works on a dependency; in a chain it was served.
LEMMA FailedIsFinal ==
  ASSUME TypeOK, LoopInv, PhaseInv, OnceInv, FailInv, NoRace, scenario.uptodate = {},
         NEW w \in Workers, rule[w] # Root, Holds(w, rule[w]),
         NEW f \in Deps(rule[w]), f # rule[w], f \in failed
  PROVE  state[f] = "FAILED"
<1>1. rule[w] \in Rules /\ f \in Targets
  BY DepsType DEF TypeOK, Targets
<1>2. SUFFICES ASSUME NEW v \in Workers, Holds(v, f), pc[v] \in {"deps", "depfail", "running"}
               PROVE  FALSE
  BY <1>1 DEF FailInv, FailRule
<1>3. v # w
  BY <1>2 DEF Holds
<1>4. CASE Solo
  BY <1>2, <1>3, <1>4, Alone DEF Holds
<1>5. CASE Chain
  <2>1. OnceOK(rule[w]) /\ Used(rule[w])
    BY <1>1, <1>5 DEF OnceInv, Once, Used, Targets
  <2>2. Served(f, rule[w])
    BY <2>1 DEF OnceOK
  <2> QED BY <1>2, <2>2 DEF Served, Pushing
<1> QED BY <1>4, <1>5 DEF NoRace

\* Every step preserves FailInv.
LEMMA FailStep ==
  ASSUME TypeOK, LoopInv, HistoryInv, PhaseInv, OnceInv, FailInv, NEW w \in Workers, Step(w)
  PROVE  FailInv'
<1> SUFFICES ASSUME NoRace, scenario.uptodate = {} PROVE FailInv!2'
  BY Frame DEF FailInv
<1>t. /\ pc \in [Workers -> Labels] /\ rule \in [Workers -> Rules] /\ rule[w] \in Rules
      /\ state \in [Rules -> States] /\ todo \in [Workers -> Seq(Rules)]
      /\ rule' \in [Workers -> Rules]
  BY TypeStep DEF TypeOK
<1>d. /\ scenario' = scenario /\ built \subseteq built' /\ failed \subseteq failed'
      /\ \A r : Deps(r)' = Deps(r)
  BY Frame
<1>r. \A r \in Targets : FailRule(r)
  BY DEF FailInv
<1>w. \A v \in Workers : rule[v] # Root => FailWorker(v)
  BY DEF FailInv
<1>p. /\ \A v, u \in Workers, r \in Targets : Holds(v, r) /\ Holds(u, r) => v = u
      /\ \A v \in Workers : rule[v] # Root => PhaseOK(v)
  BY DEF PhaseInv
<1>u. pc[w] \notin {"uptodate", "racyread", "racywrite"}
  BY DEF LoopInv, LoopOK
<1>s. ASSUME NEW r \in Targets
      PROVE  r \in Rules /\ r # Root /\ Deps(r) \subseteq Targets
  BY <1>s, DepsType DEF Targets
<1>m. \A r : (Sound(r) => Sound(r)') /\ (Hopeless(r) => Hopeless(r)')
  BY <1>d DEF Sound, Hopeless
<1>x. ASSUME NEW r \in Targets, r \in failed, r \notin scenario.failing
      PROVE  ~(Deps(r) \subseteq built)
  BY <1>x, <1>r, <1>s DEF FailRule, Hopeless
\* What a write does to the histories.
<1>b. ASSUME NEW r \in Targets, r \in built', r \notin built
      PROVE  pc[w] = "succeed" /\ rule[w] = r /\ failed' = failed
  BY <1>b, <1>u, StateStep DEF Writes, set_state
<1>f. ASSUME NEW r \in Targets, r \in failed', r \notin failed
      PROVE  /\ rule[w] = r /\ built' = built /\ state'[r] = "FAILED" /\ Holds(w, r)
             /\ pc[w] = "depfail" \/ (pc[w] = "running" /\ r \in scenario.failing)
  <2>1. PICK s \in States : Writes(w, s)
    BY <1>f, StateStep
  <2>2. s = "FAILED" /\ rule[w] = r
    BY <1>f, <2>1 DEF Writes, set_state
  <2> QED BY <2>1, <2>2, <1>t DEF Writes, set_state, Holds
<1>1. ASSUME NEW r \in Targets PROVE FailRule(r)'
  <2>1. r \in built' => Sound(r)'
    <3>1. r \in built => Sound(r)
      BY <1>r DEF FailRule
    <3>2. r \in built' /\ r \notin built => Sound(r)
      BY <1>b, <1>s, <1>w DEF FailWorker
    <3> QED BY <3>1, <3>2, <1>m
  <2>2. r \in failed' => Hopeless(r)' /\ r \notin built'
    <3>1. CASE r \in failed
      <4>1. Hopeless(r) /\ r \notin built
        BY <3>1, <1>r DEF FailRule
      <4>2. r \notin built'
        BY <3>1, <4>1, <1>b, <1>s, <1>w DEF FailWorker
      <4> QED BY <4>1, <4>2, <1>m
    <3>2. CASE r \in failed' /\ r \notin failed
      <4>1. /\ rule[w] = r /\ built' = built
            /\ pc[w] = "depfail" \/ (pc[w] = "running" /\ r \in scenario.failing)
        BY <3>2, <1>f
      <4>2. r \in scenario.failing \/ \E f \in Deps(r) \ {r} : f \in failed
        BY <4>1, <1>w, <1>s DEF FailWorker
      <4>3. Hopeless(r)
        BY <4>2 DEF Hopeless
      <4>4. r \notin built
        BY <4>2, <1>r, <1>s DEF FailRule, Sound
      <4> QED BY <4>1, <4>3, <4>4, <1>m
    <3> QED BY <3>1, <3>2
  <2>3. Queued(r)' => (Deps(r) \subseteq built)' \/ Hopeless(r)'
    <3>1. Queued(r) => Deps(r) \subseteq built \/ Hopeless(r)
      BY <1>r DEF FailRule
    <3>2. CASE Pushes(w) /\ Head(todo[w]) = r
      <4>1. r \in ToSet(todo[w]) /\ pc[w] \in Pushing
        BY <3>2, LoopSeqs DEF Pushes, Pushing
      <4>2. rule[w] \in Deps(r) /\ rule[w] \in Targets
        BY <4>1, <1>s DEF LoopInv, LoopOK
      <4>3. CASE pc[w] = "pushfailed"
        <5>1. state[rule[w]] = "FAILED"
          BY <4>2, <4>3, <1>p, <1>s DEF PhaseOK
        <5>2. rule[w] \in failed
          BY <5>1, <1>t DEF HistoryInv
        <5>3. Hopeless(r)
          BY <5>2, <4>2, <1>r DEF FailRule, Hopeless
        <5> QED BY <5>3, <1>m
      <4>4. CASE pc[w] = "scan" /\ scan[w] = <<>> /\ good[w]
        <5>1. Deps(r) \subseteq built
          BY <3>2, <4>4 DEF LoopInv, LoopOK, ToSet
        <5> QED BY <5>1, <1>d
      <4> QED BY <3>2, <4>3, <4>4 DEF Pushes
    <3>3. Queued(r)' => Queued(r) \/ (Pushes(w) /\ Head(todo[w]) = r)
      <4>1. /\ Pulls(w) => ToSet(tasks) = {Head(tasks)} \union ToSet(tasks')
            /\ tasks' = Append(tasks, NULL) => ToSet(tasks') = ToSet(tasks) \union {NULL}
            /\ Pushes(w) => ToSet(tasks') = ToSet(tasks) \union {Head(todo[w])}
        BY QueueSeq, LoopSeqs DEF Pulls, Pushes
      <4>2. r # NULL
        BY <1>s, RopeAssumption
      <4> QED BY <4>1, <4>2, QueueStep DEF Queued
    <3> QED BY <3>1, <3>2, <3>3, <1>m, <1>d
  <2>4. ASSUME r \in failed'
        PROVE  \/ state'[r] = "FAILED"
               \/ \E v \in Workers : Holds(v, r)' /\ pc'[v] \in {"deps", "depfail", "running"}
    <3>1. CASE r \notin failed
      BY <2>4, <3>1, <1>f
    <3>2. CASE r \in failed /\ ~Holds(w, r)
      <4>1. state'[r] = state[r]
        BY <3>2, <1>s, StateOf
      <4>2. ASSUME NEW v \in Workers, Holds(v, r), v # w PROVE Holds(v, r)' /\ pc'[v] = pc[v]
        BY <4>2, Frame DEF Holds
      <4> QED BY <3>2, <4>1, <4>2, <1>r DEF FailRule
    <3>3. CASE r \in failed /\ Holds(w, r)
      <4>1. rule[w] = r /\ FailWorker(w) /\ rule'[w] = r
        BY <3>3, <1>w, <1>s, Frame DEF Holds
      <4>2. CASE state[r] = "FAILED"
        <5>1. CASE state' = state
          BY <4>2, <5>1
        <5>2. ASSUME NEW s \in States, Writes(w, s)
              PROVE  state'[r] = "FAILED" \/ (Holds(w, r)' /\ pc'[w] = "deps")
          BY <5>2, <4>1, <3>3, <1>u, <1>t DEF Writes, set_state, Holds, FailWorker
        <5> QED BY <5>1, <5>2, StateStep
      <4>3. CASE state[r] # "FAILED"
        <5>1. pc[w] \in {"deps", "depfail", "running"}
          BY <3>3, <4>3, <1>r, <1>p DEF FailRule
        <5>2. pc[w] = "running" => r \in scenario.failing
          BY <3>3, <4>1, <4>3, <1>x DEF FailWorker
        <5>3. \/ state'[r] = "FAILED"
              \/ pc'[w] \in {"deps", "depfail", "running"}
          <6> USE DEF Goto, set_state
          <6>1. CASE CheckDep(w)
            BY <6>1, <1>t DEF CheckDep
          <6>2. CASE DepFailed(w)
            BY <6>2, <1>t, <4>1 DEF DepFailed
          <6>3. CASE Changed(w)
            BY <6>3, <1>t DEF Changed
          <6>4. CASE Finish(w)
            BY <6>4, <1>t, <4>1, <5>1, <5>2 DEF Finish
          <6> QED BY <5>1, <6>1, <6>2, <6>3, <6>4
                    DEF Step, Pull, Quit, Claim, Mark, Settle, Succeed, SkipRule, RacyRead,
                        RacyWrite, Branch, PushFailed, NextAnti, ScanAnti, PushOk,
                        CountGoal, Compare
        <5> QED BY <5>3, <4>1 DEF Holds
      <4> QED BY <4>2, <4>3
    <3> QED BY <3>1, <3>2, <3>3
  <2> QED BY <2>1, <2>2, <2>3, <2>4 DEF FailRule
<1>2. ASSUME NEW v \in Workers, v # w, rule'[v] # Root PROVE FailWorker(v)'
  <2>1. pc'[v] = pc[v] /\ rule'[v] = rule[v] /\ todo'[v] = todo[v]
    BY <1>2, Frame
  <2>2. FailWorker(v) /\ rule[v] \in Targets
    BY <1>2, <2>1, <1>w, <1>t DEF Targets
  <2>3. CASE Holds(v, rule[v])
    <3>1. ~Holds(w, rule[v])
      BY <2>2, <2>3, <1>2, <1>p
    <3>2. state'[rule[v]] = state[rule[v]]
      BY <3>1, <2>2, StateOf DEF Targets
    <3>3. rule[v] \in failed' => rule[v] \in failed
      BY <3>1, <2>2, <1>f
    <3>4. Sound(rule[v]) => Sound(rule[v])'
      BY <2>1, <1>d DEF Sound
    <3>5. Hopeless(rule[v]) => Hopeless(rule[v])'
      BY <2>1, <1>d DEF Hopeless
    <3> QED BY <2>1, <2>2, <3>2, <3>3, <3>4, <3>5, <1>d DEF FailWorker
  <2>4. CASE ~Holds(v, rule[v])
    BY <2>1, <2>4 DEF Holds, FailWorker
  <2> QED BY <2>3, <2>4
<1>3. ASSUME rule'[w] # Root PROVE FailWorker(w)'
  <2> DEFINE r == rule[w]
  <2> USE DEF fixed, globals, locals, history, queue_push, Goto, Set
  <2>0. ASSUME pc'[w] \notin {"claim", "mark", "deps", "depfail", "running", "settle", "succeed"}
        PROVE  FailWorker(w)'
    BY <2>0 DEF FailWorker
  <2>1. CASE Pull(w)
    <3>1. CASE pc'[w] = "claim"
      <4>1. Queued(rule'[w]) /\ rule'[w] \in Targets
        BY <2>1, <3>1, <1>3, <1>t, QueueSeq DEF Pull, Queued, Targets
      <4>2. Deps(rule'[w]) \subseteq built \/ Hopeless(rule'[w])
        BY <4>1, <1>r DEF FailRule
      <4> QED BY <3>1, <4>2, <1>d DEF FailWorker, Hopeless
    <3>2. CASE pc'[w] # "claim"
      BY <2>1, <3>2, <2>0, <1>t DEF Pull
    <3> QED BY <3>1, <3>2
  <2>2. CASE ~Pull(w)
    <3>r. rule'[w] = r /\ r \in Targets
      <4>1. pc[w] # "pull"
        BY <2>2
          DEF Step, Quit, Claim, Mark, CheckDep, DepFailed, Changed, Finish, Settle,
              Succeed, SkipRule, RacyRead, RacyWrite, Branch, PushFailed, NextAnti,
              ScanAnti, PushOk, CountGoal, Compare
      <4> QED BY <4>1, <1>3, <1>t, Frame DEF Targets
    <3>w. FailWorker(w) /\ PhaseOK(w)
      BY <3>r, <1>w, <1>p DEF Targets
    <3>1. CASE Claim(w)
      <4>1. CASE pc'[w] = "mark"
        <5>1. Deps(r) \subseteq built \/ Hopeless(r)
          BY <3>1, <3>w DEF Claim, FailWorker
        <5> QED BY <5>1, <4>1, <3>r, <1>d DEF FailWorker, Hopeless
      <4>2. CASE pc'[w] # "mark"
        BY <3>1, <4>2, <2>0, <1>t DEF Claim
      <4> QED BY <4>1, <4>2
    <3>2. CASE Mark(w)
      <4>1. Deps(r) \subseteq built \/ Hopeless(r)
        BY <3>2, <3>w DEF Mark, FailWorker
      <4>2. ToSet(todo'[w]) = Deps(r) /\ pc'[w] = "deps"
        BY <3>2, <1>t DEF Mark, Deps
      <4> QED BY <4>1, <4>2, <3>r, <1>d DEF FailWorker, Hopeless
    <3>3. CASE CheckDep(w)
      <4> DEFINE h == Head(todo[w])
      <4>1. /\ pc[w] = "deps" /\ todo[w] # <<>> /\ todo'[w] = Tail(todo[w]) /\ state' = state
            /\ pc'[w] = IF state[h] = "FAILED" THEN "depfail" ELSE "deps"
        BY <3>3, <1>t DEF CheckDep
      <4>2. h \in Rules /\ ToSet(todo[w]) = {h} \union ToSet(Tail(todo[w])) /\ h \in Deps(r)
        BY <4>1, LoopSeqs DEF LoopInv, LoopOK
      <4>3. CASE state[h] = "FAILED"
        <5>1. h \in failed
          BY <4>2, <4>3 DEF HistoryInv
        <5>2. h # r
          BY <4>1, <4>3, <3>w DEF PhaseOK
        <5> QED BY <4>1, <4>2, <4>3, <5>1, <5>2, <3>r, <1>d DEF FailWorker
      <4>4. CASE state[h] # "FAILED"
        <5>1. h = r \/ h \notin failed
          BY <4>1, <4>2, <4>4, <3>r, FailedIsFinal DEF Holds, Targets
        <5>2. \/ r \in scenario.failing \/ Deps(r) \subseteq built
              \/ state[r] = "FAILED" \/ \E f \in ToSet(todo[w]) \ {r} : f \in failed
          BY <4>1, <3>w DEF FailWorker
        <5> QED BY <4>1, <4>2, <4>4, <5>1, <5>2, <3>r, <1>d DEF FailWorker
      <4> QED BY <4>3, <4>4
    <3>4. CASE DepFailed(w)
      <4>1. pc'[w] = "deps" /\ state'[r] = "FAILED"
        BY <3>4, <1>t DEF DepFailed, set_state
      <4> QED BY <4>1, <3>r DEF FailWorker
    <3>5. CASE Changed(w)
      <4>1. pc[w] = "deps" /\ todo[w] = <<>> /\ pc'[w] = "running" /\ state' = state
        BY <3>5, <1>t DEF Changed
      <4>2. r \in scenario.failing \/ Deps(r) \subseteq built \/ state[r] = "FAILED"
        BY <4>1, <3>w DEF FailWorker, ToSet
      <4> QED BY <4>1, <4>2, <3>r, <1>d DEF FailWorker
    <3>6. CASE Finish(w)
      <4>1. pc[w] = "running" /\ pc'[w] = "settle"
        BY <3>6, <1>t DEF Finish
      <4>2. state'[r] = "FAILED" \/ Sound(r)
        <5>1. CASE r \in scenario.failing
          BY <3>6, <5>1, <1>t DEF Finish, set_state
        <5>2. CASE r \notin scenario.failing
          BY <3>6, <5>2, <4>1, <3>w DEF Finish, FailWorker, Sound
        <5> QED BY <5>1, <5>2
      <4> QED BY <4>1, <4>2, <3>r, <1>d DEF FailWorker, Sound
    <3>7. CASE Settle(w)
      <4>1. /\ pc[w] = "settle" /\ pc'[w] = IF state[r] = "FAILED" THEN "branch" ELSE "succeed"
            /\ failed' = failed
        BY <3>7, <1>t DEF Settle
      <4>2. CASE state[r] = "FAILED"
        BY <4>1, <4>2, <2>0
      <4>3. CASE state[r] # "FAILED"
        <5>1. Sound(r)
          BY <4>1, <4>3, <3>w DEF FailWorker
        <5>2. r \notin failed
          <6>1. Holds(w, r)
            BY <4>1 DEF Holds
          <6>2. r \in failed =>
                  \E v \in Workers : Holds(v, r) /\ pc[v] \in {"deps", "depfail", "running"}
            BY <3>r, <4>3, <1>r DEF FailRule
          <6> QED BY <6>1, <6>2, <4>1, <3>r, <1>p
        <5> QED BY <4>1, <4>3, <5>1, <5>2, <3>r, <1>d DEF FailWorker, Sound
      <4> QED BY <4>2, <4>3
    <3>8. CASE \/ Quit(w) \/ Succeed(w) \/ Branch(w) \/ PushFailed(w) \/ NextAnti(w)
               \/ ScanAnti(w) \/ PushOk(w) \/ CountGoal(w) \/ Compare(w)
      BY <3>8, <2>0, <1>t
        DEF Quit, Succeed, Branch, PushFailed, NextAnti, ScanAnti, PushOk, CountGoal,
            Compare
    <3> QED BY <2>2, <3>1, <3>2, <3>3, <3>4, <3>5, <3>6, <3>7, <3>8, <1>u
           DEF Step, SkipRule, RacyRead, RacyWrite
  <2> QED BY <2>1, <2>2
<1> QED BY <1>1, <1>2, <1>3

-----------------------------------------------------------------------------
\* The inductive invariant.
RopeInv == TypeOK /\ LoopInv /\ HistoryInv /\ DepInv /\ PhaseInv /\ OnceInv /\ GoalInv /\ FailInv

\* load_rules leaves the leaves in the queue, each once, and NULL only if no goal
\* is valid.
LEMMA InitQueue ==
  ASSUME Init
  PROVE  /\ tasks \in Seq(Rules \union {NULL})
         /\ \A r \in Rules : Queued(r) => r \in Leaves
         /\ \A r \in Rules : AtMostOnce(tasks, r)
         /\ NULL \in ToSet(tasks) => valid_goals = {}
<1> DEFINE pre == IF valid_goals = {} THEN <<NULL>> ELSE <<>>
           n == Cardinality(Leaves)
<1>1. IsFiniteSet(Leaves) /\ Leaves \subseteq Rules /\ NULL \notin Rules
  <2>1. Leaves \subseteq Rules
    BY DEF Leaves
  <2> QED BY <2>1, RopeAssumption, FS_Subset
<1>2. n \in Nat
  BY <1>1, FS_CardinalityType
<1>3. PICK f \in [1..n -> Leaves] : /\ tasks = pre \o f
                                    /\ \A i, j \in 1..n : i # j => f[i] # f[j]
  BY DEF Init, SetToSeqs
<1> HIDE DEF n
<1>4. f \in Seq(Leaves) /\ Len(f) = n
  BY <1>2
<1>5. f \in Seq(Rules \union {NULL})
  BY <1>1, <1>4, SeqMonotonic
<1>6. CASE valid_goals = {}
  <2>1. pre = <<NULL>>
    BY <1>6
  <2>2. /\ tasks \in Seq(Rules \union {NULL}) /\ DOMAIN tasks = 1..n + 1 /\ tasks[1] = NULL
        /\ \A i \in 1..n + 1 : i # 1 => i - 1 \in 1..n /\ tasks[i] = f[i - 1]
    <3>1. tasks = <<NULL>> \o f
      BY <1>3, <2>1
    <3>2. <<NULL>> \in Seq(Rules \union {NULL}) /\ Len(<<NULL>>) = 1 /\ <<NULL>>[1] = NULL
      OBVIOUS
    <3>3. tasks \in Seq(Rules \union {NULL}) /\ Len(tasks) = 1 + n
      BY <1>2, <1>4, <1>5, <3>1, <3>2, ConcatProperties
    <3>4. \A i \in 1..Len(tasks) : tasks[i] = IF i <= 1 THEN <<NULL>>[i] ELSE f[i - 1]
      BY <1>4, <1>5, <3>1, <3>2, ConcatProperties
    <3> QED BY <1>2, <3>2, <3>3, <3>4
  <2>3. ASSUME NEW i \in 1..n + 1, i # 1 PROVE tasks[i] \in Leaves
    BY <2>2, <2>3
  <2>4. \A r \in Rules : Queued(r) => r \in Leaves
    BY <1>1, <2>2, <2>3 DEF Queued, ToSet
  <2>5. \A r \in Rules : AtMostOnce(tasks, r)
    <3>1. SUFFICES ASSUME NEW r \in Rules, NEW i \in 1..n + 1, NEW j \in 1..n + 1,
                          tasks[i] = r, tasks[j] = r
                   PROVE  i = j
      BY <2>2 DEF AtMostOnce
    <3>2. i # 1 /\ j # 1
      BY <1>1, <2>2, <3>1
    <3>3. f[i - 1] = f[j - 1] /\ i - 1 \in 1..n /\ j - 1 \in 1..n
      BY <2>2, <3>1, <3>2
    <3>4. i - 1 = j - 1
      BY <1>3, <3>3
    <3> QED BY <1>2, <3>4
  <2> QED BY <1>6, <2>2, <2>4, <2>5
<1>7. CASE valid_goals # {}
  <2>1. pre = <<>>
    BY <1>7
  <2>2. tasks = f
    BY <1>3, <1>4, <2>1
  <2>3. DOMAIN f = 1..n /\ \A i \in 1..n : f[i] \in Leaves
    OBVIOUS
  <2> QED BY <1>1, <1>3, <1>5, <2>2, <2>3 DEF Queued, ToSet, AtMostOnce
<1> QED BY <1>6, <1>7

\* The invariant holds when the threads are started.
LEMMA InitInv ==
  ASSUME Init
  PROVE  RopeInv
<1>s. ScenarioOK(scenario) /\ scenario \in Scenarios
  BY RopeAssumption DEF Init
<1>t. TypeOK
  <2>1. tasks \in Seq(Rules \union {NULL})
    BY InitQueue
  <2>2. state \in [Rules -> States]
    BY <1>s DEF Init, ScenarioOK, States
  <2>3. <<>> \in Seq(Rules)
    OBVIOUS
  <2> QED BY <1>s, <2>1, <2>2, <2>3, RulesAssumption DEF Init, TypeOK, Labels
<1>p. /\ \A w \in Workers : pc[w] \in {"pull", "gone"} /\ rule[w] = Root
      /\ \A w \in Workers : pc[w] # "gone" <=> w \in scenario.threads
      /\ built = {} /\ failed = {}
  BY DEF Init
<1>h. \A w \in Workers : \A r : ~Holds(w, r)
  BY <1>p DEF Holds
<1>b. \A r \in Rules : ~Begun(r) /\ state[r] \notin {"SUCCEEDED", "FAILED"}
  BY <1>s DEF Init, ScenarioOK, Begun, LoadedStates
<1>q. \A r \in Rules : Queued(r) => Deps(r) = {} /\ state[r] # "DEFAULT"
  <2>1. ASSUME NEW r \in Rules, r \in Leaves PROVE Deps(r) = {} /\ state[r] # "DEFAULT"
    BY <1>t, <2>1, DepsType DEF Leaves, Init
  <2> QED BY <2>1, InitQueue
<1>n. \A r \in Rules : state[r] # "DEFAULT" => r \in Needed
  BY <1>s DEF Init, ScenarioOK, Needed
<1>1. LoopInv
  BY <1>p DEF LoopInv, LoopOK, Pushing
<1>2. HistoryInv
  BY <1>b DEF HistoryInv
<1>3. DepInv
  BY <1>p, <1>h, <1>q, <1>n DEF DepInv, Ready
<1>4. PhaseInv
  BY <1>h, <1>p DEF PhaseInv
<1>5. OnceInv
  <2>1. ASSUME NEW r \in Targets PROVE OnceOK(r)
    <3>1. r \in Rules
      BY DEF Targets
    <3>2. Used(r) => Queued(r)
      BY <3>1, <1>h, <1>b DEF Used
    <3>3. AtMostOnce(tasks, r)
      BY <3>1, InitQueue
    <3> QED BY <3>1, <3>2, <3>3, <1>h, <1>b, <1>p, <1>q DEF OnceOK
  <2> QED BY <2>1 DEF OnceInv
<1>6. GoalInv
  <2>1. Counted = {}
    BY <1>t, <1>b, GoalsType DEF Counted, Targets
  <2>2. goal_count = 0
    BY DEF Init
  <2>3. scenario.threads \subseteq Workers
    BY <1>s DEF ScenarioOK
  <2> QED BY <1>p, <2>1, <2>2, <2>3, FS_EmptySet, InitQueue DEF GoalInv
<1>7. FailInv
  BY <1>p, <1>q DEF FailInv, FailRule, Targets
<1> QED BY <1>t, <1>1, <1>2, <1>3, <1>4, <1>5, <1>6, <1>7 DEF RopeInv

\* The invariant depends on the variables of the module only.
LEMMA StutterInv ==
  ASSUME RopeInv, UNCHANGED vars
  PROVE  RopeInv'
<1> USE DEF RopeInv, vars, globals, fixed, locals, history
<1>d. /\ \A r : Dependencies(r)' = Dependencies(r) /\ Deps(r)' = Deps(r)
      /\ \A w, r : Holds(w, r)' <=> Holds(w, r)
      /\ \A r : Queued(r)' <=> Queued(r)
      /\ Needed' = Needed /\ (Chain <=> Chain') /\ (Solo <=> Solo') /\ (NoRace <=> NoRace')
      /\ Targets' = Targets
  BY DEF Dependencies, Deps, Holds, Queued, Needed, Chain, Solo, NoRace, Targets
<1>1. TypeOK'
  BY DEF TypeOK
<1>2. LoopInv'
  BY <1>d DEF LoopInv, LoopOK
<1>3. HistoryInv'
  BY DEF HistoryInv
<1>4. DepInv'
  BY <1>d DEF DepInv, Ready
<1>5. PhaseInv'
  BY <1>d DEF PhaseInv, PhaseOK
<1>6. OnceInv'
  <2>1. \A d, r : Served(d, r)' <=> Served(d, r)
    BY <1>d DEF Served
  <2>2. \A r : (Used(r)' <=> Used(r)) /\ (Begun(r)' <=> Begun(r))
    BY <1>d DEF Used, Begun
  <2>3. \A r : AtMostOnce(tasks, r)' <=> AtMostOnce(tasks, r)
    BY DEF AtMostOnce
  <2> QED BY <1>d, <2>1, <2>2, <2>3 DEF OnceInv, OnceOK, Once
<1>7. GoalInv'
  <2>1. Counted' = Counted
    BY <1>d DEF Counted
  <2> QED BY <1>d, <2>1 DEF GoalInv, Clean
<1>8. FailInv'
  <2>1. \A r : (Sound(r)' <=> Sound(r)) /\ (Hopeless(r)' <=> Hopeless(r))
    BY <1>d DEF Sound, Hopeless
  <2>2. ASSUME NEW r PROVE FailRule(r)' <=> FailRule(r)
    BY <1>d, <2>1 DEF FailRule
  <2>3. ASSUME NEW w PROVE FailWorker(w)' <=> FailWorker(w)
    BY <1>d, <2>1 DEF FailWorker
  <2> QED BY <1>d, <2>2, <2>3 DEF FailInv
<1> QED BY <1>1, <1>2, <1>3, <1>4, <1>5, <1>6, <1>7, <1>8

\* Every step of every worker preserves the invariant.
LEMMA StepInv ==
  ASSUME RopeInv, [Next]_vars
  PROVE  RopeInv'
<1>1. CASE UNCHANGED vars
  BY <1>1, StutterInv
<1>2. ASSUME NEW w \in Workers, Step(w) PROVE RopeInv'
  <2> USE DEF RopeInv
  <2>1. TypeOK' /\ LoopInv' /\ HistoryInv'
    BY <1>2, TypeStep, LoopStep, HistoryStep
  <2>2. DepInv' /\ PhaseInv' /\ OnceInv'
    BY <1>2, DepStep, PhaseStep, OnceStep
  <2>3. GoalInv' /\ FailInv'
    BY <1>2, GoalStep, FailStep
  <2> QED BY <2>1, <2>2, <2>3
<1> QED BY <1>1, <1>2 DEF Next

(***************************************************************************)
(* The workers preserve the inductive invariant.                           *)
(***************************************************************************)
THEOREM RopeCorrect == Spec => []RopeInv
<1>1. Init => RopeInv
  BY InitInv
<1>2. RopeInv /\ [Next]_vars => RopeInv'
  BY StepInv
<1> QED BY <1>1, <1>2, PTL DEF Spec

(***************************************************************************)
(* When the commands of a rule run and no command fails, every dependency  *)
(* has been built and the rule is below a goal: for every makefile and any *)
(* number of threads, although push_successful_antineighbors reads the     *)
(* states one at a time.                                                   *)
(***************************************************************************)
THEOREM DependenciesCorrect == Spec => []DependenciesFirst
<1>1. RopeInv => DependenciesFirst
  BY DEF RopeInv, DepInv, DependenciesFirst, Holds, Ready
<1> QED BY <1>1, RopeCorrect, PTL

(***************************************************************************)
(* No thread leaves rope before every goal has been built, in a clean      *)
(* build with one thread or rules of at most one dependency.               *)
(***************************************************************************)
THEOREM QuitCorrect == Spec => []QuitMeansBuilt
<1>1. RopeInv => QuitMeansBuilt
  BY DEF RopeInv, GoalInv, QuitMeansBuilt
<1> QED BY <1>1, RopeCorrect, PTL

(***************************************************************************)
(* No rule ends SUCCEEDED above a dependency that FAILED, with one thread  *)
(* or rules of at most one dependency, when no rule is up to date.         *)
(***************************************************************************)
THEOREM FailureCorrect == Spec => []FailureSpreads
<1>1. ASSUME RopeInv PROVE FailureSpreads
  <2>1. SUFFICES ASSUME NoRace, scenario.uptodate = {}, NEW r \in Targets, state[r] = "SUCCEEDED",
                        NEW d \in Deps(r), state[d] = "FAILED"
                 PROVE  FALSE
    BY DEF FailureSpreads, Targets
  <2>2. r \in Rules /\ d \in Targets
    BY <1>1, DepsType DEF RopeInv, Targets
  <2>3. r \in built /\ d \in failed
    BY <1>1, <2>1, <2>2 DEF RopeInv, HistoryInv, Targets
  <2>4. FailRule(r) /\ FailRule(d)
    BY <1>1, <2>1, <2>2 DEF RopeInv, FailInv
  <2> QED BY <2>3, <2>4 DEF FailRule, Sound
<1> QED BY <1>1, RopeCorrect, PTL
=============================================================================
