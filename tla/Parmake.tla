------------------------------ MODULE Parmake ------------------------------
(***************************************************************************)
(* parallel_make: parmake from the command line on.  The parser makes the  *)
(* graph, load_rules marks the rules and queues the leaves, and then the   *)
(* workers of module Rope run.                                             *)
(***************************************************************************)
EXTENDS Rope, ParmakeLoad

(***************************************************************************)
(* A call of parmake: command line, makefiles, the commands that fail and  *)
(* the rules that are up to date.  The parser gives the dependencies of    *)
(* every rule (deps[Root] the goals), and with them the rules that fail    *)
(* and the workers that are started: none if it exits.                     *)
(***************************************************************************)
Called(call, failing, uptodate) ==
    LET parsed == Main(call.options, call.goals, call.files)
        ok == parsed.exit = 0
        deps == [r \in Rules |-> IF ok /\ r \in DOMAIN parsed.deps THEN parsed.deps[r] ELSE <<>>]
        loaded == Load(deps, Fresh)
    IN [call |-> call, parsed |-> parsed, uptodate |-> uptodate, deps |-> deps,
        failing |-> {r \in DOMAIN parsed.commands : ToSet(parsed.commands[r]) \cap failing # {}},
        threads |-> IF ok THEN {w \in Workers : w <= parsed.num_threads} ELSE {},
        loaded |-> [state |-> loaded.g.state, valid |-> loaded.valid]]

-----------------------------------------------------------------------------
Goals == Deps(Root)

(***************************************************************************)
(* The graph parser_parse_makefile builds, and the recipes of its rules,   *)
(* are what the makefile says as a whole, however its rules are split over *)
(* target lines: the dependencies of all lines of a target, the recipes of *)
(* the last block, the first target if no goal is given, and an exit       *)
(* exactly when a line or a goal is in error.                              *)
(***************************************************************************)
ParsesMakefile ==
    LET call == scenario.call
        names == DOMAIN call.files
        used == IF "makefile" \in names THEN "makefile" ELSE "Makefile"
        named == SelectSeq(call.options, LAMBDA o : o.opt = "f")
    IN IF \/ \E o \in ToSet(call.options) : o.opt = "j" /\ o.value < 1
          \/ (IF named = <<>> THEN used ELSE Last(named).value) \notin names
       THEN scenario.parsed.exit # 0
       ELSE Means(scenario.parsed,
                  call.files[IF named = <<>> THEN used ELSE Last(named).value], call.goals)

(***************************************************************************)
(* load_rules drops a goal, with print_cycle_failure, exactly when it      *)
(* depends on a cycle (format.h), also when an earlier goal met the same   *)
(* cycle and left its path in the global set "visited".                    *)
(***************************************************************************)
DropsExactlyCyclicGoals == valid_goals = {g \in Goals : ~Cyclic(scenario.deps, g)}
=============================================================================
