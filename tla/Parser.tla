------------------------------- MODULE Parser -------------------------------
(***************************************************************************)
(* What parmake does with its command line (parallel_make/parmake_main.c)  *)
(* and with the makefile (parallel_make/parser.c): the call ends in an     *)
(* exit code, or in the dependency graph that load_rules starts from.      *)
(*                                                                         *)
(* A makefile is a sequence of lines that are already recognised, so that  *)
(* spaces, comments and quotes are gone:                                   *)
(*   blank    nothing is left of the line;                                 *)
(*   recipe   it starts with a tab: a command;                             *)
(*   target   names before the first colon, dependencies behind it;        *)
(*   bad      no colon, or it cannot start a target.                       *)
(* A graph maps vertices to their neighbours, without repetition and in    *)
(* the order in which the edges were added; Root is the sentinel "".       *)
(***************************************************************************)
EXTENDS Integers, Sequences, SequencesExt, TLC, RuleGraph

CONSTANT NoName

Blank == [kind |-> "blank"]
Bad == [kind |-> "bad"]
Recipe(command) == [kind |-> "recipe", command |-> command]
Target(names, deps) == [kind |-> "target", names |-> names, deps |-> deps]

NoGraph == <<>>

\* exit: 0, or the code the program stops with.  curr_rule: the rule recipes
\* go to.  state: the line its recipe starts at.
NoRules == [exit |-> 0, deps |-> NoGraph, commands |-> NoGraph, state |-> NoGraph,
            first_target |-> NoName, curr_rule |-> NoName, in_command_block |-> FALSE]

Exit(p, code) == [p EXCEPT !.exit = code]

contains_vertex(p, v) == v \in DOMAIN p.deps

\* graph_set_vertex_value for a vertex the graph may have; rule_init.
AddVertex(p, v) ==
    IF contains_vertex(p, v) THEN p
    ELSE [p EXCEPT !.deps = v :> <<>> @@ @, !.commands = v :> <<>> @@ @, !.state = v :> 0 @@ @]

AddEdge(p, v, w) ==
    [p EXCEPT !.deps[v] = IF Contains(@, w) THEN @ ELSE Append(@, w)]

\* Line number n is a recipe.  The first recipe of a block replaces an
\* earlier block of the same rule.
ParseRecipe(p, n, line) ==
    IF p.curr_rule = NoName THEN Exit(p, 2)
    ELSE LET r == p.curr_rule
             first == ~p.in_command_block
             overriding == first /\ p.state[r] # 0
         IN [p EXCEPT !.commands[r] = Append(IF overriding THEN <<>> ELSE @, line.command),
                      !.state[r] = IF first THEN n ELSE @,
                      !.in_command_block = TRUE]

\* Mutant of ParseTarget: the block of recipes is not ended.
ParseTargetSameBlock(p, line) ==
    LET target == Head(line.names)
        known == AddVertex(p, target)
        linked == FoldLeft(LAMBDA q, d : AddEdge(AddVertex(q, d), target, d), known, line.deps)
    IN [linked EXCEPT !.curr_rule = target,
                      !.first_target = IF contains_vertex(p, target) \/ @ # NoName
                                       THEN @ ELSE target]

\* A target line: only the first name counts, terminate_whitespace drops the
\* others.
ParseTarget(p, line) ==
    LET target == Head(line.names)
        known == AddVertex(p, target)
        linked == FoldLeft(LAMBDA q, d : AddEdge(AddVertex(q, d), target, d), known, line.deps)
    IN [linked EXCEPT !.curr_rule = target, !.in_command_block = FALSE,
                      !.first_target = IF contains_vertex(p, target) \/ @ # NoName
                                       THEN @ ELSE target]

\* One turn of the loop over the lines; nothing is read after an exit.
ParseLine(p, n, line) ==
    IF p.exit # 0 THEN p
    ELSE CASE line.kind = "blank" -> p
           [] line.kind = "recipe" -> ParseRecipe(p, n, line)
           [] line.kind = "target" -> ParseTarget(p, line)
           [] line.kind = "bad" -> Exit(p, 2)

\* The goals become the neighbours of the sentinel.
LinkGoals(p, goals) ==
    FoldLeft(LAMBDA q, g : IF q.exit # 0 THEN q
                           ELSE IF contains_vertex(q, g) THEN AddEdge(q, Root, g)
                           ELSE Exit(q, 1), p, goals)

zero_out_states(p) == [p EXCEPT !.state = [v \in DOMAIN @ |-> 0]]

\* parser_parse_makefile on the lines of an open makefile.
ParseLines(lines, goals) ==
    LET read == FoldLeft(LAMBDA p, n : ParseLine(p, n, lines[n]), AddVertex(NoRules, Root),
                         [n \in DOMAIN lines |-> n])
        wanted == IF goals # <<>> THEN goals ELSE <<read.first_target>>
    IN IF read.exit # 0 THEN read
       ELSE IF goals = <<>> /\ read.first_target = NoName THEN Exit(read, 2)
       ELSE zero_out_states(LinkGoals(read, wanted))

\* open_makefile stops when there is no makefile, or it cannot be opened.
parser_parse_makefile(makefile, goals, files) ==
    IF makefile \notin DOMAIN files THEN Exit(NoRules, 2) ELSE ParseLines(files[makefile], goals)

\* The options, in their order: -f with a name, -j with a number, or any
\* other, which is ignored.  files are the files that can be read.
parse_args(options, files) ==
    LET scan == FoldLeft(LAMBDA p, o :
                           IF p.exit # 0 THEN p
                           ELSE CASE o.opt = "f" -> [p EXCEPT !.makefile = o.value]
                                  [] o.opt = "j" -> IF o.value < 1 THEN Exit(p, 2)
                                                    ELSE [p EXCEPT !.num_threads = o.value]
                                  [] OTHER -> p,
                         [exit |-> 0, makefile |-> NoName, num_threads |-> 1], options)
    IN IF scan.makefile # NoName THEN scan
       ELSE [scan EXCEPT !.makefile = IF "makefile" \in DOMAIN files THEN "makefile"
                                      ELSE IF "Makefile" \in DOMAIN files THEN "Makefile"
                                      ELSE NoName]

\* main, up to the graph.
Main(options, goals, files) ==
    LET args == parse_args(options, files)
        parsed == IF args.exit # 0 THEN Exit(NoRules, args.exit)
                  ELSE parser_parse_makefile(args.makefile, goals, files)
    IN parsed @@ [num_threads |-> args.num_threads]

-----------------------------------------------------------------------------
(***************************************************************************)
(* What a makefile means, without reading it from top to bottom.           *)
(***************************************************************************)
TargetLines(lines) == {i \in DOMAIN lines : lines[i].kind = "target"}
TargetOf(lines, i) == Head(lines[i].names)

\* Line i is a target line, and j a recipe that belongs to it.
Owns(lines, i, j) ==
    /\ i < j /\ lines[j].kind = "recipe"
    /\ \A k \in TargetLines(lines) : k <= i \/ j < k

\* The recipes of the last target line of r that has any.
LastBlock(lines, r) ==
    LET heads == {i \in TargetLines(lines) :
                    TargetOf(lines, i) = r /\ \E j \in DOMAIN lines : Owns(lines, i, j)}
        last == CHOOSE i \in heads : \A j \in heads : j <= i
        owned == SelectSeq([j \in DOMAIN lines |-> j], LAMBDA j : Owns(lines, last, j))
    IN IF heads = {} THEN <<>> ELSE [k \in DOMAIN owned |-> lines[owned[k]].command]

DepsOf(lines, r) ==
    UNION {ToSet(lines[i].deps) : i \in {i \in TargetLines(lines) : TargetOf(lines, i) = r}}
Named(lines) == {Root} \union {TargetOf(lines, i) : i \in TargetLines(lines)}
                       \union UNION {ToSet(lines[i].deps) : i \in TargetLines(lines)}

\* No line is in error, and every goal is named.
WellFormed(lines, goals) ==
    /\ \A j \in DOMAIN lines :
         /\ lines[j].kind # "bad"
         /\ lines[j].kind = "recipe" => \E i \in TargetLines(lines) : Owns(lines, i, j)
    /\ IF goals = <<>> THEN TargetLines(lines) # {} ELSE ToSet(goals) \subseteq Named(lines)

MeantGoals(lines, goals) ==
    IF goals # <<>> THEN ToSet(goals)
    ELSE {TargetOf(lines, i) : i \in {i \in TargetLines(lines) :
                                        \A k \in TargetLines(lines) : i <= k}}

\* parsed says what the lines mean.
Means(parsed, lines, goals) ==
    /\ (parsed.exit = 0) = WellFormed(lines, goals)
    /\ parsed.exit = 0 =>
         /\ DOMAIN parsed.deps = Named(lines)
         /\ ToSet(parsed.deps[Root]) = MeantGoals(lines, goals)
         /\ \A r \in DOMAIN parsed.deps \ {Root} :
              /\ ToSet(parsed.deps[r]) = DepsOf(lines, r)
              /\ parsed.commands[r] = LastBlock(lines, r)
=============================================================================
