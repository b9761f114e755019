----------------------------- MODULE MCParmake -----------------------------
(***************************************************************************)
(* Makefiles for TLC: scaled down from parallel_make/test_makefiles with   *)
(* two workers, and all makefiles over three rules, with and without a     *)
(* failing one, and all of up to four lines over a few kinds of lines,     *)
(* with one.                                                               *)
(***************************************************************************)
EXTENDS Parmake

CONSTANTS a, b, c, d, cmd, fails

MCRules == {Root, a, b, c, d}

Makefile(lines) == "makefile" :> lines
Call(options, goals, files) == [options |-> options, goals |-> goals, files |-> files]
Jobs(n) == <<[opt |-> "j", value |-> n]>>

Line(r, deps) == Target(<<r>>, deps)

\* testfile3, with the dependencies of a in two lines and a recipe for d that
\* a later one overrides.
Diamond == <<Line(a, <<b>>), Line(d, <<>>), Recipe(fails), Line(b, <<d>>), Line(a, <<c>>),
             Recipe(cmd), Line(c, <<d>>), Blank, Line(d, <<>>), Recipe(cmd)>>
\* testfile9: c is nobody's dependency
Fan == <<Line(a, <<d>>), Line(b, <<d>>), Line(c, <<d>>), Line(d, <<>>)>>
\* testfile7, c with a dependency
Uneven == <<Line(a, <<b, c>>), Line(c, <<d>>), Line(b, <<>>), Recipe(cmd), Blank, Recipe(fails)>>

TwoWorkers == {<<Call(Jobs(2), <<>>, Makefile(Diamond)), {fails}, {}>>,
               <<Call(Jobs(2), <<>>, Makefile(Diamond)), {}, {b}>>,
               <<Call(Jobs(2), <<a, b>>, Makefile(Fan)), {}, {}>>,
               <<Call(Jobs(2), <<a, b>>, Makefile(Fan \o <<Recipe(fails)>>)), {fails}, {}>>,
               <<Call(Jobs(2), <<>>, Makefile(Uneven)), {fails}, {}>>}

\* Every makefile over a, b and c, with dependencies in the order of the file
\* and goals in any order.
Lists == {SelectSeq(<<a, b, c>>, LAMBDA r : r \in S) : S \in SUBSET {a, b, c}}
OneWorker == {<<Call(<<>>, goals, Makefile(<<Line(a, da), Line(b, db), Line(c, dc)>>)), {}, {}>> :
                goals \in SetToAllKPermutations({a, b, c}) \ {<<>>},
                da \in Lists, db \in Lists, dc \in Lists}

\* The same with a command of c that fails.
OneFails == {<<Call(<<>>, goals, Makefile(<<Line(a, da), Line(b, db), Line(c, dc), Recipe(fails)>>)),
               {fails}, {}>> :
               goals \in {<<a>>, <<b, a>>}, da \in Lists, db \in Lists, dc \in Lists}

\* Every makefile of up to four lines, erroneous ones included.
Lines == {Blank, Bad, Recipe(cmd), Recipe(fails), Line(a, <<b>>), Target(<<b, c>>, <<>>)}
Texts == {<<Call(<<>>, goals, Makefile(text)), {}, {}>> :
            goals \in {<<>>, <<b>>}, text \in BoundedSeq(Lines, 4)}

\* Command lines: which makefile is read, and how many workers start.
F(name) == [opt |-> "f", value |-> name]
Both == "makefile" :> <<Line(a, <<>>)>> @@ "Makefile" :> <<Line(b, <<>>)>> @@ "other" :> <<Line(c, <<>>)>>
CommandLines == {<<Call(options, <<>>, files), {}, {}>> :
    options \in {<<>>, Jobs(0), Jobs(1) \o Jobs(2), <<F("other"), [opt |-> "x", value |-> 0]>>,
                <<F("none"), F("other")>>, <<F("none")>>},
    files \in {Both, "Makefile" :> <<Line(b, <<>>)>>, "readme" :> <<>>}}

ScenariosOf(calls) == {Called(t[1], t[2], t[3]) : t \in calls}
MCScenarios == ScenariosOf(TwoWorkers \union OneWorker \union OneFails \union Texts \union CommandLines)
MCDiamond == ScenariosOf({<<Call(Jobs(2), <<>>, Makefile(Diamond)), {}, {}>>})
=============================================================================
