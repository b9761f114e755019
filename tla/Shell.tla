------------------------------- MODULE Shell -------------------------------
(***************************************************************************)
(* shell/shell.c: sessions of a shell that runs one or two commands for    *)
(* every line and keeps a history, in a file if option -h is given.  A     *)
(* line is the sequence of its words; "x;" stands for a word that ends     *)
(* with a semicolon, "#0" for a number sign with a number, "!a" for an     *)
(* exclamation mark with a prefix.  The programs that are run are          *)
(* external: each succeeds or fails.  Prompts, messages and option -f      *)
(* (lines from a file) are left out.                                       *)
(***************************************************************************)
EXTENDS Integers, Sequences, SequencesExt, TLC

CONSTANTS Dirs,      \* the directories
          Lines,     \* what the user types, without "exit" and blank lines
          MaxLines, MaxSessions

VARIABLES newlines,            \* whether the build evaluates strcat before strlen
          running,             \* whether a session is on
          cwd,                 \* its directory
          history, history_file_path,
          files,               \* the history file in every directory, if any
          last,                \* the last line: its words, the history it found,
                               \* and the commands that were run for it
          entered,             \* history: the commands entered in this session and before
          saved,               \* history: entered, at the last session that ended with exit
          count                \* lines and sessions so far

vars == <<newlines, running, cwd, history, history_file_path, files, last, entered, saved, count>>

NoPath == "none"
NoFile == <<>>
NoLine == [line |-> <<>>, past |-> <<>>, ran |-> <<>>]

\* How the words used here are written.
Semicolon(w) == w \in {"a;", "ab;"}
Stripped(w) == CASE w = "a;" -> "a" [] w = "ab;" -> "ab" [] OTHER -> w
Numbers == ("#0" :> 0) @@ ("#1" :> 1)
Matching == ("!a" :> {"a", "a;", "ab", "ab;"}) @@ ("!c" :> {"cd"})
Replays == DOMAIN Numbers \union DOMAIN Matching \union {"!"}

Init == /\ newlines \in BOOLEAN
        /\ running = FALSE /\ cwd = CHOOSE d \in Dirs : TRUE
        /\ history = <<>> /\ history_file_path = NoPath
        /\ files = [d \in Dirs |-> NoFile]
        /\ last = NoLine /\ entered = <<>> /\ saved = [d \in Dirs |-> <<>>]
        /\ count = [lines |-> 0, sessions |-> 0]

-----------------------------------------------------------------------------
\* get_args: the words, the operator, and what is on either side of it.  A
\* second operator adds to both sides.  A semicolon leaves its word on the
\* right side.
get_args(line) ==
    FoldLeft(LAMBDA g, i :
               LET w == g.args[i]
                   before == SubSeq(g.args, 1, i - 1)
                   after == SubSeq(g.args, i + 1, Len(line))
               IN CASE w \in {"&&", "||"} ->
                         [g EXCEPT !.op = w, !.args1 = @ \o before, !.args2 = @ \o after]
                    [] Semicolon(w) ->
                         [g EXCEPT !.op = ";", !.args[i] = Stripped(w), !.args1 = @ \o before,
                                   !.args2 = @ \o <<Stripped(w)>> \o after]
                    [] OTHER -> g,
             [op |-> "", args |-> line, args1 |-> <<>>, args2 |-> <<>>],
             [i \in DOMAIN line |-> i])

\* What a line makes of the shell: its history, directory, commands run with
\* their results, and whether it has been aborted by an index out of range.
Now == [history |-> history, cwd |-> cwd, ran |-> <<>>, ok |-> FALSE, aborted |-> FALSE]

\* spoon: outcome is what fork, exec and the program make of the command.
spoon(s, line, args, outcome) ==
    IF s.aborted \/ args = <<>> THEN [s EXCEPT !.aborted = TRUE]
    ELSE IF Head(args) # "cd" THEN [s EXCEPT !.ran = Append(@, <<args, outcome>>), !.ok = outcome]
    ELSE LET ok == Len(args) > 1 /\ args[2] \in Dirs    \* change_directory
         IN [s EXCEPT !.history = Append(@, line), !.ran = Append(@, <<args, ok>>), !.ok = ok,
                      !.cwd = IF ok THEN args[2] ELSE @]

\* The history entry that a line replays, or 0.
nth_cmd(w) == IF Numbers[w] < Len(history) THEN Numbers[w] + 1 ELSE 0
prefix(w) ==
    IF w = "!" THEN Len(history)
    ELSE LET hits == {i \in DOMAIN history : Head(history[i]) \in Matching[w]}
         IN IF hits = {} THEN 0 ELSE CHOOSE i \in hits : \A j \in hits : j <= i
Entry(w) == IF w \in DOMAIN Numbers THEN nth_cmd(w) ELSE prefix(w)

\* A replayed entry is one command, whatever operators it has.
Replay(line, o) ==
    LET past == history[Entry(Head(line))]
    IN IF Entry(Head(line)) = 0 THEN Now
       ELSE spoon([Now EXCEPT !.history = Append(@, past)], line, get_args(past).args, o[1])

Execute(line, o) ==
    LET g == get_args(line)
        recorded == [Now EXCEPT !.history = Append(@, line)]
        first == spoon(recorded, line, g.args1, o[1])
    IN IF g.op = "" THEN spoon(recorded, line, g.args, o[1])
       ELSE IF (g.op = "&&" /\ ~first.ok) \/ (g.op = "||" /\ first.ok) THEN first
       ELSE spoon(first, line, g.args2, o[2])

\* One turn of loop.
Loop(line) ==
    /\ running /\ count.lines < MaxLines
    /\ \E o \in [1..2 -> BOOLEAN] :
         LET s == IF Head(line) = "!history" THEN Now
                  ELSE IF Head(line) \in Replays THEN Replay(line, o) ELSE Execute(line, o)
         IN /\ history' = s.history /\ cwd' = s.cwd
            /\ last' = [line |-> line, past |-> history, ran |-> s.ran]
            /\ running' = ~s.aborted
    /\ entered' = IF Head(line) = "!history" THEN entered
                  ELSE IF Head(line) \notin Replays THEN Append(entered, line)
                  ELSE IF Entry(Head(line)) = 0 THEN entered
                  ELSE Append(entered, history[Entry(Head(line))])
    /\ count' = [count EXCEPT !.lines = @ + 1]
    /\ UNCHANGED <<newlines, history_file_path, files, saved>>

\* shell: options and read_history, which opens the file by its name.
Start(d, kept) ==
    /\ ~running /\ count.sessions < MaxSessions
    /\ running' = TRUE /\ cwd' = d
    /\ history_file_path' = IF kept THEN d ELSE NoPath
    /\ history' = IF kept THEN files[d] ELSE <<>>
    /\ entered' = IF kept THEN saved[d] ELSE <<>>
    /\ last' = NoLine
    /\ count' = [count EXCEPT !.sessions = @ + 1]
    /\ UNCHANGED <<newlines, files, saved>>

\* write_history appends the newline to an entry in one argument of fwrite and
\* takes its length in another: in a build that takes the length first no
\* newline is written, and the last word of an entry and the first of the
\* next become one ("ab" stands for such words).
Written ==
    IF newlines \/ history = <<>> THEN history
    ELSE <<FoldLeft(LAMBDA e, x : Front(e) \o <<IF Semicolon(Head(x)) THEN "ab;" ELSE "ab">> \o Tail(x),
                    Head(history), Tail(history))>>

\* Mutant of EndShell: the file is opened by its name once more.
EndShellByName ==
    /\ running /\ running' = FALSE
    /\ IF history_file_path = NoPath THEN UNCHANGED <<files, saved>>
       ELSE /\ files' = [files EXCEPT ![cwd] = Written]
            /\ saved' = [saved EXCEPT ![history_file_path] = entered]
    /\ UNCHANGED <<newlines, cwd, history, history_file_path, last, entered, count>>

\* exit or the end of the input: end_shell, with write_history.
EndShell ==
    /\ running /\ running' = FALSE
    /\ IF history_file_path = NoPath THEN UNCHANGED <<files, saved>>
       ELSE /\ files' = [files EXCEPT ![history_file_path] = Written]
            /\ saved' = [saved EXCEPT ![history_file_path] = entered]
    /\ UNCHANGED <<newlines, cwd, history, history_file_path, last, entered, count>>

Next == \/ \E line \in Lines : Loop(line)
        \/ \E d \in Dirs, kept \in BOOLEAN : Start(d, kept)
        \/ EndShell

Spec == Init /\ [][Next]_vars

-----------------------------------------------------------------------------
\* A command that spoon does not enter a second time.
Ordinary(line) == Head(line) \notin {"cd", "!history"} \union Replays

(***************************************************************************)
(* The history of a session holds every ordinary command of this session   *)
(* and of the earlier ones with the same file that ended with exit, in the *)
(* order in which they were entered, replayed ones included, although the  *)
(* shell changes its directory in between; in builds that write newlines.  *)
(***************************************************************************)
HistoryKept ==
    running /\ newlines => SelectSeq(history, Ordinary) = SelectSeq(entered, Ordinary)

(***************************************************************************)
(* The commands that are run for a line are the ones it means: for         *)
(* "x && y" the second exactly if the first succeeded, for "x || y"        *)
(* exactly if it failed, and for a replay the entry it names.  Lines with  *)
(* a semicolon, and replays of lines with an operator, are excepted.       *)
(***************************************************************************)
RunsWhatIsMeant ==
    LET line == last.line
        ran == last.ran
        Simple(s) == \A i \in DOMAIN s : s[i] \notin {"&&", "||"} /\ ~Semicolon(s[i])
        ops == {i \in DOMAIN line : line[i] \in {"&&", "||"}}
    IN /\ line # <<>> /\ ops # {} =>
            LET i == CHOOSE i \in ops : TRUE
                first == SubSeq(line, 1, i - 1)
                second == SubSeq(line, i + 1, Len(line))
            IN ran # <<>> /\ ran[1][1] = first
               /\ IF ran[1][2] = (line[i] = "&&") THEN Len(ran) = 2 /\ ran[2][1] = second
                                                 ELSE Len(ran) = 1
       /\ line # <<>> /\ Head(line) \in Replays /\ ran # <<>> =>
            \E i \in DOMAIN last.past :
              /\ Head(line) \in DOMAIN Numbers => i = Numbers[Head(line)] + 1
              /\ Head(line) \in DOMAIN Matching =>
                   /\ Head(last.past[i]) \in Matching[Head(line)]
                   /\ \A j \in DOMAIN last.past : j > i =>
                        Head(last.past[j]) \notin Matching[Head(line)]
              /\ Head(line) = "!" => i = Len(last.past)
              /\ Simple(last.past[i]) => Len(ran) = 1 /\ ran[1][1] = last.past[i]
=============================================================================
