---------------------------- MODULE MCSmallParts ----------------------------
(* The parts that work alone, side by side: in a behaviour one of them runs   *)
(* and the others stay in their initial states, so the state space is the sum *)
(* of theirs. A variable of this module says which one runs.                  *)
EXTENDS Console, MCStrings, Keyboard, CxaGuard, Shell, BaseAlloc, CatFiles, PipeExchange

VARIABLE part

\* The console: two rows of three cells; a text longer than the screen, texts
\* with newlines at the end, in the middle and one after the other.
MCTexts == {<<97>>, <<10>>, <<98, 10, 10, 99>>, [i \in 1..7 |-> 96 + i]}
MCPositions == {-1, 1, 3, 6, 7}

MCKeys == {"a", "c", "six", "up", "eight", "lshift", "rshift", "lctrl", "rctrl", "caps"}

MCCharacters == {"a", "0", "1", "2", "'", "\"", "\\", " ", ">", "<", "#", "&", "|", ";",
                 "(", ")"}

\* The shell: each character after a backslash, a word in single and in double quotes.
Backslashed(w) == FoldLeft(LAMBDA acc, c : acc \o <<"\\", c>>, << >>, w)
SingleQuoted(w) == <<"'">> \o w \o <<"'">>
DoubleQuoted(w) ==
    <<"\"">> \o FoldLeft(LAMBDA acc, c :
                             acc \o (IF c \in {"\"", "\\"} THEN <<"\\", c>> ELSE <<c>>),
                         << >>, w)
             \o <<"\"">>
MCWords == {<<"a">>, <<"2">>, <<"'">>, <<" ", "a">>, <<"\\", ">">>, <<"#", "\"">>,
            <<"a", "&", "2">>}
Written(w) == {Backslashed(w), DoubleQuoted(w)}
              \cup (IF "'" \in ToSet(w) THEN {} ELSE {SingleQuoted(w)})
MCOperators == {<<";">>, <<"&">>, <<"&", "&">>, <<"|">>, <<"|", "|">>, <<"(">>, <<">">>,
                <<"2", ">", ">">>, <<"<", ">">>, <<"2", ">", "&", "1">>, <<"2", "a">>}
OneToken == UNION {{[text |-> t, words |-> <<w>>] : t \in Written(w)} : w \in MCWords}
            \cup {[text |-> o, words |-> <<o>>] : o \in MCOperators}
TwoTokens == {[text |-> p.text \o <<" ">> \o q.text, words |-> p.words \o q.words] :
                 p, q \in OneToken}

\* Operators need no space; a quoted part belongs to its word; comments and
\* blank lines are no commands.
Glued == {[text |-> <<"a", ";", "a">>, words |-> << <<"a">>, <<";">>, <<"a">> >>],
          [text |-> <<"a", ">", "2", "|", "a">>,
           words |-> << <<"a">>, <<">">>, <<"2">>, <<"|">>, <<"a">> >>],
          [text |-> <<"a", "'", " ", "'", "a">>, words |-> << <<"a", " ", "a">> >>],
          [text |-> <<"'", "'", " ", "a">>, words |-> << << >>, <<"a">> >>],
          [text |-> <<"a", "2", "<", "2">>, words |-> << <<"a", "2">>, <<"<">>, <<"2">> >>],
          [text |-> <<" ", "a", " ", "#", "a">>, words |-> << <<"a">> >>],
          [text |-> <<"#", "a">>, words |-> << >>],
          [text |-> <<" ">>, words |-> << >>]}
TooLong == LET word == [i \in 1..20 |-> "a"] IN [text |-> word, words |-> <<word>>]
MCScripts == {<<l>> : l \in TwoTokens} \cup {<<l, m>> : l, m \in Glued}
             \cup {<<TooLong, TooLong>>, << >>}

\* The cat programs: each with the options that matter to it, right and wrong ones.
O(opt, val) == [opt |-> opt, val |-> val]
Cmds(program, lists) == {[program |-> program, options |-> l] : l \in lists}
Blocks == {<<O("b", n)>> : n \in 1..3}

MCCommands ==
  Cmds("cat", {<<>>, <<O("s", 2)>>, <<O("s", 3), O("s", 9)>>, <<O("i", 0), O("i", 0)>>})
  \cup Cmds("block", Blocks \cup {<<>>, <<O("b", 0)>>, <<O("b", 0), O("b", 1)>>})
  \cup Cmds("randblock", {b \o <<O("r", 7)>> : b \in Blocks})
  \cup Cmds("reverse", {<<>>, <<O("s", 3)>>, <<O("s", 9)>>, <<O("b", 1)>>})
  \cup UNION {Cmds(p, {b \o <<O("t", n)>> : b \in Blocks, n \in 3..5}) : p \in {"stride", "ostride"}}
  \cup Cmds("stride", {<<>>, <<O("t", 0)>>, <<O("s", 4), O("t", 3), O("b", 2)>>})
  \cup Cmds("reorder", Blocks \cup {b \o <<O("s", 6)>> : b \in Blocks} \cup {<<>>, <<O("o", 0), O("o", 0)>>})
  \cup Cmds("gather", {b \o l \o [k \in 1..n |-> O("i", 0)] \o [k \in 1..m |-> O("o", 0)] :
                        b \in Blocks, l \in {<<>>, <<O("l", 0)>>}, n \in {0, 2, 3}, m \in {0, 2}})

\* The exchange: one message at a time, a batch of short messages, and a batch
\* that is beyond the smaller of the pipes' capacities.
M(batch, request, response) ==
    [batch |-> batch, request |-> request, response |-> response]
MCPhases == <<M(1, 1, 2), M(3, 2, 1), M(4, 2, 2)>>

MCInit == /\ part \in {"console", "strings", "keyboard", "guard", "shell", "allocator",
                      "files", "exchange"}
          /\ ConsoleInit /\ StringsInit /\ KeyboardInit /\ GuardInit /\ AInit
          /\ ShellInit
          /\ part = "shell" \/ (script = << >> /\ ended)
          /\ CInit
          /\ part = "files" \/ command = [program |-> "cat", options |-> << >>]
          /\ PInit
          /\ part = "exchange" \/ \A c \in Pipes : room[c] = 1

Rest(p) == /\ p # "console" => UNCHANGED consoleVars
           /\ p # "strings" => UNCHANGED stringVars
           /\ p # "keyboard" => UNCHANGED keyboardVars
           /\ p # "guard" => UNCHANGED guardVars
           /\ p # "shell" => UNCHANGED shellVars
           /\ p # "allocator" => UNCHANGED avars
           /\ p # "files" => UNCHANGED cvars
           /\ p # "exchange" => UNCHANGED pvars
           /\ UNCHANGED part

MCNext == \/ part = "console" /\ ConsoleNext /\ Rest("console")
          \/ part = "strings" /\ StringsNext /\ Rest("strings")
          \/ part = "keyboard" /\ KeyboardNext /\ Rest("keyboard")
          \/ part = "guard" /\ GuardNext /\ Rest("guard")
          \/ part = "shell" /\ ShellNext /\ Rest("shell")
          \/ part = "allocator" /\ ANext /\ Rest("allocator")
          \/ part = "files" /\ CNext /\ Rest("files")
          \/ part = "exchange" /\ PNext /\ Rest("exchange")

MCSpec ==
    /\ MCInit
    /\ [][MCNext]_<<part, consoleVars, stringVars, keyboardVars, guardVars, shellVars, avars,
                     cvars, pvars>>
    /\ \A t \in Threads : WF_guardVars(part = "guard" /\ GuardStep(t))
    /\ WF_pvars(part = "exchange" /\ Forks) /\ WF_pvars(part = "exchange" /\ Polls)
    /\ \A c \in {1, 2} : WF_pvars(part = "exchange" /\ ChildStep(c))
=============================================================================
