------------------------------- MODULE Shell -------------------------------
(* The shell of pset5 as it is handed out (src/pset5/sh61.cc, helpers.cc):    *)
(* main() reads command lines into a buffer, and eval_line() cuts a line into *)
(* tokens and runs the command they make. command::run() itself is left to    *)
(* the students: running a command is recording its words. Characters are     *)
(* strings of length one; the files and the C library's fgets() are external. *)
EXTENDS Integers, Sequences, SequencesExt, FiniteSetsExt

CONSTANTS
    Characters,  \* those of a line: the newline ends it; NUL and "no" are none
    Scripts,     \* bound: the command files, sequences of lines; a line is a
                 \* record [text, words] of its characters and what they mean
    BufSize      \* BUFSIZ

ASSUME ShellAssumption ==
    /\ BufSize \in Nat \ {0, 1}
    /\ Characters \cap {"\n", "NUL", "no"} = {}
    /\ Scripts \subseteq Seq([text : Seq(Characters), words : Seq(Seq(Characters))])

VARIABLES
    script,      \* the lines of the command file
    ended,       \* whether its last line ends with a newline
    file,        \* the characters fgets() has not given out
    buf,         \* the string in the buffer, an old line's included
    bufpos,      \* how much of it is kept when more is read
    running,     \* the main loop goes on
    ran,         \* the commands run, in order: their words, and the line that ended there
    lineno,      \* (history) the line fgets() is in
    torn         \* (history) the lines an interrupted read took characters of

shellVars == <<script, ended, file, buf, bufpos, running, ran, lineno, torn>>

-----------------------------------------------------------------------------
(* parse_shell_token() *)

IsShellSpace(c) == c \in {" ", "\n"}
IsDigit(c) == c \in {"0", "1", "2"}
IsShellSpecial(c) == c \in {"<", ">", "&", "|", ";", "(", ")", "#"}
Quotes == {"'", "\""}

\* The character at a place, or the NUL that ends the string.
At(s, i) == IF i <= Len(s) THEN s[i] ELSE "NUL"

\* The first place from i on that fails the test.
FirstFailing(s, i, Test(_)) == Min({j \in i..Len(s) + 1 : ~Test(At(s, j))})

Escapes(s, i, quoted) == s[i] = "\\" /\ i < Len(s) /\ quoted # "'"

EndsWord(s, i, quoted) ==
    i > Len(s) \/ (quoted = "no" /\ (IsShellSpace(s[i]) \/ IsShellSpecial(s[i])))

\* The rest of a normal word from a place on: its characters without their
\* quotes, and the place after it.
NormalWord(s, from) ==
    LET then(c, w) == [token |-> <<c>> \o w.token, next |-> w.next]
        word[i \in 1..Len(s) + 1] ==
            [quoted \in Quotes \cup {"no"} |->
                IF EndsWord(s, i, quoted) THEN [token |-> << >>, next |-> i]
                ELSE IF s[i] \in Quotes /\ quoted = "no" THEN word[i + 1][s[i]]
                ELSE IF s[i] = quoted THEN word[i + 1]["no"]
                ELSE IF Escapes(s, i, quoted) THEN then(s[i + 1], word[i + 2][quoted])
                ELSE then(s[i], word[i + 1][quoted])]
    IN  word[from]["no"]

\* A redirection at place i (after its digits): >, <, >>, <> or >&N.
Redirection(s, i) ==
    IF At(s, i + 1) = ">" THEN i + 2
    ELSE IF At(s, i + 1) = "&" /\ IsDigit(At(s, i + 2)) THEN FirstFailing(s, i + 2, IsDigit)
    ELSE i + 1

\* The token at place i, which is not a space, and the place after it.
Token(s, i) ==
    LET j       == FirstFailing(s, i, IsDigit)
        upTo(k) == [token |-> SubSeq(s, i, k - 1), next |-> k]
        word    == NormalWord(s, j)
    IN  IF At(s, j) \in {"<", ">"} THEN upTo(Redirection(s, j))
        ELSE IF j = i /\ s[i] \in {"&", "|"} /\ At(s, i + 1) = s[i] THEN upTo(i + 2)
        ELSE IF j = i /\ IsShellSpecial(s[i]) THEN upTo(i + 1)
        ELSE [token |-> SubSeq(s, i, j - 1) \o word.token, next |-> word.next]

\* eval_line(): every token up to the end of the line or a comment. The types
\* of the tokens are not looked at yet, so they are one command.
Tokens(s) ==
    LET tokens[i \in 1..Len(s) + 1] ==
            LET start == FirstFailing(s, i, IsShellSpace)
            IN  IF At(s, start) \in {"NUL", "#"} THEN << >>
                ELSE <<Token(s, start).token>> \o tokens[Token(s, start).next]
    IN  tokens[1]

EvalLine(s) ==
    ran' = IF Tokens(s) = << >> THEN ran
           ELSE Append(ran, [line |-> lineno, words |-> Tokens(s)])

-----------------------------------------------------------------------------
(* main() *)

\* What fgets(&buf[bufpos], BUFSIZ - bufpos) gives: through the next newline,
\* the end of the file or the end of the room.
Got == LET room == BufSize - 1 - bufpos
           to   == FirstFailing(file, 1, LAMBDA c : c \notin {"\n", "NUL"})
       IN  SubSeq(file, 1, Min({room, to, Len(file)}))

Kept == SubSeq(buf, 1, bufpos)

Complete(line) == Len(line) = BufSize - 1 \/ (line # << >> /\ Last(line) = "\n")

After(line) == IF Complete(line) THEN 0 ELSE Len(line)

\* The rest of the loop: run the line in the buffer if it is complete.
Take(line) == /\ buf' = line
              /\ bufpos' = After(line)
              /\ IF Complete(line) THEN EvalLine(line) ELSE UNCHANGED ran

\* fgets() gave something; it met the end of the file unless the line is complete.
ReadLine == /\ running /\ Got # << >>
            /\ Take(Kept \o Got)
            /\ file' = SubSeq(file, Len(Got) + 1, Len(file))
            /\ lineno' = IF Last(Got) = "\n" THEN lineno + 1 ELSE lineno
            /\ running' = Complete(Kept \o Got)
            /\ UNCHANGED <<script, ended, torn>>

\* A mutant: the string in the buffer is not cut at bufpos.
AfterInterrupt_Uncut == buf
AfterInterrupt == Kept

\* A signal interrupted the read: fgets() has taken some characters, no newline
\* among them and fewer than there is room for, and gives NULL all the same; the
\* string is cut where they begin.
Interrupted == \E n \in 0..Len(Got) :
    /\ running
    /\ n < BufSize - 1 - bufpos /\ \A i \in 1..n : file[i] # "\n"
    /\ Take(AfterInterrupt)
    /\ file' = SubSeq(file, n + 1, Len(file))
    /\ torn' = IF n = 0 THEN torn ELSE torn \cup {lineno}
    /\ UNCHANGED <<script, ended, running, lineno>>

\* The end of the file with nothing read, or an error: leave the loop.
Leave == /\ running
         /\ running' = FALSE
         /\ UNCHANGED <<script, ended, file, buf, bufpos, ran, lineno, torn>>

EndOfFile == Leave /\ file = << >>
ReadError == Leave /\ file # << >>

\* The characters of the last n lines of a script: every line but the last surely
\* has its newline.
Content(lines, end, n) ==
    LET line(i) == lines[i].text
                   \o (IF i < Len(lines) \/ end THEN <<"\n">> ELSE << >>)
        content[k \in 0..Len(lines)] ==
            IF k = 0 THEN << >> ELSE line(Len(lines) - k + 1) \o content[k - 1]
    IN  content[n]

ShellInit == /\ script \in Scripts /\ ended \in BOOLEAN
             /\ file = Content(script, ended, Len(script))
             /\ buf = << >> /\ bufpos = 0
             /\ running = TRUE /\ ran = << >>
             /\ lineno = 1 /\ torn = {}

ShellNext == ReadLine \/ Interrupted \/ EndOfFile \/ ReadError

ShellSpec == ShellInit /\ [][ShellNext]_shellVars

-----------------------------------------------------------------------------
(* Properties *)

\* The lines that end with a newline; the shell reads a last line without one and
\* never runs it.
CompleteLines == IF ended \/ script = << >> THEN Len(script) ELSE Len(script) - 1

FitsBuffer == \A i \in DOMAIN script : Len(script[i].text) + 1 < BufSize

\* Each line makes at most one command, in the order of the lines.
InOrder == \A i, j \in DOMAIN ran : i < j => ran[i].line < ran[j].line

\* What runs are complete lines, each with its own words unless it is excused.
AsWritten(excused) ==
    \A i \in DOMAIN ran :
        /\ ran[i].line \in 1..CompleteLines
        /\ ran[i].line \in excused \/ ran[i].words = script[ran[i].line].words

\* No command of a line behind fgets() is missing, unless the line is excused.
NoneLost(excused) ==
    \A l \in 1..CompleteLines \ excused :
        (l < lineno \/ file = << >>) /\ script[l].words # << >>
            => \E i \in DOMAIN ran : ran[i].line = l

\* What runs is what was written, in order and once each: quotes and escapes
\* protect every character, operators are words of their own, and the old line that
\* stays in the buffer runs no second time. An interrupted read that had taken a part
\* of a line spoils that line, whose rest runs as a command of its own, and no other:
\* "ignore EINTR errors" (sh61.cc:152) is true of reads that had taken nothing.
RunsWhatWasWritten == FitsBuffer => InOrder /\ AsWritten(torn) /\ NoneLost(torn)
=============================================================================
