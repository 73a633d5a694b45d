------------------------------ MODULE CatFiles ------------------------------
(***************************************************************************)
(* The copying programs of pset3 over the unbuffered io61 library, and the  *)
(* parser of their arguments (profile61.cc).  One program runs, on files    *)
(* whose bytes are all different, so that a property can follow each byte.  *)
(*                                                                         *)
(* A program is one process on files nobody else uses: a step is a turn of  *)
(* its loop, with the library calls of that turn.  Outputs are regular      *)
(* files, and writes do not fail.                                           *)
(***************************************************************************)
EXTENDS Integers, Sequences, FiniteSetsExt, SequencesExt

CONSTANTS Commands,   \* [program, options]: an option is [opt, val]
          Lengths,    \* lengths an input file may have
          EveryLine   \* every EveryLine-th byte of a file is a newline

ASSUME CatAssumption ==
  /\ EveryLine \in Nat \ {0} /\ Lengths \subseteq Nat
  /\ \A c \in Commands : c.options \in Seq([opt : STRING, val : Nat])

VARIABLES
  command,   \* what was typed
  args,      \* io61_arguments
  lengths,   \* the lengths of the input files
  inf,       \* the open input files: [name, data, pos, seekable]
  outf,      \* the output files: [data, pos]
  local,     \* the program's variables
  turns,     \* how often scattergather61 has read each input file
  pc         \* "parse", "open", "copy", "done" or "failed"
cvars == <<command, args, lengths, inf, outf, local, turns, pc>>

Program == command.program

\* A byte is the file it came from and its place there; two are of other origin.
ByteOf(file, k) == <<file, k>>
Hole == <<0, 0>>       \* what lseek() beyond the end leaves
EofByte == <<0, 1>>    \* EOF given to io61_writec()
IsNewline(b) == (b[1] + b[2]) % EveryLine = 0

FirstBytes(s, n) == SubSeq(s, 1, n)
Least(a, b) == IF a < b THEN a ELSE b

-----------------------------------------------------------------------------
(* io61: a file descriptor is its file's bytes and a position.             *)

Remaining(f) == Len(f.data) - f.pos

\* io61_read(): up to n bytes, one by one until the end of the file.
BytesRead(f, n) == SubSeq(f.data, f.pos + 1, Least(f.pos + n, Len(f.data)))
Past(f, s) == [f EXCEPT !.pos = @ + Len(s)]

\* io61_write(): over what is there, and over a hole when the position is beyond it.
Write(f, s) ==
  LET end == f.pos + Len(s)
      byte(k) == IF k > f.pos /\ k <= end THEN s[k - f.pos]
                 ELSE IF k <= Len(f.data) THEN f.data[k] ELSE Hole
  IN IF s = <<>> THEN f
     ELSE [f EXCEPT !.data = [k \in 1..Max({Len(f.data), end}) |-> byte(k)], !.pos = end]

Seek(f, pos) == [f EXCEPT !.pos = pos]
FileSize(f) == IF f.seekable THEN Len(f.data) ELSE -1

-----------------------------------------------------------------------------
(* io61_arguments.                                                         *)

Options ==
  [cat |-> {"s", "o", "i"}, block |-> {"b", "o", "i"}, randblock |-> {"b", "r", "o", "i"},
   reverse |-> {"s", "o", "i"}, stride |-> {"b", "t", "s", "o"},
   ostride |-> {"b", "t", "o", "i"}, reorder |-> {"b", "r", "s", "o", "i"},
   gather |-> {"b", "i", "o", "l"}]

Defaults == [size |-> -1, block |-> 0, stride |-> 1024, lines |-> FALSE,
             inputs |-> 0, outputs |-> 0, usage |-> FALSE]

\* One turn of the getopt() loop.
Parse(a, o) ==
  IF \/ a.usage \/ o.opt \notin Options[Program]
     \/ o.opt \in {"b", "t"} /\ o.val = 0
  THEN [a EXCEPT !.usage = TRUE]
  ELSE CASE o.opt = "s" -> [a EXCEPT !.size = o.val]
         [] o.opt = "b" -> [a EXCEPT !.block = o.val]
         [] o.opt = "t" -> [a EXCEPT !.stride = o.val]
         [] o.opt = "l" -> [a EXCEPT !.lines = TRUE]
         [] o.opt = "i" -> [a EXCEPT !.inputs = @ + 1]
         [] o.opt = "o" -> [a EXCEPT !.outputs = @ + 1]
         [] OTHER       -> a       \* "r": the seed

\* Only scattergather61 takes several files; without one it is the standard stream.
Checked(a) ==
  [a EXCEPT !.usage = @ \/ (Program # "gather" /\ (a.inputs > 1 \/ a.outputs > 1)),
            !.inputs = Max({1, @}), !.outputs = Max({1, @})]

\* The getopt() loop.
ParseAll(options) ==
  LET a[n \in 0..Len(options)] == IF n = 0 THEN Defaults ELSE Parse(a[n - 1], options[n])
  IN  a[Len(options)]

ParseArguments ==
  /\ pc = "parse"
  /\ args' = Checked(ParseAll(command.options))
  /\ pc' = IF args'.usage THEN "failed" ELSE "open"
  /\ UNCHANGED <<command, lengths, inf, outf, local, turns>>

BlockSize == IF args.block # 0 THEN args.block
             ELSE IF Program \in {"block", "randblock", "reorder"} THEN 4096 ELSE 1

-----------------------------------------------------------------------------
(* Opening.                                                                *)

Sized == Program \in {"reverse", "stride", "reorder", "ostride"}
Size(f) == IF args.size < 0 \/ Program = "ostride" THEN FileSize(f) ELSE args.size

\* A size that cannot be had, an input that cannot be sought, and for
\* reordercat61 a size that is no multiple of the blocks, end the program.
CannotOpen(f) ==
  \/ Sized /\ Size(f) < 0
  \/ Sized /\ Program # "ostride" /\ ~f.seekable
  \/ Program = "reorder" /\ Size(f) % BlockSize # 0

InputFile(n, length, seekable) ==
  [name |-> n, data |-> [k \in 1..length |-> ByteOf(n, k)], pos |-> 0, seekable |-> seekable]
OutputFile == [data |-> <<>>, pos |-> 0]

\* size_t variables start at the value the code gives them; -1 is SIZE_MAX.
Locals(f) ==
  [size |-> IF Sized THEN Size(f) ELSE args.size, pos |-> 0, written |-> 0,
   block |-> BlockSize, ini |-> -1, outi |-> 0,
   blockpos |-> IF Program = "reorder" /\ Size(f) >= 0
                THEN [b \in 1..Size(f) \div BlockSize |-> b - 1] ELSE <<>>]

\* A single input may be a pipe.
Open ==
  /\ pc = "open"
  /\ lengths' \in [1..args.inputs -> Lengths]
  /\ \E seekable \in IF args.inputs = 1 THEN BOOLEAN ELSE {TRUE} :
       inf' = [n \in 1..args.inputs |-> InputFile(n, lengths'[n], seekable)]
  /\ outf' = [n \in 1..args.outputs |-> OutputFile]
  /\ turns' = [n \in 1..args.inputs |-> 0]
  /\ local' = Locals(inf'[1])
  /\ pc' = IF CannotOpen(inf'[1]) THEN "failed" ELSE "copy"
  /\ UNCHANGED <<command, args>>

-----------------------------------------------------------------------------
(* The loops.                                                              *)

Running(programs) == pc = "copy" /\ Program \in programs
Finish == pc' = "done" /\ UNCHANGED <<inf, outf, local, turns>>
Copy(f, g) == inf' = [inf EXCEPT ![1] = f] /\ outf' = [outf EXCEPT ![1] = g]
Continue == UNCHANGED <<turns, pc>>

\* cat61, blockcat61, randblockcat61: from the beginning to the end.
ChunkSizes == CASE Program = "cat"       -> {1}
                [] Program = "block"     -> {BlockSize}
                [] Program = "randblock" -> 1..BlockSize

Forward ==
  /\ Running({"cat", "block", "randblock"})
  /\ \E n \in ChunkSizes :
       LET s == IF local.size = 0 THEN <<>> ELSE BytesRead(inf[1], n)
       IN IF s = <<>> THEN Finish
          ELSE /\ Copy(Past(inf[1], s), Write(outf[1], s))
               /\ local' = [local EXCEPT !.size = @ - 1]
               /\ Continue
  /\ UNCHANGED <<command, args, lengths>>

Place(size) == size - 1

\* reverse61: one character at a time from the end; beyond the end there is EOF.
Backward ==
  /\ Running({"reverse"})
  /\ IF local.size = 0 THEN Finish
     ELSE LET f == Seek(inf[1], Place(local.size))
              s == BytesRead(f, 1)
          IN /\ Copy(Past(f, s), Write(outf[1], IF s = <<>> THEN <<EofByte>> ELSE s))
             /\ local' = [local EXCEPT !.size = @ - 1]
             /\ Continue
  /\ UNCHANGED <<command, args, lengths>>

\* A mutant: the block is not cut short at the end of a stride.
CutShort_Not(block, pos) == block

CutShort(block, pos) == IF pos + block > args.stride THEN args.stride - pos ELSE block

\* stridecat61 and ostridecat61 move one of the two files on by a stride, and to the
\* next block of the stride when they come to the end.
Strided ==
  /\ Running({"stride", "ostride"})
  /\ LET s == IF local.written >= local.size THEN <<>> ELSE BytesRead(inf[1], local.block)
         further == local.pos + args.stride
         wraps == further >= local.size
         pos == IF wraps THEN (further % args.stride) + local.block ELSE further
         f == Past(inf[1], s)
         g == Write(outf[1], s)
     IN IF s = <<>> THEN Finish
        ELSE /\ IF Program = "stride" THEN Copy(Seek(f, pos), g) ELSE Copy(f, Seek(g, pos))
             /\ local' = [local EXCEPT !.written = @ + Len(s), !.pos = pos,
                                       !.block = IF wraps THEN CutShort(@, pos) ELSE @]
             /\ Continue
  /\ UNCHANGED <<command, args, lengths>>

\* blockpos[index] = blockpos[nblocks - 1]; --nblocks
Removed(s, i) == [j \in 1..Len(s) - 1 |-> IF j = i THEN s[Len(s)] ELSE s[j]]

\* reordercat61: the blocks in any order, each to its own place.
Reorder ==
  /\ Running({"reorder"})
  /\ \/ local.blockpos = <<>> /\ Finish
     \/ \E i \in DOMAIN local.blockpos :
          LET pos == local.blockpos[i] * BlockSize
              f == Seek(inf[1], pos)
              s == BytesRead(f, BlockSize)
          IN IF s = <<>> THEN Finish
             ELSE /\ Copy(Past(f, s), Write(Seek(outf[1], pos), s))
                  /\ local' = [local EXCEPT !.blockpos = Removed(@, i)]
                  /\ Continue
  /\ UNCHANGED <<command, args, lengths>>

\* read_line(): up to a newline and with it.
NextLine(f, n) ==
  LET s == BytesRead(f, n)
      ends == {k \in DOMAIN s : IsNewline(s[k])}
  IN IF ends = {} THEN s ELSE FirstBytes(s, Min(ends))

\* A mutant: the place is not stepped back when a file goes.
AfterErase_Same(ini) == ini

AfterErase(ini) == ini - 1

\* scattergather61: a block from the next input to the next output; an input at its
\* end is closed and its place in the round taken by the one behind it.
Gather ==
  /\ Running({"gather"})
  /\ IF inf = <<>> THEN Finish
     ELSE LET ini == (local.ini + 1) % Len(inf)
              f == inf[ini + 1]
              s == IF args.lines THEN NextLine(f, BlockSize) ELSE BytesRead(f, BlockSize)
          IN /\ turns' = [turns EXCEPT ![f.name] = @ + 1]
             /\ IF s = <<>>
                THEN /\ inf' = RemoveAt(inf, ini + 1)
                     /\ local' = [local EXCEPT !.ini = AfterErase(ini)]
                     /\ UNCHANGED outf
                ELSE /\ inf' = [inf EXCEPT ![ini + 1] = Past(f, s)]
                     /\ outf' = [outf EXCEPT ![local.outi + 1] = Write(@, s)]
                     /\ local' = [local EXCEPT !.ini = ini, !.outi = (@ + 1) % Len(outf)]
             /\ UNCHANGED pc
  /\ UNCHANGED <<command, args, lengths>>

-----------------------------------------------------------------------------
CInit ==
  /\ command \in Commands
  /\ args = Defaults /\ lengths = <<>> /\ inf = <<>> /\ outf = <<>> /\ turns = <<>>
  /\ local = [size |-> 0, pos |-> 0, written |-> 0, block |-> 0, ini |-> -1, outi |-> 0,
              blockpos |-> <<>>]
  /\ pc = "parse"

CNext == ParseArguments \/ Open \/ Forward \/ Backward \/ Strided \/ Reorder \/ Gather

CSpec == CInit /\ [][CNext]_cvars

-----------------------------------------------------------------------------
(* Properties.                                                             *)

Input == [k \in 1..lengths[1] |-> ByteOf(1, k)]
Output == outf[1].data
Done(programs) == pc = "done" /\ Program \in programs

\* cat61, blockcat61 and randblockcat61 copy the input, up to -s; "the resulting output
\* file should be the same as the input" of reordercat61 too, whatever the order of the
\* blocks, unless -s is beyond the end of the input (reordercat61.cc:5-7).
CopiesInput ==
  /\ Done({"cat", "block", "randblock"}) =>
       Output = IF args.size < 0 THEN Input ELSE FirstBytes(Input, Least(args.size, Len(Input)))
  /\ Done({"reorder"}) /\ local.size <= Len(Input) => Output = FirstBytes(Input, local.size)

\* reverse61 writes the input backwards, from its end or from the place -s gives it; for
\* the places beyond the end it writes an EOF byte each (reverse61.cc:29-34).
ReversesInput ==
  Program = "reverse" /\ pc \in {"copy", "done"} =>
    LET n == IF args.size < 0 THEN Len(Input) ELSE args.size
    IN /\ Len(Output) <= n /\ (pc = "done" => Len(Output) = n)
       /\ \A j \in 1..Len(Output) :
            Output[j] = IF n - j < Len(Input) THEN ByteOf(1, n - j + 1) ELSE EofByte

\* Of a stride, the places of one block come before those of the next, for all strides.
Key(p) == <<(p % args.stride) \div BlockSize, p \div args.stride, p % args.stride>>
Before(p, q) ==
  \E i \in 1..3 : Key(p)[i] < Key(q)[i] /\ \A j \in 1..i - 1 : Key(p)[j] = Key(q)[j]
Strictly(places) == \A j \in 1..Len(places) - 1 : Before(places[j], places[j + 1])

\* The strided programs shuffle: no byte is lost or copied twice, and the places they
\* read (stridecat61) or write (ostridecat61) come "in the sequence 0, 1024, 2048, ...,
\* 1, 1025, 2049, ..." by blocks, for blocks within the stride (stridecat61.cc:5-9).
\* Nothing is said of stridecat61 with -s: it counts what a block reads beyond that size,
\* or finds nothing there, and so stops before the last places within it.
ShufflesInput ==
  Done({"stride", "ostride"}) /\ BlockSize <= args.stride /\ args.size < 0 =>
    LET n == Len(Input)
        place(k) == CHOOSE p \in DOMAIN Output : Output[p] = ByteOf(1, k)
    IN /\ \A k \in 1..n : Cardinality({p \in DOMAIN Output : Output[p] = ByteOf(1, k)}) = 1
       /\ IF Program = "stride" THEN Strictly([j \in 1..n |-> Output[j][2] - 1])
                                ELSE Strictly([k \in 1..n |-> place(k) - 1])

\* Each of these programs makes of its input what its name says, for every length of
\* the input, block and stride, and every -s but stridecat61's and one that takes
\* reordercat61 beyond the end: the three properties above together.
OutputsAsNamed == CopiesInput /\ ReversesInput /\ ShufflesInput

\* scattergather61 loses no byte of any input, copies none twice and makes none up,
\* keeps each input's order in every output, and lets no input have two turns while
\* another open one has none, however inputs come to their ends in the middle of a
\* round (scattergather61.cc:4-11, 54-66).
GathersAll ==
  Program = "gather" /\ pc \in {"copy", "done"} =>
    /\ \A i, j \in DOMAIN inf :
         i < j => turns[inf[i].name] - turns[inf[j].name] \in {0, 1}
    /\ \A o \in DOMAIN outf : \A i \in DOMAIN outf[o].data :
         \E n \in 1..args.inputs : \E k \in 1..lengths[n] : outf[o].data[i] = ByteOf(n, k)
    /\ \A o \in DOMAIN outf : \A i, j \in DOMAIN outf[o].data :
         i < j /\ outf[o].data[i][1] = outf[o].data[j][1]
           => outf[o].data[i][2] < outf[o].data[j][2]
    /\ \A o, p \in DOMAIN outf : o # p => Range(outf[o].data) \cap Range(outf[p].data) = {}
    /\ pc = "done" => \A n \in 1..args.inputs : \A k \in 1..lengths[n] :
         \E o \in DOMAIN outf : ByteOf(n, k) \in Range(outf[o].data)
=============================================================================
