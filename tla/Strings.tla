------------------------------ MODULE Strings ------------------------------
(* The C library calls WeensyOS supplies itself (src/pset4/lib.cc): moving    *)
(* and comparing memory, printing numbers and reading them back. Characters   *)
(* are their codes, a string is a sequence of them without the final NUL, and *)
(* a machine word has WordBits bits (64 in the code).                         *)
EXTENDS Integers, Sequences, SequencesExt, FiniteSetsExt

CONSTANTS
    WordBits,
    Formats,     \* the directives printed: records [conv, flags, width, precision]
    BufferSizes, \* sizes of the buffers given to snprintf()
    Compared,    \* the strings compared
    Numerals,    \* the strings read as decimal numbers
    MemorySize,  \* bytes of the memory that is copied
    SymbolTables,\* debugging symbols: sequences of records [value, size]
    LookedUp     \* the addresses looked up

Directives == [conv : {"d", "u", "x", "X"}, flags : SUBSET {"alt", "zero", "left", "plus", "space"},
               width : Int, precision : Int]

\* A sign, if any, and decimal digits.
Decimals == {s \in Seq(Nat) : /\ s # << >> /\ s[1] \in {43, 45} \cup 48..57
                              /\ \A i \in 2..Len(s) : s[i] \in 48..57}

\* Symbols are sorted and do not overlap.
Sorted(table) == \A i \in 1..Len(table) - 1 :
                    /\ table[i].value < table[i + 1].value
                    /\ table[i].value + table[i].size <= table[i + 1].value

ASSUME StringsAssumption ==
    /\ WordBits \in Nat \ {0} /\ WordBits % 2 = 0 /\ MemorySize \in Nat
    /\ Formats \subseteq Directives /\ BufferSizes \subseteq Nat
    /\ Compared \subseteq Seq(1..255) /\ Numerals \subseteq Decimals
    /\ SymbolTables \subseteq Seq([value : Nat, size : Nat])
    /\ \A table \in SymbolTables : Sorted(table)
    /\ LookedUp \subseteq Nat

\* The powers of two that fit.
TwoTo[n \in 0..WordBits] == IF n = 0 THEN 1 ELSE 2 * TwoTo[n - 1]

Words == 0..TwoTo[WordBits] - 1
MaxWord == TwoTo[WordBits] - 1       \* -1UL
Longs == -TwoTo[WordBits - 1]..TwoTo[WordBits - 1] - 1
Wrap(x) == x % TwoTo[WordBits]       \* what an unsigned long keeps
Signed(w) == IF w >= TwoTo[WordBits - 1] THEN w - TwoTo[WordBits] ELSE w   \* long(w)

VARIABLES
    text,    \* the buffer snprintf() last wrote, with its NUL
    call     \* the last call, its arguments and its result

stringVars == <<text, call>>

-----------------------------------------------------------------------------
(* Numbers to text *)

\* upper_digits and lower_digits
Digit(d, upper) == IF d < 10 THEN 48 + d ELSE IF upper THEN 55 + d ELSE 87 + d

\* fill_numbuf(): the last digit first, at least one.
FillNumbuf(val, base, upper) ==
    LET digits[v \in Words] ==
            IF v < base THEN <<Digit(v, upper)>> ELSE Append(digits[v \div base], Digit(v % base, upper))
    IN  digits[val]

Repeat(c, n) == [i \in 1..n |-> c]

Base(f) == IF f.conv \in {"x", "X"} THEN 16 ELSE 10

\* The digits of the number x under the directive f; long x, or unsigned long x.
Digits(f, x) == FillNumbuf(Wrap(IF f.conv = "d" /\ x < 0 THEN -x ELSE x), Base(f),
                           f.conv = "X")

Prefix(f, x) ==
    IF f.conv = "d"
    THEN IF x < 0 THEN <<45>>                           \* "-"
         ELSE IF "plus" \in f.flags THEN <<43>>         \* "+"
         ELSE IF "space" \in f.flags THEN <<32>>
         ELSE << >>
    ELSE IF "alt" \in f.flags /\ Base(f) = 16 /\ x # 0
    THEN <<48, IF f.conv = "x" THEN 120 ELSE 88>>       \* "0x", "0X"
    ELSE << >>

\* Zeros between prefix and digits: up to the precision if there is one (it is
\* not negative), else up to the width if the zero flag asks and nothing forbids.
Zeros(f, prefix, digits) ==
    IF f.precision >= 0 THEN Max({f.precision - Len(digits), 0})
    ELSE IF "zero" \in f.flags /\ "left" \notin f.flags
    THEN Max({f.width - Len(digits) - Len(prefix), 0})
    ELSE 0

\* printer_vprintf() for one numeric directive.
Printed(f, x) ==
    LET digits == Digits(f, x)
        prefix == Prefix(f, x)
        number == prefix \o Repeat(48, Zeros(f, prefix, digits)) \o digits
        spaces == Repeat(32, Max({f.width - Len(number), 0}))
    IN  IF "left" \in f.flags THEN number \o spaces ELSE spaces \o number

\* string_putc() and vsnprintf(): what does not fit is counted and not stored;
\* the NUL takes the place after the text, or the last of the buffer.
Stored(s, size) ==
    LET kept == SubSeq(s, 1, Min({Len(s), size}))
    IN  IF size = 0 THEN << >>
        ELSE IF Len(kept) < size THEN Append(kept, 0)
        ELSE [kept EXCEPT ![size] = 0]

Snprintf(size, f, x) ==
    /\ text' = Stored(Printed(f, x), size)
    /\ call' = [name |-> "snprintf", size |-> size, format |-> f, value |-> x,
                result |-> Len(Printed(f, x))]

-----------------------------------------------------------------------------
(* Text to numbers; s is a NUL-terminated sequence *)

IsSpace(c) == c \in 9..13 \cup {32}

\* The first place from i on that has no space.
FirstNonSpace(s, i) == Min({j \in i..Len(s) : ~IsSpace(s[j])})

\* The digits strtoul() takes; with base 16 '0' + base also lets ':'..'?' through.
DigitValue(c, base) ==
    IF c >= 48 /\ c < 48 + base THEN c - 48
    ELSE IF base > 10 /\ c >= 97 /\ c < 97 + base - 10 THEN c - 87
    ELSE IF base > 10 /\ c >= 65 /\ c < 65 + base - 10 THEN c - 55
    ELSE -1

\* The first place from i on that has no digit.
FirstNonDigit(s, i, base) == Min({j \in i..Len(s) : DigitValue(s[j], base) < 0})

HexPrefix(s, i) == s[i] = 48 /\ i < Len(s) /\ s[i + 1] \in {120, 88}

Accumulate(acc, digit, base) ==
    IF acc.x > (MaxWord - digit) \div base THEN [acc EXCEPT !.overflow = TRUE]
    ELSE [acc EXCEPT !.x = @ * base + digit]

\* The digits from a place on to another, without it.
Sum(s, from, to, base) ==
    LET sum[n \in 0..to - from] ==
            IF n = 0 THEN [x |-> 0, overflow |-> FALSE]
            ELSE Accumulate(sum[n - 1], DigitValue(s[from + n - 1], base), base)
    IN  sum[to - from]

\* strtoul(s + i - 1, &end, givenBase): the word and the place it ends.
Strtoul(s, i, givenBase) ==
    LET start    == FirstNonSpace(s, i)
        negative == s[start] = 45
        first    == IF s[start] \in {43, 45} THEN start + 1 ELSE start
        base     == IF givenBase # 0 THEN givenBase
                    ELSE IF HexPrefix(s, first) THEN 16
                    ELSE IF s[first] = 48 THEN 8 ELSE 10
        from     == IF base = 16 /\ HexPrefix(s, first) THEN first + 2 ELSE first
        end      == FirstNonDigit(s, from, base)
        sum      == Sum(s, from, end, base)
        x        == IF sum.overflow THEN MaxWord ELSE sum.x
    IN  [value |-> IF negative THEN Wrap(-x) ELSE x, end |-> end]

\* A mutant: the same bound on both sides.
Bound_Symmetric(negative) == TwoTo[WordBits - 1] - 1

\* The largest magnitude of a long of that sign.
Bound(negative) == TwoTo[WordBits - 1] - (IF negative THEN 0 ELSE 1)

\* strtol(): its own space and sign, then strtoul(), which takes a second sign.
Strtol(s, base) ==
    LET start    == FirstNonSpace(s, 1)
        negative == s[start] = 45
        u        == Strtoul(s, IF negative THEN start + 1 ELSE start, base)
        clamped  == Min({u.value, Bound(negative)})
    IN  [value |-> Signed(IF negative THEN Wrap(-clamped) ELSE clamped), end |-> u.end]

\* The program reads the text it printed, as p-lib.cc's and the kernel's callers may.
ReadBack(base) ==
    /\ call.name = "snprintf" /\ text # << >>
    /\ call' = [name |-> "read", format |-> call.format, value |-> call.value,
                whole |-> call.result + 1 = Len(text), base |-> base,
                result |-> IF call.format.conv = "d" THEN Strtol(text, base)
                           ELSE Strtoul(text, 1, base)]
    /\ UNCHANGED text

\* Any numeral read with strtol().
Read(s) == /\ call' = [name |-> "strtol", numeral |-> s,
                       result |-> Strtol(Append(s, 0), 10).value]
           /\ UNCHANGED text

-----------------------------------------------------------------------------
(* Memory and strings *)

\* One byte copied from place s to place d.
CopyByte(m, d, s) == [m EXCEPT ![d] = m[s]]

\* A mutant: always forward.
MoveOrder_Forward(d, s, n) == [i \in 1..n |-> i - 1]

\* memmove() goes backward when the destination starts inside the source.
MoveOrder(d, s, n) == IF s < d /\ s + n > d THEN [i \in 1..n |-> n - i]
                      ELSE [i \in 1..n |-> i - 1]

\* Each copy reads what the earlier ones left. The caller's bytes are all
\* different here, so the result shows where each one came from.
Moved(d, s, n) ==
    LET order == MoveOrder(d, s, n)
        after[k \in 0..n] == IF k = 0 THEN [i \in 0..MemorySize - 1 |-> i]
                             ELSE CopyByte(after[k - 1], d + order[k], s + order[k])
    IN  after[n]

Memmove(d, s, n) ==
    /\ call' = [name |-> "memmove", to |-> d, from |-> s, size |-> n, result |-> Moved(d, s, n)]
    /\ UNCHANGED text

\* The character at a place of a string; its NUL, and no place after it is read.
CharAt(s, i) == IF i <= Len(s) THEN s[i] ELSE 0

Order(a, b) == IF a > b THEN 1 ELSE IF a < b THEN -1 ELSE 0

\* strncmp(): skip the equal characters before a NUL and within n; n < 0 is strcmp().
Strncmp(a, b, n) ==
    LET limit == IF n < 0 THEN Len(a) + Len(b) + 1 ELSE n
        at == Min({i \in 1..limit + 1 :
                      i = limit + 1 \/ CharAt(a, i) = 0 \/ CharAt(b, i) = 0
                      \/ CharAt(a, i) # CharAt(b, i)})
    IN  IF at > limit THEN 0 ELSE Order(CharAt(a, at), CharAt(b, at))

Compare(a, b, n) == /\ call' = [name |-> "strncmp", a |-> a, b |-> b, n |-> n,
                                result |-> Strncmp(a, b, n)]
                    /\ UNCHANGED text

-----------------------------------------------------------------------------

\* An int has half the bits of a long; RAND_MAX is the largest int.
IntBits == WordBits \div 2
Ints == -TwoTo[IntBits - 1]..TwoTo[IntBits - 1] - 1
RandMax == TwoTo[IntBits - 1] - 1
WrapInt(x) == LET w == x % TwoTo[IntBits] IN IF w > RandMax THEN w - TwoTo[IntBits] ELSE w

\* The result of rand(min, max) for the number r: the width of the range is an
\* int, which wraps when it is RAND_MAX + 1, and the rest unsigned long.
Scale(r, min, max) ==
    WrapInt(min + (Wrap(r * Wrap(WrapInt(max - min + 1))) \div (RandMax + 1)))

\* rand() itself is any number it can return. The guard is what the comment on
\* rand(min, max) requires of its callers; of the two asserts only the first can
\* fail, max - min being an int and RAND_MAX the largest one.
Rand(min, max) ==
    /\ min <= max /\ max - min <= RandMax
    /\ \E r \in 0..RandMax :
           call' = [name |-> "rand", min |-> min, max |-> max, result |-> Scale(r, min, max)]
    /\ UNCHANGED text

-----------------------------------------------------------------------------

(* lookup_symbol() of src/pset4/k-hardware.cc: the symbol an address is in.   *)
(* That it first maps the table of symbols is left out.                       *)

\* A symbol without a size reaches to the next one; the last one has no end.
Covers(table, m, addr) ==
    /\ table[m].value <= addr
    /\ IF table[m].size # 0 THEN addr < table[m].value + table[m].size
       ELSE m = Len(table) \/ addr < table[m + 1].value

\* The search among the w symbols from place l on; 0 when there is none.
LookupSymbol(table, addr) ==
    LET search[w \in 0..Len(table)] ==
            [l \in 1..Len(table) + 1 - w |->
                LET m == l + (w \div 2)
                IN  IF w = 0 THEN 0
                    ELSE IF Covers(table, m, addr) THEN m
                    ELSE IF table[m].value < addr THEN search[w - (w \div 2) - 1][m + 1]
                    ELSE search[w \div 2][l]]
    IN  search[Len(table)][1]

Lookup(table, addr) == /\ call' = [name |-> "lookup", table |-> table, addr |-> addr,
                                   result |-> LookupSymbol(table, addr)]
                       /\ UNCHANGED text

-----------------------------------------------------------------------------

StringsInit == /\ text = << >>
               /\ call = [name |-> "none"]

\* The calls share no state but the buffer that is read back, so one call from
\* the start, and a reading of what it printed, are every case there is.
AnyCall ==
    \/ \E size \in BufferSizes, f \in Formats :
           \E x \in (IF f.conv = "d" THEN Longs ELSE Words) : Snprintf(size, f, x)
    \/ \E d, s \in 0..MemorySize - 1, n \in 1..MemorySize :
           d + n <= MemorySize /\ s + n <= MemorySize /\ Memmove(d, s, n)
    \/ \E s \in Numerals : Read(s)
    \/ \E min, max \in Ints : Rand(min, max)
    \/ \E table \in SymbolTables, addr \in LookedUp : Lookup(table, addr)
    \/ \E a, b \in Compared, n \in -1..3 : Compare(a, b, n)

StringsNext == \/ call.name = "none" /\ AnyCall
               \/ \E base \in {0, 10, 16} : ReadBack(base)

StringsSpec == StringsInit /\ [][StringsNext]_stringVars

-----------------------------------------------------------------------------
(* Properties *)

\* A number printed into a buffer that was large enough and read back in the
\* same base is that number, whatever flags, width and precision it was printed
\* with: the most negative long included, whose negation does not fit. Base 0
\* finds the base of a text without padding zeros, which would make it octal.
SameBase(f, base) ==
    \/ base = Base(f)
    \/ /\ base = 0
       /\ f.precision < 0 /\ "zero" \notin f.flags
       /\ Base(f) = 16 => "alt" \in f.flags

NumbersComeBack ==
    call.name = "read" /\ call.whole /\ SameBase(call.format, call.base)
        => /\ call.result.value = call.value
           /\ text[call.result.end] \in {0, 32}   \* all of it was read

\* The value of digits, and of a numeral, in unbounded arithmetic.
Magnitude(digits) ==
    LET size[n \in 0..Len(digits)] ==
            IF n = 0 THEN 0 ELSE 10 * size[n - 1] + digits[n] - 48
    IN  size[Len(digits)]

ValueOf(s) == IF s[1] = 45 THEN -Magnitude(Tail(s))
              ELSE IF s[1] = 43 THEN Magnitude(Tail(s)) ELSE Magnitude(s)

\* What the comment on rand(min, max) promises of every range it allows: the
\* number lies in it.
RandInRange == call.name = "rand" => call.result \in call.min..call.max

\* memmove() moves the bytes as if through a third place, overlap or not.
MovesAsOne ==
    call.name = "memmove" =>
        call.result = [i \in 0..MemorySize - 1 |->
            IF i \in call.to..(call.to + call.size - 1) THEN call.from + i - call.to ELSE i]

\* rand() stays in its range unless that has RAND_MAX + 1 numbers.
SmallRangesKept == call.name = "rand" /\ call.max - call.min < RandMax => RandInRange

\* What strncmp() sees of a string; n < 0 is strcmp().
Cut(s, n) == IF n < 0 THEN s ELSE SubSeq(s, 1, Min({n, Len(s)}))

\* At their first difference, where x may have ended.
ComesBefore(x, y) == \E i \in 1..Len(y) : /\ \A j \in 1..i - 1 : j <= Len(x) /\ x[j] = y[j]
                                          /\ IF i > Len(x) THEN TRUE ELSE x[i] < y[i]

\* strncmp() orders strings by their first difference.
OrderedByDifference ==
    call.name = "strncmp" =>
        LET a == Cut(call.a, call.n)
            b == Cut(call.b, call.n)
        IN  call.result = IF ComesBefore(a, b) THEN -1 ELSE IF ComesBefore(b, a) THEN 1 ELSE 0

\* lookup_symbol() finds the symbol of an address exactly if there is one.
SymbolFound ==
    call.name = "lookup" =>
        LET covering == {m \in DOMAIN call.table : Covers(call.table, m, call.addr)}
        IN  IF covering = {} THEN call.result = 0 ELSE call.result \in covering

\* strtol() clamps the true value of a numeral to the range of a long, on both
\* sides and when strtoul() overflows in the middle.
NumeralClamped ==
    call.name = "strtol" =>
        call.result = Max({Min({ValueOf(call.numeral), TwoTo[WordBits - 1] - 1}),
                           -TwoTo[WordBits - 1]})

\* The reference for the calls that have a simple one.
CallsMeetReference ==
    MovesAsOne /\ SmallRangesKept /\ OrderedByDifference /\ SymbolFound /\ NumeralClamped
=============================================================================
