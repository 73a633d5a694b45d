------------------------------ MODULE MCStrings -----------------------------
(* Words of six bits, so that ints have three; every directive with and       *)
(* without a width and a precision; numerals on both sides of the range of a  *)
(* long; strings that are prefixes of one another.                            *)
EXTENDS Strings

MCFormats == [conv : {"d", "u", "x", "X"}, flags : SUBSET {"alt", "zero", "left", "plus", "space"},
              width : {-1, 4}, precision : {-1, 3}]
MCCompared == UNION {[1..n -> {97, 98}] : n \in 0..2}
MCNumerals == {<<sign>> \o digits : sign \in {43, 45, 48},
                                    digits \in UNION {[1..n -> {48, 49, 51, 57}] : n \in 1..3}}

\* Sorted tables whose symbols do not overlap.
MCSymbolTables ==
    {t \in UNION {[1..n -> [value : {1, 3, 4, 7}, size : {0, 1, 2}]] : n \in 0..4} :
         \A i \in 1..Len(t) - 1 : t[i].value + Max({t[i].size, 1}) <= t[i + 1].value}
=============================================================================
