---------------------------- MODULE StringsProofs ----------------------------
(***************************************************************************)
(* Proofs about the C library calls of WeensyOS: every call gives what its *)
(* reference says, for any width of a word, any strings, numerals, symbols *)
(* and memory, and a number printed whole is read back as itself, under    *)
(* any directive.                                                          *)
(*                                                                         *)
(* A loop of the library is a recursive function in Strings.  The lemmas   *)
(* of Iteration give its values step by step; each section then relates   *)
(* them to the reference: copied bytes to where they came from, the search *)
(* to the symbols left in its window, the digits to the value they have so *)
(* far.                                                                    *)
(***************************************************************************)
EXTENDS Strings, Iteration

-----------------------------------------------------------------------------
(* Powers of two.                                                          *)

LEMMA TwoToIs ==
    /\ TwoTo \in [0 .. WordBits -> Nat \ {0}] /\ TwoTo[0] = 1
    /\ \A n \in 1 .. WordBits : TwoTo[n] = 2 * TwoTo[n - 1]
<1>1. PICK N \in Nat : N = WordBits
  BY StringsAssumption
<1> DEFINE P == Nat \ {0}
<1>2. PICK h : h = [n \in 1 .. N |-> [x \in P |-> 2 * x]]
  OBVIOUS
<1>3. h \in [1 .. N -> [P -> P]]
  <2>1. \A x \in P : 2 * x \in P
    OBVIOUS
  <2>2. [x \in P |-> 2 * x] \in [P -> P]
    BY <2>1
  <2> QED
    BY <1>2, <2>2
<1>4. 1 \in P
  OBVIOUS
<1>5. PICK f : Folds(f, h, 1, N, P)
  <2> HIDE DEF P
  <2> QED
    BY <1>3, <1>4, FoldExists
<1>6. f \in [0 .. N -> P] /\ f[0] = 1
  BY <1>5 DEF Folds
<1>7. ASSUME NEW n \in 1 .. N PROVE f[n] = 2 * f[n - 1]
  <2>1. n - 1 \in 0 .. N /\ f[n] = h[n][f[n - 1]]
    BY <1>5 DEF Folds
  <2> QED
    BY <1>2, <1>6, <2>1
<1>8. f = [n \in 0 .. N |-> IF n = 0 THEN 1 ELSE 2 * f[n - 1]]
  <2>1. ASSUME NEW n \in 0 .. N PROVE f[n] = IF n = 0 THEN 1 ELSE 2 * f[n - 1]
    <3>1. n # 0 => n \in 1 .. N
      OBVIOUS
    <3> QED
      BY <1>6, <1>7, <3>1
  <2> QED
    BY <1>6, <2>1
<1>9. PICK g : g = TwoTo
  OBVIOUS
<1>10. g = CHOOSE t : t = [n \in 0 .. N |-> IF n = 0 THEN 1 ELSE 2 * t[n - 1]]
  BY <1>1, <1>9 DEF TwoTo
<1>11. g = [n \in 0 .. N |-> IF n = 0 THEN 1 ELSE 2 * g[n - 1]]
  BY <1>8, <1>10
<1>12. g[0] = 1 /\ \A n \in 1 .. N : g[n] = 2 * g[n - 1]
  BY <1>11
<1> DEFINE S == {n \in 0 .. N : g[n] \in P}
<1>13. 0 \in S
  BY <1>12
<1>14. ASSUME NEW n \in 0 .. N - 1, n \in S PROVE n + 1 \in S
  <2>1. n + 1 \in 1 .. N /\ (n + 1) - 1 = n /\ g[n] \in P
    BY <1>14
  <2>2. g[n + 1] = 2 * g[n]
    BY <1>12, <2>1
  <2> QED
    BY <2>1, <2>2
<1>15. \A n \in 0 .. N : n \in S
  <2> HIDE DEF S
  <2> QED
    BY <1>13, <1>14, UpTo
<1>16. g \in [0 .. N -> P]
  BY <1>11, <1>15
<1> QED
  BY <1>1, <1>9, <1>12, <1>16

LEMMA TwoToSum ==
    ASSUME NEW a \in 0 .. WordBits
    PROVE  \A b \in 0 .. WordBits - a : TwoTo[a + b] = TwoTo[a] * TwoTo[b]
<1>1. PICK N \in Nat : N = WordBits
  BY StringsAssumption
<1> DEFINE S == {b \in 0 .. N - a : TwoTo[a + b] = TwoTo[a] * TwoTo[b]}
<1>2. 0 \in S
  BY <1>1, TwoToIs
<1>3. ASSUME NEW b \in 0 .. (N - a) - 1, b \in S PROVE b + 1 \in S
  <2>1. /\ a + (b + 1) \in 1 .. N /\ (a + (b + 1)) - 1 = a + b
        /\ b + 1 \in 1 .. N /\ (b + 1) - 1 = b /\ b + 1 \in 0 .. N - a
    BY <1>1
  <2>2. TwoTo[a + (b + 1)] = 2 * TwoTo[a + b] /\ TwoTo[b + 1] = 2 * TwoTo[b]
    BY <1>1, <2>1, TwoToIs
  <2>3. PICK x \in Nat, y \in Nat : x = TwoTo[a] /\ y = TwoTo[b]
    <3>1. a \in 0 .. WordBits /\ b \in 0 .. WordBits
      BY <1>1
    <3>2. TwoTo[a] \in Nat /\ TwoTo[b] \in Nat
      BY <3>1, TwoToIs
    <3> QED
      BY <3>2
  <2>4. TwoTo[a + b] = x * y
    BY <1>3, <2>3
  <2>5. 2 * (x * y) = x * (2 * y)
    OBVIOUS
  <2> QED
    BY <2>1, <2>2, <2>3, <2>4, <2>5
<1>4. N - a \in Nat
  BY <1>1
<1>5. \A b \in 0 .. N - a : b \in S
  <2> HIDE DEF S
  <2> QED
    BY <1>2, <1>3, <1>4, UpTo
<1> QED
  BY <1>1, <1>5

\* The sizes of a long and of an int: there are as many longs as pairs of ints.
LEMMA Sizes ==
    \E H, R \in Nat \ {0} :
        /\ TwoTo[WordBits] = 2 * H /\ TwoTo[WordBits - 1] = H /\ MaxWord = 2 * H - 1
        /\ TwoTo[IntBits] = 2 * R /\ TwoTo[IntBits - 1] = R /\ RandMax = R - 1
        /\ H = 2 * (R * R)
<1>1. PICK k \in Nat \ {0} : WordBits = k + k /\ IntBits = k
  BY StringsAssumption DEF IntBits
<1>2. PICK H \in Nat \ {0} : TwoTo[WordBits - 1] = H
  <2>1. WordBits - 1 \in 0 .. WordBits
    BY <1>1
  <2> QED
    BY <2>1, TwoToIs
<1>3. PICK R \in Nat \ {0} : TwoTo[k - 1] = R
  BY <1>1, TwoToIs
<1>4. TwoTo[WordBits] = 2 * H
  BY <1>1, <1>2, TwoToIs
<1>5. TwoTo[k] = 2 * R
  BY <1>1, <1>3, TwoToIs
<1>6. H = 2 * (R * R)
  <2>1. k \in 0 .. WordBits /\ k - 1 \in 0 .. WordBits - k /\ k + (k - 1) = WordBits - 1
    BY <1>1
  <2>2. H = (2 * R) * R
    BY <1>2, <1>3, <1>5, <2>1, TwoToSum
  <2> QED
    BY <2>2
<1> QED
  BY <1>1, <1>2, <1>3, <1>4, <1>5, <1>6 DEF MaxWord, RandMax

-----------------------------------------------------------------------------
(* rand().                                                                 *)

LEMMA InRange ==
    ASSUME NEW x \in Int, NEW R \in Nat \ {0}, -R <= x, x < R
    PROVE  /\ x >= 0 => x % (2 * R) = x
           /\ x < 0 => x % (2 * R) = x + 2 * R
<1>1. PICK s \in Nat \ {0} : s = 2 * R
  OBVIOUS
<1>2. CASE x >= 0
  BY <1>1, <1>2, SmallRest
<1>3. CASE x < 0
  <2>1. PICK q \in Int : q = -1
    OBVIOUS
  <2>2. q * s = -s
    BY <2>1
  <2>3. q * s <= x /\ x < q * s + s
    BY <1>1, <1>3, <2>2
  <2>4. x % s = x - q * s
    BY <2>3, Quotient
  <2> QED
    BY <1>1, <1>3, <2>2, <2>4
<1> QED
  BY <1>2, <1>3

LEMMA IntsFit ==
    ASSUME NEW x \in Ints
    PROVE  WrapInt(x) = x
<1>1. PICK R \in Nat \ {0} : TwoTo[IntBits] = 2 * R /\ TwoTo[IntBits - 1] = R /\ RandMax = R - 1
  BY Sizes
<1>2. x \in Int /\ -R <= x /\ x < R
  BY <1>1 DEF Ints
<1>3. PICK w : w = x % (2 * R)
  OBVIOUS
<1>4. (x >= 0 => w = x) /\ (x < 0 => w = x + 2 * R)
  BY <1>2, <1>3, InRange
<1>5. WrapInt(x) = IF w > R - 1 THEN w - 2 * R ELSE w
  BY <1>1, <1>3 DEF WrapInt
<1> QED
  BY <1>2, <1>4, <1>5

LEMMA WordsFit ==
    ASSUME NEW x \in Nat, x <= MaxWord
    PROVE  Wrap(x) = x
<1>1. PICK H \in Nat \ {0} : TwoTo[WordBits] = 2 * H /\ MaxWord = 2 * H - 1
  BY Sizes
<1>2. 2 * H \in Nat \ {0} /\ x < 2 * H
  BY <1>1
<1> QED
  BY <1>1, <1>2, SmallRest DEF Wrap

LEMMA ScaleFits ==
    ASSUME NEW min \in Ints, NEW max \in Ints, NEW r \in 0 .. RandMax,
           min <= max, max - min < RandMax
    PROVE  Scale(r, min, max) \in min .. max
<1>1. PICK H \in Nat \ {0}, R \in Nat \ {0} :
         /\ MaxWord = 2 * H - 1
         /\ TwoTo[IntBits - 1] = R /\ RandMax = R - 1 /\ H = 2 * (R * R)
  BY Sizes
<1>2. PICK w \in Nat \ {0} : w = max - min + 1 /\ w <= R - 1
  BY <1>1 DEF Ints
<1>3. w \in Ints
  BY <1>1, <1>2 DEF Ints
<1>4. PICK p \in Nat : p = r * w
  BY <1>1, <1>2
<1>5. p <= R * R /\ w <= R * R /\ r <= R - 1 /\ r \in Nat
  <2>1. r \in Nat /\ r <= R - 1 /\ w <= R
    BY <1>1, <1>2
  <2>2. r * w <= R * w
    <3>1. PICK d \in Nat : R = r + d
      <4>1. R - r \in Nat /\ R = r + (R - r)
        BY <2>1
      <4> QED
        BY <4>1
    <3>2. (r + d) * w = r * w + d * w /\ d * w >= 0
      OBVIOUS
    <3> QED
      BY <3>1, <3>2
  <2>3. R * w <= R * R
    <3>1. PICK d \in Nat : R = w + d
      <4>1. R - w \in Nat /\ R = w + (R - w)
        BY <2>1
      <4> QED
        BY <4>1
    <3>2. R * (w + d) = R * w + R * d /\ R * d >= 0
      OBVIOUS
    <3> QED
      BY <3>1, <3>2
  <2>4. w <= R * w
    <3>1. PICK d \in Nat : R = 1 + d
      <4>1. R - 1 \in Nat /\ R = 1 + (R - 1)
        OBVIOUS
      <4> QED
        BY <4>1
    <3>2. (1 + d) * w = w + d * w /\ d * w >= 0
      OBVIOUS
    <3> QED
      BY <3>1, <3>2
  <2>5. R * w \in Int /\ R * R \in Int
    OBVIOUS
  <2> QED
    BY <1>4, <2>1, <2>2, <2>3, <2>4, <2>5
<1>6. Wrap(WrapInt(max - min + 1)) = w
  <2>1. WrapInt(w) = w
    BY <1>3, IntsFit
  <2>2. w \in Nat /\ w <= MaxWord
    <3>1. PICK z \in Nat : z = R * R
      OBVIOUS
    <3> QED
      BY <1>1, <1>5, <3>1
  <2> QED
    BY <1>2, <2>1, <2>2, WordsFit
<1>7. Wrap(r * w) = p
  <2>1. p <= MaxWord
    <3>1. PICK z \in Nat : z = R * R
      OBVIOUS
    <3> QED
      BY <1>1, <1>5, <3>1
  <2> QED
    BY <1>4, <2>1, WordsFit
<1>8. PICK q \in Nat : q = p \div R /\ q < w
  <2>1. p < w * R
    <3>1. PICK d \in Nat \ {0} : R = r + d
      <4>1. R - r \in Nat \ {0} /\ R = r + (R - r)
        BY <1>1, <1>5
      <4> QED
        BY <4>1
    <3>2. w * (r + d) = r * w + d * w /\ d * w >= 1
      <4>1. PICK e \in Nat, v \in Nat : d = e + 1 /\ w = v + 1
        <5>1. d - 1 \in Nat /\ w - 1 \in Nat /\ d = (d - 1) + 1 /\ w = (w - 1) + 1
          OBVIOUS
        <5> QED
          BY <5>1
      <4>2. (e + 1) * (v + 1) = e * v + e + v + 1 /\ e * v >= 0
        OBVIOUS
      <4>3. d * w >= 1
        BY <4>1, <4>2
      <4> QED
        BY <1>5, <4>3
    <3> QED
      BY <1>4, <3>1, <3>2
  <2>2. p \div R < w
    BY <2>1, Blocks
  <2>3. p \div R \in Nat
    BY Remainders
  <2> QED
    BY <2>2, <2>3
<1>9. min + q \in Ints /\ min + q \in min .. max
  BY <1>1, <1>2, <1>8 DEF Ints
<1>10. Scale(r, min, max) = WrapInt(min + q)
  <2>1. RandMax + 1 = R
    BY <1>1
  <2> QED
    BY <1>6, <1>7, <1>8, <2>1 DEF Scale
<1> QED
  BY <1>9, <1>10, IntsFit

-----------------------------------------------------------------------------
(* memmove().                                                              *)

Memories == [0 .. MemorySize - 1 -> 0 .. MemorySize - 1]

LEMMA CopyByteIs ==
    ASSUME NEW m \in Memories, NEW to \in 0 .. MemorySize - 1, NEW from \in 0 .. MemorySize - 1
    PROVE  /\ CopyByte(m, to, from) \in Memories
           /\ \A i \in 0 .. MemorySize - 1 :
                 CopyByte(m, to, from)[i] = IF i = to THEN m[from] ELSE m[i]
BY DEF CopyByte, Memories

\* The memories between the copies, and the places, from the start, of the bytes copied.
MoveSteps(m, o, d, s, n) ==
    /\ m \in [0 .. n -> Memories] /\ o \in [1 .. n -> 0 .. n - 1]
    /\ Moved(d, s, n) = m[n]
    /\ m[0] = [i \in 0 .. MemorySize - 1 |-> i]
    /\ \A k \in 1 .. n : m[k] = CopyByte(m[k - 1], d + o[k], s + o[k])
    /\ s < d /\ s + n > d => \A k \in 1 .. n : o[k] = n - k
    /\ ~(s < d /\ s + n > d) => \A k \in 1 .. n : o[k] = k - 1

LEMMA MovedIs ==
    ASSUME NEW d \in Nat, NEW s \in Nat, NEW n \in Nat,
           d + n <= MemorySize, s + n <= MemorySize
    PROVE  \E m, o : MoveSteps(m, o, d, s, n)
<1>1. MemorySize \in Nat
  BY StringsAssumption
<1>2. PICK o : o = MoveOrder(d, s, n)
  OBVIOUS
<1>3. /\ s < d /\ s + n > d => o = [k \in 1 .. n |-> n - k]
      /\ ~(s < d /\ s + n > d) => o = [k \in 1 .. n |-> k - 1]
  BY <1>2 DEF MoveOrder
<1>4. o \in [1 .. n -> 0 .. n - 1]
  BY <1>3
<1>5. \A k \in 1 .. n : d + o[k] \in 0 .. MemorySize - 1 /\ s + o[k] \in 0 .. MemorySize - 1
  BY <1>1, <1>4
<1>6. PICK b : b = [i \in 0 .. MemorySize - 1 |-> i]
  OBVIOUS
<1>7. b \in Memories
  BY <1>6 DEF Memories
<1>8. PICK h : h = [k \in 1 .. n |-> [m \in Memories |-> CopyByte(m, d + o[k], s + o[k])]]
  OBVIOUS
<1>9. h \in [1 .. n -> [Memories -> Memories]]
  <2>1. \A k \in 1 .. n : \A m \in Memories : CopyByte(m, d + o[k], s + o[k]) \in Memories
    BY <1>5, CopyByteIs
  <2> QED
    BY <1>8, <2>1
<1>10. PICK f : Folds(f, h, b, n, Memories)
  BY <1>7, <1>9, FoldExists
<1>11. f \in [0 .. n -> Memories] /\ f[0] = b
  BY <1>10 DEF Folds
<1>12. ASSUME NEW k \in 1 .. n PROVE f[k] = CopyByte(f[k - 1], d + o[k], s + o[k])
  <2>1. k - 1 \in 0 .. n /\ f[k] = h[k][f[k - 1]]
    BY <1>10 DEF Folds
  <2>2. f[k - 1] \in Memories
    BY <1>11, <2>1
  <2> QED
    BY <1>8, <2>1, <2>2
<1>13. f = [k \in 0 .. n |-> IF k = 0 THEN b ELSE CopyByte(f[k - 1], d + o[k], s + o[k])]
  <2>1. ASSUME NEW k \in 0 .. n
        PROVE  f[k] = IF k = 0 THEN b ELSE CopyByte(f[k - 1], d + o[k], s + o[k])
    <3>1. k # 0 => k \in 1 .. n
      OBVIOUS
    <3> QED
      BY <1>11, <1>12, <3>1
  <2> QED
    BY <1>11, <2>1
<1>14. PICK g : /\ g = CHOOSE m : m = [k \in 0 .. n |->
                            IF k = 0 THEN b ELSE CopyByte(m[k - 1], d + o[k], s + o[k])]
                /\ Moved(d, s, n) = g[n]
  BY <1>2, <1>6 DEF Moved
<1>15. g = [k \in 0 .. n |-> IF k = 0 THEN b ELSE CopyByte(g[k - 1], d + o[k], s + o[k])]
  BY <1>13, <1>14
<1>16. g[0] = b
  BY <1>15
<1>17. ASSUME NEW k \in 1 .. n PROVE g[k] = CopyByte(g[k - 1], d + o[k], s + o[k])
  BY <1>15
<1> DEFINE S == {k \in 0 .. n : g[k] \in Memories}
<1>18. 0 \in S
  BY <1>7, <1>16
<1>19. ASSUME NEW k \in 0 .. n - 1, k \in S PROVE k + 1 \in S
  <2>1. PICK j \in 1 .. n : j = k + 1 /\ j - 1 = k
    OBVIOUS
  <2>2. g[j] = CopyByte(g[k], d + o[j], s + o[j]) /\ g[k] \in Memories
    BY <1>17, <1>19, <2>1
  <2>3. g[j] \in Memories
    BY <1>5, <2>2, CopyByteIs
  <2> QED
    BY <2>1, <2>3
<1>20. \A k \in 0 .. n : k \in S
  <2> HIDE DEF S
  <2> QED
    BY <1>18, <1>19, UpTo
<1>21. g \in [0 .. n -> Memories]
  BY <1>15, <1>20
<1>22. /\ s < d /\ s + n > d => \A k \in 1 .. n : o[k] = n - k
       /\ ~(s < d /\ s + n > d) => \A k \in 1 .. n : o[k] = k - 1
  BY <1>3
<1>23. MoveSteps(g, o, d, s, n)
  BY <1>4, <1>6, <1>14, <1>16, <1>17, <1>21, <1>22 DEF MoveSteps
<1> QED
  BY <1>23

\* As if through a third place.
LEMMA MovesAll ==
    ASSUME NEW d \in Nat, NEW s \in Nat, NEW n \in Nat,
           d + n <= MemorySize, s + n <= MemorySize
    PROVE  Moved(d, s, n) = [i \in 0 .. MemorySize - 1 |->
                                IF i \in d .. (d + n - 1) THEN s + i - d ELSE i]
<1>1. PICK M \in Nat : M = MemorySize
  BY StringsAssumption
<1>2. PICK m, o : MoveSteps(m, o, d, s, n)
  BY MovedIs
<1>3. ASSUME NEW k \in 0 .. n - 1, NEW j \in 1 .. n, j = k + 1,
             NEW p \in 0 .. n - 1, p = o[j]
      PROVE  /\ d + p \in 0 .. M - 1 /\ s + p \in 0 .. M - 1
             /\ \A i \in 0 .. M - 1 : m[j][i] = IF i = d + p THEN m[k][s + p] ELSE m[k][i]
  <2>1. PICK x \in 0 .. M - 1, y \in 0 .. M - 1 : x = d + p /\ y = s + p
    BY <1>1
  <2>2. m[j] = CopyByte(m[k], x, y) /\ m[k] \in Memories
    <3>1. k = j - 1 /\ k \in 0 .. n
      BY <1>3
    <3>2. m[j] = CopyByte(m[j - 1], d + o[j], s + o[j]) /\ m[k] \in Memories
      BY <1>2, <3>1 DEF MoveSteps
    <3> QED
      BY <1>3, <2>1, <3>1, <3>2
  <2>3. \A i \in 0 .. M - 1 : CopyByte(m[k], x, y)[i] = IF i = x THEN m[k][y] ELSE m[k][i]
    <3>1. x \in 0 .. MemorySize - 1 /\ y \in 0 .. MemorySize - 1
      BY <1>1
    <3>2. PICK u \in Memories : u = m[k]
      BY <2>2
    <3>3. \A i \in 0 .. MemorySize - 1 : CopyByte(u, x, y)[i] = IF i = x THEN u[y] ELSE u[i]
      BY <3>1, CopyByteIs
    <3> QED
      BY <1>1, <3>2, <3>3
  <2> QED
    BY <2>1, <2>2, <2>3
<1>0. /\ m[n] \in [0 .. M - 1 -> 0 .. M - 1] /\ Moved(d, s, n) = m[n]
      /\ \A i \in 0 .. M - 1 : m[0][i] = i
  <2>1. m \in [0 .. n -> Memories] /\ Moved(d, s, n) = m[n] /\ m[0] = [i \in 0 .. M - 1 |-> i]
    BY <1>1, <1>2 DEF MoveSteps
  <2>2. m[n] \in Memories
    BY <2>1
  <2> QED
    BY <1>1, <2>1, <2>2 DEF Memories
<1>6. ASSUME \A i \in 0 .. M - 1 : m[n][i] = IF i \in d .. (d + n) - 1 THEN (s + i) - d ELSE i
      PROVE  Moved(d, s, n) = [i \in 0 .. MemorySize - 1 |->
                                  IF i \in d .. (d + n - 1) THEN s + i - d ELSE i]
  <2>1. PICK u \in [0 .. M - 1 -> 0 .. M - 1] : u = m[n] /\ u = Moved(d, s, n)
    BY <1>0
  <2>2. u = [i \in 0 .. M - 1 |-> u[i]]
    OBVIOUS
  <2>3. \A i \in 0 .. M - 1 : u[i] = IF i \in d .. (d + n) - 1 THEN (s + i) - d ELSE i
    BY <1>6, <2>1
  <2>4. u = [i \in 0 .. M - 1 |-> IF i \in d .. (d + n) - 1 THEN (s + i) - d ELSE i]
    BY <2>2, <2>3
  <2> QED
    BY <1>1, <2>1, <2>4
<1>4. CASE s < d /\ s + n > d
  <2> DEFINE S == {k \in 0 .. n : \A i \in 0 .. M - 1 :
                     m[k][i] = IF i \in (d + n) - k .. (d + n) - 1 THEN (s + i) - d ELSE i}
  <2>1. 0 \in S
    BY <1>0
  <2>2. ASSUME NEW k \in 0 .. n - 1, k \in S PROVE k + 1 \in S
    <3>1. PICK j \in 1 .. n : j = k + 1
      OBVIOUS
    <3>2. PICK p \in 0 .. n - 1 : p = o[j] /\ p = n - j
      <4>1. o[j] = n - j
        BY <1>2, <1>4 DEF MoveSteps
      <4> QED
        BY <4>1
    <3>3. /\ d + p \in 0 .. M - 1 /\ s + p \in 0 .. M - 1
          /\ \A i \in 0 .. M - 1 : m[j][i] = IF i = d + p THEN m[k][s + p] ELSE m[k][i]
      BY <1>3, <3>1, <3>2, ZenonT(30)
    <3>4. \A i \in 0 .. M - 1 :
             m[k][i] = IF i \in (d + n) - k .. (d + n) - 1 THEN (s + i) - d ELSE i
      BY <2>2
    <3>5. m[k][s + p] = s + p
      <4>1. s + p < (d + n) - k
        BY <1>4, <3>1, <3>2
      <4> QED
        BY <3>3, <3>4, <4>1
    <3>6. ASSUME NEW i \in 0 .. M - 1
          PROVE  m[j][i] = IF i \in (d + n) - j .. (d + n) - 1 THEN (s + i) - d ELSE i
      <4>1. m[j][i] = IF i = d + p THEN s + p ELSE m[k][i]
        BY <3>3, <3>5
      <4>2. m[k][i] = IF i \in (d + n) - k .. (d + n) - 1 THEN (s + i) - d ELSE i
        BY <3>4
      <4>3. d + p = (d + n) - j
        BY <3>2
      <4> QED
        BY <3>1, <4>1, <4>2, <4>3
    <3> QED
      BY <3>1, <3>6
  <2>3. \A k \in 0 .. n : k \in S
    <3> HIDE DEF S
    <3> QED
      BY <2>1, <2>2, UpTo
  <2>4. n \in S /\ (d + n) - n = d
    BY <2>3
  <2>5. \A i \in 0 .. M - 1 :
           m[n][i] = IF i \in d .. (d + n) - 1 THEN (s + i) - d ELSE i
    BY <2>4
  <2> QED
    BY <1>6, <2>5
<1>5. CASE ~(s < d /\ s + n > d)
  <2> DEFINE S == {k \in 0 .. n : \A i \in 0 .. M - 1 :
                     m[k][i] = IF i \in d .. (d + k) - 1 THEN (s + i) - d ELSE i}
  <2>1. 0 \in S
    BY <1>0
  <2>2. ASSUME NEW k \in 0 .. n - 1, k \in S PROVE k + 1 \in S
    <3>1. PICK j \in 1 .. n : j = k + 1
      OBVIOUS
    <3>2. PICK p \in 0 .. n - 1 : p = o[j] /\ p = k
      <4>1. o[j] = j - 1
        BY <1>2, <1>5 DEF MoveSteps
      <4> QED
        BY <3>1, <4>1
    <3>3. /\ d + p \in 0 .. M - 1 /\ s + p \in 0 .. M - 1
          /\ \A i \in 0 .. M - 1 : m[j][i] = IF i = d + p THEN m[k][s + p] ELSE m[k][i]
      BY <1>3, <3>1, <3>2, ZenonT(30)
    <3>4. \A i \in 0 .. M - 1 :
             m[k][i] = IF i \in d .. (d + k) - 1 THEN (s + i) - d ELSE i
      BY <2>2
    <3>5. m[k][s + p] = s + p
      <4>1. s + p \notin d .. (d + k) - 1
        BY <1>5, <3>1, <3>2
      <4> QED
        BY <3>3, <3>4, <4>1
    <3>6. ASSUME NEW i \in 0 .. M - 1
          PROVE  m[j][i] = IF i \in d .. (d + j) - 1 THEN (s + i) - d ELSE i
      <4>1. m[j][i] = IF i = d + p THEN s + p ELSE m[k][i]
        BY <3>3, <3>5
      <4>2. m[k][i] = IF i \in d .. (d + k) - 1 THEN (s + i) - d ELSE i
        BY <3>4
      <4>3. d + p = (d + j) - 1
        BY <3>1, <3>2
      <4> QED
        BY <3>1, <4>1, <4>2, <4>3
    <3> QED
      BY <3>1, <3>6
  <2>3. \A k \in 0 .. n : k \in S
    <3> HIDE DEF S
    <3> QED
      BY <2>1, <2>2, UpTo
  <2>4. \A i \in 0 .. M - 1 :
           m[n][i] = IF i \in d .. (d + n) - 1 THEN (s + i) - d ELSE i
    <3>1. n \in S
      BY <2>3
    <3> QED
      BY <3>1
  <2> QED
    BY <1>6, <2>4
<1> QED
  BY <1>4, <1>5

-----------------------------------------------------------------------------
(* strncmp().                                                              *)

LEMMA OneComesBefore ==
    ASSUME NEW x \in Seq(Nat), NEW y \in Seq(Nat), ComesBefore(x, y)
    PROVE  ~ComesBefore(y, x)
<1>1. PICK a \in Nat, b \in Nat : a = Len(x) /\ b = Len(y)
  OBVIOUS
<1>2. PICK i \in 1 .. b : /\ \A j \in 1 .. i - 1 : j <= a /\ x[j] = y[j]
                          /\ i <= a => x[i] < y[i]
  BY <1>1 DEF ComesBefore
<1>3. SUFFICES ASSUME ComesBefore(y, x) PROVE FALSE
  OBVIOUS
<1>4. PICK k \in 1 .. a : /\ \A j \in 1 .. k - 1 : j <= b /\ y[j] = x[j]
                          /\ k <= b => y[k] < x[k]
  BY <1>1, <1>3 DEF ComesBefore
<1>5. \A j \in 1 .. a : x[j] \in Int
  BY <1>1
<1>6. CASE i < k
  <2>1. i \in 1 .. a /\ i \in 1 .. k - 1
    BY <1>6
  <2>2. y[i] = x[i]
    BY <1>4, <2>1
  <2>3. x[i] < y[i] /\ x[i] \in Int
    BY <1>2, <1>5, <2>1
  <2> QED
    BY <2>2, <2>3
<1>7. CASE k < i
  <2>1. k <= b /\ k \in 1 .. i - 1
    BY <1>7
  <2>2. y[k] < x[k] /\ x[k] \in Int
    BY <1>4, <1>5, <2>1
  <2>3. x[k] = y[k]
    BY <1>2, <2>1
  <2> QED
    BY <2>2, <2>3
<1>8. CASE i = k
  <2>1. x[i] < y[i] /\ y[i] < x[i] /\ x[i] \in Int /\ y[i] \in Int
    BY <1>1, <1>2, <1>4, <1>8
  <2> QED
    BY <2>1
<1> QED
  BY <1>6, <1>7, <1>8

\* Nothing comes before itself.
LEMMA NoneBeforeItself ==
    ASSUME NEW x \in Seq(Nat)
    PROVE  ~ComesBefore(x, x)
BY OneComesBefore

LEMMA MinOfTwo ==
    ASSUME NEW a \in Int, NEW b \in Int
    PROVE  Min({a, b}) = IF a <= b THEN a ELSE b
<1>1. CASE a <= b
  <2>1. {a, b} \in SUBSET Int /\ a \in {a, b} /\ \A y \in {a, b} : a <= y
    BY <1>1
  <2> QED
    BY <1>1, <2>1, MinIs
<1>2. CASE ~(a <= b)
  <2>1. {a, b} \in SUBSET Int /\ b \in {a, b} /\ \A y \in {a, b} : b <= y
    BY <1>2
  <2> QED
    BY <1>2, <2>1, MinIs
<1> QED
  BY <1>1, <1>2

CutOf(t, l, s, n) ==
    /\ t = Cut(s, n) /\ t \in Seq(Nat) /\ l = Len(t)
    /\ l = IF n < 0 \/ Len(s) <= n THEN Len(s) ELSE n
    /\ \A i \in 1 .. l : t[i] = s[i]

\* A sequence of characters is one of numbers.
LEMMA NumbersIn ==
    ASSUME NEW B \in SUBSET Nat, NEW s \in Seq(B)
    PROVE  s \in Seq(Nat) /\ Len(s) \in Nat /\ \A i \in 1 .. Len(s) : s[i] \in B
<1>1. Len(s) \in Nat /\ \A i \in 1 .. Len(s) : s[i] \in B
  BY ElementOfSeq, LenProperties
<1>2. s \in Seq(Nat)
  BY SeqMonotonic
<1> QED
  BY <1>1, <1>2

LEMMA CutIs ==
    ASSUME NEW s \in Seq(1 .. 255), NEW n \in Int
    PROVE  \E t : \E l \in Nat : CutOf(t, l, s, n)
<1>1. s \in Seq(Nat) /\ Len(s) \in Nat
  <2>1. 1 .. 255 \in SUBSET Nat
    OBVIOUS
  <2> QED
    BY <2>1, NumbersIn
<1>2. CASE n < 0
  <2>1. Cut(s, n) = s
    BY <1>2 DEF Cut
  <2>2. CutOf(s, Len(s), s, n)
    BY <1>1, <1>2, <2>1 DEF CutOf
  <2> QED
    BY <1>1, <2>2
<1>3. CASE ~(n < 0)
  <2>1. PICK m \in Nat : m <= Len(s) /\ m = IF Len(s) <= n THEN Len(s) ELSE n
    BY <1>1, <1>3
  <2>2. Min({n, Len(s)}) = m
    BY <1>1, <1>3, <2>1, MinOfTwo
  <2>3. Cut(s, n) = SubSeq(s, 1, m)
    BY <1>3, <2>2, Zenon DEF Cut
  <2>4. PICK t \in Seq(Nat) : t = SubSeq(s, 1, m) /\ Len(t) = m /\ \A i \in 1 .. m : t[i] = s[i]
    <3>1. 1 \in 1 .. Len(s) + 1 /\ m \in 1 - 1 .. Len(s)
      BY <1>1, <2>1
    <3>2. /\ SubSeq(s, 1, m) \in Seq(Nat) /\ Len(SubSeq(s, 1, m)) = m - 1 + 1
          /\ \A i \in 1 .. m - 1 + 1 : SubSeq(s, 1, m)[i] = s[1 + i - 1]
      BY <1>1, <3>1, SubSeqProperties
    <3>3. m - 1 + 1 = m /\ \A i \in 1 .. m : 1 + i - 1 = i
      OBVIOUS
    <3> QED
      BY <3>2, <3>3
  <2>5. CutOf(t, m, s, n)
    BY <1>3, <2>1, <2>3, <2>4 DEF CutOf
  <2> QED
    BY <2>5
<1> QED
  BY <1>2, <1>3

LEMMA CharAtIs ==
    ASSUME NEW s \in Seq(1 .. 255), NEW i \in Nat \ {0}
    PROVE  /\ CharAt(s, i) \in Nat
           /\ i <= Len(s) => s[i] \in Nat /\ CharAt(s, i) = s[i] /\ s[i] > 0
           /\ i > Len(s) => CharAt(s, i) = 0
<1>1. CASE i <= Len(s)
  <2>0. 1 .. 255 \in SUBSET Nat
    OBVIOUS
  <2>1. Len(s) \in Nat /\ \A j \in 1 .. Len(s) : s[j] \in 1 .. 255
    BY <2>0, NumbersIn
  <2>2. s[i] \in 1 .. 255 /\ ~(i > Len(s))
    BY <1>1, <2>1
  <2>3. CharAt(s, i) = s[i]
    BY <1>1 DEF CharAt
  <2>4. PICK c \in Nat : c = s[i] /\ c > 0
    <3>1. PICK c \in 1 .. 255 : c = s[i]
      BY <2>2, Zenon
    <3>2. c \in Nat /\ c > 0
      OBVIOUS
    <3> QED
      BY <3>1, <3>2, Zenon
  <2>5. CharAt(s, i) = c
    BY <2>3, <2>4
  <2> QED
    BY <2>2, <2>4, <2>5
<1>2. CASE i > Len(s)
  <2>1. ~(i <= Len(s))
    BY <1>2
  <2> QED
    BY <1>2, <2>1 DEF CharAt
<1> QED
  BY <1>1, <1>2

LEMMA CompareIs ==
    ASSUME NEW a \in Seq(1 .. 255), NEW b \in Seq(1 .. 255), NEW n \in Int
    PROVE  Strncmp(a, b, n) = IF ComesBefore(Cut(a, n), Cut(b, n)) THEN -1
                              ELSE IF ComesBefore(Cut(b, n), Cut(a, n)) THEN 1 ELSE 0
<1>1. PICK la \in Nat, lb \in Nat : la = Len(a) /\ lb = Len(b)
  OBVIOUS
<1>2. PICK limit \in Nat : limit = IF n < 0 THEN la + lb + 1 ELSE n
  OBVIOUS
<1>3. ASSUME NEW i \in Nat \ {0}
      PROVE  /\ CharAt(a, i) \in Nat /\ CharAt(b, i) \in Nat
             /\ i <= la => a[i] \in Nat /\ CharAt(a, i) = a[i] /\ a[i] > 0
             /\ i > la => CharAt(a, i) = 0
             /\ i <= lb => b[i] \in Nat /\ CharAt(b, i) = b[i] /\ b[i] > 0
             /\ i > lb => CharAt(b, i) = 0
  BY <1>1, CharAtIs
<1>4. PICK S : S = {i \in 1 .. limit + 1 :
                      i = limit + 1 \/ CharAt(a, i) = 0 \/ CharAt(b, i) = 0
                      \/ CharAt(a, i) # CharAt(b, i)}
  OBVIOUS
<1>5. PICK at : at = Min(S) /\ at \in S /\ \A y \in S : at <= y
  <2>1. S \in SUBSET (1 .. limit + 1) /\ limit + 1 \in S /\ 1 \in Nat /\ limit + 1 \in Nat
    BY <1>4
  <2>2. S # {}
    BY <2>1
  <2> QED
    BY <2>1, <2>2, MinIn
<1>6. at \in 1 .. limit + 1
  BY <1>4, <1>5
<1>7. Strncmp(a, b, n) = IF at > limit THEN 0 ELSE Order(CharAt(a, at), CharAt(b, at))
  BY <1>1, <1>2, <1>4, <1>5 DEF Strncmp
<1>8. ASSUME NEW j \in 1 .. at - 1 PROVE j <= la /\ j <= lb /\ a[j] = b[j] /\ j <= limit
  <2>1. j \in 1 .. limit + 1 /\ j < at /\ j # limit + 1 /\ j <= limit
    BY <1>6
  <2>2. j \notin S
    BY <1>5, <1>6, <2>1
  <2>3. CharAt(a, j) # 0 /\ CharAt(b, j) # 0 /\ CharAt(a, j) = CharAt(b, j)
    BY <1>4, <2>1, <2>2
  <2> QED
    BY <1>3, <2>1, <2>3
<1>9. PICK x : \E l \in Nat : CutOf(x, l, a, n)
  BY CutIs
<1>10. PICK lx \in Nat : CutOf(x, lx, a, n)
  BY <1>9
<1>11. PICK y : \E l \in Nat : CutOf(y, l, b, n)
  BY CutIs
<1>15. PICK ly \in Nat : CutOf(y, ly, b, n)
  BY <1>11
<1>16. x = Cut(a, n) /\ x \in Seq(Nat) /\ y = Cut(b, n) /\ y \in Seq(Nat) /\ lx = Len(x) /\ ly = Len(y)
  BY <1>10, <1>15 DEF CutOf
<1>17. lx = (IF n < 0 \/ la <= n THEN la ELSE n) /\ ly = (IF n < 0 \/ lb <= n THEN lb ELSE n)
  BY <1>1, <1>10, <1>15 DEF CutOf
<1>18. (\A i \in 1 .. lx : x[i] = a[i]) /\ (\A i \in 1 .. ly : y[i] = b[i])
  BY <1>10, <1>15 DEF CutOf
<1>12. \A i \in 1 .. at - 1 : i <= lx /\ i <= ly /\ x[i] = y[i]
  <2>1. ASSUME NEW i \in 1 .. at - 1 PROVE i <= lx /\ i <= ly /\ x[i] = y[i]
    <3>1. i <= la /\ i <= lb /\ a[i] = b[i] /\ i <= limit
      BY <1>8
    <3>2. i \in 1 .. lx /\ i \in 1 .. ly
      BY <1>2, <1>6, <1>16, <1>17, <1>18, <3>1
    <3> QED
      BY <1>16, <1>17, <1>18, <3>1, <3>2
  <2> QED
    BY <2>1
<1>13. CASE at > limit
  <2>1. at = limit + 1 /\ at - 1 = limit
    BY <1>6, <1>13
  <2>2. n >= 0
    <3>1. ASSUME n < 0 PROVE FALSE
      <4>1. limit = la + lb + 1 /\ la + 1 \in 1 .. at - 1
        BY <1>2, <2>1, <3>1
      <4>2. la + 1 <= la
        BY <1>8, <4>1
      <4> QED
        BY <4>2
    <3> QED
      BY <3>1
  <2>3. lx = n /\ ly = n
    <3>1. CASE n = 0
      BY <1>16, <1>17, <1>18, <3>1
    <3>2. CASE n > 0
      <4>1. n \in 1 .. at - 1
        BY <1>2, <2>1, <3>2
      <4>2. n <= lx /\ n <= ly
        BY <1>12, <4>1
      <4> QED
        BY <1>16, <1>17, <1>18, <2>2, <4>2
    <3> QED
      BY <2>2, <3>1, <3>2
  <2>4. \A i \in 1 .. n : x[i] = y[i]
    BY <1>2, <1>12, <2>1, <2>2
  <2>5. x = y
    <3>1. Len(x) = Len(y) /\ \A i \in 1 .. Len(x) : x[i] = y[i]
      BY <1>16, <2>3, <2>4
    <3> QED
      BY <1>16, <3>1, SeqEqual
  <2> QED
    BY <1>7, <1>13, <1>16, <2>5, NoneBeforeItself
<1>14. CASE at <= limit
  <2>0. at \in Nat \ {0}
    BY <1>6
  <2>1. PICK ca \in Nat, cb \in Nat : ca = CharAt(a, at) /\ cb = CharAt(b, at)
    BY <1>3, <2>0
  <2>2. ca = 0 \/ cb = 0 \/ ca # cb
    BY <1>4, <1>5, <1>6, <1>14, <2>1
  <2>3. Strncmp(a, b, n) = IF ca > cb THEN 1 ELSE IF ca < cb THEN -1 ELSE 0
    BY <1>6, <1>7, <1>14, <2>1 DEF Order
  <2>4. /\ ca > 0 => at \in 1 .. lx /\ x[at] = ca
        /\ at \in 1 .. lx => x[at] = ca
        /\ cb > 0 => at \in 1 .. ly /\ y[at] = cb
        /\ at \in 1 .. ly => y[at] = cb
    <3>1. (ca > 0 <=> at <= la) /\ (cb > 0 <=> at <= lb)
      BY <1>3, <1>6, <2>1
    <3>2. /\ at <= la => ca = a[at] /\ at \in 1 .. lx
          /\ at <= lb => cb = b[at] /\ at \in 1 .. ly
      BY <1>2, <1>3, <1>6, <1>16, <1>17, <1>18, <1>14, <2>1
    <3> QED
      BY <1>16, <1>17, <1>18, <3>1, <3>2
  <2>5. CASE ca < cb
    <3>1. at \in 1 .. ly /\ y[at] = cb
      BY <2>1, <2>4, <2>5
    <3>2. ComesBefore(x, y)
      <4>1. \A j \in 1 .. at - 1 : j <= Len(x) /\ x[j] = y[j]
        BY <1>16, <1>17, <1>18, <1>12
      <4>2. IF at > Len(x) THEN TRUE ELSE x[at] < y[at]
        BY <1>6, <1>16, <1>17, <1>18, <2>4, <2>5, <3>1
      <4> QED
        BY <1>16, <1>17, <1>18, <3>1, <4>1, <4>2 DEF ComesBefore
    <3> QED
      BY <1>16, <2>1, <2>3, <2>5, <3>2
  <2>6. CASE cb < ca
    <3>1. at \in 1 .. lx /\ x[at] = ca
      BY <2>1, <2>4, <2>6
    <3>2. ComesBefore(y, x)
      <4>1. \A j \in 1 .. at - 1 : j <= Len(y) /\ y[j] = x[j]
        BY <1>16, <1>17, <1>18, <1>12
      <4>2. IF at > Len(y) THEN TRUE ELSE y[at] < x[at]
        BY <1>6, <1>16, <1>17, <1>18, <2>4, <2>6, <3>1
      <4> QED
        BY <1>16, <1>17, <1>18, <3>1, <4>1, <4>2 DEF ComesBefore
    <3>3. ~ComesBefore(x, y)
      BY <1>16, <1>17, <1>18, <3>2, OneComesBefore
    <3> QED
      BY <1>16, <2>1, <2>3, <2>6, <3>2, <3>3
  <2>7. CASE ca = cb
    <3>1. at > la /\ at > lb
      <4>1. ca = 0 /\ cb = 0
        BY <2>2, <2>7
      <4>2. /\ at <= la => ca > 0
            /\ at <= lb => cb > 0
        BY <1>3, <2>0, <2>1
      <4> QED
        BY <2>0, <4>1, <4>2
    <3>2. la = at - 1 /\ lb = at - 1
      <4>1. ASSUME la # at - 1 \/ lb # at - 1 PROVE FALSE
        <5>1. at - 1 \in 1 .. at - 1
          BY <1>6, <3>1, <4>1
        <5>2. at - 1 <= la /\ at - 1 <= lb
          BY <1>8, <5>1
        <5> QED
          BY <1>6, <3>1, <4>1, <5>2
      <4> QED
        BY <4>1
    <3>3. lx = ly
      BY <1>16, <1>17, <1>18, <3>2
    <3>4. \A i \in 1 .. lx : x[i] = y[i]
      BY <1>6, <1>16, <1>17, <1>18, <1>12, <3>2
    <3>5. x = y
      <4>1. Len(x) = Len(y) /\ \A i \in 1 .. Len(x) : x[i] = y[i]
        BY <1>16, <3>3, <3>4
      <4> QED
        BY <1>16, <4>1, SeqEqual
    <3> QED
      BY <1>16, <2>1, <2>3, <2>7, <3>5, NoneBeforeItself
  <2> QED
    BY <2>1, <2>5, <2>6, <2>7
<1> QED
  BY <1>6, <1>13, <1>14

-----------------------------------------------------------------------------
(* lookup_symbol().                                                        *)

Symbols == [value : Nat, size : Nat]

LEMMA SymbolsAre ==
    ASSUME NEW t \in Seq(Symbols)
    PROVE  \A k \in 1 .. Len(t) : t[k].value \in Nat /\ t[k].size \in Nat
<1>1. \A k \in 1 .. Len(t) : t[k] \in Symbols
  BY ElementOfSeq
<1> QED
  BY <1>1 DEF Symbols

\* In a sorted table the symbols before one end before it.
LEMMA SymbolsInOrder ==
    ASSUME NEW t \in Seq(Symbols), Sorted(t), NEW i \in 1 .. Len(t)
    PROVE  \A j \in i + 1 .. Len(t) :
              /\ t[i].value < t[j].value
              /\ t[i].value + t[i].size <= t[j].value
              /\ t[i + 1].value <= t[j].value
<1>1. PICK L \in Nat : L = Len(t)
  OBVIOUS
<1>2. \A k \in 1 .. L : t[k].value \in Nat /\ t[k].size \in Nat
  BY <1>1, SymbolsAre
<1>3. \A k \in 1 .. L - 1 : /\ t[k].value < t[k + 1].value
                            /\ t[k].value + t[k].size <= t[k + 1].value
  BY <1>1 DEF Sorted
<1> DEFINE S == {n \in 0 .. L - i : n > 0 => /\ t[i].value < t[i + n].value
                                             /\ t[i].value + t[i].size <= t[i + n].value
                                             /\ t[i + 1].value <= t[i + n].value}
<1>4. L - i \in Nat
  BY <1>1
<1>5. 0 \in S
  BY <1>4
<1>6. ASSUME NEW n \in 0 .. (L - i) - 1, n \in S PROVE n + 1 \in S
  <2>1. PICK k \in 1 .. L - 1 : k = i + n /\ k + 1 = i + (n + 1)
    BY <1>1
  <2>2. t[k].value < t[k + 1].value /\ t[k].value \in Nat /\ t[k + 1].value \in Nat
    <3>1. k \in 1 .. L /\ k + 1 \in 1 .. L
      OBVIOUS
    <3> QED
      BY <1>2, <1>3, <3>1
  <2>3. CASE n = 0
    <3>1. k = i /\ n + 1 > 0 /\ n + 1 \in 0 .. L - i
      BY <2>1, <2>3
    <3>2. t[i].value + t[i].size <= t[i + 1].value
      BY <1>3, <3>1
    <3>3. i + (n + 1) = i + 1
      BY <2>3
    <3> QED
      BY <2>2, <3>1, <3>2, <3>3
  <2>4. CASE n > 0
    <3>1. /\ t[i].value < t[k].value
          /\ t[i].value + t[i].size <= t[k].value
          /\ t[i + 1].value <= t[k].value
      BY <1>6, <2>1, <2>4
    <3>2. i \in 1 .. L /\ i + 1 \in 1 .. L /\ n + 1 \in 0 .. L - i
      BY <1>1, <2>1
    <3>3. t[i].value \in Nat /\ t[i].size \in Nat /\ t[i + 1].value \in Nat
      BY <1>2, <3>2
    <3>4. PICK p \in Nat, q \in Nat : p = t[k].value /\ q = t[k + 1].value /\ p < q
      BY <2>2
    <3>7. PICK x \in Nat, y \in Nat, z \in Nat :
             x = t[i].value /\ y = t[i].size /\ z = t[i + 1].value
      BY <3>3
    <3>8. x < p /\ x + y <= p /\ z <= p
      BY <3>1, <3>4, <3>7
    <3>9. x < q /\ x + y <= q /\ z <= q
      BY SMTT(30), <3>4, <3>8
    <3>5. /\ t[i].value < q
          /\ t[i].value + t[i].size <= q
          /\ t[i + 1].value <= q
      BY <3>7, <3>9
    <3>6. i + (n + 1) = k + 1
      BY <2>1
    <3> QED
      BY <3>2, <3>4, <3>5, <3>6
  <2> QED
    BY <2>3, <2>4
<1>7. \A n \in 0 .. L - i : n \in S
  <2> HIDE DEF S
  <2> QED
    BY <1>4, <1>5, <1>6, UpTo
<1>8. ASSUME NEW j \in i + 1 .. L
      PROVE  /\ t[i].value < t[j].value
             /\ t[i].value + t[i].size <= t[j].value
             /\ t[i + 1].value <= t[j].value
  <2>1. PICK n \in 0 .. L - i : n = j - i /\ n > 0 /\ i + n = j
    BY <1>1
  <2>2. n \in S
    BY <1>7
  <2> QED
    BY <2>1, <2>2
<1> QED
  BY <1>1, <1>8

\* The search among w symbols from place l on, by smaller searches g.
SearchAt(t, a, g, w, l) ==
    LET m == l + (w \div 2)
    IN  IF w = 0 THEN 0
        ELSE IF Covers(t, m, a) THEN m
        ELSE IF t[m].value < a THEN g[w - (w \div 2) - 1][m + 1]
        ELSE g[w \div 2][l]

LEMMA Halves ==
    ASSUME NEW w \in Nat \ {0}
    PROVE  /\ w \div 2 \in 0 .. w - 1
           /\ w - (w \div 2) - 1 \in 0 .. w - 1
OBVIOUS

\* The searches of all widths.
Searches(g, t, a) ==
    g = [w \in 0 .. Len(t) |-> [l \in 1 .. Len(t) + 1 - w |-> SearchAt(t, a, g, w, l)]]

LEMMA SearchIs ==
    ASSUME NEW t \in Seq(Symbols), NEW a \in Nat
    PROVE  \E g : LookupSymbol(t, a) = g[Len(t)][1] /\ Searches(g, t, a)
<1>1. PICK L \in Nat : L = Len(t)
  OBVIOUS
<1>2. PICK X : X = [1 .. L + 1 -> 0 .. L]
  OBVIOUS
<1>3. PICK x : x = [l \in 1 .. L + 1 |-> 0]
  OBVIOUS
<1>4. x \in X
  BY <1>2, <1>3
<1>5. PICK E : E = [w \in 0 .. L |-> [g \in [0 .. L -> X] |->
                      [l \in 1 .. L + 1 |-> IF l <= L + 1 - w THEN SearchAt(t, a, g, w, l) ELSE 0]]]
  OBVIOUS
<1>6. ASSUME NEW w \in 0 .. L, NEW l \in 1 .. L + 1, l <= L + 1 - w, w # 0
      PROVE  /\ w \div 2 \in 0 .. w - 1 /\ w - (w \div 2) - 1 \in 0 .. w - 1
             /\ l + (w \div 2) \in 1 .. L /\ l + (w \div 2) + 1 \in 1 .. L + 1
             /\ l + (w \div 2) + 1 \in 1 .. L + 1 - (w - (w \div 2) - 1)
             /\ l \in 1 .. L + 1 - (w \div 2)
  <2>1. PICK h \in 0 .. w - 1 : h = w \div 2
    BY <1>6, Halves
  <2> QED
    BY <1>6, <2>1
<1>7. ASSUME NEW w \in 0 .. L, NEW g \in [0 .. L -> X], NEW l \in 1 .. L + 1, l <= L + 1 - w
      PROVE  SearchAt(t, a, g, w, l) \in 0 .. L
  <2>1. CASE w = 0
    BY <2>1 DEF SearchAt
  <2>2. CASE w # 0
    <3>1. PICK h \in 0 .. w - 1, v \in 0 .. w - 1, m \in 1 .. L :
             h = w \div 2 /\ v = w - (w \div 2) - 1 /\ m = l + (w \div 2) /\ m + 1 \in 1 .. L + 1
      BY <1>6, <1>7, <2>2
    <3>2. h \in 0 .. L /\ v \in 0 .. L
      OBVIOUS
    <3>3. g[v][m + 1] \in 0 .. L /\ g[h][l] \in 0 .. L /\ m \in 0 .. L
      <4>1. PICK u \in [1 .. L + 1 -> 0 .. L], y \in [1 .. L + 1 -> 0 .. L] : u = g[v] /\ y = g[h]
        BY <1>2, <3>2
      <4>2. u[m + 1] \in 0 .. L /\ y[l] \in 0 .. L
        BY <3>1
      <4> QED
        BY <4>1, <4>2
    <3>4. SearchAt(t, a, g, w, l) = IF Covers(t, m, a) THEN m
                                    ELSE IF t[m].value < a THEN g[v][m + 1] ELSE g[h][l]
      BY <2>2, <3>1 DEF SearchAt
    <3> QED
      BY <3>3, <3>4
  <2> QED
    BY <2>1, <2>2
<1>8. E \in [0 .. L -> [[0 .. L -> X] -> X]]
  <2>1. ASSUME NEW w \in 0 .. L, NEW g \in [0 .. L -> X]
        PROVE  [l \in 1 .. L + 1 |-> IF l <= L + 1 - w THEN SearchAt(t, a, g, w, l) ELSE 0] \in X
    <3>1. ASSUME NEW l \in 1 .. L + 1
          PROVE  (IF l <= L + 1 - w THEN SearchAt(t, a, g, w, l) ELSE 0) \in 0 .. L
      BY <1>7
    <3> QED
      BY <1>2, <3>1
  <2> QED
    BY <1>5, <2>1
<1>9. ASSUME NEW w \in 0 .. L, NEW g \in [0 .. L -> X], NEW h \in [0 .. L -> X],
             \A j \in 0 .. w - 1 : g[j] = h[j]
      PROVE  E[w][g] = E[w][h]
  <2>1. ASSUME NEW l \in 1 .. L + 1, l <= L + 1 - w
        PROVE  SearchAt(t, a, g, w, l) = SearchAt(t, a, h, w, l)
    <3>1. CASE w = 0
      BY <3>1 DEF SearchAt
    <3>2. CASE w # 0
      <4>1. g[w \div 2] = h[w \div 2] /\ g[w - (w \div 2) - 1] = h[w - (w \div 2) - 1]
        BY <1>6, <1>9, <2>1, <3>2
      <4> QED
        BY <4>1 DEF SearchAt
    <3> QED
      BY <3>1, <3>2
  <2>2. [l \in 1 .. L + 1 |-> IF l <= L + 1 - w THEN SearchAt(t, a, g, w, l) ELSE 0]
           = [l \in 1 .. L + 1 |-> IF l <= L + 1 - w THEN SearchAt(t, a, h, w, l) ELSE 0]
    BY <2>1
  <2> QED
    BY <1>5, <2>2
<1>10. PICK f : FoldsOn(f, E, L, X)
  <2>1. LooksBack(E, L, X)
    BY <1>9 DEF LooksBack
  <2> QED
    BY <1>4, <1>8, <2>1, ForwardExists
<1>11. f \in [0 .. L -> X] /\ \A w \in 0 .. L : f[w] = E[w][f]
  BY <1>10 DEF FoldsOn
<1>12. \A w \in 0 .. L : \A l \in 1 .. L + 1 - w : f[w][l] = SearchAt(t, a, f, w, l)
  <2>1. ASSUME NEW w \in 0 .. L, NEW l \in 1 .. L + 1 - w
        PROVE  f[w][l] = SearchAt(t, a, f, w, l)
    <3>1. l \in 1 .. L + 1 /\ l <= L + 1 - w
      OBVIOUS
    <3>2. f[w] = [k \in 1 .. L + 1 |-> IF k <= L + 1 - w THEN SearchAt(t, a, f, w, k) ELSE 0]
      BY <1>5, <1>11
    <3> QED
      BY <3>1, <3>2
  <2> QED
    BY <2>1
<1>13. PICK r : r = [w \in 0 .. L |-> [l \in 1 .. L + 1 - w |-> f[w][l]]]
  OBVIOUS
<1>14. ASSUME NEW w \in 0 .. L, NEW l \in 1 .. L + 1 - w
       PROVE  f[w][l] = SearchAt(t, a, r, w, l)
  <2>0. l \in 1 .. L + 1 /\ l <= L + 1 - w
    OBVIOUS
  <2>1. CASE w = 0
    BY <1>12, <2>1 DEF SearchAt
  <2>2. CASE w # 0
    <3>1. PICK h \in 0 .. w - 1, v \in 0 .. w - 1, m \in 1 .. L :
             /\ h = w \div 2 /\ v = w - (w \div 2) - 1 /\ m = l + (w \div 2)
             /\ m + 1 \in 1 .. L + 1 - v /\ l \in 1 .. L + 1 - h
      BY <1>6, <2>0, <2>2
    <3>2. h \in 0 .. L /\ v \in 0 .. L
      OBVIOUS
    <3>3. r[v][m + 1] = f[v][m + 1] /\ r[h][l] = f[h][l]
      BY <1>13, <3>1, <3>2
    <3>4. /\ SearchAt(t, a, f, w, l) = IF Covers(t, m, a) THEN m
                                       ELSE IF t[m].value < a THEN f[v][m + 1] ELSE f[h][l]
          /\ SearchAt(t, a, r, w, l) = IF Covers(t, m, a) THEN m
                                       ELSE IF t[m].value < a THEN r[v][m + 1] ELSE r[h][l]
      BY <2>2, <3>1 DEF SearchAt
    <3> QED
      BY <1>12, <3>3, <3>4
  <2> QED
    BY <2>1, <2>2
<1>15. r = [w \in 0 .. L |-> [l \in 1 .. L + 1 - w |-> SearchAt(t, a, r, w, l)]]
  <2>1. ASSUME NEW w \in 0 .. L
        PROVE  [l \in 1 .. L + 1 - w |-> f[w][l]] = [l \in 1 .. L + 1 - w |-> SearchAt(t, a, r, w, l)]
    BY <1>14
  <2> QED
    BY <1>13, <2>1
<1>16. PICK g : /\ g = CHOOSE search : search = [w \in 0 .. Len(t) |->
                          [l \in 1 .. Len(t) + 1 - w |-> SearchAt(t, a, search, w, l)]]
                /\ LookupSymbol(t, a) = g[Len(t)][1]
  BY DEF LookupSymbol, SearchAt
<1>17. r = [w \in 0 .. Len(t) |-> [l \in 1 .. Len(t) + 1 - w |-> SearchAt(t, a, r, w, l)]]
  BY <1>1, <1>15, Zenon
<1>18. g = [w \in 0 .. Len(t) |-> [l \in 1 .. Len(t) + 1 - w |-> SearchAt(t, a, g, w, l)]]
  BY <1>16, <1>17, Zenon
<1>19. LookupSymbol(t, a) = g[Len(t)][1]
  BY <1>16, Zenon
<1>20. Searches(g, t, a)
  BY <1>18, Zenon DEF Searches
<1> QED
  BY <1>19, <1>20

\* The search among the symbols from place l on to place k answers with r.
Answers(r, t, a, l, k) ==
    \/ r = 0 /\ \A m \in l .. k : ~Covers(t, m, a)
    \/ r \in l .. k /\ Covers(t, r, a)

\* The symbol of an address is found exactly if there is one.
LEMMA LookupFinds ==
    ASSUME NEW t \in Seq(Symbols), Sorted(t), NEW a \in Nat
    PROVE  Answers(LookupSymbol(t, a), t, a, 1, Len(t))
<1>1. PICK L \in Nat : L = Len(t)
  OBVIOUS
<1>2. PICK g : LookupSymbol(t, a) = g[L][1] /\ Searches(g, t, a)
  BY <1>1, SearchIs
<1>10. g = [w \in 0 .. L |-> [l \in 1 .. L + 1 - w |-> SearchAt(t, a, g, w, l)]]
  BY <1>1, <1>2, Zenon DEF Searches
<1>3. \A k \in 1 .. L : t[k].value \in Nat /\ t[k].size \in Nat
  BY <1>1, SymbolsAre
<1>4. \A i \in 1 .. L : \A j \in i + 1 .. L :
         /\ t[i].value < t[j].value
         /\ t[i].value + t[i].size <= t[j].value
         /\ t[i + 1].value <= t[j].value
  BY <1>1, SymbolsInOrder
<1>5. ASSUME NEW m \in 1 .. L, t[m].value < a, NEW i \in 1 .. m - 1
      PROVE  ~Covers(t, i, a)
  <2>1. i \in 1 .. L /\ m \in i + 1 .. L /\ i # L /\ i + 1 \in 1 .. L
    OBVIOUS
  <2>2. t[i].value + t[i].size <= t[m].value /\ t[i + 1].value <= t[m].value
    BY <1>4, <2>1
  <2>3. t[m].value \in Nat /\ t[i + 1].value \in Nat /\ t[i].value + t[i].size \in Nat
    BY SMTT(30), <1>3, <2>1
  <2>4. ~(a < t[i].value + t[i].size) /\ ~(a < t[i + 1].value)
    BY SMTT(30), <1>5, <2>2, <2>3
  <2> QED
    BY <1>1, <2>1, <2>4 DEF Covers
<1>6. ASSUME NEW m \in 1 .. L, ~(t[m].value < a), NEW i \in m + 1 .. L
      PROVE  ~Covers(t, i, a)
  <2>1. t[m].value < t[i].value /\ t[m].value \in Nat /\ t[i].value \in Nat
    BY <1>3, <1>4
  <2>2. ~(t[i].value <= a)
    BY <1>6, <2>1
  <2> QED
    BY <2>2 DEF Covers
<1> DEFINE S == {w \in 0 .. L : \A l \in 1 .. L + 1 - w : Answers(g[w][l], t, a, l, l + w - 1)}
<1>7. ASSUME NEW w \in 0 .. L, \A j \in 0 .. w - 1 : j \in S
      PROVE  w \in S
  <2>1. ASSUME NEW l \in 1 .. L + 1 - w PROVE Answers(g[w][l], t, a, l, l + w - 1)
    <3>1. g[w][l] = SearchAt(t, a, g, w, l)
      <4>1. g[w] = [k \in 1 .. L + 1 - w |-> SearchAt(t, a, g, w, k)]
        BY <1>10, Zenon
      <4> QED
        BY <4>1, Zenon
    <3>2. CASE w = 0
      <4>1. g[w][l] = 0 /\ l .. l + w - 1 = {}
        BY <3>1, <3>2 DEF SearchAt
      <4> QED
        BY <4>1 DEF Answers
    <3>3. CASE w # 0
      <4>1. PICK h \in 0 .. w - 1 : h = w \div 2
        BY <3>3, Halves
      <4>2. PICK v \in 0 .. w - 1, m \in 1 .. L :
               /\ v = w - (w \div 2) - 1 /\ m = l + (w \div 2)
               /\ v = w - h - 1 /\ m = l + h
        BY <4>1
      <4>3. g[w][l] = IF Covers(t, m, a) THEN m
                      ELSE IF t[m].value < a THEN g[v][m + 1] ELSE g[h][l]
        BY <3>1, <3>3, <4>1, <4>2 DEF SearchAt
      <4>4. m \in l .. l + w - 1
        BY <4>2
      <4>5. CASE Covers(t, m, a)
        BY <4>3, <4>4, <4>5 DEF Answers
      <4>6. CASE ~Covers(t, m, a) /\ t[m].value < a
        <5>1. m + 1 \in 1 .. L + 1 - v /\ v \in S /\ (m + 1) + v - 1 = l + w - 1
          <6>1. v \in S
            BY <1>7
          <6>2. m + 1 \in 1 .. L + 1 - v
            BY <4>2
          <6>3. (m + 1) + v - 1 = l + w - 1
            BY <4>2
          <6> QED
            BY <6>1, <6>2, <6>3
        <5>2. Answers(g[v][m + 1], t, a, m + 1, l + w - 1)
          BY <5>1
        <5>3. \A i \in l .. l + w - 1 : i = m \/ i \in 1 .. m - 1 \/ i \in m + 1 .. l + w - 1
          BY <4>2
        <5>4. \A i \in m + 1 .. l + w - 1 : i \in l .. l + w - 1
          BY <4>2
        <5> QED
          BY <1>5, <4>3, <4>6, <5>2, <5>3, <5>4 DEF Answers
      <4>7. CASE ~Covers(t, m, a) /\ ~(t[m].value < a)
        <5>1. l \in 1 .. L + 1 - h /\ h \in S /\ l + h - 1 = m - 1
          <6>1. h \in S
            BY <1>7
          <6>2. l \in 1 .. L + 1 - h
            BY <4>2
          <6>3. l + h - 1 = m - 1
            BY <4>2
          <6> QED
            BY <6>1, <6>2, <6>3
        <5>2. Answers(g[h][l], t, a, l, m - 1)
          BY <5>1
        <5>3. \A i \in l .. l + w - 1 : i = m \/ i \in l .. m - 1 \/ i \in m + 1 .. L
          BY <4>2
        <5>4. \A i \in l .. m - 1 : i \in l .. l + w - 1
          BY <4>2
        <5> QED
          BY <1>6, <4>3, <4>7, <5>2, <5>3, <5>4 DEF Answers
      <4> QED
        BY <4>5, <4>6, <4>7
    <3> QED
      BY <3>2, <3>3
  <2> QED
    BY <2>1
<1>8. \A w \in 0 .. L : w \in S
  <2> HIDE DEF S
  <2> QED
    BY <1>7, FromBelow
<1>9. 1 \in 1 .. L + 1 - L /\ L \in S /\ 1 + L - 1 = L
  BY <1>8
<1> QED
  BY <1>1, <1>2, <1>9

-----------------------------------------------------------------------------
(* strtoul() and strtol().                                                 *)

LEMMA MaxOfTwo ==
    ASSUME NEW a \in Int, NEW b \in Int
    PROVE  Max({a, b}) = IF a >= b THEN a ELSE b
<1>1. PICK k \in {a, b} : k = (IF a >= b THEN a ELSE b) /\ \A y \in {a, b} : k >= y
  OBVIOUS
<1>2. PICK x : x = CHOOSE z \in {a, b} : \A y \in {a, b} : z >= y
  OBVIOUS
<1>3. x \in {a, b} /\ \A y \in {a, b} : x >= y
  BY <1>1, <1>2
<1>4. x = k
  BY <1>1, <1>3
<1>5. Max({a, b}) = x
  BY <1>2, Zenon DEF Max
<1> QED
  BY <1>1, <1>4, <1>5

Bases == {8, 10, 16}
Accumulators == [x : Nat, overflow : BOOLEAN]

\* What has been read of a number v.
Sums(acc, v) == IF v <= MaxWord THEN acc.x = v /\ acc.overflow = FALSE
                ELSE acc.overflow = TRUE

\* strtoul() sees the overflow before it happens.
LEMMA Accumulates ==
    ASSUME NEW acc \in Accumulators, NEW v \in Nat, NEW b \in Bases, NEW d \in 0 .. b - 1
    PROVE  /\ Accumulate(acc, d, b) \in Accumulators
           /\ Sums(acc, v) => Sums(Accumulate(acc, d, b), b * v + d)
<1>1. PICK x \in Nat, o \in BOOLEAN : acc.x = x /\ acc.overflow = o /\ acc = [x |-> x, overflow |-> o]
  BY DEF Accumulators
<1>2. PICK M \in Nat : M = MaxWord
  BY Sizes
<1>3. PICK e \in Nat : e = x * b + d /\ (x > (M - d) \div b <=> e > M)
  <2>1. CASE b = 10
    BY <2>1
  <2>2. CASE b = 16
    BY <2>2
  <2>3. CASE b = 8
    BY <2>3
  <2> QED
    BY <2>1, <2>2, <2>3 DEF Bases
<1>4. PICK w \in Nat : w = b * v + d /\ w >= v /\ (x = v => e = w)
  <2>1. CASE b = 10
    BY <1>3, <2>1
  <2>2. CASE b = 16
    BY <1>3, <2>2
  <2>3. CASE b = 8
    BY <1>3, <2>3
  <2> QED
    BY <2>1, <2>2, <2>3 DEF Bases
<1>5. CASE e > M
  <2>1. Accumulate(acc, d, b) = [x |-> x, overflow |-> TRUE]
    BY <1>1, <1>2, <1>3, <1>5 DEF Accumulate
  <2>2. Accumulate(acc, d, b) \in Accumulators
    BY <2>1 DEF Accumulators
  <2>3. ASSUME Sums(acc, v) PROVE ~(w <= M)
    <3>1. v <= M => x = v
      BY <1>1, <1>2, <2>3 DEF Sums
    <3> QED
      BY <1>4, <1>5, <3>1
  <2>4. ASSUME Sums(acc, v) PROVE Sums(Accumulate(acc, d, b), w)
    <3>1. ~(w <= M)
      BY <2>3, <2>4
    <3>2. Accumulate(acc, d, b).overflow = TRUE
      BY <2>1
    <3> QED
      BY <1>2, <3>1, <3>2 DEF Sums
  <2> QED
    BY <1>4, <2>2, <2>4
<1>6. CASE ~(e > M)
  <2>1. Accumulate(acc, d, b) = [x |-> e, overflow |-> o]
    BY <1>1, <1>2, <1>3, <1>6 DEF Accumulate
  <2>2. Accumulate(acc, d, b) \in Accumulators
    BY <2>1 DEF Accumulators
  <2>3. ASSUME Sums(acc, v) PROVE Sums(Accumulate(acc, d, b), w)
    <3>1. CASE v <= M
      <4>1. x = v /\ o = FALSE
        BY <1>1, <1>2, <2>3, <3>1 DEF Sums
      <4>2. e = w /\ w <= M
        BY <1>4, <1>6, <4>1
      <4> QED
        BY <1>2, <2>1, <4>1, <4>2 DEF Sums
    <3>2. CASE ~(v <= M)
      <4>1. o = TRUE
        BY <1>1, <1>2, <2>3, <3>2 DEF Sums
      <4>2. ~(w <= M)
        BY <1>4, <3>2
      <4> QED
        BY <1>2, <2>1, <4>1, <4>2 DEF Sums
    <3> QED
      BY <3>1, <3>2
  <2> QED
    BY <1>4, <2>2, <2>3
<1> QED
  BY <1>5, <1>6

\* The number that n digits of base b make; digit i is d[i].
Values(v, d, b, N) == v \in [0 .. N -> Nat] /\ v[0] = 0 /\ \A n \in 1 .. N : v[n] = b * v[n - 1] + d[n]

\* The sum of digits is the number they make, unless that is too large.
LEMMA SumIs ==
    ASSUME NEW s, NEW from \in Nat, NEW N \in Nat, NEW b \in Bases,
           NEW d \in [1 .. N -> 0 .. b - 1],
           \A n \in 1 .. N : d[n] = DigitValue(s[from + n - 1], b),
           NEW v, Values(v, d, b, N)
    PROVE  Sums(Sum(s, from, from + N, b), v[N])
<1>1. PICK z : z = [x |-> 0, overflow |-> FALSE]
  OBVIOUS
<1>2. z \in Accumulators
  BY <1>1 DEF Accumulators
<1>3. PICK h : h = [n \in 1 .. N |-> [acc \in Accumulators |-> Accumulate(acc, d[n], b)]]
  OBVIOUS
<1>4. \A n \in 1 .. N : d[n] \in 0 .. b - 1
  OBVIOUS
<1>5. h \in [1 .. N -> [Accumulators -> Accumulators]]
  <2>1. ASSUME NEW n \in 1 .. N, NEW acc \in Accumulators
        PROVE  Accumulate(acc, d[n], b) \in Accumulators
    <3>1. PICK e \in 0 .. b - 1 : e = d[n]
      BY <1>4
    <3>2. 0 \in Nat
      OBVIOUS
    <3> QED
      BY <3>1, <3>2, Accumulates
  <2> QED
    BY <1>3, <2>1
<1>6. PICK f : Folds(f, h, z, N, Accumulators)
  BY <1>2, <1>5, FoldExists
<1>7. f \in [0 .. N -> Accumulators] /\ f[0] = z
  BY <1>6 DEF Folds
<1>8. ASSUME NEW n \in 1 .. N PROVE f[n] = Accumulate(f[n - 1], d[n], b)
  <2>1. n - 1 \in 0 .. N /\ f[n] = h[n][f[n - 1]] /\ f[n - 1] \in Accumulators
    BY <1>6, <1>7 DEF Folds
  <2> QED
    BY <1>3, <2>1
<1>9. f = [n \in 0 .. N |-> IF n = 0 THEN z
                            ELSE Accumulate(f[n - 1], DigitValue(s[from + n - 1], b), b)]
  <2>1. ASSUME NEW n \in 0 .. N
        PROVE  f[n] = IF n = 0 THEN z
                      ELSE Accumulate(f[n - 1], DigitValue(s[from + n - 1], b), b)
    <3>1. n # 0 => n \in 1 .. N
      OBVIOUS
    <3> QED
      BY <1>7, <1>8, <3>1
  <2> QED
    BY <1>7, <2>1
<1>10. (from + N) - from = N
  OBVIOUS
<1>11. PICK g : /\ g = CHOOSE m : m = [n \in 0 .. N |-> IF n = 0 THEN z
                            ELSE Accumulate(m[n - 1], DigitValue(s[from + n - 1], b), b)]
                /\ Sum(s, from, from + N, b) = g[N]
  BY <1>1, <1>10 DEF Sum
<1>12. g = [n \in 0 .. N |-> IF n = 0 THEN z
                             ELSE Accumulate(g[n - 1], DigitValue(s[from + n - 1], b), b)]
  BY <1>9, <1>11
<1>13. g[0] = z
  BY <1>12
<1>14. ASSUME NEW n \in 1 .. N PROVE g[n] = Accumulate(g[n - 1], d[n], b)
  BY <1>12
<1> DEFINE S == {n \in 0 .. N : g[n] \in Accumulators /\ Sums(g[n], v[n])}
<1>15. 0 \in S
  <2>1. v[0] = 0 /\ 0 <= MaxWord
    <3>1. MaxWord \in Nat
      BY Sizes
    <3> QED
      BY <3>1 DEF Values
  <2>2. Sums(z, 0)
    BY <1>1, <2>1 DEF Sums
  <2> QED
    BY <1>2, <1>13, <2>1, <2>2
<1>16. ASSUME NEW n \in 0 .. N - 1, n \in S PROVE n + 1 \in S
  <2>1. PICK k \in 1 .. N : k = n + 1 /\ k - 1 = n
    OBVIOUS
  <2>2. PICK e \in 0 .. b - 1 : e = d[k]
    BY <1>4
  <2>3. PICK y \in Nat : y = v[n] /\ v[k] = b * y + e
    <3>1. n \in 0 .. N /\ v[n] \in Nat
      BY DEF Values
    <3> QED
      BY <2>1, <2>2, <3>1 DEF Values
  <2>4. PICK acc \in Accumulators : acc = g[n] /\ Sums(acc, y) /\ g[k] = Accumulate(acc, e, b)
    <3>1. g[n] \in Accumulators /\ Sums(g[n], y)
      BY <1>16, <2>3
    <3>2. g[k] = Accumulate(g[n], e, b)
      BY <1>14, <2>1, <2>2
    <3> QED
      BY <3>1, <3>2
  <2>5. g[k] \in Accumulators /\ Sums(g[k], v[k])
    BY <2>3, <2>4, Accumulates
  <2> QED
    BY <2>1, <2>5
<1>17. \A n \in 0 .. N : n \in S
  <2> HIDE DEF S
  <2> QED
    BY <1>15, <1>16, UpTo
<1>18. N \in S
  BY <1>17
<1> QED
  BY <1>11, <1>18

\* The word made of a number, and what strtoul() makes of it when it has a minus.
Least(x, y) == IF x <= y THEN x ELSE y

\* Spaces from place i to j, a sign or none, the base's prefix or none, N digits.
Reads(z, i, given, j, first, base, from, N) ==
    /\ i \in Nat /\ Len(z) \in Nat /\ j \in i .. Len(z)
    /\ \A m \in i .. j - 1 : IsSpace(z[m])
    /\ ~IsSpace(z[j])
    /\ first = IF z[j] \in {43, 45} THEN j + 1 ELSE j
    /\ base = IF given # 0 THEN given ELSE IF HexPrefix(z, first) THEN 16
              ELSE IF z[first] = 48 THEN 8 ELSE 10
    /\ base \in Bases
    /\ from = IF base = 16 /\ HexPrefix(z, first) THEN first + 2 ELSE first
    /\ N \in Nat /\ from + N <= Len(z)
    /\ \A n \in 1 .. N : DigitValue(z[from + n - 1], base) \in 0 .. base - 1
    /\ DigitValue(z[from + N], base) < 0

\* The values of the digits from a place on.
DigitsOf(d, z, from, base, N) ==
    /\ d \in [1 .. N -> 0 .. base - 1]
    /\ \A n \in 1 .. N : d[n] = DigitValue(z[from + n - 1], base)

LEMMA StrtoulReads ==
    ASSUME NEW z, NEW i, NEW given, NEW j, NEW first, NEW base, NEW from, NEW N,
           Reads(z, i, given, j, first, base, from, N),
           NEW d, DigitsOf(d, z, from, base, N), NEW v, Values(v, d, base, N)
    PROVE  /\ Strtoul(z, i, given).end = from + N
           /\ Strtoul(z, i, given).value = IF z[j] = 45 THEN Wrap(-Least(v[N], MaxWord))
                                           ELSE Least(v[N], MaxWord)
<1>1. i \in Nat /\ Len(z) \in Nat /\ j \in i .. Len(z) /\ from \in Nat /\ N \in Nat /\ base \in Bases
  BY DEF Reads
<1>2. FirstNonSpace(z, i) = j
  <2>1. PICK S : S = {m \in i .. Len(z) : ~IsSpace(z[m])}
    OBVIOUS
  <2>2. S \in SUBSET Int /\ j \in S /\ \A m \in S : j <= m
    <3>1. \A m \in i .. Len(z) : m < j => m \in i .. j - 1
      BY <1>1
    <3> QED
      BY <1>1, <2>1, <3>1 DEF Reads
  <2>3. Min(S) = j
    BY <2>2, MinIs
  <2> QED
    BY <2>1, <2>3 DEF FirstNonSpace
<1>3. FirstNonDigit(z, from, base) = from + N
  <2>1. PICK S : S = {m \in from .. Len(z) : DigitValue(z[m], base) < 0}
    OBVIOUS
  <2>2. from + N \in S
    BY <1>1, <2>1 DEF Reads
  <2>3. ASSUME NEW m \in S PROVE m \in Int /\ from + N <= m
    <3>1. m \in from .. Len(z) /\ DigitValue(z[m], base) < 0
      BY <2>1
    <3>2. ASSUME m < from + N PROVE FALSE
      <4>1. PICK n \in 1 .. N : m = from + n - 1
        <5>1. m - from + 1 \in 1 .. N /\ from + (m - from + 1) - 1 = m
          BY <1>1, <3>1, <3>2
        <5> QED
          BY <5>1
      <4>2. DigitValue(z[m], base) \in 0 .. base - 1
        BY <4>1 DEF Reads
      <4>3. \A y \in 0 .. base - 1 : y >= 0
        BY <1>1 DEF Bases
      <4> QED
        BY <3>1, <4>2, <4>3
    <3> QED
      BY <1>1, <3>1, <3>2
  <2>4. Min(S) = from + N
    <3>1. S \in SUBSET Int /\ \A m \in S : from + N <= m
      BY <2>3
    <3> QED
      BY <2>2, <3>1, MinIs
  <2> QED
    BY <2>1, <2>4 DEF FirstNonDigit
<1>4. PICK sum : sum = Sum(z, from, from + N, base) /\ Sums(sum, v[N])
  BY <1>1, SumIs DEF DigitsOf
<1>5. v[N] \in Nat /\ MaxWord \in Nat
  <2>1. MaxWord \in Nat
    BY Sizes
  <2> QED
    BY <1>1, <2>1 DEF Values
<1>6. (IF sum.overflow THEN MaxWord ELSE sum.x) = Least(v[N], MaxWord)
  BY <1>4, <1>5 DEF Sums, Least
<1>7. Strtoul(z, i, given) = [value |-> IF z[j] = 45
                                        THEN Wrap(-(IF sum.overflow THEN MaxWord ELSE sum.x))
                                        ELSE IF sum.overflow THEN MaxWord ELSE sum.x,
                              end |-> from + N]
  <2>1. first = IF z[j] \in {43, 45} THEN j + 1 ELSE j
    BY DEF Reads
  <2>2. base = IF given # 0 THEN given ELSE IF HexPrefix(z, first) THEN 16
               ELSE IF z[first] = 48 THEN 8 ELSE 10
    BY DEF Reads
  <2>3. from = IF base = 16 /\ HexPrefix(z, first) THEN first + 2 ELSE first
    BY DEF Reads
  <2> QED
    BY ZenonT(60), <1>2, <1>3, <1>4, <2>1, <2>2, <2>3 DEF Strtoul
<1> QED
  BY <1>6, <1>7

LEMMA ValuesExist ==
    ASSUME NEW N \in Nat, NEW d \in [1 .. N -> Nat], NEW b \in Nat
    PROVE  \E v : Values(v, d, b, N)
<1>1. PICK h : h = [n \in 1 .. N |-> [x \in Nat |-> b * x + d[n]]]
  OBVIOUS
<1>2. h \in [1 .. N -> [Nat -> Nat]]
  <2>1. \A n \in 1 .. N, x \in Nat : b * x + d[n] \in Nat
    OBVIOUS
  <2> QED
    BY <1>1, <2>1
<1>3. PICK v : Folds(v, h, 0, N, Nat)
  <2>1. 0 \in Nat
    OBVIOUS
  <2> QED
    BY <1>2, <2>1, FoldExists
<1>4. v \in [0 .. N -> Nat] /\ v[0] = 0
  BY <1>3 DEF Folds
<1>5. ASSUME NEW n \in 1 .. N PROVE v[n] = b * v[n - 1] + d[n]
  <2>1. n - 1 \in 0 .. N /\ v[n - 1] \in Nat /\ v[n] = h[n][v[n - 1]]
    BY <1>3, <1>4 DEF Folds
  <2> QED
    BY <1>1, <2>1
<1> QED
  BY <1>4, <1>5 DEF Values

\* A numeral: its digits begin at place k, and make v[N].
Numeral(s, k, N, d, v) ==
    /\ k = (IF s[1] \in {43, 45} THEN 2 ELSE 1)
    /\ N \in Nat /\ Len(s) = N + k - 1 /\ s \in Seq(Nat) /\ s # << >>
    /\ s[1] \in {43, 45} \cup 48 .. 57
    /\ d \in [1 .. N -> 0 .. 9] /\ \A n \in 1 .. N : s[k + n - 1] = d[n] + 48
    /\ Values(v, d, 10, N)
    /\ ValueOf(s) = IF s[1] = 45 THEN -v[N] ELSE v[N]

LEMMA NumeralIs ==
    ASSUME NEW s \in Decimals
    PROVE  \E k, N, d, v : Numeral(s, k, N, d, v)
<1>1. /\ s \in Seq(Nat) /\ s # << >> /\ s[1] \in {43, 45} \cup 48 .. 57
      /\ \A i \in 2 .. Len(s) : s[i] \in 48 .. 57
  BY DEF Decimals
<1>2. PICK L \in Nat \ {0} : L = Len(s)
  BY <1>1, EmptySeq
<1>3. PICK k \in {1, 2} : k = IF s[1] \in {43, 45} THEN 2 ELSE 1
  OBVIOUS
<1>4. PICK N \in Nat : N = L + 1 - k /\ L = N + k - 1
  <2>1. L + 1 - k \in Nat
    OBVIOUS
  <2> QED
    BY <2>1
<1>5. PICK t \in Seq(Nat) : /\ t = IF s[1] \in {43, 45} THEN Tail(s) ELSE s
                            /\ Len(t) = N /\ \A n \in 1 .. N : t[n] = s[k + n - 1]
  <2>1. CASE s[1] \in {43, 45}
    <3>1. Tail(s) \in Seq(Nat) /\ Len(Tail(s)) = L - 1 /\ \A n \in 1 .. L - 1 : Tail(s)[n] = s[n + 1]
      BY <1>1, <1>2, HeadTailProperties
    <3>2. k = 2 /\ N = L - 1 /\ \A n \in 1 .. N : k + n - 1 = n + 1
      BY <1>3, <1>4, <2>1
    <3> QED
      BY <2>1, <3>1, <3>2, ZenonT(30)
  <2>2. CASE s[1] \notin {43, 45}
    <3>1. k = 1 /\ N = L /\ \A n \in 1 .. N : k + n - 1 = n
      BY <1>3, <1>4, <2>2
    <3> QED
      BY <1>1, <1>2, <2>2, <3>1
  <2> QED
    BY <2>1, <2>2
<1>6. \A n \in 1 .. N : t[n] \in 48 .. 57
  <2>1. ASSUME NEW n \in 1 .. N PROVE t[n] \in 48 .. 57
    <3>1. PICK m \in 1 .. L : m = k + n - 1
      BY <1>4
    <3>2. CASE m = 1
      <4>1. k = 1
        BY <3>1, <3>2
      <4>2. s[1] \in 48 .. 57
        BY <1>1, <1>3, <4>1
      <4> QED
        BY <1>5, <3>1, <3>2, <4>2
    <3>3. CASE m # 1
      <4>1. m \in 2 .. Len(s)
        BY <1>2, <3>3
      <4> QED
        BY <1>1, <1>5, <3>1, <4>1
    <3> QED
      BY <3>2, <3>3
  <2> QED
    BY <2>1
<1>7. PICK d : d = [n \in 1 .. N |-> t[n] - 48]
  OBVIOUS
<1>8. d \in [1 .. N -> 0 .. 9] /\ d \in [1 .. N -> Nat] /\ \A n \in 1 .. N : t[n] = d[n] + 48
  <2>1. ASSUME NEW n \in 1 .. N
        PROVE  t[n] - 48 \in 0 .. 9 /\ t[n] - 48 \in Nat /\ t[n] = (t[n] - 48) + 48
    <3>1. PICK c \in 48 .. 57 : c = t[n]
      BY <1>6
    <3>2. c - 48 \in 0 .. 9 /\ c - 48 \in Nat /\ c = (c - 48) + 48
      OBVIOUS
    <3> QED
      BY <3>1, <3>2, Zenon
  <2>2. d \in [1 .. N -> 0 .. 9] /\ d \in [1 .. N -> Nat]
    BY <1>7, <2>1
  <2>3. \A n \in 1 .. N : t[n] = d[n] + 48
    BY <1>7, <2>1
  <2> QED
    BY <2>2, <2>3
<1>9. PICK v : Values(v, d, 10, N)
  <2>1. 10 \in Nat
    OBVIOUS
  <2> QED
    BY <1>8, <2>1, ValuesExist
<1>10. v \in [0 .. N -> Nat] /\ v[0] = 0 /\ \A n \in 1 .. N : v[n] = 10 * v[n - 1] + d[n]
  BY <1>9 DEF Values
<1>11. ASSUME NEW n \in 1 .. N, NEW x \in Nat PROVE 10 * x + t[n] - 48 = 10 * x + d[n]
  <2>1. PICK c \in 0 .. 9 : c = d[n] /\ t[n] = c + 48
    BY <1>8
  <2> QED
    BY <2>1
<1>12. v = [n \in 0 .. N |-> IF n = 0 THEN 0 ELSE 10 * v[n - 1] + t[n] - 48]
  <2>1. ASSUME NEW n \in 0 .. N PROVE v[n] = IF n = 0 THEN 0 ELSE 10 * v[n - 1] + t[n] - 48
    <3>1. CASE n = 0
      BY <1>10, <3>1
    <3>2. CASE n # 0
      <4>1. n \in 1 .. N /\ n - 1 \in 0 .. N
        BY <3>2
      <4>2. v[n - 1] \in Nat /\ v[n] = 10 * v[n - 1] + d[n]
        BY <1>10, <4>1
      <4> QED
        BY <1>11, <3>2, <4>1, <4>2
    <3> QED
      BY <3>1, <3>2
  <2> QED
    BY <1>10, <2>1
<1>13. PICK g : /\ g = CHOOSE m : m = [n \in 0 .. N |-> IF n = 0 THEN 0 ELSE 10 * m[n - 1] + t[n] - 48]
                /\ Magnitude(t) = g[N]
  BY <1>5 DEF Magnitude
<1>20. ValueOf(s) = IF s[1] = 45 THEN -Magnitude(t) ELSE Magnitude(t)
  BY <1>5 DEF ValueOf
<1>14. g = [n \in 0 .. N |-> IF n = 0 THEN 0 ELSE 10 * g[n - 1] + t[n] - 48]
  BY <1>12, <1>13
<1> DEFINE S == {n \in 0 .. N : g[n] = v[n]}
<1>15. 0 \in S
  BY <1>10, <1>14
<1>16. ASSUME NEW n \in 0 .. N - 1, n \in S PROVE n + 1 \in S
  <2>1. PICK m \in 1 .. N : m = n + 1 /\ m - 1 = n
    OBVIOUS
  <2>2. g[m] = 10 * g[m - 1] + t[m] - 48 /\ v[m] = 10 * v[m - 1] + t[m] - 48
    BY <1>12, <1>14
  <2>3. g[m - 1] = v[m - 1]
    BY <1>16, <2>1
  <2> QED
    BY <2>1, <2>2, <2>3
<1>17. \A n \in 0 .. N : n \in S
  <2> HIDE DEF S
  <2> QED
    BY <1>15, <1>16, UpTo
<1>18. g[N] = v[N]
  BY <1>17
<1>19. Numeral(s, k, N, d, v)
  <2>1. Len(s) = N + k - 1
    BY <1>2, <1>4
  <2>2. \A n \in 1 .. N : s[k + n - 1] = d[n] + 48
    BY <1>5, <1>8
  <2>3. ValueOf(s) = IF s[1] = 45 THEN -v[N] ELSE v[N]
    BY <1>13, <1>18, <1>20
  <2> QED
    BY <1>1, <1>3, <1>8, <1>9, <2>1, <2>2, <2>3 DEF Numeral
<1> QED
  BY <1>19

\* What a long keeps of a number, read with its sign.
LEMMA Clamps ==
    ASSUME NEW x \in Nat, NEW negative \in BOOLEAN, NEW c \in Nat,
           c = Least(Least(x, MaxWord), Bound(negative))
    PROVE  Signed(IF negative THEN Wrap(-c) ELSE c)
              = Max({Min({IF negative THEN -x ELSE x, TwoTo[WordBits - 1] - 1}), -TwoTo[WordBits - 1]})
<1>1. PICK H \in Nat \ {0} :
         TwoTo[WordBits] = 2 * H /\ TwoTo[WordBits - 1] = H /\ MaxWord = 2 * H - 1
  BY Sizes
<1>2. CASE negative
  <2>1. c = IF x <= H THEN x ELSE H
    BY <1>1, <1>2 DEF Least, Bound
  <2>2. PICK y \in Int : y = -c /\ -H <= y /\ y < H /\ y <= 0 /\ y = IF -x >= -H THEN -x ELSE -H
    BY <2>1
  <2>3. y % (2 * H) = IF y = 0 THEN 0 ELSE y + 2 * H
    BY <2>2, InRange
  <2>4. Signed(Wrap(y)) = y
    <3>1. Wrap(y) = IF y = 0 THEN 0 ELSE y + 2 * H
      BY <1>1, <2>3 DEF Wrap
    <3> QED
      BY <1>1, <2>2, <3>1 DEF Signed
  <2>5. Min({-x, H - 1}) = -x
    BY MinOfTwo
  <2>6. Max({-x, -H}) = y
    BY <2>2, MaxOfTwo
  <2> QED
    BY <1>1, <1>2, <2>2, <2>4, <2>5, <2>6
<1>3. CASE ~negative
  <2>1. c = IF x <= H - 1 THEN x ELSE H - 1
    BY <1>1, <1>3 DEF Least, Bound
  <2>2. Signed(c) = c
    BY <1>1, <2>1 DEF Signed
  <2>3. Min({x, H - 1}) = c
    BY <2>1, MinOfTwo
  <2>4. Max({c, -H}) = c
    BY <2>1, MaxOfTwo
  <2> QED
    BY <1>1, <1>3, <2>2, <2>3, <2>4
<1> QED
  BY <1>2, <1>3

\* strtol() clamps the true value of a numeral to the range of a long.
LEMMA StrtolClamps ==
    ASSUME NEW s \in Decimals
    PROVE  Strtol(Append(s, 0), 10).value
              = Max({Min({ValueOf(s), TwoTo[WordBits - 1] - 1}), -TwoTo[WordBits - 1]})
<1>1. PICK k, N, d, v : Numeral(s, k, N, d, v)
  BY NumeralIs
<1>2. /\ k \in {1, 2} /\ N \in Nat /\ Len(s) = N + k - 1 /\ s \in Seq(Nat)
      /\ d \in [1 .. N -> 0 .. 9] /\ Values(v, d, 10, N)
  BY <1>1 DEF Numeral
<1>3. PICK L \in Nat : L = N + k /\ L = Len(s) + 1 /\ L >= 1
  BY <1>2, EmptySeq DEF Decimals
<1>4. PICK z : z = Append(s, 0) /\ Len(z) = L /\ z[L] = 0 /\ \A i \in 1 .. L - 1 : z[i] = s[i]
  <2>1. 0 \in Nat
    OBVIOUS
  <2>2. /\ Len(Append(s, 0)) = Len(s) + 1
        /\ \A i \in 1 .. Len(s) : Append(s, 0)[i] = s[i]
        /\ Append(s, 0)[Len(s) + 1] = 0
    BY <1>2, <2>1, AppendProperties
  <2>3. Len(s) = L - 1
    BY <1>2, <1>3
  <2> QED
    BY <1>3, <2>2, <2>3
<1>5. L >= 2 /\ z[1] = s[1] /\ z[1] \in {43, 45} \cup 48 .. 57
  <2>1. Len(s) # 0
    BY <1>1, <1>2, EmptySeq DEF Numeral
  <2>2. L >= 2 /\ 1 \in 1 .. L - 1
    BY <1>2, <1>3, <2>1
  <2> QED
    BY <1>1, <1>4, <2>2 DEF Numeral
<1>6. \A n \in 1 .. N : z[k + n - 1] \in 48 .. 57 /\ z[k + n - 1] = d[n] + 48
  <2>1. ASSUME NEW n \in 1 .. N PROVE z[k + n - 1] \in 48 .. 57 /\ z[k + n - 1] = d[n] + 48
    <3>1. PICK e \in 0 .. 9 : e = d[n]
      BY <1>2
    <3>2. PICK m \in 1 .. L - 1 : m = k + n - 1
      BY <1>2, <1>3
    <3>3. s[m] = e + 48
      BY <1>1, <3>1, <3>2 DEF Numeral
    <3>4. z[m] = e + 48
      BY <1>4, <3>3
    <3>5. e + 48 \in 48 .. 57
      OBVIOUS
    <3> QED
      BY <3>1, <3>2, <3>4, <3>5
  <2> QED
    BY <2>1
<1>7. PICK negative \in BOOLEAN : negative <=> s[1] = 45
  OBVIOUS
<1>8. PICK i \in {1, 2} : i = IF negative THEN 2 ELSE 1
  OBVIOUS
<1>9. FirstNonSpace(z, 1) = 1
  <2>1. PICK S : S = {m \in 1 .. Len(z) : ~IsSpace(z[m])}
    OBVIOUS
  <2>2. S \in SUBSET Int /\ 1 \in S /\ \A m \in S : 1 <= m
    BY SMTT(30), <1>4, <1>5, <2>1 DEF IsSpace
  <2>3. Min(S) = 1
    BY <2>2, MinIs
  <2> QED
    BY <2>1, <2>3 DEF FirstNonSpace
<1>10. Reads(z, i, 10, i, k, 10, k, N) /\ z[i] # 45
  <2>1. k = IF z[1] \in {43, 45} THEN 2 ELSE 1
    BY <1>1, <1>5 DEF Numeral
  <2>2. z[2] \in 48 .. 57 \/ z[2] = 0
    <3>1. CASE N = 0
      BY <1>2, <1>3, <1>4, <1>5, <3>1
    <3>2. CASE N # 0 /\ k = 2
      BY <1>2, <1>6, <3>2
    <3>3. CASE N # 0 /\ k = 1
      <4>1. CASE N = 1
        BY <1>3, <1>4, <3>3, <4>1
      <4>2. CASE N # 1
        <5>1. 2 \in 1 .. N
          BY <1>2, <3>3, <4>2
        <5>2. z[k + 2 - 1] \in 48 .. 57 /\ k + 2 - 1 = 2
          BY <1>6, <3>3, <5>1
        <5> QED
          BY <5>2
      <4> QED
        BY <4>1, <4>2
    <3> QED
      BY <1>2, <3>1, <3>2, <3>3
  <2>3. i \in 1 .. L /\ (z[i] \in {43} \cup 48 .. 57 \/ z[i] = 0)
    BY <1>5, <1>7, <1>8, <2>2
  <2>4. k = IF z[i] \in {43, 45} THEN i + 1 ELSE i
    <3>1. CASE negative
      BY <1>5, <1>7, <1>8, <2>1, <2>2, <3>1
    <3>2. CASE ~negative
      BY <1>5, <1>7, <1>8, <2>1, <3>2
    <3> QED
      BY <3>1, <3>2
  <2>5. \A n \in 1 .. N : DigitValue(z[k + n - 1], 10) \in 0 .. 10 - 1
    BY <1>6 DEF DigitValue
  <2>6. DigitValue(z[k + N], 10) < 0
    <3>1. z[k + N] = 0
      BY <1>2, <1>3, <1>4
    <3> QED
      BY <3>1 DEF DigitValue
  <2>7. ~IsSpace(z[i]) /\ z[i] # 45
    BY <2>3 DEF IsSpace
  <2>8. i \in Nat /\ Len(z) \in Nat /\ i \in i .. Len(z) /\ (i .. i - 1 = {}) /\ k + N <= Len(z)
    BY <1>2, <1>3, <1>4, <2>3
  <2> QED
    BY <1>2, <2>4, <2>5, <2>6, <2>7, <2>8 DEF Reads, Bases
<1>11. Strtoul(z, i, 10).value = Least(v[N], MaxWord)
  <2>1. \A n \in 1 .. N : d[n] = DigitValue(z[k + n - 1], 10)
    <3>1. ASSUME NEW n \in 1 .. N PROVE d[n] = DigitValue(z[k + n - 1], 10)
      <4>1. PICK e \in 0 .. 9 : e = d[n]
        BY <1>2
      <4>2. z[k + n - 1] = e + 48
        BY <1>6, <4>1
      <4> QED
        BY <4>1, <4>2 DEF DigitValue
    <3> QED
      BY <3>1
  <2>2. d \in [1 .. N -> 0 .. 10 - 1]
    BY <1>2
  <2>3. DigitsOf(d, z, k, 10, N)
    BY <2>1, <2>2 DEF DigitsOf
  <2> QED
    <3>1. Strtoul(z, i, 10).value = IF z[i] = 45 THEN Wrap(-Least(v[N], MaxWord))
                                    ELSE Least(v[N], MaxWord)
      BY <1>2, <1>10, <2>3, StrtoulReads
    <3> QED
      BY <1>10, <3>1
<1>12. PICK x \in Nat : x = v[N]
  BY <1>2 DEF Values
<1>13. PICK c \in Nat : /\ c = Least(Least(x, MaxWord), Bound(negative))
                        /\ Min({Least(x, MaxWord), Bound(negative)}) = c
  <2>1. Least(x, MaxWord) \in Nat /\ Bound(negative) \in Nat
    <3>1. PICK H \in Nat \ {0} : TwoTo[WordBits - 1] = H /\ MaxWord = 2 * H - 1
      BY Sizes
    <3> QED
      BY <3>1 DEF Least, Bound
  <2>2. Min({Least(x, MaxWord), Bound(negative)}) = Least(Least(x, MaxWord), Bound(negative))
    BY <2>1, MinOfTwo DEF Least
  <2>3. Least(Least(x, MaxWord), Bound(negative)) \in Nat
    BY <2>1 DEF Least
  <2> QED
    BY <2>2, <2>3
<1>14. Strtol(z, 10).value = Signed(IF negative THEN Wrap(-c) ELSE c)
  <2>1. z[1] = 45 <=> negative
    BY <1>5, <1>7
  <2>2. i = IF negative THEN 1 + 1 ELSE 1
    BY <1>8
  <2> QED
    BY <1>9, <1>11, <1>12, <1>13, <2>1, <2>2 DEF Strtol
<1>15. ValueOf(s) = IF negative THEN -x ELSE x
  BY <1>1, <1>7, <1>12 DEF Numeral
<1>16. Strtol(z, 10).value
          = Max({Min({IF negative THEN -x ELSE x, TwoTo[WordBits - 1] - 1}), -TwoTo[WordBits - 1]})
  BY <1>13, <1>14, Clamps
<1> QED
  BY <1>4, <1>15, <1>16, Zenon

-----------------------------------------------------------------------------
(* Numbers printed and read back.                                          *)

PrintBases == {10, 16}

\* What a digit's character is, and what it is not.
LEMMA DigitChars ==
    ASSUME NEW b \in PrintBases, NEW e \in 0 .. b - 1, NEW upper \in BOOLEAN,
           NEW c, c = Digit(e, upper)
    PROVE  /\ c \in Nat /\ DigitValue(c, b) = e /\ (c = 48 <=> e = 0)
           /\ ~IsSpace(c) /\ c \notin {43, 45, 120, 88}
<1>1. CASE b = 10
  <2>1. e \in 0 .. 9 /\ c = 48 + e
    BY <1>1 DEF Digit
  <2> QED
    BY <1>1, <2>1 DEF DigitValue, IsSpace
<1>2. CASE b = 16
  <2>1. e \in 0 .. 15
    BY <1>2
  <2>2. CASE e < 10
    <3>1. c = 48 + e
      BY <2>2 DEF Digit
    <3> QED
      BY <1>2, <2>1, <2>2, <3>1 DEF DigitValue, IsSpace
  <2>5. ~(e < 10) => e \in 10 .. 15 /\ 55 + e \in 65 .. 70 /\ (55 + e) - 55 = e
    BY <2>1
  <2>3. CASE ~(e < 10) /\ upper
    <3>1. c = 55 + e
      BY <2>3 DEF Digit
    <3>2. c \in 65 .. 70 /\ c - 55 = e /\ e # 0
      <4>1. ~(e < 10)
        BY <2>3
      <4> QED
        BY <2>5, <3>1, <4>1
    <3>3. DigitValue(c, 16) = c - 55
      BY <3>2 DEF DigitValue
    <3> QED
      BY <1>2, <3>2, <3>3 DEF IsSpace
  <2>4. CASE ~(e < 10) /\ ~upper
    <3>1. c = 87 + e
      BY <2>4 DEF Digit
    <3> QED
      BY <1>2, <2>1, <2>4, <3>1 DEF DigitValue, IsSpace
  <2> QED
    BY <2>2, <2>3, <2>4
<1> QED
  BY <1>1, <1>2 DEF PrintBases

\* N digits d of base b that make val, as the text q.
Spelled(q, val, b, upper, N, d, v) ==
    /\ N \in Nat \ {0} /\ q \in Seq(Nat) /\ Len(q) = N
    /\ d \in [1 .. N -> 0 .. b - 1] /\ \A n \in 1 .. N : q[n] = Digit(d[n], upper)
    /\ Values(v, d, b, N) /\ v[N] = val

\* No more digits than needed.
Short(val, N, d) == IF val = 0 THEN N = 1 ELSE d[1] # 0

SpelledShort(q, val, b, upper) ==
    \E N, d, v : Spelled(q, val, b, upper, N, d, v) /\ Short(val, N, d)

LEMMA OneDigit ==
    ASSUME NEW b \in PrintBases, NEW e \in 0 .. b - 1, NEW upper \in BOOLEAN
    PROVE  SpelledShort(<<Digit(e, upper)>>, e, b, upper)
<1>1. PICK d : d = [n \in 1 .. 1 |-> e]
  OBVIOUS
<1>2. PICK v : v = [n \in 0 .. 1 |-> IF n = 0 THEN 0 ELSE e]
  OBVIOUS
<1>3. PICK c \in Nat : c = Digit(e, upper)
  BY DigitChars
<1>4. <<c>> \in Seq(Nat) /\ Len(<<c>>) = 1 /\ <<c>>[1] = c
  OBVIOUS
<1>5. b \in Nat /\ e \in Nat
  BY DEF PrintBases
<1>6. d \in [1 .. 1 -> 0 .. b - 1] /\ d[1] = e
  BY <1>1
<1>7. Values(v, d, b, 1) /\ v[1] = e
  <2>1. v[0] = 0 /\ v[1] = e /\ v \in [0 .. 1 -> Nat]
    BY <1>2, <1>5
  <2>2. ASSUME NEW n \in 1 .. 1 PROVE v[n] = b * v[n - 1] + d[n]
    <3>1. n = 1 /\ n - 1 = 0
      OBVIOUS
    <3>2. b * 0 + e = e
      BY <1>5
    <3> QED
      BY <1>6, <2>1, <3>1, <3>2
  <2> QED
    BY <2>1, <2>2 DEF Values
<1>8. Spelled(<<Digit(e, upper)>>, e, b, upper, 1, d, v)
  <2>1. \A n \in 1 .. 1 : <<c>>[n] = Digit(d[n], upper)
    BY <1>3, <1>4, <1>6
  <2> QED
    BY <1>3, <1>4, <1>6, <1>7, <2>1 DEF Spelled
<1>9. Short(e, 1, d)
  BY <1>6 DEF Short
<1> QED
  BY <1>8, <1>9 DEF SpelledShort

LEMMA OneMoreDigit ==
    ASSUME NEW b \in PrintBases, NEW e \in 0 .. b - 1, NEW upper \in BOOLEAN,
           NEW q, NEW k \in Nat \ {0}, SpelledShort(q, k, b, upper)
    PROVE  SpelledShort(Append(q, Digit(e, upper)), b * k + e, b, upper)
<1>1. PICK N, d, v : Spelled(q, k, b, upper, N, d, v) /\ Short(k, N, d)
  BY DEF SpelledShort
<1>2. /\ N \in Nat \ {0} /\ q \in Seq(Nat) /\ Len(q) = N
      /\ d \in [1 .. N -> 0 .. b - 1] /\ \A n \in 1 .. N : q[n] = Digit(d[n], upper)
  BY <1>1 DEF Spelled
<1>3. v \in [0 .. N -> Nat] /\ v[0] = 0 /\ v[N] = k /\ \A n \in 1 .. N : v[n] = b * v[n - 1] + d[n]
  BY <1>1 DEF Spelled, Values
<1>4. b \in Nat \ {0} /\ e \in Nat /\ d[1] # 0 /\ b * k + e \in Nat
  <2>1. d[1] # 0
    BY <1>1 DEF Short
  <2> QED
    BY <2>1 DEF PrintBases
<1>5. PICK c \in Nat : c = Digit(e, upper)
  BY DigitChars
<1>6. PICK r : /\ r = Append(q, c) /\ r \in Seq(Nat) /\ Len(r) = N + 1
               /\ r[N + 1] = c /\ \A n \in 1 .. N : r[n] = q[n]
  <2>1. /\ Append(q, c) \in Seq(Nat) /\ Len(Append(q, c)) = Len(q) + 1
        /\ \A n \in 1 .. Len(q) : Append(q, c)[n] = q[n]
        /\ Append(q, c)[Len(q) + 1] = c
    BY <1>2, AppendProperties
  <2> QED
    BY <1>2, <2>1
<1>7. PICK dd : dd = [n \in 1 .. N + 1 |-> IF n = N + 1 THEN e ELSE d[n]]
  OBVIOUS
<1>8. PICK w : w = [n \in 0 .. N + 1 |-> IF n = N + 1 THEN b * k + e ELSE v[n]]
  OBVIOUS
<1>9. dd \in [1 .. N + 1 -> 0 .. b - 1] /\ dd[N + 1] = e /\ \A n \in 1 .. N : dd[n] = d[n]
  <2>1. ASSUME NEW n \in 1 .. N + 1 PROVE (IF n = N + 1 THEN e ELSE d[n]) \in 0 .. b - 1
    <3>1. n # N + 1 => n \in 1 .. N
      BY <1>2
    <3> QED
      BY <1>2, <3>1
  <2> QED
    BY <1>2, <1>7, <2>1
<1>10. w \in [0 .. N + 1 -> Nat] /\ w[N + 1] = b * k + e /\ \A n \in 0 .. N : w[n] = v[n]
  <2>1. ASSUME NEW n \in 0 .. N + 1 PROVE (IF n = N + 1 THEN b * k + e ELSE v[n]) \in Nat
    <3>1. n # N + 1 => n \in 0 .. N
      BY <1>2
    <3> QED
      BY <1>3, <1>4, <3>1
  <2> QED
    BY <1>2, <1>8, <2>1
<1>11. \A n \in 1 .. N + 1 : r[n] = Digit(dd[n], upper)
  <2>1. \A n \in 1 .. N + 1 : n = N + 1 \/ n \in 1 .. N
    BY <1>2
  <2> QED
    BY <1>2, <1>5, <1>6, <1>9, <2>1
<1>12. \A n \in 1 .. N + 1 : w[n] = b * w[n - 1] + dd[n]
  <2>1. ASSUME NEW n \in 1 .. N + 1 PROVE w[n] = b * w[n - 1] + dd[n]
    <3>1. CASE n = N + 1
      <4>1. n - 1 = N /\ N \in 0 .. N
        BY <1>2, <3>1
      <4>2. w[n - 1] = k
        BY <1>3, <1>10, <4>1
      <4> QED
        BY <1>9, <1>10, <3>1, <4>2
    <3>2. CASE n # N + 1
      <4>1. n \in 1 .. N /\ n \in 0 .. N /\ n - 1 \in 0 .. N
        BY <1>2, <3>2
      <4>2. w[n] = v[n] /\ w[n - 1] = v[n - 1] /\ dd[n] = d[n]
        BY <1>9, <1>10, <4>1
      <4> QED
        BY <1>3, <4>1, <4>2
    <3> QED
      BY <3>1, <3>2
  <2> QED
    BY <2>1
<1>13. Values(w, dd, b, N + 1)
  <2>1. w[0] = 0
    BY <1>2, <1>3, <1>10
  <2> QED
    BY <1>10, <1>12, <2>1 DEF Values
<1>14. Spelled(r, b * k + e, b, upper, N + 1, dd, w)
  <2>1. N + 1 \in Nat \ {0}
    BY <1>2
  <2> QED
    BY <1>6, <1>9, <1>10, <1>11, <1>13, <2>1 DEF Spelled
<1>15. Short(b * k + e, N + 1, dd)
  <2>1. dd[1] # 0
    BY <1>2, <1>4, <1>9
  <2>2. b * k + e # 0
    <3>1. CASE b = 10
      BY <3>1
    <3>2. CASE b = 16
      BY <3>2
    <3> QED
      BY <3>1, <3>2 DEF PrintBases
  <2> QED
    BY <2>1, <2>2 DEF Short
<1>16. SpelledShort(r, b * k + e, b, upper)
  BY <1>14, <1>15 DEF SpelledShort
<1> QED
  BY <1>5, <1>6, <1>16

\* fill_numbuf() spells a word with as few digits as it takes.
LEMMA FillIs ==
    ASSUME NEW b \in PrintBases, NEW upper \in BOOLEAN, NEW val \in Words
    PROVE  SpelledShort(FillNumbuf(val, b, upper), val, b, upper)
<1>1. PICK L \in Nat : L = MaxWord /\ Words = 0 .. L
  <2>1. MaxWord \in Nat /\ Words = 0 .. MaxWord
    BY Sizes DEF Words, MaxWord
  <2> QED
    BY <2>1
<1>2. PICK X : X = Seq(Nat)
  OBVIOUS
<1> DEFINE Next(g, w) == IF w < b THEN <<Digit(w, upper)>> ELSE Append(g[w \div b], Digit(w % b, upper))
<1>3. ASSUME NEW w \in 0 .. L
      PROVE  /\ w < b => w \in 0 .. b - 1
             /\ ~(w < b) => \E k \in Nat \ {0}, e \in 0 .. b - 1 :
                               /\ k = w \div b /\ e = w % b /\ w = b * k + e
                               /\ k \in 0 .. w - 1 /\ k \in 0 .. L
  <2>0. b \in Nat \ {0} /\ w \in Nat
    BY DEF PrintBases
  <2>1. PICK k \in Nat, e \in Nat : k = w \div b /\ e = w % b /\ e < b /\ w = k * b + e
    BY <2>0, Remainders
  <2>2. w = b * k + e /\ e \in 0 .. b - 1
    BY <2>0, <2>1
  <2>3. CASE w < b
    <3>1. w \in 0 .. b - 1
      BY <2>0, <2>3
    <3> QED
      BY <2>3, <3>1
  <2>4. CASE ~(w < b)
    <3>1. k \in 0 .. w - 1 /\ k \in Nat \ {0} /\ k \in 0 .. L
      <4>1. CASE b = 10
        BY <2>1, <2>4, <4>1
      <4>2. CASE b = 16
        BY <2>1, <2>4, <4>2
      <4> QED
        BY <4>1, <4>2 DEF PrintBases
    <3>2. PICK kk \in Nat \ {0}, ee \in 0 .. b - 1 : kk = k /\ ee = e
      BY <2>2, <3>1
    <3>3. /\ kk = w \div b /\ ee = w % b /\ w = b * kk + ee
          /\ kk \in 0 .. w - 1 /\ kk \in 0 .. L
      BY <2>1, <2>2, <3>1, <3>2
    <3> QED
      BY <2>4, <3>3
  <2> QED
    BY <2>3, <2>4
<1>4. ASSUME NEW w \in 0 .. L, NEW g \in [0 .. L -> X] PROVE Next(g, w) \in X
  <2>1. CASE w < b
    <3>1. Digit(w, upper) \in Nat
      BY <1>3, <2>1, DigitChars
    <3> QED
      BY <1>2, <2>1, <3>1
  <2>2. CASE ~(w < b)
    <3>0. PICK k \in 0 .. L, e \in 0 .. b - 1 : k = w \div b /\ e = w % b
      BY <1>3, <2>2
    <3>1. Digit(w % b, upper) \in Nat
      BY <3>0, DigitChars
    <3>2. g[w \div b] \in Seq(Nat)
      BY <1>2, <3>0
    <3>3. Append(g[w \div b], Digit(w % b, upper)) \in Seq(Nat)
      BY <3>1, <3>2, AppendProperties
    <3> QED
      BY <1>2, <2>2, <3>3
  <2> QED
    BY <2>1, <2>2
<1>5. ASSUME NEW w \in 0 .. L, NEW g \in [0 .. L -> X], NEW h \in [0 .. L -> X],
             \A j \in 0 .. w - 1 : g[j] = h[j]
      PROVE  Next(g, w) = Next(h, w)
  <2>1. ~(w < b) => g[w \div b] = h[w \div b]
    <3>1. ~(w < b) => \E k \in 0 .. w - 1 : k = w \div b
      BY <1>3
    <3> QED
      BY <1>5, <3>1
  <2> QED
    BY <2>1
<1>6. PICK E : E = [w \in 0 .. L |-> [g \in [0 .. L -> X] |-> Next(g, w)]]
  OBVIOUS
<1>7. PICK f : f \in [0 .. L -> X] /\ \A w \in 0 .. L : f[w] = Next(f, w)
  <2> HIDE DEF Next
  <2>1. E \in [0 .. L -> [[0 .. L -> X] -> X]]
    BY <1>4, <1>6
  <2>2. LooksBack(E, L, X)
    <3>1. ASSUME NEW w \in 0 .. L, NEW g \in [0 .. L -> X], NEW h \in [0 .. L -> X],
                 \A j \in 0 .. w - 1 : g[j] = h[j]
          PROVE  E[w][g] = E[w][h]
      BY <1>5, <1>6, <3>1
    <3> QED
      BY <3>1 DEF LooksBack
  <2>3. << >> \in X
    BY <1>2, EmptySeq
  <2>4. PICK f : FoldsOn(f, E, L, X)
    BY <2>1, <2>2, <2>3, ForwardExists
  <2>5. f \in [0 .. L -> X] /\ \A w \in 0 .. L : f[w] = E[w][f]
    BY <2>4 DEF FoldsOn
  <2>6. \A w \in 0 .. L : f[w] = Next(f, w)
    BY <1>6, <2>5
  <2> QED
    BY <2>5, <2>6
<1>8. f = [w \in 0 .. L |-> Next(f, w)]
  <2> HIDE DEF Next
  <2> QED
    BY <1>7
<1>9. PICK g : g = (CHOOSE digits : digits = [w \in 0 .. L |-> Next(digits, w)])
               /\ FillNumbuf(val, b, upper) = g[val]
  BY <1>1 DEF FillNumbuf
<1>10. g = [w \in 0 .. L |-> Next(g, w)]
  BY <1>8, <1>9
<1> DEFINE S == {w \in 0 .. L : SpelledShort(g[w], w, b, upper)}
<1>11. ASSUME NEW w \in 0 .. L, \A j \in 0 .. w - 1 : j \in S PROVE w \in S
  <2>1. g[w] = Next(g, w)
    BY <1>10
  <2>2. CASE w < b
    <3>1. SpelledShort(<<Digit(w, upper)>>, w, b, upper)
      BY <1>3, <2>2, OneDigit
    <3> QED
      BY <2>1, <2>2, <3>1
  <2>3. CASE ~(w < b)
    <3>1. PICK k \in Nat \ {0}, e \in 0 .. b - 1 :
             k = w \div b /\ e = w % b /\ w = b * k + e /\ k \in 0 .. w - 1
      BY <1>3, <2>3
    <3>2. SpelledShort(g[k], k, b, upper)
      BY <1>11, <3>1
    <3>3. SpelledShort(Append(g[k], Digit(e, upper)), w, b, upper)
      BY <3>1, <3>2, OneMoreDigit
    <3> QED
      BY <2>1, <2>3, <3>1, <3>3
  <2> QED
    BY <2>2, <2>3
<1>12. \A w \in 0 .. L : w \in S
  <2> HIDE DEF S
  <2> QED
    BY <1>11, FromBelow
<1> QED
  BY <1>1, <1>9, <1>12

LEMMA RepeatIs ==
    ASSUME NEW c \in Nat, NEW n \in Nat
    PROVE  /\ Repeat(c, n) \in Seq(Nat) /\ Len(Repeat(c, n)) = n
           /\ \A i \in 1 .. n : Repeat(c, n)[i] = c
<1>1. PICK r : r = [i \in 1 .. n |-> c]
  OBVIOUS
<1>2. r \in Seq(Nat) /\ Len(r) = n /\ \A i \in 1 .. n : r[i] = c
  BY <1>1
<1> QED
  BY <1>1, <1>2 DEF Repeat

\* Zeros before the digits change nothing.
LEMMA Padded ==
    ASSUME NEW b \in PrintBases, NEW upper \in BOOLEAN, NEW Z \in Nat,
           NEW q, NEW val, SpelledShort(q, val, b, upper)
    PROVE  \E M, d, v : /\ Spelled(Repeat(48, Z) \o q, val, b, upper, M, d, v)
                        /\ Z = 0 => Short(val, M, d)
<1>1. PICK N, d, v : Spelled(q, val, b, upper, N, d, v) /\ Short(val, N, d)
  BY DEF SpelledShort
<1>2. /\ N \in Nat \ {0} /\ q \in Seq(Nat) /\ Len(q) = N
      /\ d \in [1 .. N -> 0 .. b - 1] /\ \A n \in 1 .. N : q[n] = Digit(d[n], upper)
  BY <1>1 DEF Spelled
<1>3. v \in [0 .. N -> Nat] /\ v[0] = 0 /\ v[N] = val /\ \A n \in 1 .. N : v[n] = b * v[n - 1] + d[n]
  BY <1>1 DEF Spelled, Values
<1>4. PICK zs \in Seq(Nat) : zs = Repeat(48, Z) /\ Len(zs) = Z /\ \A i \in 1 .. Z : zs[i] = 48
  <2>1. 48 \in Nat
    OBVIOUS
  <2> QED
    BY <2>1, RepeatIs
<1>5. PICK M \in Nat \ {0} : M = Z + N
  BY <1>2
<1>6. PICK r \in Seq(Nat) : /\ r = zs \o q /\ Len(r) = M
                            /\ \A n \in 1 .. M : r[n] = IF n <= Z THEN 48 ELSE q[n - Z]
  <2>1. /\ zs \o q \in Seq(Nat) /\ Len(zs \o q) = Len(zs) + Len(q)
        /\ \A n \in 1 .. Len(zs) + Len(q) : (zs \o q)[n] = IF n <= Len(zs) THEN zs[n] ELSE q[n - Len(zs)]
    BY <1>2, ConcatProperties, ZenonT(30)
  <2>2. ASSUME NEW n \in 1 .. M PROVE (zs \o q)[n] = IF n <= Z THEN 48 ELSE q[n - Z]
    <3>1. n \in 1 .. Len(zs) + Len(q) /\ (n <= Z => n \in 1 .. Z)
      BY <1>2, <1>4, <1>5
    <3>2. (zs \o q)[n] = IF n <= Z THEN zs[n] ELSE q[n - Z]
      BY <1>4, <2>1, <3>1
    <3> QED
      BY <1>4, <3>1, <3>2
  <2>3. Len(zs \o q) = M
    BY <1>2, <1>4, <1>5, <2>1
  <2> QED
    BY <2>1, <2>2, <2>3
<1>7. b \in Nat \ {0} /\ 0 \in 0 .. b - 1
  BY DEF PrintBases
<1>8. ASSUME NEW n \in 1 .. M
      PROVE  /\ ~(n <= Z) => n - Z \in 1 .. N /\ n - Z \in 0 .. N /\ (n - Z) - 1 \in 0 .. N
             /\ n \in 0 .. M /\ n - 1 \in 0 .. M
  BY <1>2, <1>5
<1>9. PICK dd : dd = [n \in 1 .. M |-> IF n <= Z THEN 0 ELSE d[n - Z]]
  OBVIOUS
<1>10. PICK w : w = [n \in 0 .. M |-> IF n <= Z THEN 0 ELSE v[n - Z]]
  OBVIOUS
<1>11. dd \in [1 .. M -> 0 .. b - 1] /\ \A n \in 1 .. M : dd[n] = IF n <= Z THEN 0 ELSE d[n - Z]
  <2>1. \A n \in 1 .. M : (IF n <= Z THEN 0 ELSE d[n - Z]) \in 0 .. b - 1
    BY <1>2, <1>7, <1>8
  <2> QED
    BY <1>9, <2>1
<1>12. w \in [0 .. M -> Nat] /\ \A n \in 0 .. M : w[n] = IF n <= Z THEN 0 ELSE v[n - Z]
  <2>1. \A n \in 0 .. M : ~(n <= Z) => n - Z \in 0 .. N
    BY <1>2, <1>5
  <2>2. \A n \in 0 .. M : (IF n <= Z THEN 0 ELSE v[n - Z]) \in Nat
    BY <1>3, <2>1
  <2> QED
    BY <1>10, <2>2
<1>13. \A n \in 1 .. M : r[n] = Digit(dd[n], upper)
  <2>1. Digit(0, upper) = 48
    BY DEF Digit
  <2>2. ASSUME NEW n \in 1 .. M PROVE r[n] = Digit(dd[n], upper)
    <3>1. CASE n <= Z
      BY <1>6, <1>11, <2>1, <3>1
    <3>2. CASE ~(n <= Z)
      <4>1. PICK m \in 1 .. N : m = n - Z
        BY <1>8, <3>2
      <4>2. r[n] = q[m] /\ dd[n] = d[m]
        BY <1>6, <1>11, <3>2, <4>1
      <4> QED
        BY <1>2, <4>2
    <3> QED
      BY <3>1, <3>2
  <2> QED
    BY <2>2
<1>14. ASSUME NEW n \in 1 .. M PROVE w[n] = b * w[n - 1] + dd[n]
  <2>1. CASE n <= Z
    <3>1. w[n] = 0 /\ w[n - 1] = 0 /\ dd[n] = 0
      BY <1>8, <1>11, <1>12, <2>1
    <3> QED
      BY <1>7, <3>1
  <2>2. CASE ~(n <= Z)
    <3>1. PICK m \in 1 .. N : m = n - Z /\ m - 1 = (n - 1) - Z
      <4>1. n - Z \in 1 .. N
        BY <1>8, <2>2
      <4>2. (n - Z) - 1 = (n - 1) - Z
        OBVIOUS
      <4> QED
        BY <4>1, <4>2
    <3>2. w[n] = v[m] /\ dd[n] = d[m]
      BY <1>8, <1>11, <1>12, <2>2, <3>1
    <3>3. w[n - 1] = v[m - 1]
      <4>1. CASE n - 1 <= Z
        <5>1. m - 1 = 0
          BY <2>2, <3>1, <4>1
        <5> QED
          BY <1>3, <1>8, <1>12, <4>1, <5>1
      <4>2. CASE ~(n - 1 <= Z)
        BY <1>8, <1>12, <3>1, <4>2
      <4> QED
        BY <4>1, <4>2
    <3> QED
      BY <1>3, <3>2, <3>3
  <2> QED
    BY <2>1, <2>2
<1>15. w[0] = 0 /\ w[M] = val
  <2>1. ~(M <= Z) /\ M - Z = N /\ M \in 0 .. M /\ 0 \in 0 .. M /\ 0 <= Z
    BY <1>2, <1>5
  <2> QED
    BY <1>3, <1>12, <2>1
<1>16. Spelled(r, val, b, upper, M, dd, w)
  <2>1. Values(w, dd, b, M)
    BY <1>12, <1>14, <1>15 DEF Values
  <2> QED
    BY <1>6, <1>11, <1>13, <1>15, <2>1 DEF Spelled
<1>17. Z = 0 => Short(val, M, dd)
  <2>1. ASSUME Z = 0 PROVE M = N /\ dd[1] = d[1]
    <3>1. M = N /\ 1 \in 1 .. M /\ ~(1 <= Z) /\ 1 - Z = 1
      BY <1>2, <1>5, <2>1
    <3> QED
      BY <1>11, <3>1
  <2> QED
    BY <1>1, <2>1 DEF Short
<1> QED
  BY <1>4, <1>6, <1>16, <1>17

\* A prefix: a space, a sign, or the mark of base 16.
Prefixed(p, f, x, s, sg, hx) ==
    /\ s \in {0, 1} /\ sg \in {0, 1} /\ hx \in {0, 2}
    /\ p \in Seq(Nat) /\ Len(p) = s + sg + hx
    /\ s = 1 => p[1] = 32
    /\ sg = 1 => p[s + 1] \in {43, 45}
    /\ hx = 2 => s = 0 /\ sg = 0 /\ p[1] = 48 /\ p[2] \in {120, 88}
    /\ sg = 1 /\ p[s + 1] = 45 <=> f.conv = "d" /\ x < 0
    /\ hx = 2 <=> Base(f) = 16 /\ "alt" \in f.flags /\ x # 0
    /\ sg = 1 => f.conv = "d"

LEMMA PrefixIs ==
    ASSUME NEW f \in Directives, NEW x \in Int
    PROVE  \E s, sg, hx : Prefixed(Prefix(f, x), f, x, s, sg, hx)
<1>1. \A c \in Nat : <<c>> \in Seq(Nat) /\ Len(<<c>>) = 1 /\ <<c>>[1] = c
  OBVIOUS
<1>2. << >> \in Seq(Nat) /\ Len(<< >>) = 0
  OBVIOUS
<1>3. CASE f.conv = "d"
  <2>1. Base(f) = 10
    BY <1>3 DEF Base
  <2>2. CASE x < 0
    <3>1. Prefix(f, x) = <<45>>
      BY <1>3, <2>2 DEF Prefix
    <3>2. Prefixed(<<45>>, f, x, 0, 1, 0)
      BY <1>1, <1>3, <2>1, <2>2 DEF Prefixed
    <3> QED
      BY <3>1, <3>2
  <2>3. CASE ~(x < 0) /\ "plus" \in f.flags
    <3>1. Prefix(f, x) = <<43>>
      BY <1>3, <2>3 DEF Prefix
    <3>2. Prefixed(<<43>>, f, x, 0, 1, 0)
      BY <1>1, <1>3, <2>1, <2>3 DEF Prefixed
    <3> QED
      BY <3>1, <3>2
  <2>4. CASE ~(x < 0) /\ "plus" \notin f.flags /\ "space" \in f.flags
    <3>1. Prefix(f, x) = <<32>>
      BY <1>3, <2>4 DEF Prefix
    <3>2. Prefixed(<<32>>, f, x, 1, 0, 0)
      BY <1>1, <1>3, <2>1, <2>4 DEF Prefixed
    <3> QED
      BY <3>1, <3>2
  <2>5. CASE ~(x < 0) /\ "plus" \notin f.flags /\ "space" \notin f.flags
    <3>1. Prefix(f, x) = << >>
      BY <1>3, <2>5 DEF Prefix
    <3>2. Prefixed(<< >>, f, x, 0, 0, 0)
      BY <1>2, <1>3, <2>1, <2>5 DEF Prefixed
    <3> QED
      BY <3>1, <3>2
  <2> QED
    BY <2>2, <2>3, <2>4, <2>5
<1>4. CASE f.conv # "d"
  <2>1. CASE "alt" \in f.flags /\ Base(f) = 16 /\ x # 0
    <3>1. PICK c \in {120, 88} : Prefix(f, x) = <<48, c>>
      BY <1>4, <2>1 DEF Prefix
    <3>2. <<48, c>> \in Seq(Nat) /\ Len(<<48, c>>) = 2 /\ <<48, c>>[1] = 48 /\ <<48, c>>[2] = c
      OBVIOUS
    <3>3. Prefixed(<<48, c>>, f, x, 0, 0, 2)
      BY <1>4, <2>1, <3>1, <3>2 DEF Prefixed
    <3> QED
      BY <3>1, <3>3
  <2>2. CASE ~("alt" \in f.flags /\ Base(f) = 16 /\ x # 0)
    <3>1. Prefix(f, x) = << >>
      BY <1>4, <2>2 DEF Prefix
    <3>2. Prefixed(<< >>, f, x, 0, 0, 0)
      BY <1>2, <1>4, <2>2 DEF Prefixed
    <3> QED
      BY <3>1, <3>2
  <2> QED
    BY <2>1, <2>2
<1> QED
  BY <1>3, <1>4

\* A text y with spaces before it or after it, and the NUL: y begins after place a.
Framed(z, y, a) ==
    /\ z \in Seq(Nat) /\ a \in Nat /\ Len(z) > a + Len(y)
    /\ \A i \in 1 .. a : z[i] = 32
    /\ \A i \in 1 .. Len(y) : z[a + i] = y[i]
    /\ z[a + Len(y) + 1] \in {0, 32}

LEMMA FramedIs ==
    ASSUME NEW y \in Seq(Nat), NEW W \in Nat,
           NEW t \in {y \o Repeat(32, W), Repeat(32, W) \o y}
    PROVE  \E a : Framed(Append(t, 0), y, a)
<1>1. PICK r \in Seq(Nat) : r = Repeat(32, W) /\ Len(r) = W /\ \A i \in 1 .. W : r[i] = 32
  <2>1. 32 \in Nat
    OBVIOUS
  <2> QED
    BY <2>1, RepeatIs
<1>2. PICK K \in Nat : K = Len(y)
  OBVIOUS
<1>3. t \in Seq(Nat) /\ Len(t) = K + W
  <2>1. /\ y \o r \in Seq(Nat) /\ Len(y \o r) = Len(y) + Len(r)
        /\ r \o y \in Seq(Nat) /\ Len(r \o y) = Len(r) + Len(y)
    BY ConcatProperties
  <2>2. Len(r) = W /\ Len(y) = K
    BY <1>1, <1>2
  <2>3. Len(y \o r) = K + W /\ Len(r \o y) = W + K /\ W + K = K + W
    BY <2>1, <2>2
  <2>4. t = y \o r \/ t = r \o y
    BY <1>1
  <2> QED
    BY <2>1, <2>3, <2>4
<1>4. PICK z \in Seq(Nat) : /\ z = Append(t, 0) /\ Len(z) = K + W + 1
                            /\ \A i \in 1 .. K + W : z[i] = t[i]
                            /\ z[K + W + 1] = 0
  <2>1. 0 \in Nat
    OBVIOUS
  <2>2. /\ Append(t, 0) \in Seq(Nat) /\ Len(Append(t, 0)) = Len(t) + 1
        /\ \A i \in 1 .. Len(t) : Append(t, 0)[i] = t[i]
        /\ Append(t, 0)[Len(t) + 1] = 0
    BY <1>3, <2>1, AppendProperties
  <2> QED
    BY <1>3, <2>2
<1>5. CASE t = y \o r
  <2>1. \A i \in 1 .. K + W : t[i] = IF i <= K THEN y[i] ELSE r[i - K]
    BY <1>1, <1>2, <1>5, ConcatProperties
  <2>2. ASSUME NEW i \in 1 .. K PROVE z[0 + i] = y[i]
    <3>1. i \in 1 .. K + W /\ 0 + i = i
      OBVIOUS
    <3> QED
      BY <1>4, <2>1, <3>1
  <2>3. z[0 + K + 1] \in {0, 32}
    <3>1. CASE W = 0
      BY <1>4, <3>1
    <3>2. CASE W # 0
      <4>1. K + 1 \in 1 .. K + W /\ ~(K + 1 <= K) /\ (K + 1) - K = 1 /\ 1 \in 1 .. W /\ 0 + K + 1 = K + 1
        BY <3>2
      <4>2. t[K + 1] = r[1]
        BY <2>1, <4>1
      <4>3. z[K + 1] = 32
        BY <1>1, <1>4, <4>1, <4>2
      <4> QED
        BY <4>1, <4>3
    <3> QED
      BY <3>1, <3>2
  <2>4. Framed(z, y, 0)
    <3>1. Len(z) > 0 + Len(y) /\ 1 .. 0 = {}
      BY <1>2, <1>4
    <3> QED
      BY <1>2, <1>4, <2>2, <2>3, <3>1 DEF Framed
  <2> QED
    BY <1>4, <2>4
<1>6. CASE t = r \o y
  <2>1. \A i \in 1 .. K + W : t[i] = IF i <= W THEN r[i] ELSE y[i - W]
    <3>1. \A i \in 1 .. Len(r) + Len(y) : (r \o y)[i] = IF i <= Len(r) THEN r[i] ELSE y[i - Len(r)]
      BY ConcatProperties
    <3>2. Len(r) + Len(y) = K + W
      <4>1. Len(r) = W /\ Len(y) = K /\ W + K = K + W
        BY <1>1, <1>2
      <4> QED
        BY <4>1
    <3> QED
      BY <1>1, <1>6, <3>1, <3>2
  <2>2. ASSUME NEW i \in 1 .. K PROVE z[W + i] = y[i]
    <3>1. W + i \in 1 .. K + W /\ ~(W + i <= W) /\ (W + i) - W = i
      OBVIOUS
    <3> QED
      BY <1>4, <2>1, <3>1
  <2>3. ASSUME NEW i \in 1 .. W PROVE z[i] = 32
    <3>1. i \in 1 .. K + W /\ i <= W
      OBVIOUS
    <3> QED
      BY <1>1, <1>4, <2>1, <3>1
  <2>4. Framed(z, y, W)
    <3>1. Len(z) > W + Len(y) /\ z[W + Len(y) + 1] = 0
      BY <1>2, <1>4
    <3> QED
      BY <1>2, <1>4, <2>2, <2>3, <3>1 DEF Framed
  <2> QED
    BY <1>4, <2>4
<1> QED
  BY <1>1, <1>5, <1>6

\* In the text z, after sp spaces: sg characters of a sign, hx of the mark of
\* base 16, and M digits; then a space or the NUL.
IsDigit(c, e) == \E upper \in BOOLEAN : c = Digit(e, upper)

Laid(z, sp, sg, hx, M, d) ==
    /\ z \in Seq(Nat) /\ sp \in Nat /\ sg \in {0, 1} /\ hx \in {0, 2} /\ M \in Nat \ {0}
    /\ sp + sg + hx + M < Len(z)
    /\ \A i \in 1 .. sp : z[i] = 32
    /\ sg = 1 => z[sp + 1] \in {43, 45}
    /\ hx = 2 => z[sp + sg + 1] = 48 /\ z[sp + sg + 2] \in {120, 88}
    /\ \A n \in 1 .. M : IsDigit(z[sp + sg + hx + n], d[n])
    /\ z[sp + sg + hx + M + 1] \in {0, 32}

\* The number a directive prints without its sign.
Size(f, x) == IF f.conv = "d" /\ x < 0 THEN -x ELSE x

\* z is the number x under the directive f.
Shows(z, f, x, sp, sg, hx, M, d, v) ==
    /\ Laid(z, sp, sg, hx, M, d)
    /\ d \in [1 .. M -> 0 .. Base(f) - 1] /\ Values(v, d, Base(f), M) /\ v[M] = Size(f, x)
    /\ sg = 1 /\ z[sp + 1] = 45 <=> f.conv = "d" /\ x < 0
    /\ sg = 1 => f.conv = "d"
    /\ hx = 2 <=> Base(f) = 16 /\ "alt" \in f.flags /\ x # 0
    /\ f.precision < 0 /\ "zero" \notin f.flags => Short(Size(f, x), M, d)

\* What the number f is given is: a long, or an unsigned long.
Given(f) == IF f.conv = "d" THEN Longs ELSE Words

LEMMA SizeIs ==
    ASSUME NEW f \in Directives, NEW x \in Given(f)
    PROVE  x \in Int /\ Size(f, x) \in Words /\ Wrap(Size(f, x)) = Size(f, x)
<1>1. PICK H \in Nat \ {0} :
         TwoTo[WordBits] = 2 * H /\ TwoTo[WordBits - 1] = H /\ MaxWord = 2 * H - 1
  BY Sizes
<1>2. Words = 0 .. 2 * H - 1 /\ Longs = -H .. H - 1
  BY <1>1 DEF Words, Longs
<1>3. x \in Int /\ Size(f, x) \in 0 .. 2 * H - 1
  <2>1. CASE f.conv = "d"
    <3>1. x \in -H .. H - 1
      BY <1>2, <2>1 DEF Given
    <3> QED
      BY <2>1, <3>1 DEF Size
  <2>2. CASE f.conv # "d"
    <3>1. x \in 0 .. 2 * H - 1
      BY <1>2, <2>2 DEF Given
    <3> QED
      BY <2>2, <3>1 DEF Size
  <2> QED
    BY <2>1, <2>2
<1>4. PICK y \in Nat : y = Size(f, x) /\ y <= MaxWord
  BY <1>1, <1>3
<1>5. Wrap(y) = y
  BY <1>4, WordsFit
<1> QED
  BY <1>2, <1>3, <1>4, <1>5

LEMMA AtLeastNone ==
    ASSUME NEW e \in Int
    PROVE  Max({e, 0}) \in Nat
<1>1. Max({e, 0}) = IF e >= 0 THEN e ELSE 0
  BY MaxOfTwo
<1> QED
  BY <1>1

LEMMA PrintedIs ==
    ASSUME NEW f \in Directives, NEW x \in Given(f)
    PROVE  /\ Printed(f, x) \in Seq(Nat)
           /\ \E sp, sg, hx, M, d, v : Shows(Append(Printed(f, x), 0), f, x, sp, sg, hx, M, d, v)
<1>1. x \in Int /\ Size(f, x) \in Words /\ Wrap(Size(f, x)) = Size(f, x)
  BY SizeIs
<1>2. PICK b \in PrintBases, upper \in BOOLEAN : b = Base(f) /\ upper = (f.conv = "X")
  BY DEF PrintBases, Base
<1>3. PICK q : q = Digits(f, x) /\ SpelledShort(q, Size(f, x), b, upper)
  <2>1. Digits(f, x) = FillNumbuf(Size(f, x), b, upper)
    BY <1>1, <1>2 DEF Digits, Size
  <2> QED
    BY <1>1, <2>1, FillIs
<1>4. q \in Seq(Nat) /\ Len(q) \in Nat
  BY <1>3 DEF SpelledShort, Spelled
<1>5. PICK p, s, sg, hx : p = Prefix(f, x) /\ Prefixed(p, f, x, s, sg, hx)
  BY <1>1, PrefixIs
<1>6. /\ s \in {0, 1} /\ sg \in {0, 1} /\ hx \in {0, 2}
      /\ p \in Seq(Nat) /\ Len(p) = s + sg + hx
  BY <1>5 DEF Prefixed
<1>7. f.width \in Int /\ f.precision \in Int
  BY DEF Directives
<1>8. PICK Z \in Nat : /\ Z = Zeros(f, p, q)
                       /\ f.precision < 0 /\ "zero" \notin f.flags => Z = 0
  <2>1. Zeros(f, p, q) \in Nat
    <3>1. f.precision - Len(q) \in Int /\ (f.width - Len(q)) - Len(p) \in Int
      BY <1>4, <1>6, <1>7
    <3>2. Max({f.precision - Len(q), 0}) \in Nat /\ Max({(f.width - Len(q)) - Len(p), 0}) \in Nat
      BY <3>1, AtLeastNone
    <3> QED
      BY <3>2 DEF Zeros
  <2>2. f.precision < 0 /\ "zero" \notin f.flags => Zeros(f, p, q) = 0
    BY <1>7 DEF Zeros
  <2> QED
    BY <2>1, <2>2
<1>9. PICK M, d, v : /\ Spelled(Repeat(48, Z) \o q, Size(f, x), b, upper, M, d, v)
                     /\ Z = 0 => Short(Size(f, x), M, d)
  BY <1>3, Padded
<1>10. PICK r : r = Repeat(48, Z) \o q /\ Spelled(r, Size(f, x), b, upper, M, d, v)
  BY <1>9
<1>11. /\ M \in Nat \ {0} /\ r \in Seq(Nat) /\ Len(r) = M
       /\ d \in [1 .. M -> 0 .. b - 1] /\ \A n \in 1 .. M : r[n] = Digit(d[n], upper)
       /\ Values(v, d, b, M) /\ v[M] = Size(f, x)
  BY <1>10 DEF Spelled
<1>12. PICK y \in Seq(Nat) : y = p \o Repeat(48, Z) \o q /\ y = p \o r
  <2>0. 48 \in Nat
    OBVIOUS
  <2>1. PICK zs \in Seq(Nat) : zs = Repeat(48, Z)
    BY <2>0, RepeatIs
  <2>2. (p \o zs) \o q = p \o (zs \o q)
    <3>1. p \in Seq(Nat) /\ q \in Seq(Nat)
      BY <1>4, <1>6
    <3> QED
      BY SMTT(30), <3>1, Regrouped
  <2>3. p \o r \in Seq(Nat)
    BY <1>6, <1>11, ConcatProperties
  <2> QED
    BY <1>10, <2>1, <2>2, <2>3
<1>13. /\ Len(y) = Len(p) + M
       /\ \A i \in 1 .. Len(p) + M : y[i] = IF i <= Len(p) THEN p[i] ELSE r[i - Len(p)]
  <2>1. /\ Len(p \o r) = Len(p) + Len(r)
        /\ \A i \in 1 .. Len(p) + Len(r) : (p \o r)[i] = IF i <= Len(p) THEN p[i] ELSE r[i - Len(p)]
    BY <1>6, <1>11, ConcatProperties, ZenonT(30)
  <2> QED
    BY <1>11, <1>12, <2>1
<1>14. PICK W \in Nat : W = Max({f.width - Len(y), 0})
  <2>1. Len(y) \in Nat
    OBVIOUS
  <2>2. f.width - Len(y) \in Int
    BY <1>7, <2>1
  <2> QED
    BY <2>2, AtLeastNone
<1>15. Printed(f, x) = IF "left" \in f.flags THEN y \o Repeat(32, W) ELSE Repeat(32, W) \o y
  BY <1>3, <1>5, <1>8, <1>12, <1>14 DEF Printed
<1>16. PICK z, a : z = Append(Printed(f, x), 0) /\ Framed(z, y, a)
  BY <1>12, <1>14, <1>15, FramedIs
<1>17. /\ z \in Seq(Nat) /\ a \in Nat /\ Len(z) > a + Len(y)
       /\ \A i \in 1 .. a : z[i] = 32
       /\ \A i \in 1 .. Len(y) : z[a + i] = y[i]
       /\ z[a + Len(y) + 1] \in {0, 32}
  BY <1>16 DEF Framed
<1>18. PICK k \in Nat : k = Len(p) /\ k = s + sg + hx /\ k + M = Len(y)
  BY <1>6, <1>11, <1>13
<1>19. (\A i \in 1 .. k : z[a + i] = p[i]) /\ (\A n \in 1 .. M : z[a + k + n] = r[n])
  <2>1. ASSUME NEW i \in 1 .. k PROVE z[a + i] = p[i]
    <3>1. i \in 1 .. Len(y) /\ i \in 1 .. Len(p) + M /\ i <= Len(p)
      BY <1>11, <1>18
    <3> QED
      BY <1>13, <1>17, <3>1
  <2>2. ASSUME NEW n \in 1 .. M PROVE z[a + k + n] = r[n]
    <3>1. PICK i \in 1 .. Len(y) : i = k + n /\ i \in 1 .. Len(p) + M /\ ~(i <= Len(p)) /\ i - Len(p) = n
      <4>1. PICK i \in 1 .. k + M : i = k + n /\ ~(i <= k) /\ i - k = n
        BY <1>11
      <4> QED
        BY <1>18, <4>1
    <3>2. a + k + n = a + i
      BY <1>17, <3>1
    <3>3. z[a + i] = y[i] /\ y[i] = r[n]
      BY <1>13, <1>17, <3>1
    <3> QED
      BY <3>2, <3>3
  <2> QED
    BY <2>1, <2>2
<1>20. PICK sp \in Nat : sp = a + s /\ a + k = sp + sg + hx
  BY <1>6, <1>17, <1>18
<1>21. Laid(z, sp, sg, hx, M, d) /\ (sg = 1 => z[sp + 1] = p[s + 1])
  <2>1. sp + sg + hx + M < Len(z) /\ sp + sg + hx + M + 1 = a + Len(y) + 1
    <3>1. a + Len(y) = (a + k) + M
      <4>1. a + (k + M) = (a + k) + M
        BY <1>11, <1>17
      <4> QED
        BY <1>18, <4>1
    <3>2. sp + sg + hx + M = a + Len(y)
      BY <1>20, <3>1
    <3> QED
      BY <1>17, <3>2
  <2>2. \A i \in 1 .. sp : z[i] = 32
    <3>1. ASSUME s = 1 PROVE z[a + 1] = 32
      <4>1. 1 \in 1 .. k /\ p[1] = 32
        BY <1>5, <1>6, <1>18, <3>1 DEF Prefixed
      <4> QED
        BY <1>19, <4>1
    <3>2. \A i \in 1 .. sp : i \in 1 .. a \/ (s = 1 /\ i = a + 1)
      BY <1>6, <1>17, <1>20
    <3> QED
      BY <1>17, <3>1, <3>2
  <2>3. sg = 1 => z[sp + 1] = p[s + 1] /\ p[s + 1] \in {43, 45}
    <3>1. ASSUME sg = 1 PROVE z[sp + 1] = p[s + 1] /\ p[s + 1] \in {43, 45}
      <4>1. s + 1 \in 1 .. k /\ sp + 1 = a + (s + 1)
        BY <1>6, <1>17, <1>18, <1>20, <3>1
      <4> QED
        BY <1>5, <1>19, <3>1, <4>1 DEF Prefixed
    <3> QED
      BY <3>1
  <2>4. hx = 2 => z[sp + sg + 1] = 48 /\ z[sp + sg + 2] \in {120, 88}
    <3>1. ASSUME hx = 2 PROVE z[sp + sg + 1] = 48 /\ z[sp + sg + 2] \in {120, 88}
      <4>1. s = 0 /\ sg = 0 /\ p[1] = 48 /\ p[2] \in {120, 88}
        BY <1>5, <3>1 DEF Prefixed
      <4>2. 1 \in 1 .. k /\ 2 \in 1 .. k /\ sp + sg + 1 = a + 1 /\ sp + sg + 2 = a + 2
        BY <1>17, <1>18, <1>20, <3>1, <4>1
      <4> QED
        BY <1>19, <4>1, <4>2
    <3> QED
      BY <3>1
  <2>5. \A n \in 1 .. M : IsDigit(z[sp + sg + hx + n], d[n])
    BY <1>11, <1>19, <1>20 DEF IsDigit
  <2>6. z[sp + sg + hx + M + 1] \in {0, 32}
    BY <1>17, <2>1
  <2> QED
    BY <1>6, <1>11, <1>17, <2>1, <2>2, <2>3, <2>4, <2>5, <2>6 DEF Laid
<1>22. Shows(z, f, x, sp, sg, hx, M, d, v)
  <2>1. Laid(z, sp, sg, hx, M, d)
    BY <1>2, <1>21
  <2>2. sg = 1 /\ z[sp + 1] = 45 <=> f.conv = "d" /\ x < 0
    BY <1>5, <1>21 DEF Prefixed
  <2>3. (sg = 1 => f.conv = "d") /\ (hx = 2 <=> Base(f) = 16 /\ "alt" \in f.flags /\ x # 0)
    BY <1>5 DEF Prefixed
  <2>4. f.precision < 0 /\ "zero" \notin f.flags => Short(Size(f, x), M, d)
    BY <1>8, <1>9
  <2> QED
    BY <1>2, <1>11, <2>1, <2>2, <2>3, <2>4 DEF Shows
<1>23. Printed(f, x) \in Seq(Nat)
  <2>1. 32 \in Nat
    OBVIOUS
  <2>2. Repeat(32, W) \in Seq(Nat)
    BY <2>1, RepeatIs
  <2>3. y \o Repeat(32, W) \in Seq(Nat) /\ Repeat(32, W) \o y \in Seq(Nat)
    BY <2>2, ConcatProperties
  <2> QED
    BY <1>15, <2>3
<1> QED
  BY <1>16, <1>22, <1>23

\* Where the reading of a laid text begins: before the sign, or past a minus.
Begins(z, i, sp, sg) ==
    \/ i \in 1 .. sp + 1 /\ (sg = 1 => z[sp + 1] = 43)
    \/ i = sp + 2 /\ sg = 1

\* The base is known: it is given, or the text tells it.
Told(given, b, hx, M, d) ==
    /\ given \in {0, b} /\ (hx = 2 => b = 16)
    /\ given = 0 => hx = 2 \/ (b = 10 /\ d[1] # 0) \/ (M = 1 /\ d[1] = 0)

\* What its readers see of a digit.
ReadsAs(c, e, b) ==
    /\ c \in Nat /\ DigitValue(c, b) = e /\ (c = 48 <=> e = 0)
    /\ ~IsSpace(c) /\ c \notin {43, 45, 120, 88}

LEMMA DigitReads ==
    \A b \in PrintBases : \A e \in 0 .. b - 1 : \A c : IsDigit(c, e) => ReadsAs(c, e, b)
<1> SUFFICES ASSUME NEW b \in PrintBases, NEW e \in 0 .. b - 1, NEW c, IsDigit(c, e)
             PROVE  ReadsAs(c, e, b)
  OBVIOUS
<1>1. PICK upper \in BOOLEAN : c = Digit(e, upper)
  BY DEF IsDigit
<1>2. /\ c \in Nat /\ DigitValue(c, b) = e /\ (c = 48 <=> e = 0)
      /\ ~IsSpace(c) /\ c \notin {43, 45, 120, 88}
  BY <1>1, DigitChars
<1> QED
  BY <1>2 DEF ReadsAs

\* strtoul() reads what is laid out.
LEMMA LaidReads ==
    ASSUME NEW z, NEW sp, NEW sg, NEW hx, NEW M, NEW d,
           Laid(z, sp, sg, hx, M, d),
           NEW b \in PrintBases, d \in [1 .. M -> 0 .. b - 1], NEW v, Values(v, d, b, M),
           NEW given, Told(given, b, hx, M, d), NEW i, Begins(z, i, sp, sg)
    PROVE  /\ Strtoul(z, i, given).value = Least(v[M], MaxWord)
           /\ Strtoul(z, i, given).end = sp + sg + hx + M + 1
<1>1. /\ z \in Seq(Nat) /\ sp \in Nat /\ sg \in {0, 1} /\ hx \in {0, 2} /\ M \in Nat \ {0}
      /\ sp + sg + hx + M < Len(z)
  BY DEF Laid
<1>2. PICK L \in Nat : L = Len(z)
  BY <1>1
<1>3. PICK first \in 1 .. L : first = sp + sg + 1 /\ first + hx + M <= L
  BY <1>1, <1>2
<1>4. PICK from \in 1 .. L : from = first + hx /\ from + M <= L /\ from + M = sp + sg + hx + M + 1
  BY <1>1, <1>3
<1>5. ASSUME NEW n \in 1 .. M
      PROVE  /\ z[from + n - 1] \in Nat /\ DigitValue(z[from + n - 1], b) = d[n]
             /\ z[from + n - 1] = 48 <=> d[n] = 0
             /\ ~IsSpace(z[from + n - 1]) /\ z[from + n - 1] \notin {43, 45, 120, 88}
  <2>1. IsDigit(z[sp + sg + hx + n], d[n])
    BY DEF Laid
  <2>2. from + n - 1 = sp + sg + hx + n
    BY <1>1, <1>3, <1>4
  <2>3. PICK c : c = z[from + n - 1] /\ IsDigit(c, d[n])
    BY <2>1, <2>2
  <2>4. PICK e \in 0 .. b - 1 : e = d[n]
    OBVIOUS
  <2>5. ReadsAs(c, e, b)
    BY <2>3, <2>4, DigitReads
  <2> QED
    BY <2>3, <2>4, <2>5 DEF ReadsAs
<1>6. z[from + M] \in {0, 32}
  BY <1>4 DEF Laid
<1>7. HexPrefix(z, first) <=> hx = 2
  <2>1. CASE hx = 2
    <3>1. z[sp + sg + 1] = 48 /\ z[sp + sg + 2] \in {120, 88}
      BY <2>1 DEF Laid
    <3>2. sp + sg + 1 = first /\ sp + sg + 2 = first + 1 /\ first < L
      BY <1>1, <1>3, <2>1
    <3> QED
      BY <1>2, <2>1, <3>1, <3>2 DEF HexPrefix
  <2>2. CASE hx = 0
    <3>1. first = from
      BY <1>3, <1>4, <2>2
    <3>2. z[first + 1] \notin {120, 88}
      <4>1. CASE M = 1
        BY <1>1, <1>6, <3>1, <4>1
      <4>2. CASE M # 1
        <5>1. 2 \in 1 .. M /\ from + 2 - 1 = first + 1
          BY <1>1, <1>4, <3>1, <4>2
        <5>2. z[from + 2 - 1] \notin {43, 45, 120, 88}
          BY <1>5, <5>1
        <5> QED
          BY <5>1, <5>2
      <4> QED
        BY <4>1, <4>2
    <3> QED
      BY <2>2, <3>2 DEF HexPrefix
  <2> QED
    BY <1>1, <2>1, <2>2
<1>8. /\ ~IsSpace(z[first]) /\ z[first] \notin {43, 45}
      /\ hx = 0 => (z[first] = 48 <=> d[1] = 0)
  <2>1. CASE hx = 2
    <3>1. z[first] = 48
      BY <1>7, <2>1 DEF HexPrefix
    <3> QED
      BY <2>1, <3>1 DEF IsSpace
  <2>2. CASE hx = 0
    <3>1. 1 \in 1 .. M /\ from + 1 - 1 = first
      BY <1>1, <1>3, <1>4, <2>2
    <3> QED
      BY <1>5, <2>2, <3>1
  <2> QED
    BY <1>1, <2>1, <2>2
<1>9. PICK j \in 1 .. L : /\ i \in Nat /\ j \in i .. L
                          /\ \A m \in i .. j - 1 : IsSpace(z[m])
                          /\ ~IsSpace(z[j]) /\ z[j] # 45
                          /\ first = IF z[j] \in {43, 45} THEN j + 1 ELSE j
  <2>1. CASE i \in 1 .. sp + 1 /\ (sg = 1 => z[sp + 1] = 43)
    <3>1. PICK k \in 1 .. L : k = sp + 1 /\ i \in Nat /\ k \in i .. L /\ k - 1 = sp
      BY <1>1, <1>3, <2>1
    <3>2. \A m \in i .. k - 1 : IsSpace(z[m])
      <4>1. \A m \in i .. k - 1 : m \in 1 .. sp
        BY <2>1, <3>1
      <4>2. \A m \in 1 .. sp : IsSpace(z[m])
        BY DEF Laid, IsSpace
      <4> QED
        BY <4>1, <4>2
    <3>3. CASE sg = 1
      <4>1. z[k] = 43 /\ first = k + 1
        BY <1>1, <1>3, <2>1, <3>1, <3>3
      <4>2. ~IsSpace(z[k]) /\ z[k] # 45
        BY <4>1 DEF IsSpace
      <4> QED
        BY <3>1, <3>2, <4>1, <4>2
    <3>4. CASE sg = 0
      <4>1. first = k
        BY <1>1, <1>3, <3>1, <3>4
      <4> QED
        BY <1>8, <3>1, <3>2, <4>1
    <3> QED
      BY <1>1, <3>3, <3>4
  <2>2. CASE i = sp + 2 /\ sg = 1
    <3>1. first = i /\ i \in Nat /\ i \in 1 .. L /\ i \in i .. L /\ i .. i - 1 = {}
      BY <1>1, <1>3, <2>2
    <3> QED
      BY <1>8, <3>1
  <2> QED
    BY <2>1, <2>2 DEF Begins
<1>10. CASE given = b \/ hx = 2 \/ (b = 10 /\ d[1] # 0)
  <2>1. b = IF given # 0 THEN given ELSE IF HexPrefix(z, first) THEN 16
            ELSE IF z[first] = 48 THEN 8 ELSE 10
    <3>1. b # 0 /\ (hx = 2 => b = 16) /\ given \in {0, b}
      BY DEF Told, PrintBases
    <3> QED
      BY <1>1, <1>7, <1>8, <1>10, <3>1
  <2>2. from = IF b = 16 /\ HexPrefix(z, first) THEN first + 2 ELSE first
    <3>1. hx = 2 => b = 16
      BY DEF Told
    <3> QED
      BY <1>1, <1>3, <1>4, <1>7, <3>1
  <2>3. \A n \in 1 .. M : DigitValue(z[from + n - 1], b) \in 0 .. b - 1
    BY <1>5
  <2>4. DigitValue(z[from + M], b) < 0
    <3>1. CASE b = 10
      BY <1>6, <3>1 DEF DigitValue
    <3>2. CASE b = 16
      BY <1>6, <3>2 DEF DigitValue
    <3> QED
      BY <3>1, <3>2 DEF PrintBases
  <2>5. Reads(z, i, given, j, first, b, from, M)
    <3>1. b \in Bases
      BY DEF PrintBases, Bases
    <3> QED
      BY <1>1, <1>2, <1>4, <1>9, <2>1, <2>2, <2>3, <2>4, <3>1 DEF Reads
  <2>6. DigitsOf(d, z, from, b, M)
    BY <1>5 DEF DigitsOf
  <2>7. /\ Strtoul(z, i, given).end = from + M
        /\ Strtoul(z, i, given).value = IF z[j] = 45 THEN Wrap(-Least(v[M], MaxWord))
                                        ELSE Least(v[M], MaxWord)
    BY <2>5, <2>6, StrtoulReads
  <2> QED
    BY <1>4, <1>9, <2>7
<1>11. CASE ~(given = b \/ hx = 2 \/ (b = 10 /\ d[1] # 0))
  <2>1. given = 0 /\ hx = 0 /\ M = 1 /\ d[1] = 0
    BY <1>1, <1>11 DEF Told
  <2>2. from = first /\ z[first] = 48 /\ from + 1 - 1 = from
    BY <1>3, <1>4, <1>8, <2>1
  <2>3. 8 = IF given # 0 THEN given ELSE IF HexPrefix(z, first) THEN 16
            ELSE IF z[first] = 48 THEN 8 ELSE 10
    BY <1>7, <2>1, <2>2
  <2>4. from = IF 8 = 16 /\ HexPrefix(z, first) THEN first + 2 ELSE first
    BY <2>2
  <2>5. DigitValue(48, 8) = 0
    BY DEF DigitValue
  <2>6. \A n \in 1 .. 1 : n = 1 /\ z[from + n - 1] = 48
    BY <2>2
  <2>7. DigitValue(z[from + 1], 8) < 0
    BY <1>6, <2>1 DEF DigitValue
  <2>8. Reads(z, i, given, j, first, 8, from, 1)
    <3>1. 8 \in Bases /\ 1 \in Nat
      BY DEF Bases
    <3>2. \A n \in 1 .. 1 : DigitValue(z[from + n - 1], 8) \in 0 .. 8 - 1
      BY <2>5, <2>6
    <3>3. from + 1 <= Len(z)
      BY <1>2, <1>4, <2>1
    <3> QED
      BY <1>1, <1>2, <1>4, <1>9, <2>3, <2>4, <2>7, <3>1, <3>2, <3>3 DEF Reads
  <2>9. DigitsOf(d, z, from, 8, 1)
    <3>1. d \in [1 .. 1 -> 0 .. 8 - 1]
      <4>1. DOMAIN d = 1 .. 1 /\ \A n \in 1 .. 1 : d[n] = 0
        BY <2>1, <2>6
      <4>2. d = [n \in 1 .. 1 |-> d[n]]
        BY <4>1
      <4> QED
        BY <4>1, <4>2
    <3> QED
      BY <2>1, <2>5, <2>6, <3>1 DEF DigitsOf
  <2>10. Values(v, d, 8, 1) /\ v[1] = v[M]
    <3>1. v \in [0 .. 1 -> Nat] /\ v[0] = 0 /\ \A n \in 1 .. 1 : v[n] = b * v[n - 1] + d[n]
      BY <2>1 DEF Values
    <3>2. v[1] = b * 0 + 0
      <4>1. 1 \in 1 .. 1 /\ 1 - 1 = 0
        OBVIOUS
      <4> QED
        BY <2>1, <3>1, <4>1
    <3>3. b * 0 + 0 = 0 /\ 8 * 0 + 0 = 0
      BY DEF PrintBases
    <3>4. \A n \in 1 .. 1 : v[n] = 8 * v[n - 1] + d[n]
      <4>1. \A n \in 1 .. 1 : n = 1 /\ n - 1 = 0
        OBVIOUS
      <4> QED
        BY <2>1, <3>1, <3>2, <3>3, <4>1
    <3> QED
      BY <2>1, <3>1, <3>4 DEF Values
  <2>11. /\ Strtoul(z, i, given).end = from + 1
         /\ Strtoul(z, i, given).value = IF z[j] = 45 THEN Wrap(-Least(v[1], MaxWord))
                                         ELSE Least(v[1], MaxWord)
    BY <2>8, <2>9, <2>10, StrtoulReads
  <2> QED
    BY <1>4, <1>9, <2>1, <2>10, <2>11
<1> QED
  BY <1>10, <1>11

\* Reading in the same base, what is laid out tells the base.
LEMMA SameBaseTold ==
    ASSUME NEW f \in Directives, NEW x \in Given(f), NEW z, NEW sp, NEW sg, NEW hx, NEW M, NEW d, NEW v,
           Shows(z, f, x, sp, sg, hx, M, d, v), NEW given, SameBase(f, given)
    PROVE  Told(given, Base(f), hx, M, d)
<1>1. hx = 2 <=> Base(f) = 16 /\ "alt" \in f.flags /\ x # 0
  BY DEF Shows
<1>2. given \in {0, Base(f)} /\ Base(f) \in {10, 16}
  BY DEF SameBase, Base
<1>3. CASE given # 0
  BY <1>1, <1>2, <1>3 DEF Told
<1>4. CASE given = 0
  <2>1. /\ f.precision < 0 /\ "zero" \notin f.flags
        /\ Base(f) = 16 => "alt" \in f.flags
    BY <1>2, <1>4 DEF SameBase
  <2>2. IF Size(f, x) = 0 THEN M = 1 ELSE d[1] # 0
    BY <2>1 DEF Shows, Short
  <2>3. x = 0 <=> Size(f, x) = 0
    <3>1. x \in Int
      BY SizeIs
    <3> QED
      BY <3>1 DEF Size
  <2>4. CASE x = 0
    <3>1. M = 1 /\ Size(f, x) = 0
      BY <2>2, <2>3, <2>4
    <3>2. /\ v \in [0 .. 1 -> Nat] /\ v[0] = 0 /\ v[1] = 0 /\ d \in [1 .. 1 -> 0 .. Base(f) - 1]
          /\ \A n \in 1 .. 1 : v[n] = Base(f) * v[n - 1] + d[n]
      BY <3>1 DEF Shows, Values
    <3>3. 1 \in 1 .. 1 /\ 1 - 1 = 0 /\ Base(f) * 0 = 0
      BY <1>2
    <3>4. v[1] = Base(f) * 0 + d[1]
      BY <3>2, <3>3
    <3>5. d[1] \in Nat
      BY <1>2, <3>2, <3>3
    <3>6. d[1] = 0
      BY <3>2, <3>3, <3>4, <3>5
    <3> QED
      BY <1>1, <1>4, <3>1, <3>6 DEF Told
  <2>5. CASE x # 0
    <3>1. d[1] # 0
      BY <2>2, <2>3, <2>5
    <3> QED
      BY <1>1, <1>2, <1>4, <2>1, <2>5, <3>1 DEF Told
  <2> QED
    BY <2>4, <2>5
<1> QED
  BY <1>3, <1>4

\* The result r of reading z is x, and all of it was read.
GivesBack(r, z, x) == r.value = x /\ z[r.end] \in {0, 32}

\* strtoul() gives back the words that are printed unsigned.
LEMMA WordComesBack ==
    ASSUME NEW f \in Directives, f.conv # "d", NEW x \in Given(f), NEW given, SameBase(f, given)
    PROVE  GivesBack(Strtoul(Append(Printed(f, x), 0), 1, given), Append(Printed(f, x), 0), x)
<1>0. PICK z : z = Append(Printed(f, x), 0)
  OBVIOUS
<1>1. PICK sp, sg, hx, M, d, v : Shows(z, f, x, sp, sg, hx, M, d, v)
  BY <1>0, PrintedIs
<1>2. PICK b \in PrintBases : b = Base(f)
  BY DEF PrintBases, Base
<1>3. Told(given, b, hx, M, d)
  BY <1>1, <1>2, SameBaseTold
<1>4. /\ Laid(z, sp, sg, hx, M, d) /\ d \in [1 .. M -> 0 .. b - 1] /\ Values(v, d, b, M)
      /\ v[M] = Size(f, x) /\ sg # 1
  BY <1>1, <1>2 DEF Shows
<1>5. Begins(z, 1, sp, sg)
  BY <1>4 DEF Begins, Laid
<1>6. /\ Strtoul(z, 1, given).value = Least(v[M], MaxWord)
      /\ Strtoul(z, 1, given).end = sp + sg + hx + M + 1
  BY <1>3, <1>4, <1>5, LaidReads
<1>7. Least(v[M], MaxWord) = x
  <2>1. x \in Words
    BY DEF Given
  <2>2. x <= MaxWord
    BY <2>1 DEF Words, MaxWord
  <2> QED
    BY <1>4, <2>2 DEF Least, Size
<1>8. z[sp + sg + hx + M + 1] \in {0, 32}
  BY <1>4 DEF Laid
<1> QED
  BY <1>0, <1>6, <1>7, <1>8 DEF GivesBack

\* strtol() gives back the longs, the most negative one included.
LEMMA LongComesBack ==
    ASSUME NEW f \in Directives, f.conv = "d", NEW x \in Given(f), NEW given, SameBase(f, given)
    PROVE  GivesBack(Strtol(Append(Printed(f, x), 0), given), Append(Printed(f, x), 0), x)
<1>0. PICK z : z = Append(Printed(f, x), 0)
  OBVIOUS
<1>1. PICK sp, sg, hx, M, d, v : Shows(z, f, x, sp, sg, hx, M, d, v)
  BY <1>0, PrintedIs
<1>2. PICK b \in PrintBases : b = Base(f)
  BY DEF PrintBases, Base
<1>3. Told(given, b, hx, M, d)
  BY <1>1, <1>2, SameBaseTold
<1>4. /\ Laid(z, sp, sg, hx, M, d) /\ d \in [1 .. M -> 0 .. b - 1] /\ Values(v, d, b, M)
      /\ v[M] = Size(f, x)
  BY <1>1, <1>2 DEF Shows
<1>5. /\ sp \in Nat /\ sg \in {0, 1} /\ hx = 0 /\ M \in Nat \ {0} /\ Len(z) \in Nat
      /\ sp + sg + M < Len(z)
  <2>1. hx # 2
    BY <1>1 DEF Shows, Base
  <2> QED
    BY <1>4, <2>1 DEF Laid
<1>6. PICK negative \in BOOLEAN : negative <=> x < 0
  OBVIOUS
<1>7. PICK k \in 1 .. Len(z) : k = sp + 1
  BY <1>5
<1>8. ~IsSpace(z[k]) /\ (z[k] = 45 <=> negative) /\ (negative => sg = 1)
  <2>1. CASE sg = 1
    <3>1. z[k] \in {43, 45} /\ (z[k] = 45 <=> negative)
      BY <1>1, <1>4, <1>6, <1>7, <2>1 DEF Laid, Shows
    <3> QED
      BY <2>1, <3>1 DEF IsSpace
  <2>2. CASE sg = 0
    <3>1. 1 \in 1 .. M /\ sp + sg + hx + 1 = k
      BY <1>5, <1>7, <2>2
    <3>2. IsDigit(z[k], d[1])
      BY <1>4, <3>1 DEF Laid
    <3>3. PICK e \in 0 .. b - 1 : e = d[1]
      BY <1>4, <3>1
    <3>4. ReadsAs(z[k], e, b)
      BY <3>2, <3>3, DigitReads
    <3>5. ~negative
      BY <1>1, <1>6, <2>2 DEF Shows
    <3> QED
      BY <3>4, <3>5 DEF ReadsAs
  <2> QED
    BY <1>5, <2>1, <2>2
<1>9. FirstNonSpace(z, 1) = k
  <2>1. PICK S : S = {m \in 1 .. Len(z) : ~IsSpace(z[m])}
    OBVIOUS
  <2>2. \A m \in 1 .. sp : IsSpace(z[m])
    BY <1>4 DEF Laid, IsSpace
  <2>3. \A m \in 1 .. Len(z) : m < k => m \in 1 .. sp
    BY <1>5, <1>7
  <2>4. S \in SUBSET Int /\ k \in S /\ \A m \in S : k <= m
    BY <1>5, <1>8, <2>1, <2>2, <2>3
  <2>5. Min(S) = k
    BY <2>4, MinIs
  <2> QED
    BY <2>1, <2>5 DEF FirstNonSpace
<1>10. PICK i : i = IF negative THEN k + 1 ELSE k
  OBVIOUS
<1>11. Begins(z, i, sp, sg)
  <2>1. CASE negative
    BY <1>5, <1>7, <1>8, <1>10, <2>1 DEF Begins
  <2>2. CASE ~negative
    <3>1. sg = 1 => z[sp + 1] = 43
      <4>1. sg = 1 => z[sp + 1] \in {43, 45}
        BY <1>4 DEF Laid
      <4> QED
        BY <1>7, <1>8, <2>2, <4>1
    <3> QED
      BY <1>5, <1>7, <1>10, <2>2, <3>1 DEF Begins
  <2> QED
    BY <2>1, <2>2
<1>12. /\ Strtoul(z, i, given).value = Least(v[M], MaxWord)
       /\ Strtoul(z, i, given).end = sp + sg + hx + M + 1
  BY <1>3, <1>4, <1>11, LaidReads
<1>13. PICK y \in Nat : y = Size(f, x) /\ y = v[M] /\ x = IF negative THEN -y ELSE y
  <2>1. x \in Int /\ Size(f, x) \in Words
    BY SizeIs
  <2>2. Size(f, x) = IF x < 0 THEN -x ELSE x
    BY DEF Size
  <2>3. Size(f, x) \in Nat
    BY <2>1, <2>2
  <2> QED
    BY <1>4, <1>6, <2>1, <2>2, <2>3
<1>14. PICK c \in Nat : /\ c = Least(Least(y, MaxWord), Bound(negative))
                        /\ Min({Least(y, MaxWord), Bound(negative)}) = c
  <2>1. Least(y, MaxWord) \in Nat /\ Bound(negative) \in Nat
    <3>1. PICK H \in Nat \ {0} : TwoTo[WordBits - 1] = H /\ MaxWord = 2 * H - 1
      BY Sizes
    <3> QED
      BY <3>1 DEF Least, Bound
  <2>2. Min({Least(y, MaxWord), Bound(negative)}) = Least(Least(y, MaxWord), Bound(negative))
    BY <2>1, MinOfTwo DEF Least
  <2>3. Least(Least(y, MaxWord), Bound(negative)) \in Nat
    BY <2>1 DEF Least
  <2> QED
    BY <2>2, <2>3
<1>15. /\ Strtol(z, given).value = Signed(IF negative THEN Wrap(-c) ELSE c)
       /\ Strtol(z, given).end = sp + sg + hx + M + 1
  BY <1>8, <1>9, <1>10, <1>12, <1>13, <1>14 DEF Strtol
<1>16. Signed(IF negative THEN Wrap(-c) ELSE c)
          = Max({Min({IF negative THEN -y ELSE y, TwoTo[WordBits - 1] - 1}), -TwoTo[WordBits - 1]})
  BY <1>14, Clamps
<1>17. Max({Min({x, TwoTo[WordBits - 1] - 1}), -TwoTo[WordBits - 1]}) = x
  <2>1. PICK H \in Nat \ {0} : TwoTo[WordBits - 1] = H
    BY Sizes
  <2>2. x \in -H .. H - 1
    BY <2>1 DEF Given, Longs
  <2>3. Min({x, H - 1}) = x
    BY <2>2, MinOfTwo
  <2>4. Max({x, -H}) = x
    BY <2>2, MaxOfTwo
  <2> QED
    BY <2>1, <2>3, <2>4
<1>18. z[sp + sg + hx + M + 1] \in {0, 32}
  BY <1>4 DEF Laid
<1> QED
  BY <1>0, <1>13, <1>15, <1>16, <1>17, <1>18 DEF GivesBack

\* Only what fits whole is one longer than the text.
LEMMA StoredWhole ==
    ASSUME NEW p \in Seq(Nat), NEW size \in Nat, Len(Stored(p, size)) = Len(p) + 1
    PROVE  Stored(p, size) = Append(p, 0)
<1>1. PICK K \in Nat : K = Len(p)
  OBVIOUS
<1>2. PICK m \in Nat : m = Min({Len(p), size}) /\ m = IF K <= size THEN K ELSE size
  BY <1>1, MinOfTwo
<1>3. PICK kept \in Seq(Nat) : kept = SubSeq(p, 1, m) /\ Len(kept) = m
  <2>1. \A i \in 1 .. m : p[i] \in Nat
    <3>1. \A i \in 1 .. m : i \in 1 .. Len(p)
      BY <1>1, <1>2
    <3> QED
      BY <3>1, ElementOfSeq
  <2>2. 1 \in Int /\ m \in Int
    OBVIOUS
  <2>3. SubSeq(p, 1, m) \in Seq(Nat) /\ Len(SubSeq(p, 1, m)) = IF 1 <= m THEN m - 1 + 1 ELSE 0
    BY <2>1, <2>2, SubSeqProperties
  <2>4. (IF 1 <= m THEN m - 1 + 1 ELSE 0) = m
    OBVIOUS
  <2> QED
    BY <2>3, <2>4
<1>4. CASE size = 0
  <2>1. Stored(p, size) = << >>
    BY <1>4 DEF Stored
  <2> QED
    BY <1>1, <2>1
<1>5. CASE size # 0 /\ m < size
  <2>1. Stored(p, size) = Append(kept, 0)
    BY <1>2, <1>3, <1>5 DEF Stored
  <2>2. kept = p
    <3>1. m = Len(p)
      BY <1>1, <1>2, <1>5
    <3> QED
      BY <1>3, <3>1, SubSeqFull
  <2> QED
    BY <2>1, <2>2
<1>6. CASE size # 0 /\ ~(m < size)
  <2>1. Stored(p, size) = [kept EXCEPT ![size] = 0]
    BY <1>2, <1>3, <1>6 DEF Stored
  <2>2. size \in 1 .. Len(kept) /\ 0 \in Nat /\ m <= K
    BY <1>2, <1>3, <1>6
  <2>3. Len([kept EXCEPT ![size] = 0]) = Len(kept)
    BY <2>2, ExceptSeq
  <2> QED
    BY <1>1, <1>2, <1>3, <2>1, <2>2, <2>3
<1> QED
  BY <1>4, <1>5, <1>6

-----------------------------------------------------------------------------
(* The calls.                                                              *)

\* memmove() moves bytes as if through a third place, rand() stays in a range of
\* at most RAND_MAX numbers, strncmp() orders strings by their first difference,
\* lookup_symbol() finds the symbol of an address exactly if there is one, and
\* strtol() clamps the value of a numeral to the range of a long: whatever the
\* width of a word, the strings, the tables and the memory.
THEOREM StringCallsAreRight == StringsSpec => []CallsMeetReference
<1>1. StringsInit => CallsMeetReference
  BY DEF StringsInit, CallsMeetReference, MovesAsOne, SmallRangesKept, OrderedByDifference,
         SymbolFound, NumeralClamped
<1>2. CallsMeetReference /\ [StringsNext]_stringVars => CallsMeetReference'
  <2> SUFFICES ASSUME CallsMeetReference, [StringsNext]_stringVars
               PROVE  CallsMeetReference'
    OBVIOUS
  <2>1. ASSUME NEW size, NEW f, NEW x, Snprintf(size, f, x) PROVE CallsMeetReference'
    <3>1. call'.name = "snprintf"
      BY <2>1 DEF Snprintf
    <3> QED
      BY <3>1 DEF CallsMeetReference, MovesAsOne, SmallRangesKept, OrderedByDifference,
                  SymbolFound, NumeralClamped
  <2>2. ASSUME NEW d \in 0..MemorySize - 1, NEW s \in 0..MemorySize - 1, NEW n \in 1..MemorySize,
               d + n <= MemorySize, s + n <= MemorySize, Memmove(d, s, n)
        PROVE  CallsMeetReference'
    <3>1. /\ call'.name = "memmove" /\ call'.to = d /\ call'.from = s /\ call'.size = n
          /\ call'.result = Moved(d, s, n)
      BY <2>2 DEF Memmove
    <3>2. d \in Nat /\ s \in Nat /\ n \in Nat
      BY StringsAssumption
    <3>3. Moved(d, s, n) = [i \in 0 .. MemorySize - 1 |->
                              IF i \in d .. (d + n - 1) THEN s + i - d ELSE i]
      BY <2>2, <3>2, MovesAll
    <3>4. MovesAsOne'
      BY <3>1, <3>3 DEF MovesAsOne
    <3> QED
      BY <3>1, <3>4 DEF CallsMeetReference, SmallRangesKept, OrderedByDifference,
                        SymbolFound, NumeralClamped
  <2>3. ASSUME NEW s \in Numerals, Read(s) PROVE CallsMeetReference'
    <3>1. /\ call'.name = "strtol" /\ call'.numeral = s
          /\ call'.result = Strtol(Append(s, 0), 10).value
      BY <2>3 DEF Read
    <3>2. s \in Decimals
      BY StringsAssumption
    <3>3. NumeralClamped'
      BY <3>1, <3>2, StrtolClamps, Zenon DEF NumeralClamped
    <3> QED
      BY <3>1, <3>3 DEF CallsMeetReference, MovesAsOne, SmallRangesKept, OrderedByDifference,
                        SymbolFound
  <2>4. ASSUME NEW min \in Ints, NEW max \in Ints, Rand(min, max) PROVE CallsMeetReference'
    <3>1. PICK r \in 0 .. RandMax :
             call' = [name |-> "rand", min |-> min, max |-> max, result |-> Scale(r, min, max)]
      BY <2>4 DEF Rand
    <3>2. min <= max
      BY <2>4 DEF Rand
    <3>3. max - min < RandMax => Scale(r, min, max) \in min .. max
      BY <3>2, ScaleFits
    <3>4. /\ call'.name = "rand" /\ call'.min = min /\ call'.max = max
          /\ call'.result = Scale(r, min, max)
      BY <3>1
    <3>5. SmallRangesKept'
      BY <3>3, <3>4 DEF SmallRangesKept, RandInRange
    <3> QED
      BY <3>4, <3>5 DEF CallsMeetReference, MovesAsOne, OrderedByDifference, SymbolFound,
                        NumeralClamped
  <2>5. ASSUME NEW t \in SymbolTables, NEW a \in LookedUp, Lookup(t, a) PROVE CallsMeetReference'
    <3>1. call'.name = "lookup" /\ call'.table = t /\ call'.addr = a /\ call'.result = LookupSymbol(t, a)
      BY <2>5 DEF Lookup
    <3>2. t \in Seq(Symbols) /\ Sorted(t) /\ a \in Nat
      BY StringsAssumption DEF Symbols
    <3>3. PICK r : r = LookupSymbol(t, a) /\ Answers(r, t, a, 1, Len(t))
      BY <3>2, LookupFinds
    <3>4. DOMAIN t = 1 .. Len(t) /\ Len(t) \in Nat
      BY <3>2, LenProperties
    <3>5. SymbolFound'
      <4>1. PICK C : C = {m \in 1 .. Len(t) : Covers(t, m, a)}
        OBVIOUS
      <4>2. IF C = {} THEN r = 0 ELSE r \in C
        BY <3>3, <4>1 DEF Answers
      <4> QED
        BY <3>1, <3>3, <3>4, <4>1, <4>2 DEF SymbolFound
    <3> QED
      BY <3>1, <3>5 DEF CallsMeetReference, MovesAsOne, SmallRangesKept, OrderedByDifference,
                        NumeralClamped
  <2>6. ASSUME NEW a \in Compared, NEW b \in Compared, NEW n \in -1..3, Compare(a, b, n)
        PROVE  CallsMeetReference'
    <3>1. /\ call'.name = "strncmp" /\ call'.a = a /\ call'.b = b /\ call'.n = n
          /\ call'.result = Strncmp(a, b, n)
      BY <2>6 DEF Compare
    <3>2. a \in Seq(1..255) /\ b \in Seq(1..255) /\ n \in Int
      BY StringsAssumption
    <3>3. Strncmp(a, b, n) = IF ComesBefore(Cut(a, n), Cut(b, n)) THEN -1
                             ELSE IF ComesBefore(Cut(b, n), Cut(a, n)) THEN 1 ELSE 0
      BY <3>2, CompareIs
    <3>4. OrderedByDifference'
      BY <3>1, <3>3 DEF OrderedByDifference
    <3> QED
      BY <3>1, <3>4 DEF CallsMeetReference, MovesAsOne, SmallRangesKept, SymbolFound,
                        NumeralClamped
  <2>7. ASSUME NEW base, ReadBack(base) PROVE CallsMeetReference'
    <3>1. call'.name = "read"
      BY <2>7 DEF ReadBack
    <3> QED
      BY <3>1 DEF CallsMeetReference, MovesAsOne, SmallRangesKept, OrderedByDifference,
                  SymbolFound, NumeralClamped
  <2>8. CASE UNCHANGED stringVars
    BY <2>8 DEF stringVars, CallsMeetReference, MovesAsOne, SmallRangesKept, RandInRange,
                OrderedByDifference, SymbolFound, NumeralClamped
  <2>9. CASE AnyCall
    BY <2>1, <2>2, <2>3, <2>4, <2>5, <2>6, <2>9 DEF AnyCall
  <2> QED
    BY <2>7, <2>8, <2>9 DEF StringsNext
<1> QED
  BY <1>1, <1>2, PTL DEF StringsSpec

\* The number in the buffer.
PrintedNumber ==
    call.name = "snprintf" =>
        \E size \in BufferSizes, f \in Formats :
            \E x \in Given(f) :
                /\ call.format = f /\ call.value = x /\ call.result = Len(Printed(f, x))
                /\ text = Stored(Printed(f, x), size)

LEMMA BufferReadBack ==
    ASSUME PrintedNumber, NEW base, ReadBack(base)
    PROVE  NumbersComeBack'
<1>0. PICK size \in BufferSizes, f \in Formats :
         \E x \in Given(f) :
             /\ call.format = f /\ call.value = x /\ call.result = Len(Printed(f, x))
             /\ text = Stored(Printed(f, x), size)
  BY DEF PrintedNumber, ReadBack
<1>1. PICK x \in Given(f) :
         /\ call.format = f /\ call.value = x /\ call.result = Len(Printed(f, x))
         /\ text = Stored(Printed(f, x), size)
  BY <1>0
<1>2. f \in Directives /\ size \in Nat
  BY StringsAssumption
<1>3. /\ call'.name = "read" /\ call'.format = f /\ call'.value = x /\ call'.base = base
      /\ call'.whole = (Len(Printed(f, x)) + 1 = Len(text))
      /\ call'.result = IF f.conv = "d" THEN Strtol(text, base) ELSE Strtoul(text, 1, base)
      /\ text' = text
  BY <1>1 DEF ReadBack
<1>4. SUFFICES ASSUME Len(Printed(f, x)) + 1 = Len(text), SameBase(f, base)
               PROVE  call'.result.value = x /\ text[call'.result.end] \in {0, 32}
  BY <1>3 DEF NumbersComeBack, SameBase
<1>5. text = Append(Printed(f, x), 0)
  <2>1. Printed(f, x) \in Seq(Nat)
    BY <1>2, PrintedIs
  <2>2. Len(Stored(Printed(f, x), size)) = Len(Printed(f, x)) + 1
    BY <1>1, <1>4
  <2> QED
    BY <1>1, <1>2, <2>1, <2>2, StoredWhole
<1>6. CASE f.conv = "d"
  <2>1. GivesBack(Strtol(text, base), text, x)
    BY <1>2, <1>4, <1>5, <1>6, LongComesBack
  <2>2. call'.result = Strtol(text, base)
    BY <1>3, <1>6
  <2> QED
    BY <2>1, <2>2 DEF GivesBack
<1>7. CASE f.conv # "d"
  <2>1. GivesBack(Strtoul(text, 1, base), text, x)
    BY <1>2, <1>4, <1>5, <1>7, WordComesBack
  <2>2. call'.result = Strtoul(text, 1, base)
    BY <1>3, <1>7
  <2> QED
    BY <2>1, <2>2 DEF GivesBack
<1> QED
  BY <1>6, <1>7

\* A number that snprintf() printed whole and that is read back in the same base
\* is that number, and all of it is read: under every directive, for every long and
\* unsigned long of any width, the most negative long included.
THEOREM NumbersReadBack == StringsSpec => []NumbersComeBack
<1>1. StringsInit => PrintedNumber /\ NumbersComeBack
  BY DEF StringsInit, PrintedNumber, NumbersComeBack
<1>2. PrintedNumber /\ NumbersComeBack /\ [StringsNext]_stringVars => (PrintedNumber /\ NumbersComeBack)'
  <2> SUFFICES ASSUME PrintedNumber, NumbersComeBack, [StringsNext]_stringVars
               PROVE  PrintedNumber' /\ NumbersComeBack'
    OBVIOUS
  <2>1. ASSUME NEW size \in BufferSizes, NEW f \in Formats,
               NEW x \in (IF f.conv = "d" THEN Longs ELSE Words), Snprintf(size, f, x)
        PROVE  PrintedNumber' /\ NumbersComeBack'
    <3>1. /\ call'.name = "snprintf" /\ call'.format = f /\ call'.value = x
          /\ call'.result = Len(Printed(f, x)) /\ text' = Stored(Printed(f, x), size)
      BY <2>1 DEF Snprintf
    <3>2. x \in Given(f)
      BY DEF Given
    <3> QED
      BY <3>1, <3>2 DEF PrintedNumber, NumbersComeBack
  <2>2. ASSUME call'.name \notin {"snprintf", "read"} PROVE PrintedNumber' /\ NumbersComeBack'
    BY <2>2 DEF PrintedNumber, NumbersComeBack
  <2>3. ASSUME NEW d, NEW s, NEW n, Memmove(d, s, n) PROVE PrintedNumber' /\ NumbersComeBack'
    BY <2>2, <2>3 DEF Memmove
  <2>4. ASSUME NEW s, Read(s) PROVE PrintedNumber' /\ NumbersComeBack'
    BY <2>2, <2>4 DEF Read
  <2>5. ASSUME NEW min, NEW max, Rand(min, max) PROVE PrintedNumber' /\ NumbersComeBack'
    BY <2>2, <2>5 DEF Rand
  <2>6. ASSUME NEW t, NEW a, Lookup(t, a) PROVE PrintedNumber' /\ NumbersComeBack'
    BY <2>2, <2>6 DEF Lookup
  <2>7. ASSUME NEW a, NEW b, NEW n, Compare(a, b, n) PROVE PrintedNumber' /\ NumbersComeBack'
    BY <2>2, <2>7 DEF Compare
  <2>8. ASSUME NEW base, ReadBack(base) PROVE PrintedNumber' /\ NumbersComeBack'
    <3>1. call'.name = "read"
      BY <2>8 DEF ReadBack
    <3> QED
      BY <2>8, <3>1, BufferReadBack DEF PrintedNumber
  <2>9. CASE UNCHANGED stringVars
    BY <2>9 DEF stringVars, PrintedNumber, NumbersComeBack
  <2>10. CASE AnyCall
    BY <2>1, <2>3, <2>4, <2>5, <2>6, <2>7, <2>10 DEF AnyCall
  <2> QED
    BY <2>8, <2>9, <2>10 DEF StringsNext
<1> QED
  BY <1>1, <1>2, PTL DEF StringsSpec

=============================================================================
