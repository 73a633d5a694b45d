----------------------------- MODULE Iteration -----------------------------
(* Lemmas on what is defined by iteration, on the arithmetic of blocks, on    *)
(* least elements and on sequences put together: the theorems about the       *)
(* console, the shell, the strings and the copying programs use them.         *)
EXTENDS Integers, Sequences, FiniteSetsExt, WellFoundedInduction, SequenceTheorems, TLAPS

-----------------------------------------------------------------------------
(* What is defined by iteration.                                           *)

\* A set that has 0 and, with each number, the next, has them all.
LEMMA NumbersOf ==
    ASSUME NEW S, 0 \in S, \A n \in Nat : n \in S => n + 1 \in S
    PROVE  \A n \in Nat : n \in S
<1> SUFFICES ASSUME Nat \ S # {} PROVE FALSE
  OBVIOUS
<1>1. PICK R : R = OpToRel(<, Nat)
  OBVIOUS
<1>2. PICK x \in Nat \ S : \A y \in Nat \ S : ~(<<y, x>> \in R)
  <2>1. IsWellFoundedOn(R, Nat)
    BY <1>1, NatLessThanWellFounded
  <2> QED
    BY <2>1, WFMin, Zenon
<1>3. x \in Nat /\ x \notin S /\ x # 0
  BY <1>2
<1>4. x - 1 \in Nat /\ x - 1 < x /\ x = (x - 1) + 1
  BY <1>3
<1>5. x - 1 \in Nat \ S
  BY <1>3, <1>4
<1>6. <<x - 1, x>> \in R
  BY <1>1, <1>3, <1>4 DEF OpToRel
<1> QED
  BY <1>2, <1>5, <1>6

\* The same for the numbers up to N.
LEMMA UpTo ==
    ASSUME NEW N \in Nat, NEW S, 0 \in S, \A n \in 0 .. N - 1 : n \in S => n + 1 \in S
    PROVE  \A n \in 0 .. N : n \in S
<1> DEFINE T == {n \in Nat : n <= N => n \in S}
<1>1. 0 \in T
  OBVIOUS
<1>2. ASSUME NEW n \in Nat, n \in T PROVE n + 1 \in T
  <2>1. n + 1 <= N => n \in 0 .. N - 1 /\ n <= N
    OBVIOUS
  <2> QED
    BY <1>2, <2>1
<1> HIDE DEF T
<1>3. \A n \in Nat : n \in T
  BY <1>1, <1>2, NumbersOf
<1>4. ASSUME NEW n \in 0 .. N PROVE n \in S
  <2>1. n \in T /\ n <= N
    BY <1>3
  <2> QED
    BY <2>1 DEF T
<1> QED
  BY <1>4

\* The states of X from b on, N steps: step n is the function h[n] of X to itself.
Folds(f, h, b, N, X) ==
    f \in [0 .. N -> X] /\ f[0] = b /\ \A n \in 1 .. N : f[n] = h[n][f[n - 1]]

\* A sequence of steps can be taken.
LEMMA FoldExists ==
    ASSUME NEW X, NEW N \in Nat, NEW b \in X, NEW h \in [1 .. N -> [X -> X]]
    PROVE  \E f : Folds(f, h, b, N, X)
<1> DEFINE S == {k \in 0 .. N : \E f \in [0 .. k -> X] :
                    f[0] = b /\ \A n \in 1 .. k : f[n] = h[n][f[n - 1]]}
<1>1. 0 \in S
  <2>1. PICK f : f = [n \in 0 .. 0 |-> b]
    OBVIOUS
  <2>2. f \in [0 .. 0 -> X] /\ f[0] = b /\ 1 .. 0 = {} /\ 0 \in 0 .. N
    BY <2>1
  <2> QED
    BY <2>2
<1>2. ASSUME NEW k \in 0 .. N - 1, k \in S
      PROVE  k + 1 \in S
  <2>1. PICK f \in [0 .. k -> X] : f[0] = b /\ \A n \in 1 .. k : f[n] = h[n][f[n - 1]]
    BY <1>2
  <2>2. PICK g : g = [n \in 0 .. k + 1 |-> IF n = k + 1 THEN h[k + 1][f[k]] ELSE f[n]]
    OBVIOUS
  <2>3. k \in 0 .. k /\ f[k] \in X /\ k + 1 \in 1 .. N /\ k \in Nat
    BY <2>1
  <2>4. h[k + 1] \in [X -> X] /\ h[k + 1][f[k]] \in X
    BY <2>3
  <2>5. g \in [0 .. k + 1 -> X] /\ g[0] = b
    BY <2>1, <2>2, <2>3, <2>4
  <2>6. ASSUME NEW n \in 1 .. k + 1
        PROVE  g[n] = h[n][g[n - 1]]
    <3>1. n - 1 \in 0 .. k /\ g[n - 1] = f[n - 1]
      BY <2>2
    <3>2. n # k + 1 => n \in 1 .. k /\ g[n] = f[n]
      BY <2>2
    <3>3. n = k + 1 => g[n] = h[n][f[k]] /\ n - 1 = k
      BY <2>2
    <3> QED
      BY <2>1, <3>1, <3>2, <3>3
  <2> QED
    BY <2>3, <2>5, <2>6
<1> HIDE DEF S
<1>3. N \in S
  <2>1. \A n \in 0 .. N : n \in S
    BY <1>1, <1>2, UpTo
  <2> QED
    BY <2>1
<1>4. \E f \in [0 .. N -> X] : f[0] = b /\ \A n \in 1 .. N : f[n] = h[n][f[n - 1]]
  BY <1>3, Zenon DEF S
<1> QED
  BY <1>4, Zenon DEF Folds

\* Of numbers up to N there is a largest.
LEMMA MaxIs ==
    ASSUME NEW N \in Nat, NEW S \in SUBSET (0 .. N), S # {}
    PROVE  Max(S) \in S /\ \A y \in S : Max(S) >= y
<1> DEFINE P == {n \in 0 .. N : \A T \in SUBSET (0 .. n) :
                    T # {} => \E x \in T : \A y \in T : x >= y}
<1>1. 0 \in P
  <2>1. ASSUME NEW T \in SUBSET (0 .. 0), T # {}
        PROVE  \E x \in T : \A y \in T : x >= y
    <3>1. PICK x \in T : TRUE
      BY <2>1
    <3>2. \A y \in T : y = 0
      OBVIOUS
    <3> QED
      BY <3>1, <3>2
  <2>2. 0 \in 0 .. N
    OBVIOUS
  <2>3. \A T \in SUBSET (0 .. 0) : T # {} => \E x \in T : \A y \in T : x >= y
    BY <2>1
  <2> QED
    BY <2>2, <2>3, Zenon
<1>2. ASSUME NEW n \in 0 .. N - 1, n \in P PROVE n + 1 \in P
  <2>1. ASSUME NEW T \in SUBSET (0 .. n + 1), T # {}
        PROVE  \E x \in T : \A y \in T : x >= y
    <3>1. CASE n + 1 \in T
      <4>1. \A y \in T : n + 1 >= y
        OBVIOUS
      <4> QED
        BY <3>1, <4>1
    <3>2. CASE n + 1 \notin T
      <4>1. T \in SUBSET (0 .. n)
        BY <3>2
      <4> QED
        BY <1>2, <2>1, <4>1
    <3> QED
      BY <3>1, <3>2
  <2>2. n + 1 \in 0 .. N
    OBVIOUS
  <2> QED
    BY <2>1, <2>2
<1> HIDE DEF P
<1>3. N \in P
  <2>1. \A n \in 0 .. N : n \in P
    BY <1>1, <1>2, UpTo
  <2> QED
    BY <2>1
<1>4. \E x \in S : \A y \in S : x >= y
  BY <1>3 DEF P
<1> QED
  BY <1>4 DEF Max

\* Division leaves a remainder.
LEMMA Remainders ==
    ASSUME NEW v \in Nat, NEW s \in Nat \ {0}
    PROVE  \E q, r \in Nat :
              /\ v \div s = q /\ v % s = r /\ r < s /\ v = q * s + r
              /\ q * s <= v /\ v < (q + 1) * s
<1>1. PICK q \in Nat, r \in Nat : r < s /\ v = q * s + r /\ v \div s = q /\ v % s = r
  OBVIOUS
<1>2. (q + 1) * s = q * s + s /\ r >= 0 /\ q * s \in Int
  OBVIOUS
<1>3. q * s <= v /\ v < (q + 1) * s
  BY <1>1, <1>2
<1> QED
  BY <1>1, <1>3, Zenon

\* A smaller quotient ends earlier.
LEMMA Blocks ==
    ASSUME NEW v \in Nat, NEW k \in Nat, NEW s \in Nat \ {0}
    PROVE  /\ v < k * s <=> v \div s < k
           /\ v < k * s => (v \div s + 1) * s <= k * s
           /\ (k * s) \div s = k
<1>1. PICK q \in Nat : q = v \div s /\ q * s <= v /\ v < (q + 1) * s
  BY Remainders
<1>2. ASSUME q < k PROVE (q + 1) * s <= k * s
  <2>1. PICK d \in Nat : k = (q + 1) + d
    <3>1. k - (q + 1) \in Nat /\ k = (q + 1) + (k - (q + 1))
      BY <1>2
    <3> QED
      BY <3>1
  <2>2. ((q + 1) + d) * s = (q + 1) * s + d * s /\ d * s >= 0
    OBVIOUS
  <2> QED
    BY <2>1, <2>2
<1>3. ASSUME k <= q PROVE k * s <= q * s
  <2>1. PICK d \in Nat : q = k + d
    <3>1. q - k \in Nat /\ q = k + (q - k)
      BY <1>3
    <3> QED
      BY <3>1
  <2>2. (k + d) * s = k * s + d * s /\ d * s >= 0
    OBVIOUS
  <2> QED
    BY <2>1, <2>2
<1>4. (k * s) \div s = k
  OBVIOUS
<1>5. q * s \in Nat /\ (q + 1) * s \in Nat /\ k * s \in Nat
  OBVIOUS
<1> QED
  BY <1>1, <1>2, <1>3, <1>4, <1>5

\* Where a quotient is.
LEMMA Quotient ==
    ASSUME NEW v \in Int, NEW q \in Int, NEW s \in Nat \ {0}, q * s <= v, v < q * s + s
    PROVE  v \div s = q /\ v % s = v - q * s
OBVIOUS

LEMMA SmallRest ==
    ASSUME NEW v \in Nat, NEW s \in Nat \ {0}, v < s
    PROVE  v % s = v
<1>1. PICK z \in Int : z = 0
  OBVIOUS
<1>2. z * s = 0
  BY <1>1
<1>3. v \in Int /\ z * s <= v /\ v < z * s + s
  BY <1>2
<1>4. v % s = v - z * s
  BY <1>3, Quotient
<1> QED
  BY <1>2, <1>4

\* Going on within the block, or to its end.
LEMMA RestsOn ==
    ASSUME NEW e \in Nat, NEW s \in Nat \ {0}, NEW c \in Nat, e % s = c,
           NEW k \in Nat, c + k <= s
    PROVE  (e + k) % s = (c + k) % s
<1>1. PICK q \in Nat, r \in Nat : /\ e \div s = q /\ e % s = r /\ r < s
                                 /\ e = q * s + r
                                 /\ q * s <= e /\ e < (q + 1) * s
  BY Remainders, Zenon
<1>2. PICK w \in Nat : w = q * s
  OBVIOUS
<1>3. e = w + c /\ c < s
  BY <1>1, <1>2
<1>4. PICK x \in Nat : x = e + k
  OBVIOUS
<1>5. CASE c + k < s
  <2>1. w <= x /\ x < w + s /\ x - w = c + k
    BY <1>3, <1>4, <1>5
  <2>2. q * s <= x /\ x < q * s + s
    BY <1>2, <2>1
  <2>3. x % s = x - q * s
    <3>1. x \in Int /\ q \in Int /\ s \in Nat \ {0}
      OBVIOUS
    <3> QED
      BY <2>2, <3>1, Quotient
  <2>4. x % s = c + k
    BY <1>2, <2>1, <2>3
  <2>5. (c + k) % s = c + k
    <3>1. c + k \in Nat
      OBVIOUS
    <3> QED
      BY <1>5, <3>1, SmallRest
  <2> QED
    BY <1>4, <2>4, <2>5
<1>6. CASE c + k = s
  <2>1. PICK p \in Nat, u \in Nat : p = q + 1 /\ u = p * s
    OBVIOUS
  <2>2. u = w + s
    <3>1. (q + 1) * s = q * s + s
      OBVIOUS
    <3> QED
      BY <1>2, <2>1, <3>1
  <2>3. x = u
    BY <1>3, <1>4, <1>6, <2>2
  <2>4. p * s <= x /\ x < p * s + s
    BY <2>1, <2>3
  <2>5. x % s = x - p * s
    <3>1. x \in Int /\ p \in Int /\ s \in Nat \ {0}
      OBVIOUS
    <3> QED
      BY <2>4, <3>1, Quotient
  <2>6. x % s = 0
    BY <2>1, <2>3, <2>5
  <2>7. s % s = 0
    OBVIOUS
  <2> QED
    BY <1>4, <1>6, <2>6, <2>7
<1> QED
  BY <1>5, <1>6


\* What E makes at a place looks at the later places only.
LooksAhead(E, L, X) ==
    \A i \in 1 .. L : \A g, h \in [1 .. L -> X] :
        (\A j \in i + 1 .. L : g[j] = h[j]) => E[i][g] = E[i][h]

\* f is, at each place, what E makes of f at the later ones.
FoldsBack(f, E, L, X) == f \in [1 .. L -> X] /\ \A i \in 1 .. L : f[i] = E[i][f]

\* A function of the numbers up to L whose value at each is made, by E, of its
\* values at the later ones.
LEMMA BackwardExists ==
    ASSUME NEW X, NEW L \in Nat, NEW x \in X,
           NEW E \in [1 .. L -> [[1 .. L -> X] -> X]], LooksAhead(E, L, X)
    PROVE  \E f : FoldsBack(f, E, L, X)
<1>0. \A i \in 1 .. L : \A g, h \in [1 .. L -> X] :
         (\A j \in i + 1 .. L : g[j] = h[j]) => E[i][g] = E[i][h]
  BY DEF LooksAhead
<1> DEFINE F == [1 .. L -> X]
<1>1. PICK b : b = [i \in 1 .. L |-> x]
  OBVIOUS
<1>2. b \in F
  BY <1>1
<1>3. PICK h : h = [n \in 1 .. L |-> [g \in F |->
                      [j \in 1 .. L |-> IF j = (L - n) + 1 THEN E[j][g] ELSE g[j]]]]
  OBVIOUS
<1>4. h \in [1 .. L -> [F -> F]]
  <2>1. ASSUME NEW n \in 1 .. L, NEW g \in F
        PROVE  [j \in 1 .. L |-> IF j = (L - n) + 1 THEN E[j][g] ELSE g[j]] \in F
    <3>1. \A j \in 1 .. L : E[j][g] \in X /\ g[j] \in X
      OBVIOUS
    <3> QED
      BY <3>1
  <2> QED
    BY <1>3, <2>1
<1>5. PICK f : Folds(f, h, b, L, F)
  <2> HIDE DEF F
  <2> QED
    BY <1>2, <1>4, FoldExists
<1>6. f \in [0 .. L -> F]
  BY <1>5 DEF Folds
<1>7. ASSUME NEW n \in 1 .. L
      PROVE  /\ f[n] \in F /\ f[n - 1] \in F
             /\ \A j \in 1 .. L : f[n][j] = IF j = (L - n) + 1 THEN E[j][f[n - 1]] ELSE f[n - 1][j]
  <2>1. n - 1 \in 0 .. L /\ n \in 0 .. L /\ f[n] = h[n][f[n - 1]]
    BY <1>5 DEF Folds
  <2>2. f[n - 1] \in F /\ f[n] \in F
    BY <1>6, <2>1
  <2>3. f[n] = [j \in 1 .. L |-> IF j = (L - n) + 1 THEN E[j][f[n - 1]] ELSE f[n - 1][j]]
    BY <1>3, <2>1, <2>2
  <2> QED
    BY <2>2, <2>3
<1> DEFINE S == {n \in 0 .. L : \A i \in (L - n) + 1 .. L : f[n][i] = E[i][f[n]]}
<1>8. 0 \in S
  OBVIOUS
<1>9. ASSUME NEW n \in 0 .. L - 1, n \in S PROVE n + 1 \in S
  <2>1. PICK m \in 1 .. L : m = n + 1 /\ m - 1 = n /\ m \in 0 .. L
    OBVIOUS
  <2>2. PICK k \in 1 .. L : k = (L - m) + 1 /\ k = L - n
    BY <2>1
  <2>3. PICK u \in F, v \in F : u = f[n] /\ v = f[m]
    BY <1>7, <2>1
  <2>4. \A j \in 1 .. L : v[j] = IF j = k THEN E[j][u] ELSE u[j]
    BY <1>7, <2>1, <2>2, <2>3
  <2>5. \A i \in k + 1 .. L : u[i] = E[i][u]
    BY <1>9, <2>2, <2>3
  <2>6. \A i \in k .. L : \A j \in i + 1 .. L : j \in 1 .. L /\ u[j] = v[j]
    BY <2>4
  <2>7. ASSUME NEW i \in k .. L PROVE i \in 1 .. L /\ E[i][u] = E[i][v]
    <3>1. i \in 1 .. L
      OBVIOUS
    <3>2. u \in [1 .. L -> X] /\ v \in [1 .. L -> X] /\ \A j \in i + 1 .. L : u[j] = v[j]
      BY <2>3, <2>6
    <3> QED
      BY <1>0, <3>1, <3>2
  <2>8. ASSUME NEW i \in k .. L PROVE v[i] = E[i][v]
    <3>1. i = k \/ i \in k + 1 .. L
      OBVIOUS
    <3> QED
      BY <2>4, <2>5, <2>7, <3>1
  <2>9. m \in S
    BY <2>1, <2>2, <2>3, <2>8
  <2> QED
    BY <2>1, <2>9
<1> HIDE DEF S, F
<1>10. \A n \in 0 .. L : n \in S
  BY <1>8, <1>9, UpTo
<1>11. L \in 0 .. L /\ (L - L) + 1 = 1
  OBVIOUS
<1>12. \A i \in 1 .. L : f[L][i] = E[i][f[L]]
  BY <1>10, <1>11 DEF S
<1>13. f[L] \in F
  BY <1>6, <1>11
<1> QED
  BY <1>12, <1>13 DEF F, FoldsBack

\* What holds of L, and of each number when it holds of the later ones, holds of all.
LEMMA DownFrom ==
    ASSUME NEW L \in Nat, NEW S,
           \A i \in 1 .. L : (\A j \in i + 1 .. L : j \in S) => i \in S
    PROVE  \A i \in 1 .. L : i \in S
<1> DEFINE T == {n \in 0 .. L : \A j \in (L - n) + 1 .. L : j \in S}
<1>1. 0 \in T
  OBVIOUS
<1>2. ASSUME NEW n \in 0 .. L - 1, n \in T PROVE n + 1 \in T
  <2>1. PICK k \in 1 .. L : k = L - n /\ k = (L - (n + 1)) + 1
    OBVIOUS
  <2>2. \A j \in k + 1 .. L : j \in S
    BY <1>2, <2>1
  <2>3. k \in S
    BY <2>2
  <2>4. \A j \in k .. L : j = k \/ j \in k + 1 .. L
    OBVIOUS
  <2> QED
    BY <2>1, <2>2, <2>3, <2>4
<1> HIDE DEF T
<1>3. \A n \in 0 .. L : n \in T
  BY <1>1, <1>2, UpTo
<1>4. L \in T
  BY <1>3
<1> QED
  BY <1>4 DEF T

\* What E makes at a number looks at the smaller ones only.
LooksBack(E, L, X) ==
    \A i \in 0 .. L : \A g, h \in [0 .. L -> X] :
        (\A j \in 0 .. i - 1 : g[j] = h[j]) => E[i][g] = E[i][h]

\* f is, at each number, what E makes of f at the smaller ones.
FoldsOn(f, E, L, X) == f \in [0 .. L -> X] /\ \A i \in 0 .. L : f[i] = E[i][f]

\* A function of the numbers up to L whose value at each is made, by E, of its
\* values at the smaller ones.
LEMMA ForwardExists ==
    ASSUME NEW X, NEW L \in Nat, NEW x \in X,
           NEW E \in [0 .. L -> [[0 .. L -> X] -> X]], LooksBack(E, L, X)
    PROVE  \E f : FoldsOn(f, E, L, X)
<1>0. \A i \in 0 .. L : \A g, h \in [0 .. L -> X] :
         (\A j \in 0 .. i - 1 : g[j] = h[j]) => E[i][g] = E[i][h]
  BY DEF LooksBack
<1> DEFINE F == [0 .. L -> X]
<1>1. PICK b : b = [i \in 0 .. L |-> x]
  OBVIOUS
<1>2. b \in F
  BY <1>1
<1>3. PICK h : h = [n \in 1 .. L + 1 |-> [g \in F |->
                      [j \in 0 .. L |-> IF j = n - 1 THEN E[j][g] ELSE g[j]]]]
  OBVIOUS
<1>4. h \in [1 .. L + 1 -> [F -> F]] /\ L + 1 \in Nat
  <2>1. ASSUME NEW n \in 1 .. L + 1, NEW g \in F
        PROVE  [j \in 0 .. L |-> IF j = n - 1 THEN E[j][g] ELSE g[j]] \in F
    <3>1. \A j \in 0 .. L : E[j][g] \in X /\ g[j] \in X
      OBVIOUS
    <3> QED
      BY <3>1
  <2> QED
    BY <1>3, <2>1
<1>5. PICK f : Folds(f, h, b, L + 1, F)
  <2> HIDE DEF F
  <2> QED
    BY <1>2, <1>4, FoldExists
<1>6. f \in [0 .. L + 1 -> F]
  BY <1>5 DEF Folds
<1>7. ASSUME NEW n \in 1 .. L + 1
      PROVE  /\ f[n] \in F /\ f[n - 1] \in F
             /\ \A j \in 0 .. L : f[n][j] = IF j = n - 1 THEN E[j][f[n - 1]] ELSE f[n - 1][j]
  <2>1. n - 1 \in 0 .. L + 1 /\ n \in 0 .. L + 1 /\ f[n] = h[n][f[n - 1]]
    BY <1>5 DEF Folds
  <2>2. f[n - 1] \in F /\ f[n] \in F
    BY <1>6, <2>1
  <2>3. f[n] = [j \in 0 .. L |-> IF j = n - 1 THEN E[j][f[n - 1]] ELSE f[n - 1][j]]
    BY <1>3, <2>1, <2>2
  <2> QED
    BY <2>2, <2>3
<1> DEFINE S == {n \in 0 .. L + 1 : \A i \in 0 .. n - 1 : f[n][i] = E[i][f[n]]}
<1>8. 0 \in S
  OBVIOUS
<1>9. ASSUME NEW n \in 0 .. (L + 1) - 1, n \in S PROVE n + 1 \in S
  <2>1. PICK m \in 1 .. L + 1 : m = n + 1 /\ m - 1 = n /\ m \in 0 .. L + 1 /\ n \in 0 .. L
    OBVIOUS
  <2>3. PICK u \in F, v \in F : u = f[n] /\ v = f[m]
    BY <1>7, <2>1
  <2>4. \A j \in 0 .. L : v[j] = IF j = n THEN E[j][u] ELSE u[j]
    BY <1>7, <2>1, <2>3
  <2>5. \A i \in 0 .. n - 1 : u[i] = E[i][u]
    BY <1>9, <2>3
  <2>6. \A i \in 0 .. n : \A j \in 0 .. i - 1 : j \in 0 .. L /\ u[j] = v[j]
    BY <2>1, <2>4
  <2>7. ASSUME NEW i \in 0 .. n PROVE i \in 0 .. L /\ E[i][u] = E[i][v]
    <3>1. i \in 0 .. L
      BY <2>1
    <3>2. u \in [0 .. L -> X] /\ v \in [0 .. L -> X] /\ \A j \in 0 .. i - 1 : u[j] = v[j]
      BY <2>3, <2>6
    <3> QED
      BY <1>0, <3>1, <3>2
  <2>8. ASSUME NEW i \in 0 .. n PROVE v[i] = E[i][v]
    <3>1. i = n \/ i \in 0 .. n - 1
      OBVIOUS
    <3> QED
      BY <2>4, <2>5, <2>7, <3>1
  <2>9. m \in S
    BY <2>1, <2>3, <2>8
  <2> QED
    BY <2>1, <2>9
<1> HIDE DEF S, F
<1>10. \A n \in 0 .. L + 1 : n \in S
  BY <1>4, <1>8, <1>9, UpTo
<1>11. L + 1 \in 0 .. L + 1 /\ (L + 1) - 1 = L
  OBVIOUS
<1>12. \A i \in 0 .. L : f[L + 1][i] = E[i][f[L + 1]]
  BY <1>10, <1>11 DEF S
<1>13. f[L + 1] \in F
  BY <1>6, <1>11
<1> QED
  BY <1>12, <1>13 DEF F, FoldsOn

\* What holds of a number when it holds of the smaller ones holds of all.
LEMMA FromBelow ==
    ASSUME NEW L \in Nat, NEW S,
           \A i \in 0 .. L : (\A j \in 0 .. i - 1 : j \in S) => i \in S
    PROVE  \A i \in 0 .. L : i \in S
<1> DEFINE T == {n \in 0 .. L : \A j \in 0 .. n : j \in S}
<1>1. 0 \in T
  OBVIOUS
<1>2. ASSUME NEW n \in 0 .. L - 1, n \in T PROVE n + 1 \in T
  <2>1. n + 1 \in 0 .. L /\ \A j \in 0 .. n + 1 : j = n + 1 \/ j \in 0 .. n
    OBVIOUS
  <2>2. \A j \in 0 .. (n + 1) - 1 : j \in S
    BY <1>2
  <2>3. n + 1 \in S
    BY <2>1, <2>2
  <2> QED
    BY <1>2, <2>1, <2>3
<1> HIDE DEF T
<1>3. \A n \in 0 .. L : n \in T
  BY <1>1, <1>2, UpTo
<1> QED
  BY <1>3 DEF T

-----------------------------------------------------------------------------
(* Least elements, and sequences put together.                             *)

\* The least element of a set of numbers is what Min gives.
LEMMA MinIs ==
    ASSUME NEW S \in SUBSET Int, NEW k \in S, \A y \in S : k <= y
    PROVE  Min(S) = k
<1>1. PICK x : x = CHOOSE z \in S : \A y \in S : z <= y
  OBVIOUS
<1>2. x \in S /\ \A y \in S : x <= y
  BY <1>1
<1>3. x \in Int /\ k \in Int /\ x <= k /\ k <= x
  BY <1>2
<1> QED
  BY <1>1, <1>3 DEF Min

\* A set of numbers from i to L has a least one.
LEMMA MinIn ==
    ASSUME NEW i \in Nat, NEW L \in Nat, NEW S \in SUBSET (i .. L), S # {}
    PROVE  Min(S) \in S /\ \A y \in S : Min(S) <= y
<1>1. PICK k : k \in S /\ \A y \in S : k <= y
  <2>1. ASSUME \A k \in S : \E y \in S : y < k PROVE FALSE
    <3>1. PICK T : T = {n \in Nat : \A y \in S : n <= y}
      OBVIOUS
    <3>2. 0 \in T
      BY <3>1
    <3>3. ASSUME NEW n \in Nat, n \in T PROVE n + 1 \in T
      <4>1. n \notin S
        BY <2>1, <3>1, <3>3
      <4> QED
        BY <3>1, <3>3, <4>1
    <3>4. \A n \in Nat : n \in T
      BY <3>2, <3>3, NumbersOf
    <3>5. L + 1 \in T
      BY <3>4
    <3>6. PICK y \in S : y \in i .. L
      OBVIOUS
    <3>7. L + 1 <= y
      BY <3>1, <3>5
    <3> QED
      BY <3>6, <3>7
  <2> QED
    BY <2>1
<1>2. Min(S) = k
  BY <1>1, MinIs
<1> QED
  BY <1>1, <1>2

\* Three sequences are put together in either order.
LEMMA Regrouped == \A C : \A x, y, z \in Seq(C) : x \o (y \o z) = (x \o y) \o z
  BY SMTT(30), ConcatAssociative

=============================================================================
