-------------------------- MODULE PageTableProofs ---------------------------
(***************************************************************************)
(* Theorems about the page table iterators, for tables of every width and   *)
(* depth, any number of iterators, of tables to hand out, of frames and of  *)
(* permissions.                                                             *)
(*                                                                         *)
(* The tables in use form a tree: each has a level, and a part of the       *)
(* address space it covers.  That map() hangs the table it makes below the  *)
(* place of its iterator, and that each iterator's place is the entry for   *)
(* its address in a table that covers it, is what makes the cached places   *)
(* right, and what lets the ptiter tell the tables it is past.              *)
(***************************************************************************)
EXTENDS PageTable, WellFoundedInduction, TLAPS

-----------------------------------------------------------------------------
(* What is defined by iteration.                                           *)

\* A set that has 0 and, with each number, the next, has them all.
LEMMA NumbersOf ==
    ASSUME NEW S, 0 \in S, \A n \in Nat : n \in S => n + 1 \in S
    PROVE  \A n \in Nat : n \in S
<1> SUFFICES ASSUME Nat \ S # {} PROVE FALSE
  OBVIOUS
<1>1. PICK R : R = OpToRel(<, Nat)
  OBVIOUS
<1>2. PICK x \in Nat \ S : \A y \in Nat \ S : ~(<<y, x>> \in R)
  <2>1. IsWellFoundedOn(R, Nat)
    BY <1>1, NatLessThanWellFounded
  <2> QED
    BY <2>1, WFMin, Zenon
<1>3. x \in Nat /\ x \notin S /\ x # 0
  BY <1>2
<1>4. x - 1 \in Nat /\ x - 1 < x /\ x = (x - 1) + 1
  BY <1>3
<1>5. x - 1 \in Nat \ S
  BY <1>3, <1>4
<1>6. <<x - 1, x>> \in R
  BY <1>1, <1>3, <1>4 DEF OpToRel
<1> QED
  BY <1>2, <1>5, <1>6

\* The iterates of s from x.
Iterates(f, s, x, N, X) ==
    f \in [0 .. N -> X] /\ f[0] = x /\ \A n \in 1 .. N : f[n] = s[f[n - 1]]

\* A function of a set to itself can be iterated.
LEMMA IterationExists ==
    ASSUME NEW X, NEW s, NEW x, NEW N, s \in [X -> X], x \in X, N \in Nat
    PROVE  \E f : Iterates(f, s, x, N, X)
<1> DEFINE S == {k \in Nat : \E f \in [0 .. k -> X] :
                    f[0] = x /\ \A n \in 1 .. k : f[n] = s[f[n - 1]]}
<1>1. 0 \in S
  <2>1. PICK f : f = [n \in 0 .. 0 |-> x]
    OBVIOUS
  <2>2. f \in [0 .. 0 -> X] /\ f[0] = x /\ 1 .. 0 = {}
    BY <2>1
  <2> QED
    BY <2>2
<1>2. ASSUME NEW k \in Nat, k \in S
      PROVE  k + 1 \in S
  <2>1. PICK f \in [0 .. k -> X] : f[0] = x /\ \A n \in 1 .. k : f[n] = s[f[n - 1]]
    BY <1>2
  <2>2. PICK g : g = [n \in 0 .. k + 1 |-> IF n = k + 1 THEN s[f[k]] ELSE f[n]]
    OBVIOUS
  <2>3. k \in 0 .. k /\ f[k] \in X /\ s[f[k]] \in X
    BY <2>1
  <2>4. g \in [0 .. k + 1 -> X] /\ g[0] = x
    BY <2>1, <2>2, <2>3
  <2>5. ASSUME NEW n \in 1 .. k + 1
        PROVE  g[n] = s[g[n - 1]]
    <3>1. n - 1 \in 0 .. k /\ g[n - 1] = f[n - 1]
      BY <2>2
    <3>2. n # k + 1 => n \in 1 .. k /\ g[n] = f[n]
      BY <2>2
    <3>3. n = k + 1 => g[n] = s[f[k]] /\ n - 1 = k
      BY <2>2
    <3> QED
      BY <2>1, <3>1, <3>2, <3>3
  <2> QED
    BY <2>4, <2>5
<1> HIDE DEF S
<1>3. N \in S
  BY <1>1, <1>2, NumbersOf
<1> QED
  BY <1>3 DEF S, Iterates

\* The product of positive numbers is one.
LEMMA Products ==
    ASSUME NEW i \in Nat \ {0}, NEW j \in Nat \ {0}
    PROVE  i * j \in Nat \ {0}
OBVIOUS

\* The number of pages below an entry of each level.
LEMMA SpansAre ==
    /\ Span(0) = 1
    /\ \A l \in 0 .. Top + 2 : Span(l) \in Nat \ {0}
    /\ \A l \in 0 .. Top + 1 : Span(l + 1) = Fan * Span(l)
<1>1. PICK s : s = [v \in Nat \ {0} |-> Fan * v]
  OBVIOUS
<1>2. Top \in Nat \ {0} /\ Fan \in Nat \ {0, 1} /\ Top + 2 \in Nat
  BY PageTableAssumption
<1>3. s \in [Nat \ {0} -> Nat \ {0}]
  BY <1>1, <1>2
<1>4. PICK f \in [0 .. Top + 2 -> Nat \ {0}] :
          f[0] = 1 /\ \A n \in 1 .. Top + 2 : f[n] = s[f[n - 1]]
  <2>1. PICK X, N, x : X = Nat \ {0} /\ N = Top + 2 /\ x = 1
    OBVIOUS
  <2>2. s \in [X -> X] /\ x \in X /\ N \in Nat
    BY <1>2, <1>3, <2>1
  <2>3. PICK f : Iterates(f, s, x, N, X)
    BY <2>2, IterationExists
  <2> QED
    BY <2>1, <2>3 DEF Iterates
<1>5. f = [n \in 0 .. Top + 2 |-> IF n = 0 THEN 1 ELSE Fan * f[n - 1]]
  <2>1. ASSUME NEW n \in 0 .. Top + 2
        PROVE  f[n] = IF n = 0 THEN 1 ELSE Fan * f[n - 1]
    <3>1. n # 0 => n \in 1 .. Top + 2 /\ n - 1 \in 0 .. Top + 2
      BY <1>2
    <3>2. n # 0 => f[n - 1] \in Nat \ {0} /\ f[n] = s[f[n - 1]]
      BY <1>4, <3>1
    <3> QED
      BY <1>1, <1>4, <3>2
  <2> QED
    BY <1>4, <2>1
<1>6. Spans = [level \in 0 .. Top + 2 |-> IF level = 0 THEN 1 ELSE Fan * Spans[level - 1]]
  BY <1>5 DEF Spans
<1>7. Spans[0] = 1 /\ \A l \in 0 .. Top + 1 : Spans[l + 1] = Fan * Spans[l]
  <2>1. \A l \in 0 .. Top + 1 : l + 1 \in 0 .. Top + 2 /\ l + 1 # 0 /\ l + 1 - 1 = l
    BY <1>2
  <2> QED
    BY <1>2, <1>6, <2>1
<1> DEFINE S == {l \in Nat : l <= Top + 2 => Spans[l] \in Nat \ {0}}
<1>8. 0 \in S
  BY <1>7
<1>9. ASSUME NEW l \in Nat, l \in S PROVE l + 1 \in S
  <2>1. CASE l + 1 <= Top + 2
    <3>1. l \in 0 .. Top + 1 /\ Spans[l] \in Nat \ {0}
      BY <1>2, <1>9, <2>1
    <3>2. Spans[l + 1] = Fan * Spans[l]
      BY <1>7, <3>1
    <3>3. Fan * Spans[l] \in Nat \ {0}
      BY <1>2, <3>1, Products
    <3> QED
      BY <3>2, <3>3
  <2> QED
    BY <2>1
<1> HIDE DEF S
<1>10. \A l \in Nat : l \in S
  BY <1>8, <1>9, NumbersOf
<1>11. ASSUME NEW l \in 0 .. Top + 2 PROVE Spans[l] \in Nat \ {0}
  <2>1. l \in S /\ l <= Top + 2
    BY <1>2, <1>10
  <2> QED
    BY <2>1 DEF S
<1> QED
  BY <1>7, <1>11 DEF Span

-----------------------------------------------------------------------------
(* The way down.                                                           *)

\* The steps down a table stay among the places X, a level at a time.
Closed(m, X) ==
    \A y \in X : /\ y.level \in 0 .. Top /\ Descend(m, y) \in X
                 /\ Descend(m, y) = y \/ Descend(m, y).level = y.level - 1

\* The turns of the loop.
Turns(f, m, x, X) ==
    f \in [0 .. Top -> X] /\ f[0] = x /\ \A n \in 1 .. Top : f[n] = Descend(m, f[n - 1])

\* Down() is where the turns end.
LEMMA DownIs ==
    ASSUME NEW m, NEW X, Closed(m, X), NEW x \in X
    PROVE  \E f : Turns(f, m, x, X) /\ Down(m, x) = f[Top]
<1>1. PICK s : s = [y \in X |-> Descend(m, y)]
  OBVIOUS
<1>2. s \in [X -> X] /\ Top \in Nat
  BY <1>1, PageTableAssumption DEF Closed
<1>3. PICK f : Iterates(f, s, x, Top, X)
  BY <1>2, IterationExists
<1>4. f \in [0 .. Top -> X] /\ f[0] = x
  BY <1>3 DEF Iterates
<1>5. ASSUME NEW n \in 1 .. Top PROVE f[n] = Descend(m, f[n - 1])
  <2>1. n - 1 \in 0 .. Top /\ f[n] = s[f[n - 1]]
    BY <1>2, <1>3 DEF Iterates
  <2>2. f[n - 1] \in X
    BY <1>4, <2>1
  <2> QED
    BY <1>1, <2>1, <2>2
<1>6. f = [n \in 0 .. Top |-> IF n = 0 THEN x ELSE Descend(m, f[n - 1])]
  <2>1. ASSUME NEW n \in 0 .. Top
        PROVE  f[n] = IF n = 0 THEN x ELSE Descend(m, f[n - 1])
    <3>1. n # 0 => n \in 1 .. Top
      BY <1>2
    <3> QED
      BY <1>4, <1>5, <3>1
  <2> QED
    BY <1>4, <2>1
<1>7. PICK g : /\ g = CHOOSE after :
                        after = [n \in 0 .. Top |-> IF n = 0 THEN x ELSE Descend(m, after[n - 1])]
               /\ Down(m, x) = g[Top]
  BY DEF Down
<1>8. g = [n \in 0 .. Top |-> IF n = 0 THEN x ELSE Descend(m, g[n - 1])]
  BY <1>6, <1>7
<1>11. ASSUME NEW j \in 0 .. Top, NEW k, j = k + 1, k \in Nat
       PROVE  g[j] = Descend(m, g[k])
  <2>1. j # 0 /\ j - 1 = k
    BY <1>11
  <2>2. g[j] = IF j = 0 THEN x ELSE Descend(m, g[j - 1])
    BY <1>8, Zenon
  <2> QED
    BY <2>1, <2>2
<1>9. ASSUME NEW n \in 0 .. Top PROVE g[n] = f[n]
  <2> DEFINE S == {k \in Nat : k <= Top => g[k] = f[k]}
  <2>1. 0 \in S
    <3>1. 0 \in 0 .. Top
      BY <1>2
    <3>2. g[0] = x
      BY <1>8, <3>1
    <3> QED
      BY <1>4, <3>2
  <2>2. ASSUME NEW k \in Nat, k \in S PROVE k + 1 \in S
    <3>1. CASE k + 1 <= Top
      <4>1. k + 1 \in 0 .. Top /\ k + 1 \in 1 .. Top /\ k + 1 # 0 /\ k + 1 - 1 = k /\ g[k] = f[k]
        BY <1>2, <2>2, <3>1
      <4>2. f[k + 1] = Descend(m, f[k])
        BY <1>5, <4>1
      <4>3. g[k + 1] = Descend(m, g[k])
        BY <1>11, <4>1
      <4> QED
        BY <4>1, <4>2, <4>3
    <3> QED
      BY <3>1
  <2> HIDE DEF S
  <2>3. n \in Nat /\ n <= Top
    BY <1>2
  <2>4. n \in S
    BY <2>1, <2>2, <2>3, NumbersOf
  <2> QED
    BY <2>3, <2>4 DEF S
<1>10. Top \in 0 .. Top
  BY <1>2
<1> QED
  BY <1>4, <1>5, <1>7, <1>9, <1>10 DEF Turns

\* What every step preserves holds below.
LEMMA DownKeeps ==
    ASSUME NEW m, NEW X, Closed(m, X), NEW x \in X, NEW S, x \in S,
           \A y \in X : y \in S => Descend(m, y) \in S
    PROVE  Down(m, x) \in X /\ Down(m, x) \in S
<1>1. PICK f : Turns(f, m, x, X) /\ Down(m, x) = f[Top]
  BY DownIs
<1>2. Top \in Nat
  BY PageTableAssumption
<1> DEFINE T == {k \in Nat : k <= Top => f[k] \in S}
<1>3. 0 \in T
  BY <1>1 DEF Turns
<1>4. ASSUME NEW k \in Nat, k \in T PROVE k + 1 \in T
  <2>1. CASE k + 1 <= Top
    <3>1. k + 1 \in 1 .. Top /\ k \in 0 .. Top /\ k + 1 - 1 = k /\ f[k] \in S
      BY <1>2, <1>4, <2>1
    <3>2. f[k] \in X /\ f[k + 1] = Descend(m, f[k])
      BY <1>1, <3>1 DEF Turns
    <3> QED
      BY <3>1, <3>2
  <2> QED
    BY <2>1
<1> HIDE DEF T
<1>5. Top \in T
  BY <1>2, <1>3, <1>4, NumbersOf
<1>6. f[Top] \in S
  BY <1>2, <1>5 DEF T
<1>7. Top \in 0 .. Top
  BY <1>2
<1> QED
  BY <1>1, <1>6, <1>7 DEF Turns

\* After Top turns there is no further down.
LEMMA DownRests ==
    ASSUME NEW m, NEW X, Closed(m, X), NEW x \in X
    PROVE  Descend(m, Down(m, x)) = Down(m, x)
<1>1. PICK f : Turns(f, m, x, X) /\ Down(m, x) = f[Top]
  BY DownIs
<1>2. Top \in Nat
  BY PageTableAssumption
<1> DEFINE T == {k \in Nat : k <= Top => f[k].level <= Top - k \/ Descend(m, f[k]) = f[k]}
<1>3. 0 \in T
  <2>1. f[0] = x /\ x.level \in 0 .. Top
    BY <1>1 DEF Turns, Closed
  <2> QED
    BY <1>2, <2>1
<1>4. ASSUME NEW k \in Nat, k \in T PROVE k + 1 \in T
  <2>1. CASE k + 1 <= Top
    <3>1. k + 1 \in 1 .. Top /\ k \in 0 .. Top /\ k + 1 - 1 = k
      BY <1>2, <2>1
    <3>2. f[k] \in X /\ f[k + 1] = Descend(m, f[k])
      BY <1>1, <3>1 DEF Turns
    <3>3. CASE Descend(m, f[k]) = f[k]
      BY <3>2, <3>3
    <3>4. CASE Descend(m, f[k]) # f[k]
      <4>1. f[k].level <= Top - k
        BY <1>4, <3>1, <3>4
      <4>2. f[k + 1].level = f[k].level - 1 /\ f[k].level \in 0 .. Top
        BY <3>2, <3>4 DEF Closed
      <4>3. f[k + 1].level <= Top - (k + 1)
        BY <1>2, <4>1, <4>2
      <4> QED
        BY <4>3
    <3> QED
      BY <3>3, <3>4
  <2> QED
    BY <2>1
<1> HIDE DEF T
<1>5. Top \in T
  BY <1>2, <1>3, <1>4, NumbersOf
<1>6. f[Top].level <= Top - Top \/ Descend(m, f[Top]) = f[Top]
  BY <1>2, <1>5 DEF T
<1>7. f[Top] \in X /\ f[Top].level \in 0 .. Top
  <2>1. Top \in 0 .. Top
    BY <1>2
  <2> QED
    BY <1>1, <2>1 DEF Turns, Closed
<1>8. f[Top].level = 0 \/ Descend(m, f[Top]) = f[Top]
  BY <1>2, <1>6, <1>7
<1>9. f[Top].level = 0 => Descend(m, f[Top]) = f[Top]
  BY DEF Descend
<1> QED
  BY <1>1, <1>8, <1>9

\* A step down first makes no difference.
LEMMA DownStep ==
    ASSUME NEW m, NEW X, Closed(m, X), NEW x \in X
    PROVE  Descend(m, x) \in X /\ Down(m, Descend(m, x)) = Down(m, x)
<1>1. PICK f : Turns(f, m, x, X) /\ Down(m, x) = f[Top]
  BY DownIs
<1>2. PICK y : y = Descend(m, x) /\ y \in X
  BY DEF Closed
<1>3. PICK g : Turns(g, m, y, X) /\ Down(m, y) = g[Top]
  BY <1>2, DownIs
<1>4. Top \in Nat \ {0}
  BY PageTableAssumption
<1> DEFINE T == {k \in Nat : k < Top => g[k] = f[k + 1]}
<1>5. 0 \in T
  <2>1. 1 \in 1 .. Top /\ 1 - 1 = 0 /\ 0 + 1 = 1
    BY <1>4
  <2>2. g[0] = y /\ f[0] = x /\ f[1] = Descend(m, f[0])
    BY <1>1, <1>3, <2>1 DEF Turns
  <2> QED
    BY <1>2, <2>2
<1>6. ASSUME NEW k \in Nat, k \in T PROVE k + 1 \in T
  <2>1. CASE k + 1 < Top
    <3>1. k + 1 \in 1 .. Top /\ k + 1 - 1 = k /\ (k + 1) + 1 \in 1 .. Top /\ (k + 1) + 1 - 1 = k + 1
      BY <1>4, <2>1
    <3>2. g[k + 1] = Descend(m, g[k]) /\ f[(k + 1) + 1] = Descend(m, f[k + 1])
      BY <1>1, <1>3, <3>1 DEF Turns
    <3>3. g[k] = f[k + 1]
      BY <1>4, <1>6, <2>1
    <3> QED
      BY <3>2, <3>3
  <2> QED
    BY <2>1
<1> HIDE DEF T
<1>7. PICK k \in Nat : Top = k + 1
  <2>1. Top - 1 \in Nat /\ Top = (Top - 1) + 1
    BY <1>4
  <2> QED
    BY <2>1
<1>8. k \in T
  BY <1>5, <1>6, <1>7, NumbersOf
<1>9. g[k] = f[Top]
  BY <1>7, <1>8 DEF T
<1>10. g[Top] = Descend(m, g[k])
  <2>1. Top \in 1 .. Top /\ Top - 1 = k
    BY <1>4, <1>7
  <2> QED
    BY <1>3, <2>1 DEF Turns
<1> QED
  BY <1>1, <1>2, <1>3, <1>9, <1>10, DownRests

\* From a place with no further down, Down() does not move.
LEMMA DownStays ==
    ASSUME NEW m, NEW X, Closed(m, X), NEW x \in X, Descend(m, x) = x
    PROVE  Down(m, x) = x
<1>1. PICK S : S = {x}
  OBVIOUS
<1>2. Down(m, x) \in S
  BY <1>1, DownKeeps
<1> QED
  BY <1>1, <1>2

-----------------------------------------------------------------------------
(* Addresses.                                                              *)

\* Division leaves a remainder.
LEMMA Remainders ==
    ASSUME NEW v \in Nat, NEW s \in Nat \ {0}
    PROVE  \E q, r \in Nat :
              /\ v \div s = q /\ v % s = r /\ r < s /\ v = q * s + r
              /\ q * s <= v /\ v < (q + 1) * s
<1>1. PICK q \in Nat, r \in Nat : r < s /\ v = q * s + r /\ v \div s = q /\ v % s = r
  OBVIOUS
<1>2. (q + 1) * s = q * s + s /\ r >= 0 /\ q * s \in Int
  OBVIOUS
<1>3. q * s <= v /\ v < (q + 1) * s
  BY <1>1, <1>2
<1> QED
  BY <1>1, <1>3, Zenon

\* Division by a product is division twice.
LEMMA Divisions ==
    ASSUME NEW v \in Nat, NEW s \in Nat \ {0}, NEW f \in Nat \ {0}, NEW t, t = f * s
    PROVE  v \div t = (v \div s) \div f
<1>1. v \div (s * f) = (v \div s) \div f
  OBVIOUS
<1>2. t = s * f
  OBVIOUS
<1> QED
  BY <1>1, <1>2

\* A smaller quotient ends earlier.
LEMMA Blocks ==
    ASSUME NEW v \in Nat, NEW k \in Nat, NEW s \in Nat \ {0}
    PROVE  /\ v < k * s <=> v \div s < k
           /\ v < k * s => (v \div s + 1) * s <= k * s
           /\ (k * s) \div s = k
<1>1. PICK q \in Nat : q = v \div s /\ q * s <= v /\ v < (q + 1) * s
  BY Remainders
<1>2. ASSUME q < k PROVE (q + 1) * s <= k * s
  <2>1. PICK d \in Nat : k = (q + 1) + d
    <3>1. k - (q + 1) \in Nat /\ k = (q + 1) + (k - (q + 1))
      BY <1>2
    <3> QED
      BY <3>1
  <2>2. ((q + 1) + d) * s = (q + 1) * s + d * s /\ d * s >= 0
    OBVIOUS
  <2> QED
    BY <2>1, <2>2
<1>3. ASSUME k <= q PROVE k * s <= q * s
  <2>1. PICK d \in Nat : q = k + d
    <3>1. q - k \in Nat /\ q = k + (q - k)
      BY <1>3
    <3> QED
      BY <3>1
  <2>2. (k + d) * s = k * s + d * s /\ d * s >= 0
    OBVIOUS
  <2> QED
    BY <2>1, <2>2
<1>4. (k * s) \div s = k
  OBVIOUS
<1>5. q * s \in Nat /\ (q + 1) * s \in Nat /\ k * s \in Nat
  OBVIOUS
<1> QED
  BY <1>1, <1>2, <1>3, <1>4, <1>5

\* An address is where its table begins and its index there.
LEMMA Addresses ==
    ASSUME NEW v \in Nat, NEW l \in 0 .. Top + 1
    PROVE  /\ v \div Span(l + 1) = (v \div Span(l)) \div Fan
           /\ v \div Span(l) = (v \div Span(l + 1)) * Fan + PageIndex(v, l)
           /\ PageIndex(v, l) \in Indexes
           /\ v \div Span(l) \in Nat
<1>1. Top \in Nat /\ Fan \in Nat \ {0} /\ l \in 0 .. Top + 2 /\ Span(l) \in Nat \ {0}
      /\ Span(l + 1) = Fan * Span(l)
  BY SpansAre, PageTableAssumption
<1>2. PICK q \in Nat : v \div Span(l) = q
  BY <1>1, Remainders
<1>3. PICK p \in Nat, r \in Nat : /\ q \div Fan = p /\ q % Fan = r /\ r < Fan /\ q = p * Fan + r
                                 /\ p * Fan <= q /\ q < (p + 1) * Fan
  BY <1>1, Remainders, Zenon
<1>4. v \div Span(l + 1) = q \div Fan
  BY <1>1, <1>2, Divisions
<1>5. PageIndex(v, l) = r /\ r \in Indexes
  BY <1>1, <1>2, <1>3 DEF PageIndex, Indexes
<1>6. v \div Span(l + 1) = p
  BY <1>3, <1>4, Zenon
<1>7. q = (v \div Span(l + 1)) * Fan + PageIndex(v, l)
  BY <1>3, <1>5, <1>6
<1>8. PageIndex(v, l) \in Indexes
  BY <1>5
<1> QED
  BY <1>2, <1>4, <1>7, <1>8, Zenon

\* Addresses in one table are in one table of each higher level.
LEMMA SameAbove ==
    ASSUME NEW v \in Nat, NEW w \in Nat, NEW l \in Nat, v \div Span(l) = w \div Span(l)
    PROVE  \A k \in l .. Top + 2 : v \div Span(k) = w \div Span(k)
<1>1. Top \in Nat
  BY PageTableAssumption
<1> DEFINE S == {n \in Nat : l + n <= Top + 2 => v \div Span(l + n) = w \div Span(l + n)}
<1>2. 0 \in S
  <2>1. l + 0 = l
    OBVIOUS
  <2> QED
    BY <2>1
<1>3. ASSUME NEW n \in Nat, n \in S PROVE n + 1 \in S
  <2>1. CASE l + (n + 1) <= Top + 2
    <3>1. l + n \in 0 .. Top + 1 /\ l + n <= Top + 2 /\ l + (n + 1) = (l + n) + 1
      BY <1>1, <2>1
    <3>2. v \div Span(l + n) = w \div Span(l + n)
      BY <1>3, <3>1
    <3>3. v \div Span((l + n) + 1) = (v \div Span(l + n)) \div Fan
      BY <3>1, Addresses
    <3>4. w \div Span((l + n) + 1) = (w \div Span(l + n)) \div Fan
      BY <3>1, Addresses
    <3> QED
      BY <3>1, <3>2, <3>3, <3>4
  <2> QED
    BY <2>1
<1> HIDE DEF S
<1>4. ASSUME NEW k \in l .. Top + 2 PROVE v \div Span(k) = w \div Span(k)
  <2>1. PICK n \in Nat : k = l + n
    <3>1. k - l \in Nat /\ k = l + (k - l)
      BY <1>1
    <3> QED
      BY <3>1
  <2>2. n \in S
    BY <1>2, <1>3, NumbersOf
  <2>3. l + n <= Top + 2
    BY <1>1, <2>1
  <2> QED
    BY <2>1, <2>2, <2>3 DEF S
<1> QED
  BY <1>4

\* The span of a level divides that of a higher one.
LEMMA SpanDivides ==
    ASSUME NEW l \in Nat, NEW k \in l .. Top + 2
    PROVE  \E c \in Nat : Span(k) = c * Span(l)
<1>1. Top \in Nat /\ Fan \in Nat \ {0}
  BY PageTableAssumption
<1> DEFINE S == {n \in Nat : l + n <= Top + 2 => \E c \in Nat : Span(l + n) = c * Span(l)}
<1>2. 0 \in S
  <2>1. l + 0 = l
    OBVIOUS
  <2>2. l <= Top + 2 => Span(l) \in Nat
    BY <1>1, SpansAre
  <2>3. l <= Top + 2 => Span(l) = 1 * Span(l)
    BY <2>2
  <2> QED
    BY <2>1, <2>3
<1>3. ASSUME NEW n \in Nat, n \in S PROVE n + 1 \in S
  <2>1. CASE l + (n + 1) <= Top + 2
    <3>1. l + n \in 0 .. Top + 1 /\ l + n <= Top + 2 /\ l + (n + 1) = (l + n) + 1 /\ l \in 0 .. Top + 2
      BY <1>1, <2>1
    <3>2. PICK c \in Nat : Span(l + n) = c * Span(l)
      BY <1>3, <3>1
    <3>3. Span((l + n) + 1) = Fan * Span(l + n) /\ Span(l) \in Nat
      BY <3>1, SpansAre
    <3>4. Fan * (c * Span(l)) = (Fan * c) * Span(l) /\ Fan * c \in Nat
      BY <1>1, <3>3
    <3> QED
      BY <3>1, <3>2, <3>3, <3>4
  <2> QED
    BY <2>1
<1> HIDE DEF S
<1>4. PICK n \in Nat : k = l + n
  <2>1. k - l \in Nat /\ k = l + (k - l)
    BY <1>1
  <2> QED
    BY <2>1
<1>5. n \in S /\ l + n <= Top + 2
  BY <1>1, <1>2, <1>3, <1>4, NumbersOf
<1> QED
  BY <1>4, <1>5 DEF S

\* What an entry covers ends where the address space does, or before.
LEMMA EndsBeforeLast ==
    ASSUME NEW v \in Nat, v < Last, NEW l \in 0 .. Top + 1
    PROVE  /\ Last \in Nat
           /\ v < (v \div Span(l) + 1) * Span(l) /\ (v \div Span(l) + 1) * Span(l) <= Last
           /\ (v \div Span(l) + 1) * Span(l) \in Nat
           /\ v \div Span(l) # Last \div Span(l)
<1>1. Top \in Nat /\ l \in Nat /\ Top + 1 \in l .. Top + 2 /\ l \in 0 .. Top + 2
  BY PageTableAssumption
<1>2. PICK c \in Nat : Last = c * Span(l)
  BY <1>1, SpanDivides DEF Last
<1>3. Span(l) \in Nat \ {0} /\ Last \in Nat
  BY <1>1, SpansAre DEF Last
<1>4. v \div Span(l) < c /\ (v \div Span(l) + 1) * Span(l) <= Last /\ Last \div Span(l) = c
  BY <1>2, <1>3, Blocks
<1>5. v \div Span(l) \in Nat /\ v < (v \div Span(l) + 1) * Span(l)
  <2>1. PICK q \in Nat : v \div Span(l) = q /\ v < (q + 1) * Span(l)
    BY <1>3, Remainders
  <2> QED
    BY <2>1, Zenon
<1>6. (v \div Span(l) + 1) * Span(l) \in Nat
  BY <1>3, <1>5
<1> QED
  BY <1>3, <1>4, <1>5, <1>6

-----------------------------------------------------------------------------
(* The page table as a tree.                                               *)

Entries == [to : Nat, perm : SUBSET Full, big : BOOLEAN]
Memories == [Tables -> [Indexes -> Entries]]
Places == [va : 0 .. Last, page : Tables, idx : Indexes, level : 0 .. Top, perm : {Full}]

\* The entry e, number i of table t, leads to a table a level below that covers the
\* addresses of the entry: level[t] is a table's level, part[t] which of the parts
\* of that size of the address space it covers.
Hangs(e, t, i, u, level, part) ==
    /\ e.perm = Full /\ e.to \in 1 .. u
    /\ level[e.to] = level[t] - 1 /\ part[e.to] = part[t] * Fan + i

Tree(m, u, level, part) ==
    /\ m \in Memories /\ u \in 1 .. NTables
    /\ level \in [Tables -> 0 .. Top] /\ part \in [Tables -> Nat]
    /\ level[Root] = Top /\ part[Root] = 0
    /\ \A t \in 1 .. u, i \in Indexes :
         level[t] > 0 /\ IsTable(m[t][i]) => Hangs(m[t][i], t, i, u, level, part)

\* The places at the entry for their address in a table for their address.
PlacesIn(u, level, part) ==
    {x \in Places :
        /\ x.page \in 1 .. u /\ level[x.page] = x.level
        /\ x.idx = PageIndex(x.va, x.level)
        /\ x.va < Last => part[x.page] = x.va \div Span(x.level + 1)}

MovedTo(x, va) == [x EXCEPT !.va = va, !.idx = PageIndex(va, x.level)]

LEMMA Numbers ==
    /\ Top \in Nat /\ Fan \in Nat \ {0} /\ NTables \in Nat \ {0} /\ Last \in Nat \ {0}
    /\ Root \in Tables
<1>1. Top \in Nat /\ Fan \in Nat \ {0} /\ NTables \in Nat \ {0} /\ Top + 1 \in 0 .. Top + 2
  BY PageTableAssumption
<1> QED
  BY <1>1, SpansAre DEF Last, Root, Tables

\* Places with equal fields are equal: what MovedTo() and Descend() make of a place.
LEMMA MovedFields ==
    ASSUME NEW x \in Places, NEW va \in 0 .. Last, PageIndex(va, x.level) \in Indexes
    PROVE  MovedTo(x, va) = [va |-> va, page |-> x.page, idx |-> PageIndex(va, x.level),
                             level |-> x.level, perm |-> Full]
<1>1. PICK i : i = PageIndex(va, x.level)
  OBVIOUS
<1>2. PICK y : y = [x EXCEPT !.va = va, !.idx = i]
  OBVIOUS
<1>3. PICK z : z = [va |-> va, page |-> x.page, idx |-> i, level |-> x.level, perm |-> Full]
  OBVIOUS
<1>4. y \in Places
  BY <1>1, <1>2 DEF Places
<1>5. z \in Places
  BY <1>1, <1>3 DEF Places
<1>6. y.va = z.va /\ y.page = z.page /\ y.idx = z.idx /\ y.level = z.level /\ y.perm = z.perm
  BY <1>2, <1>3 DEF Places
<1>7. y = z
  BY <1>4, <1>5, <1>6 DEF Places
<1> QED
  BY <1>1, <1>2, <1>3, <1>7 DEF MovedTo

LEMMA DescendFields ==
    ASSUME NEW m, NEW x \in Places, x.level > 0, IsTable(At(m, x)), At(m, x).perm = Full,
           At(m, x).to \in Tables, PageIndex(x.va, x.level - 1) \in Indexes
    PROVE  Descend(m, x) = [va |-> x.va, page |-> At(m, x).to, idx |-> PageIndex(x.va, x.level - 1),
                            level |-> x.level - 1, perm |-> Full]
<1>1. PICK i, e, p : i = PageIndex(x.va, x.level - 1) /\ e = Full /\ p = At(m, x).to
  OBVIOUS
<1>2. PICK y : y = [x EXCEPT !.perm = @ \cap e, !.level = @ - 1, !.page = p, !.idx = i]
  OBVIOUS
<1>3. PICK z : z = [va |-> x.va, page |-> p, idx |-> i, level |-> x.level - 1, perm |-> e]
  OBVIOUS
<1>4. x.perm = Full /\ x.perm \cap e = Full /\ x.level - 1 \in 0 .. Top
  BY <1>1, Numbers DEF Places
<1>5. y \in Places
  BY <1>1, <1>2, <1>4 DEF Places
<1>6. z \in Places
  BY <1>1, <1>3, <1>4 DEF Places
<1>7. y.va = z.va /\ y.page = z.page /\ y.idx = z.idx /\ y.level = z.level /\ y.perm = z.perm
  BY <1>1, <1>2, <1>3, <1>4 DEF Places
<1>8. y = z
  BY <1>5, <1>6, <1>7 DEF Places
<1>9. Descend(m, x) = y
  BY <1>1, <1>2 DEF Descend
<1> QED
  BY <1>1, <1>3, <1>8, <1>9

\* A walk begins at a place.
LEMMA RootIsPlace ==
    ASSUME NEW m, NEW u, NEW level, NEW part, Tree(m, u, level, part), NEW va \in 0 .. Last
    PROVE  AtRoot(va) \in PlacesIn(u, level, part)
<1>1. Top \in 0 .. Top /\ Top \in 0 .. Top + 1 /\ Last \in Nat \ {0} /\ va \in Nat /\ Root \in 1 .. u
  BY Numbers DEF Tree, Root
<1>2. PageIndex(va, Top) \in Indexes
  BY <1>1, Addresses
<1>3. va < Last => va \div Last = 0
  <2>1. va < 1 * Last <=> va \div Last < 1
    BY <1>1, Blocks
  <2>2. PICK q \in Nat : va \div Last = q
    BY <1>1, Remainders
  <2> QED
    BY <1>1, <2>1, <2>2
<1>4. AtRoot(va) \in Places
  BY <1>1, <1>2, Numbers DEF AtRoot, Places
<1> QED
  BY <1>1, <1>3, <1>4 DEF AtRoot, PlacesIn, Tree, Last

\* A step down leads from a place to a place.
LEMMA DescendIs ==
    ASSUME NEW m, NEW u, NEW level, NEW part, Tree(m, u, level, part),
           NEW x \in PlacesIn(u, level, part)
    PROVE  \/ Descend(m, x) = x /\ (x.level = 0 \/ ~IsTable(At(m, x)))
           \/ /\ x.level > 0 /\ IsTable(At(m, x)) /\ At(m, x).to \in Tables
              /\ Descend(m, x) \in PlacesIn(u, level, part)
              /\ Descend(m, x) = [va |-> x.va, page |-> At(m, x).to, idx |-> PageIndex(x.va, x.level - 1),
                                  level |-> x.level - 1, perm |-> Full]
<1>1. CASE ~(x.level > 0 /\ IsTable(At(m, x)))
  <2>1. x.level \in 0 .. Top
    BY DEF PlacesIn, Places
  <2> QED
    BY <1>1, <2>1, Numbers DEF Descend
<1>2. CASE x.level > 0 /\ IsTable(At(m, x))
  <2>1. PICK e : e = At(m, x)
    OBVIOUS
  <2>2. /\ x.va \in 0 .. Last /\ x.page \in 1 .. u /\ x.idx \in Indexes /\ x.level \in 1 .. Top
        /\ x.perm = Full /\ level[x.page] = x.level /\ x.idx = PageIndex(x.va, x.level)
        /\ x = [va |-> x.va, page |-> x.page, idx |-> x.idx, level |-> x.level, perm |-> x.perm]
    BY <1>2, Numbers DEF PlacesIn, Places
  <2>3. e.perm = Full /\ e.to \in 1 .. u /\ level[e.to] = x.level - 1
        /\ part[e.to] = part[x.page] * Fan + x.idx
    BY <1>2, <2>1, <2>2 DEF Tree, Hangs, At
  <2>4. e.to \in Tables
    <3>1. u \in 1 .. NTables
      BY DEF Tree
    <3> QED
      BY <2>3, <3>1, PageTableAssumption DEF Tables
  <2>5. PICK y : y = [va |-> x.va, page |-> e.to, idx |-> PageIndex(x.va, x.level - 1),
                      level |-> x.level - 1, perm |-> Full]
    OBVIOUS
  <2>7. x.level - 1 \in 0 .. Top /\ x.level - 1 \in 0 .. Top + 1 /\ x.level \in 0 .. Top + 1 /\ x.va \in Nat
    BY <2>2, Numbers
  <2>8. PageIndex(x.va, x.level - 1) \in Indexes
    BY <2>7, Addresses
  <2>6. Descend(m, x) = y
    <3>1. x \in Places
      BY DEF PlacesIn
    <3> QED
      BY <1>2, <2>1, <2>3, <2>4, <2>5, <2>8, <3>1, DescendFields
  <2>9. y \in Places
    BY <2>2, <2>4, <2>5, <2>7, <2>8 DEF Places
  <2>10. x.va < Last => part[e.to] = x.va \div Span((x.level - 1) + 1)
    <3>1. x.va \div Span(x.level) = (x.va \div Span(x.level + 1)) * Fan + PageIndex(x.va, x.level)
      BY <2>7, Addresses
    <3>2. (x.level - 1) + 1 = x.level
      BY <2>2
    <3>3. x.va < Last => part[x.page] = x.va \div Span(x.level + 1)
      BY DEF PlacesIn
    <3> QED
      BY <2>2, <2>3, <3>1, <3>2, <3>3
  <2>11. y \in PlacesIn(u, level, part)
    BY <2>3, <2>5, <2>9, <2>10 DEF PlacesIn
  <2> QED
    BY <1>2, <2>1, <2>4, <2>5, <2>6, <2>11
<1> QED
  BY <1>1, <1>2

LEMMA PlacesAreClosed ==
    ASSUME NEW m, NEW u, NEW level, NEW part, Tree(m, u, level, part)
    PROVE  Closed(m, PlacesIn(u, level, part))
<1> SUFFICES ASSUME NEW y \in PlacesIn(u, level, part)
             PROVE  /\ y.level \in 0 .. Top /\ Descend(m, y) \in PlacesIn(u, level, part)
                    /\ Descend(m, y) = y \/ Descend(m, y).level = y.level - 1
  BY DEF Closed
<1>1. y.level \in 0 .. Top
  BY DEF PlacesIn, Places
<1> QED
  BY <1>1, DescendIs

\* A move within the table leads to a place.
LEMMA MovedIsPlace ==
    ASSUME NEW m, NEW u, NEW level, NEW part, Tree(m, u, level, part),
           NEW x \in PlacesIn(u, level, part), NEW va \in 0 .. Last, SameTable(x, va)
    PROVE  /\ MovedTo(x, va) \in PlacesIn(u, level, part)
           /\ MovedTo(x, va) = [va |-> va, page |-> x.page, idx |-> PageIndex(va, x.level),
                                level |-> x.level, perm |-> Full]
<1>1. PICK y : y = [va |-> va, page |-> x.page, idx |-> PageIndex(va, x.level),
                    level |-> x.level, perm |-> Full]
  OBVIOUS
<1>2. /\ x.va \in 0 .. Last /\ x.page \in Tables /\ x.level \in 0 .. Top /\ x.perm = Full
      /\ x = [va |-> x.va, page |-> x.page, idx |-> x.idx, level |-> x.level, perm |-> x.perm]
      /\ x.page \in 1 .. u /\ level[x.page] = x.level
      /\ x.va < Last => part[x.page] = x.va \div Span(x.level + 1)
  BY DEF PlacesIn, Places
<1>4. x.level \in 0 .. Top + 1 /\ x.level + 1 \in 0 .. Top + 1 /\ va \in Nat /\ x.va \in Nat
  BY <1>2, Numbers
<1>5. PageIndex(va, x.level) \in Indexes
  BY <1>4, Addresses
<1>3. MovedTo(x, va) = y
  <2>1. x \in Places
    BY DEF PlacesIn
  <2> QED
    BY <1>1, <1>5, <2>1, MovedFields
<1>6. y \in Places
  BY <1>1, <1>2, <1>5 DEF Places
<1>7. x.va \div Span(x.level + 1) = va \div Span(x.level + 1)
  BY DEF SameTable
<1>8. va < Last => x.va < Last
  <2>1. va < Last => va \div Span(x.level + 1) # Last \div Span(x.level + 1)
    BY <1>4, EndsBeforeLast
  <2>2. x.va = Last \/ x.va < Last
    BY <1>2, Numbers
  <2> QED
    BY <1>7, <2>1, <2>2
<1>9. va < Last => part[x.page] = va \div Span(x.level + 1)
  BY <1>2, <1>7, <1>8
<1>10. y \in PlacesIn(u, level, part)
  BY <1>1, <1>2, <1>6, <1>9 DEF PlacesIn
<1> QED
  BY <1>1, <1>3, <1>10

-----------------------------------------------------------------------------
(* The shortcut of real_find().                                            *)

\* From the place x, every address in its table is reached as from the root.
Lands(m, x) ==
    \A va \in 0 .. Last :
        SameTable(x, va) => Down(m, MovedTo(x, va)) = Down(m, AtRoot(va))

LEMMA RootLands ==
    ASSUME NEW m, NEW va \in 0 .. Last
    PROVE  Lands(m, AtRoot(va))
<1> SUFFICES ASSUME NEW w \in 0 .. Last
             PROVE  Down(m, MovedTo(AtRoot(va), w)) = Down(m, AtRoot(w))
  BY DEF Lands
<1>1. va \in Nat /\ w \in Nat /\ Top \in 0 .. Top + 1 /\ Top \in 0 .. Top
  BY Numbers
<1>2. PageIndex(va, Top) \in Indexes /\ PageIndex(w, Top) \in Indexes
  BY <1>1, Addresses
<1>3. AtRoot(va) \in Places /\ AtRoot(va).level = Top /\ AtRoot(va).page = Root
  BY <1>1, <1>2, Numbers DEF AtRoot, Places
<1>4. MovedTo(AtRoot(va), w) = AtRoot(w)
  <2>1. MovedTo(AtRoot(va), w) = [va |-> w, page |-> Root, idx |-> PageIndex(w, Top),
                                  level |-> Top, perm |-> Full]
    BY <1>2, <1>3, MovedFields
  <2> QED
    BY <2>1 DEF AtRoot
<1> QED
  BY <1>4

\* A step down preserves that.
LEMMA DescendLands ==
    ASSUME NEW m, NEW u, NEW level, NEW part, Tree(m, u, level, part),
           NEW x \in PlacesIn(u, level, part), Lands(m, x)
    PROVE  Lands(m, Descend(m, x))
<1>1. CASE Descend(m, x) = x
  BY <1>1
<1>2. CASE Descend(m, x) # x
  <2>1. PICK e : e = At(m, x)
    OBVIOUS
  <2>2. PICK y : y = Descend(m, x)
    OBVIOUS
  <2>3. /\ x.level > 0 /\ IsTable(e)
        /\ y = [va |-> x.va, page |-> e.to, idx |-> PageIndex(x.va, x.level - 1),
                level |-> x.level - 1, perm |-> Full]
        /\ y \in PlacesIn(u, level, part)
    BY <1>2, <2>1, <2>2, DescendIs
  <2>4. x.va \in 0 .. Last /\ x.level \in 1 .. Top /\ x.idx = PageIndex(x.va, x.level) /\ x.page \in Tables
    BY <2>3, Numbers DEF PlacesIn, Places
  <2> SUFFICES ASSUME NEW va \in 0 .. Last, SameTable(y, va)
               PROVE  Down(m, MovedTo(y, va)) = Down(m, AtRoot(va))
    BY <2>2 DEF Lands
  <2>5. x.va \div Span(x.level) = va \div Span(x.level)
    <3>1. (x.level - 1) + 1 = x.level
      BY <2>4
    <3> QED
      BY <2>3, <3>1 DEF SameTable
  <2>6. SameTable(x, va)
    <3>1. x.level \in Nat /\ x.va \in Nat /\ va \in Nat /\ x.level + 1 \in x.level .. Top + 2
      BY <2>4, Numbers
    <3> QED
      BY <2>5, <3>1, SameAbove DEF SameTable
  <2>7. PICK z : z = MovedTo(x, va)
    OBVIOUS
  <2>8. z \in PlacesIn(u, level, part)
        /\ z = [va |-> va, page |-> x.page, idx |-> PageIndex(va, x.level), level |-> x.level, perm |-> Full]
    BY <2>6, <2>7, MovedIsPlace
  <2>9. PageIndex(va, x.level) = x.idx
    BY <2>4, <2>5 DEF PageIndex
  <2>10. At(m, z) = e
    BY <2>1, <2>8, <2>9 DEF At
  <2>11. Descend(m, z) = [va |-> va, page |-> e.to, idx |-> PageIndex(va, x.level - 1),
                          level |-> x.level - 1, perm |-> Full]
    BY <2>3, <2>8, <2>10, DescendIs
  <2>12. MovedTo(y, va) = Descend(m, z)
    <3>1. MovedTo(y, va) = [va |-> va, page |-> y.page, idx |-> PageIndex(va, y.level),
                            level |-> y.level, perm |-> Full]
      BY <2>3, MovedIsPlace
    <3>2. y.page = e.to /\ y.level = x.level - 1
      BY <2>3
    <3> QED
      BY <2>11, <3>1, <3>2
  <2>13. Down(m, Descend(m, z)) = Down(m, z)
    BY <2>8, PlacesAreClosed, DownStep
  <2> QED
    BY <2>6, <2>7, <2>12, <2>13 DEF Lands
<1> QED
  BY <1>1, <1>2

\* Where a walk from the root ends.
LEMMA WalkEnds ==
    ASSUME NEW m, NEW u, NEW level, NEW part, Tree(m, u, level, part), NEW va \in 0 .. Last
    PROVE  /\ Down(m, AtRoot(va)) \in PlacesIn(u, level, part)
           /\ Lands(m, Down(m, AtRoot(va)))
           /\ Down(m, AtRoot(va)).va = va
           /\ Descend(m, Down(m, AtRoot(va))) = Down(m, AtRoot(va))
<1>1. PICK X : X = PlacesIn(u, level, part)
  OBVIOUS
<1>2. Closed(m, X) /\ AtRoot(va) \in X
  BY <1>1, PlacesAreClosed, RootIsPlace
<1>3. PICK S : S = {x \in X : Lands(m, x) /\ x.va = va}
  OBVIOUS
<1>4. AtRoot(va) \in S
  BY <1>2, <1>3, RootLands DEF AtRoot
<1>5. ASSUME NEW y \in X, y \in S PROVE Descend(m, y) \in S
  <2>1. Lands(m, Descend(m, y))
    BY <1>1, <1>3, <1>5, DescendLands
  <2>2. Descend(m, y) \in X
    BY <1>2 DEF Closed
  <2>3. Descend(m, y).va = va
    BY <1>1, <1>3, <1>5, DescendIs
  <2> QED
    BY <1>3, <2>1, <2>2, <2>3
<1>6. Down(m, AtRoot(va)) \in X /\ Down(m, AtRoot(va)) \in S
  BY <1>2, <1>4, <1>5, DownKeeps
<1>7. Descend(m, Down(m, AtRoot(va))) = Down(m, AtRoot(va))
  BY <1>2, DownRests
<1> QED
  BY <1>1, <1>3, <1>6, <1>7

\* real_find() ends where a walk from the root does.
LEMMA RealFindLands ==
    ASSUME NEW m, NEW x, NEW va \in 0 .. Last, Lands(m, x)
    PROVE  RealFind(m, x, va) = Down(m, AtRoot(va))
BY DEF RealFind, Lands, MovedTo

-----------------------------------------------------------------------------
(* A table that changes.                                                   *)

\* Where the steps down of m are steps of m2 too, the walk of m2 passes where that
\* of m ends.
LEMMA WalksFurther ==
    ASSUME NEW m, NEW m2, NEW X, NEW Y, Closed(m, X), Closed(m2, Y), X \subseteq Y,
           \A y \in X : Descend(m, y) # y => Descend(m2, y) = Descend(m, y),
           NEW x \in X
    PROVE  Down(m, x) \in X /\ Down(m2, x) = Down(m2, Down(m, x))
<1>1. PICK S : S = {z \in X : Down(m2, z) = Down(m2, x)}
  OBVIOUS
<1>2. x \in S
  BY <1>1
<1>3. ASSUME NEW y \in X, y \in S PROVE Descend(m, y) \in S
  <2>1. CASE Descend(m, y) = y
    BY <1>3, <2>1
  <2>2. CASE Descend(m, y) # y
    <3>1. Descend(m2, y) = Descend(m, y) /\ Descend(m, y) \in X /\ y \in Y
      BY <2>2 DEF Closed
    <3>2. Down(m2, Descend(m2, y)) = Down(m2, y)
      BY <3>1, DownStep
    <3> QED
      BY <1>1, <1>3, <3>1, <3>2
  <2> QED
    BY <2>1, <2>2
<1>4. Down(m, x) \in X /\ Down(m, x) \in S
  BY <1>2, <1>3, DownKeeps
<1> QED
  BY <1>1, <1>4

\* Where all steps are the same, so are the walks.
LEMMA SameSteps ==
    ASSUME NEW m, NEW m2, NEW X, Closed(m, X), Closed(m2, X),
           \A y \in X : Descend(m2, y) = Descend(m, y), NEW x \in X
    PROVE  Down(m2, x) = Down(m, x)
<1>1. Down(m, x) \in X /\ Down(m2, x) = Down(m2, Down(m, x))
  BY WalksFurther
<1>2. Descend(m2, Down(m, x)) = Down(m, x)
  BY <1>1, DownRests
<1>3. Down(m2, Down(m, x)) = Down(m, x)
  BY <1>1, <1>2, DownStays
<1> QED
  BY <1>1, <1>3

\* What one walk of m2 passes, all do that did: the shortcuts of m are shortcuts of m2.
LEMMA StillLands ==
    ASSUME NEW m, NEW u, NEW level, NEW part, Tree(m, u, level, part),
           NEW m2, NEW Y, Closed(m2, Y), PlacesIn(u, level, part) \subseteq Y,
           \A y \in PlacesIn(u, level, part) :
               Descend(m, y) # y => Descend(m2, y) = Descend(m, y),
           NEW x \in PlacesIn(u, level, part), Lands(m, x)
    PROVE  Lands(m2, x)
<1> SUFFICES ASSUME NEW va \in 0 .. Last, SameTable(x, va)
             PROVE  Down(m2, MovedTo(x, va)) = Down(m2, AtRoot(va))
  BY DEF Lands
<1>1. PICK X : X = PlacesIn(u, level, part)
  OBVIOUS
<1>2. Closed(m, X) /\ MovedTo(x, va) \in X /\ AtRoot(va) \in X /\ X \subseteq Y
      /\ \A y \in X : Descend(m, y) # y => Descend(m2, y) = Descend(m, y)
  BY <1>1, PlacesAreClosed, MovedIsPlace, RootIsPlace
<1>3. Down(m, MovedTo(x, va)) = Down(m, AtRoot(va))
  BY DEF Lands
<1>4. Down(m2, MovedTo(x, va)) = Down(m2, Down(m, MovedTo(x, va)))
  BY <1>2, WalksFurther
<1>5. Down(m2, AtRoot(va)) = Down(m2, Down(m, AtRoot(va)))
  BY <1>2, WalksFurther
<1> QED
  BY <1>3, <1>4, <1>5

\* What is at a place decides the step down from it, and the report.
LEMMA SameEntrySame ==
    ASSUME NEW m, NEW m2, NEW x, At(m, x) = At(m2, x)
    PROVE  Descend(m, x) = Descend(m2, x) /\ Report(m, x) = Report(m2, x)
<1>1. Descend(m, x) = Descend(m2, x)
  BY DEF Descend
<1>2. Report(m, x) = Report(m2, x)
  BY DEF Report, PermAt, PaAt
<1> QED
  BY <1>1, <1>2

\* m2 is m but for entry i of table p.
OnlyEntry(m, m2, p, i) ==
    \A t \in Tables, j \in Indexes : t # p \/ j # i => m2[t][j] = m[t][j]

\* Setting an entry of a table of the lowest level.
LEMMA SetLeaf ==
    ASSUME NEW m, NEW u, NEW level, NEW part, Tree(m, u, level, part),
           NEW x \in PlacesIn(u, level, part), x.level = 0,
           NEW m2 \in Memories, OnlyEntry(m, m2, x.page, x.idx)
    PROVE  /\ Tree(m2, u, level, part)
           /\ \A y \in PlacesIn(u, level, part) :
                /\ y.page # x.page \/ y.idx # x.idx => At(m2, y) = At(m, y)
                /\ Down(m2, y) = Down(m, y)
                /\ Lands(m, y) => Lands(m2, y)
<1>1. x.page \in Tables /\ x.idx \in Indexes /\ level[x.page] = 0
  BY DEF PlacesIn, Places
<1>3. m2 \in Memories
      /\ \A t \in Tables, i \in Indexes : t # x.page \/ i # x.idx => m2[t][i] = m[t][i]
  BY DEF OnlyEntry
<1>4. Tree(m2, u, level, part)
  <2>1. ASSUME NEW t \in 1 .. u, NEW i \in Indexes, level[t] > 0, IsTable(m2[t][i])
        PROVE  Hangs(m2[t][i], t, i, u, level, part)
    <3>1. t # x.page /\ t \in Tables
      BY <1>1, <2>1, Numbers DEF Tree, Tables
    <3>2. m2[t][i] = m[t][i]
      BY <1>3, <3>1
    <3> QED
      BY <2>1, <3>2 DEF Tree
  <2> QED
    BY <1>3, <2>1 DEF Tree
<1>5. PICK X : X = PlacesIn(u, level, part)
  OBVIOUS
<1>6. ASSUME NEW y \in X
      PROVE  /\ y.page # x.page \/ y.idx # x.idx => At(m2, y) = At(m, y)
             /\ Descend(m2, y) = Descend(m, y)
  <2>1. y.page \in Tables /\ y.idx \in Indexes /\ level[y.page] = y.level
    BY <1>5 DEF PlacesIn, Places
  <2>2. y.page # x.page \/ y.idx # x.idx => At(m2, y) = At(m, y)
    BY <1>3, <2>1 DEF At
  <2>3. CASE y.level = 0
    <3>1. Descend(m2, y) = y /\ Descend(m, y) = y
      BY <2>3 DEF Descend
    <3> QED
      BY <2>2, <3>1
  <2>4. CASE y.level # 0
    <3>1. At(m, y) = At(m2, y)
      BY <1>1, <2>1, <2>2, <2>4
    <3> QED
      BY <2>2, <3>1, SameEntrySame
  <2> QED
    BY <2>3, <2>4
<1>7. Closed(m, X) /\ Closed(m2, X)
  BY <1>4, <1>5, PlacesAreClosed
<1>8. ASSUME NEW y \in X PROVE Down(m2, y) = Down(m, y)
  <2>1. \A z \in X : Descend(m2, z) = Descend(m, z)
    BY <1>6
  <2> QED
    BY <1>7, <2>1, SameSteps
<1>9. ASSUME NEW y \in X, Lands(m, y) PROVE Lands(m2, y)
  BY <1>5, <1>6, <1>7, <1>9, StillLands
<1> QED
  BY <1>4, <1>5, <1>6, <1>8, <1>9

\* m2 is m with an empty table t under entry i of table p.
Grown(m, m2, p, i, t) ==
    /\ m2 \in Memories /\ m2[p][i] = Entry(t, Full, FALSE)
    /\ \A j \in Indexes : m2[t][j] = Empty
    /\ \A q \in Tables, j \in Indexes : q # t /\ (q # p \/ j # i) => m2[q][j] = m[q][j]

LEMMA NewTableIs ==
    ASSUME NEW m \in Memories, NEW p \in Tables, NEW i \in Indexes, NEW t \in Tables, p # t,
           NEW m2, m2 = [m EXCEPT ![p][i] = Entry(t, Full, FALSE), ![t] = EmptyTable]
    PROVE  Grown(m, m2, p, i, t)
<1>1. PICK e : e = Entry(t, Full, FALSE) /\ e \in Entries
  <2>1. t \in Nat /\ Full \in SUBSET Full
    BY DEF Tables
  <2>2. Entry(t, Full, FALSE) \in Entries
    BY <2>1 DEF Entry, Entries
  <2> QED
    BY <2>2
<1>2. EmptyTable \in [Indexes -> Entries] /\ \A j \in Indexes : EmptyTable[j] = Empty
  BY DEF EmptyTable, Empty, Entry, Entries
<1>3. PICK m1 : m1 = [m EXCEPT ![p][i] = e]
  OBVIOUS
<1>4. m1 \in Memories /\ m1[p][i] = e
      /\ \A q \in Tables, j \in Indexes : q # p \/ j # i => m1[q][j] = m[q][j]
  BY <1>1, <1>3 DEF Memories
<1>5. m2 = [m1 EXCEPT ![t] = EmptyTable]
  BY <1>1, <1>3
<1>6. m2 \in Memories /\ m2[t] = EmptyTable /\ \A q \in Tables : q # t => m2[q] = m1[q]
  BY <1>2, <1>4, <1>5 DEF Memories
<1>7. m2[p][i] = Entry(t, Full, FALSE) /\ \A j \in Indexes : m2[t][j] = Empty
  BY <1>1, <1>2, <1>4, <1>6
<1>8. ASSUME NEW q \in Tables, NEW j \in Indexes, q # t, q # p \/ j # i
      PROVE  m2[q][j] = m[q][j]
  <2>1. m2[q] = m1[q]
    BY <1>6, <1>8, Zenon
  <2>2. m1[q][j] = m[q][j]
    BY <1>4, <1>8, Zenon
  <2> QED
    BY <2>1, <2>2, Zenon
<1> QED
  BY <1>6, <1>7, <1>8 DEF Grown

\* The table t = u + 1 hung under the place x: what is known of the tables before
\* stays so, and t covers the addresses of the entry.
Hung(u, level, part, level2, part2, x) ==
    /\ level2 \in [Tables -> 0 .. Top] /\ part2 \in [Tables -> Nat]
    /\ \A q \in 1 .. u : level2[q] = level[q] /\ part2[q] = part[q]
    /\ level2[u + 1] = x.level - 1 /\ part2[u + 1] = part[x.page] * Fan + x.idx

LEMMA CanHang ==
    ASSUME NEW m, NEW u, NEW level, NEW part, Tree(m, u, level, part),
           NEW x \in PlacesIn(u, level, part), x.level > 0, u < NTables
    PROVE  \E level2, part2 : Hung(u, level, part, level2, part2, x)
<1>1. /\ x.level - 1 \in 0 .. Top /\ x.page \in Tables /\ x.idx \in Nat
      /\ u + 1 \in Tables /\ u + 1 \notin 1 .. u /\ 1 .. u \subseteq Tables
      /\ level \in [Tables -> 0 .. Top] /\ part \in [Tables -> Nat]
  <2>1. x.level \in 1 .. Top /\ x.page \in Tables /\ x.idx \in Indexes /\ u \in 1 .. NTables
    BY Numbers DEF PlacesIn, Places, Tree
  <2>2. x.idx \in Nat
    BY <2>1, Numbers DEF Indexes
  <2>3. u + 1 \in Tables /\ u + 1 \notin 1 .. u /\ 1 .. u \subseteq Tables
    BY <2>1, Numbers DEF Tables
  <2> QED
    BY <2>1, <2>2, <2>3, Numbers DEF Tree
<1>2. part[x.page] * Fan + x.idx \in Nat
  BY <1>1, Numbers
<1>3. PICK level2 : level2 = [level EXCEPT ![u + 1] = x.level - 1]
  OBVIOUS
<1>4. PICK part2 : part2 = [part EXCEPT ![u + 1] = part[x.page] * Fan + x.idx]
  OBVIOUS
<1>5. /\ level2 \in [Tables -> 0 .. Top] /\ level2[u + 1] = x.level - 1
      /\ \A q \in 1 .. u : level2[q] = level[q]
  BY <1>1, <1>3
<1>6. /\ part2 \in [Tables -> Nat] /\ part2[u + 1] = part[x.page] * Fan + x.idx
      /\ \A q \in 1 .. u : part2[q] = part[q]
  BY <1>1, <1>2, <1>4
<1> QED
  BY <1>5, <1>6 DEF Hung

\* The table is a tree still, with the places there were.
LEMMA GrownTree ==
    ASSUME NEW m, NEW u, NEW level, NEW part, Tree(m, u, level, part),
           NEW x \in PlacesIn(u, level, part), x.level > 0, u < NTables,
           NEW m2, Grown(m, m2, x.page, x.idx, u + 1),
           NEW level2, NEW part2, Hung(u, level, part, level2, part2, x)
    PROVE  /\ Tree(m2, u + 1, level2, part2)
           /\ PlacesIn(u, level, part) \subseteq PlacesIn(u + 1, level2, part2)
<1>1. /\ x.page \in 1 .. u /\ x.page \in Tables /\ x.idx \in Indexes /\ level[x.page] = x.level
      /\ u \in 1 .. NTables /\ u + 1 \in 1 .. NTables /\ 1 .. u \subseteq Tables /\ Root \in 1 .. u
      /\ 1 .. u \subseteq 1 .. u + 1
  <2>1. /\ x.page \in 1 .. u /\ x.page \in Tables /\ x.idx \in Indexes /\ level[x.page] = x.level
        /\ u \in 1 .. NTables
    BY DEF PlacesIn, Places, Tree
  <2>2. u + 1 \in 1 .. NTables /\ 1 .. u \subseteq 1 .. u + 1 /\ Root \in 1 .. u
    BY <2>1, Numbers DEF Root
  <2>3. 1 .. u \subseteq Tables
    BY <2>1, Numbers DEF Tables
  <2> QED
    BY <2>1, <2>2, <2>3
<1>2. PlacesIn(u, level, part) \subseteq PlacesIn(u + 1, level2, part2)
  BY <1>1 DEF PlacesIn, Hung
<1>3. ASSUME NEW t \in 1 .. u + 1, NEW i \in Indexes, level2[t] > 0, IsTable(m2[t][i])
      PROVE  Hangs(m2[t][i], t, i, u + 1, level2, part2)
  <2>1. CASE t = u + 1
    <3>1. m2[t][i] = Empty
      BY <2>1 DEF Grown
    <3> QED
      BY <1>3, <3>1 DEF IsTable, Empty, Entry
  <2>2. CASE t = x.page /\ i = x.idx
    <3>1. m2[t][i] = Entry(u + 1, Full, FALSE)
      BY <2>2 DEF Grown
    <3>2. /\ m2[t][i].perm = Full /\ m2[t][i].to = u + 1 /\ level2[t] = x.level
          /\ part2[t] = part[x.page] /\ u + 1 \in 1 .. u + 1
      BY <1>1, <2>2, <3>1 DEF Hung, Entry
    <3> QED
      BY <2>2, <3>2 DEF Hangs, Hung
  <2>3. CASE t # u + 1 /\ (t # x.page \/ i # x.idx)
    <3>1. t \in 1 .. u /\ t \in Tables
      BY <1>1, <2>3
    <3>2. m2[t][i] = m[t][i]
      BY <2>3, <3>1 DEF Grown
    <3>3. Hangs(m[t][i], t, i, u, level, part)
      BY <1>3, <3>1, <3>2 DEF Tree, Hung
    <3> QED
      BY <1>1, <3>1, <3>2, <3>3 DEF Hangs, Hung
  <2> QED
    BY <2>1, <2>2, <2>3
<1>4. m2 \in Memories /\ level2[Root] = Top /\ part2[Root] = 0
      /\ level2 \in [Tables -> 0 .. Top] /\ part2 \in [Tables -> Nat]
  BY <1>1 DEF Grown, Hung, Tree
<1>5. Tree(m2, u + 1, level2, part2)
  BY <1>1, <1>3, <1>4 DEF Tree
<1> QED
  BY <1>2, <1>5

\* Where an entry that was not present leads to an empty table, the walks that did
\* not end there end as before, and those that did go on into that table and end.
LEMMA GrownWalks ==
    ASSUME NEW m, NEW u, NEW level, NEW part, Tree(m, u, level, part),
           NEW x \in PlacesIn(u, level, part), x.level > 0, u < NTables, "P" \notin At(m, x).perm,
           NEW m2, Grown(m, m2, x.page, x.idx, u + 1),
           NEW level2, NEW part2, Hung(u, level, part, level2, part2, x),
           NEW y \in PlacesIn(u, level, part)
    PROVE  /\ Descend(m, y) # y => Descend(m2, y) = Descend(m, y)
           /\ y.page # x.page \/ y.idx # x.idx => At(m2, y) = At(m, y)
           /\ y.page = x.page /\ y.idx = x.idx =>
                /\ At(m, y) = At(m, x)
                /\ At(m2, Down(m2, y)) = Empty
                /\ Down(m2, y) = Descend(m2, y) /\ Down(m2, y).va = y.va
                /\ Down(m2, y) \in PlacesIn(u + 1, level2, part2)
<1>1. /\ y.page \in Tables /\ y.page # u + 1 /\ y.idx \in Indexes /\ y.level = level[y.page]
      /\ x.page \in Tables /\ x.idx \in Indexes /\ x.level = level[x.page]
  BY DEF PlacesIn, Places, Tree
<1>2. PICK X : X = PlacesIn(u + 1, level2, part2)
  OBVIOUS
<1>3. Tree(m2, u + 1, level2, part2) /\ y \in X
  BY <1>2, GrownTree
<1>4. Closed(m2, X)
  BY <1>2, <1>3, PlacesAreClosed
<1>5. y.page # x.page \/ y.idx # x.idx => At(m2, y) = At(m, y)
  BY <1>1 DEF Grown, At
<1>6. ASSUME y.page = x.page, y.idx = x.idx
      PROVE  /\ At(m, y) = At(m, x) /\ Descend(m, y) = y
             /\ At(m2, Down(m2, y)) = Empty
             /\ Down(m2, y) = Descend(m2, y) /\ Down(m2, y).va = y.va /\ Down(m2, y) \in X
  <2>1. At(m, y) = At(m, x)
    BY <1>6 DEF At
  <2>2. Descend(m, y) = y
    BY <2>1 DEF Descend, IsTable
  <2>3. At(m2, y) = Entry(u + 1, Full, FALSE)
    BY <1>6 DEF At, Grown
  <2>4. IsTable(At(m2, y)) /\ y.level > 0 /\ At(m2, y).to = u + 1
    BY <1>1, <1>6, <2>3 DEF Entry, IsTable, Full
  <2>5. PICK z : z = Descend(m2, y)
    OBVIOUS
  <2>6. z \in X /\ z.page = u + 1 /\ z.va = y.va
    BY <1>2, <1>3, <2>4, <2>5, DescendIs
  <2>7. At(m2, z) = Empty
    <3>1. z.idx \in Indexes
      BY <1>2, <2>6 DEF PlacesIn, Places
    <3> QED
      BY <2>6, <3>1 DEF At, Grown
  <2>8. Descend(m2, z) = z
    BY <2>7 DEF Descend, IsTable, Empty, Entry
  <2>9. Down(m2, z) = z
    BY <1>4, <2>6, <2>8, DownStays
  <2>10. Down(m2, Descend(m2, y)) = Down(m2, y)
    BY <1>3, <1>4, DownStep
  <2> QED
    BY <2>1, <2>2, <2>5, <2>6, <2>7, <2>9, <2>10
<1>7. Descend(m, y) # y => Descend(m2, y) = Descend(m, y)
  <2>1. Descend(m, y) # y => y.page # x.page \/ y.idx # x.idx
    BY <1>6
  <2> QED
    BY <1>5, <2>1, SameEntrySame
<1> QED
  BY <1>2, <1>5, <1>6, <1>7

\* What every address is mapped to does not change.
LEMMA GrownReports ==
    ASSUME NEW m, NEW u, NEW level, NEW part, Tree(m, u, level, part),
           NEW x \in PlacesIn(u, level, part), x.level > 0, u < NTables, "P" \notin At(m, x).perm,
           NEW m2, Grown(m, m2, x.page, x.idx, u + 1),
           NEW level2, NEW part2, Hung(u, level, part, level2, part2, x),
           NEW va \in 0 .. Last
    PROVE  Report(m2, Down(m2, AtRoot(va))) = Report(m, Down(m, AtRoot(va)))
<1>1. PICK X, Y : X = PlacesIn(u, level, part) /\ Y = PlacesIn(u + 1, level2, part2)
  OBVIOUS
<1>2. Tree(m2, u + 1, level2, part2) /\ X \subseteq Y
  BY <1>1, GrownTree
<1>3. Closed(m, X) /\ Closed(m2, Y) /\ AtRoot(va) \in X
  BY <1>1, <1>2, PlacesAreClosed, RootIsPlace
<1>4. \A y \in X : Descend(m, y) # y => Descend(m2, y) = Descend(m, y)
  BY <1>1, GrownWalks
<1>5. PICK z : z = Down(m, AtRoot(va))
  OBVIOUS
<1>6. z \in X /\ Down(m2, AtRoot(va)) = Down(m2, z)
  BY <1>2, <1>3, <1>4, <1>5, WalksFurther
<1>7. Descend(m, z) = z
  BY <1>3, <1>5, DownRests
<1>8. CASE z.page # x.page \/ z.idx # x.idx
  <2>1. At(m2, z) = At(m, z)
    BY <1>1, <1>6, <1>8, GrownWalks
  <2>2. Descend(m2, z) = z /\ Report(m2, z) = Report(m, z)
    BY <1>7, <2>1, SameEntrySame
  <2>3. Down(m2, z) = z
    BY <1>2, <1>3, <1>6, <2>2, DownStays
  <2> QED
    BY <1>5, <1>6, <2>2, <2>3
<1>9. CASE z.page = x.page /\ z.idx = x.idx
  <2>1. At(m, z) = At(m, x) /\ At(m2, Down(m2, z)) = Empty
    BY <1>1, <1>6, <1>9, GrownWalks
  <2>2. "P" \notin At(m, z).perm /\ "P" \notin At(m2, Down(m2, z)).perm
    BY <2>1 DEF Empty, Entry
  <2> QED
    BY <1>5, <1>6, <2>2 DEF Report, PermAt, PaAt
<1> QED
  BY <1>8, <1>9

-----------------------------------------------------------------------------
(* The inductive invariant.                                                *)

\* With the table m, of the tables 1..u: the iterators at[i] are at places of the tree
\* from which the shortcut is right, and a walk from the root finds each address
\* mapped as sp says.
Sound(m, u, at, sp, level, part) ==
    /\ Tree(m, u, level, part)
    /\ at \in [Iterators -> Places]
    /\ \A i \in Iterators : at[i] \in PlacesIn(u, level, part) /\ Lands(m, at[i])
    /\ sp = [va \in 0 .. Last - 1 |-> Report(m, Down(m, AtRoot(va)))]

\* The place of the ptiter, its lowest level and what it has freed: a table is freed
\* when the ptiter is past its part of the address space, or is in that part but
\* above its level, and will not come down to it.
PtStates ==
    [pc : {"off", "down", "visit", "end", "done"}, va : 0 .. Last, page : Tables, idx : Indexes,
     level : 0 .. Top, skip : BOOLEAN, stop : Nat]
Floor(p) == IF p.skip THEN p.level ELSE p.stop - 1
Past(t, va, level, part) == (part[t] + 1) * Span(level[t] + 1) <= va
Above(t, p, level, part) == /\ part[t] = p.va \div Span(level[t] + 1)
                            /\ level[t] < Floor(p)

Walking(m, u, p, gone, level, part) ==
    /\ p.va < Last /\ p.level \in 1 .. Top /\ p.stop \in 1 .. p.level
    /\ p.page \in 1 .. u /\ level[p.page] = p.level /\ p.idx = PageIndex(p.va, p.level)
    /\ part[p.page] = p.va \div Span(p.level + 1)
    /\ gone \subseteq 1 .. u
    /\ \A t \in gone : Past(t, p.va, level, part) \/ Above(t, p, level, part)
    /\ p.pc = "visit" => IsTable(m[p.page][p.idx]) /\ ~p.skip /\ p.level = p.stop

Frees(m, u, p, gone, level, part) ==
    /\ p \in PtStates
    /\ p.pc = "off" => gone = {}
    /\ p.pc \in {"down", "visit"} => Walking(m, u, p, gone, level, part)

\* What was asked for against how things stand, sp: they differ at the pages that were
\* to be unmapped and were not, and only there.
Answers(sp, asks, left) ==
    /\ DOMAIN asks = 0 .. Last - 1
    /\ \A va \in 0 .. Last - 1 :
          IF va \in left THEN asks[va] = Unmapped /\ sp[va] # Unmapped ELSE asks[va] = sp[va]

TableInvariant ==
    \E level, part, sp : /\ Sound(memory, used, it, sp, level, part)
                         /\ Answers(sp, space, ignored)
                         /\ Frees(memory, used, pt, freed, level, part)

-----------------------------------------------------------------------------
(* map().                                                                  *)

\* A state of the loop of map() for the address va.
LoopStates == [m : Memories, used : 1 .. NTables, x : Places]
InLoop(s, at, sp, va) ==
    /\ \E level, part : /\ Sound(s.m, s.used, at, sp, level, part)
                        /\ s.x \in PlacesIn(s.used, level, part)
    /\ Lands(s.m, s.x) /\ s.x.va = va

\* A turn of the loop.
LEMMA ExtendKeeps ==
    ASSUME NEW at, NEW sp, NEW va \in 0 .. Last, NEW s \in LoopStates, InLoop(s, at, sp, va),
           s.x.level > 0 => "P" \notin At(s.m, s.x).perm
    PROVE  /\ Extend(s) \in LoopStates /\ InLoop(Extend(s), at, sp, va)
           /\ "P" \in At(Extend(s).m, Extend(s).x).perm => Extend(s).x.level = 0
<1>1. CASE ~(s.x.level > 0 /\ s.used < NTables)
  <2>1. Extend(s) = s
    BY <1>1 DEF Extend
  <2>2. s.x.level \in 0 .. Top
    BY DEF LoopStates, Places
  <2> QED
    BY <2>1, <2>2, Numbers
<1>2. CASE s.x.level > 0 /\ s.used < NTables
  <2>1. PICK m, u, x : m = s.m /\ u = s.used /\ x = s.x
    OBVIOUS
  <2>2. PICK level, part : Sound(m, u, at, sp, level, part) /\ x \in PlacesIn(u, level, part)
    BY <2>1 DEF InLoop
  <2>3. /\ Tree(m, u, level, part) /\ x.level > 0 /\ u < NTables /\ "P" \notin At(m, x).perm
        /\ Lands(m, x) /\ x.va = va
    BY <1>2, <2>1, <2>2 DEF Sound, InLoop
  <2>4. PICK m2 : m2 = [m EXCEPT ![x.page][x.idx] = Entry(u + 1, Full, FALSE), ![u + 1] = EmptyTable]
    OBVIOUS
  <2>5. /\ m \in Memories /\ u \in 1 .. NTables /\ x.page \in Tables /\ x.idx \in Indexes
        /\ x.page # u + 1 /\ u + 1 \in Tables
    <3>1. u \in 1 .. NTables /\ x.page \in 1 .. u
      BY <2>2, <2>3 DEF Tree, PlacesIn
    <3>2. x.page # u + 1 /\ u + 1 \in Tables
      BY <2>3, <3>1, Numbers DEF Tables
    <3> QED
      BY <2>2, <2>3, <3>1, <3>2 DEF Tree, PlacesIn, Places
  <2>6. Grown(m, m2, x.page, x.idx, u + 1)
    BY <2>4, <2>5, NewTableIs
  <2>7. PICK level2, part2 : Hung(u, level, part, level2, part2, x)
    BY <2>2, <2>3, CanHang
  <2>8. PICK Y : Y = PlacesIn(u + 1, level2, part2)
    OBVIOUS
  <2>9. Tree(m2, u + 1, level2, part2) /\ PlacesIn(u, level, part) \subseteq Y
    BY <2>2, <2>3, <2>6, <2>7, <2>8, GrownTree
  <2>10. Closed(m2, Y)
    BY <2>8, <2>9, PlacesAreClosed
  <2>11. \A y \in PlacesIn(u, level, part) : Descend(m, y) # y => Descend(m2, y) = Descend(m, y)
    BY <2>2, <2>3, <2>6, <2>7, GrownWalks
  <2>12. ASSUME NEW y \in PlacesIn(u, level, part), Lands(m, y) PROVE Lands(m2, y)
    BY <2>3, <2>9, <2>10, <2>11, <2>12, StillLands
  <2>13. PICK z : z = Down(m2, x)
    OBVIOUS
  <2>14. z = Descend(m2, x) /\ z.va = va /\ z \in Y /\ At(m2, z) = Empty
    BY <2>2, <2>3, <2>6, <2>7, <2>8, <2>13, GrownWalks
  <2>15. Lands(m2, z)
    <3>1. Lands(m2, x) /\ x \in Y
      BY <2>2, <2>3, <2>9, <2>12
    <3> QED
      BY <2>8, <2>9, <2>14, <3>1, DescendLands
  <2>16. Sound(m2, u + 1, at, sp, level2, part2)
    <3>1. ASSUME NEW i \in Iterators PROVE at[i] \in Y /\ Lands(m2, at[i])
      BY <2>2, <2>9, <2>12 DEF Sound
    <3>2. ASSUME NEW w \in 0 .. Last - 1
          PROVE  Report(m2, Down(m2, AtRoot(w))) = Report(m, Down(m, AtRoot(w)))
      <4>1. w \in 0 .. Last
        BY Numbers
      <4> QED
        BY <2>2, <2>3, <2>6, <2>7, <4>1, GrownReports
    <3>3. sp = [w \in 0 .. Last - 1 |-> Report(m2, Down(m2, AtRoot(w)))]
      BY <2>2, <3>2 DEF Sound
    <3>4. at \in [Iterators -> Places]
      BY <2>2 DEF Sound
    <3> QED
      BY <2>8, <2>9, <3>1, <3>3, <3>4 DEF Sound
  <2>17. PICK r : r = [m |-> m2, used |-> u + 1, x |-> z]
    OBVIOUS
  <2>18. Extend(s) = r
    BY <1>2, <2>1, <2>4, <2>13, <2>17 DEF Extend
  <2>19. m2 \in Memories /\ u + 1 \in 1 .. NTables /\ z \in Places
    BY <2>5, <2>8, <2>9, <2>14 DEF Tree, PlacesIn, Tables
  <2>20. r \in LoopStates /\ r.m = m2 /\ r.used = u + 1 /\ r.x = z
    BY <2>17, <2>19 DEF LoopStates
  <2>21. InLoop(r, at, sp, va)
    BY <2>8, <2>14, <2>15, <2>16, <2>20 DEF InLoop
  <2>22. "P" \notin At(r.m, r.x).perm
    BY <2>14, <2>20 DEF Empty, Entry
  <2> QED
    BY <2>18, <2>20, <2>21, <2>22
<1> QED
  BY <1>1, <1>2

\* The loop, of as many turns as there are levels at most.
LEMMA ExtendedIs ==
    ASSUME NEW at, NEW sp, NEW va \in 0 .. Last, NEW x, NEW perm, NEW now,
           now = [m |-> memory, used |-> used, x |-> x],
           now \in LoopStates, InLoop(now, at, sp, va),
           perm # {} /\ x.level > 0 => "P" \notin At(memory, x).perm
    PROVE  Extended(x, perm) \in LoopStates /\ InLoop(Extended(x, perm), at, sp, va)
<1>1. CASE perm = {}
  BY <1>1 DEF Extended
<1>2. CASE perm # {}
  <2>1. PICK X : X = {s \in LoopStates : /\ InLoop(s, at, sp, va)
                                         /\ s.x.level > 0 => "P" \notin At(s.m, s.x).perm}
    OBVIOUS
  <2>2. now \in X
    BY <1>2, <2>1
  <2>3. ASSUME NEW s \in X PROVE Extend(s) \in X
    BY <2>1, ExtendKeeps
  <2>4. PICK step : step = [s \in X |-> Extend(s)]
    OBVIOUS
  <2>5. step \in [X -> X] /\ Top \in Nat
    BY <2>3, <2>4, Numbers
  <2>6. PICK f : Iterates(f, step, now, Top, X)
    BY <2>2, <2>5, IterationExists
  <2>7. f \in [0 .. Top -> X] /\ f[0] = now
    BY <2>6 DEF Iterates
  <2>8. ASSUME NEW n \in 0 .. Top
        PROVE  f[n] = IF n = 0 THEN now ELSE Extend(f[n - 1])
    <3>1. CASE n = 0
      BY <2>7, <3>1
    <3>2. CASE n # 0
      <4>1. n \in 1 .. Top /\ n - 1 \in 0 .. Top
        BY <2>5, <3>2
      <4>2. f[n] = step[f[n - 1]] /\ f[n - 1] \in X
        BY <2>6, <2>7, <4>1 DEF Iterates
      <4> QED
        BY <2>4, <3>2, <4>2
    <3> QED
      BY <3>1, <3>2
  <2>9. f = [n \in 0 .. Top |-> IF n = 0 THEN now ELSE Extend(f[n - 1])]
    BY <2>7, <2>8
  <2>10. PICK g : /\ g = CHOOSE turn :
                          turn = [n \in 0 .. Top |-> IF n = 0 THEN now ELSE Extend(turn[n - 1])]
                  /\ Extended(x, perm) = g[Top]
    BY <1>2 DEF Extended
  <2>11. g = [n \in 0 .. Top |-> IF n = 0 THEN now ELSE Extend(g[n - 1])]
    BY <2>9, <2>10
  <2>12. ASSUME NEW j \in 0 .. Top
         PROVE  g[j] = IF j = 0 THEN now ELSE Extend(g[j - 1])
    BY <2>11, Zenon
  <2> DEFINE S == {k \in Nat : k <= Top => g[k] \in X}
  <2>13. 0 \in S
    <3>1. 0 \in 0 .. Top
      BY <2>5
    <3> QED
      BY <2>2, <2>12, <3>1
  <2>14. ASSUME NEW k \in Nat, k \in S PROVE k + 1 \in S
    <3>1. CASE k + 1 <= Top
      <4>1. k + 1 \in 0 .. Top /\ k + 1 # 0 /\ k + 1 - 1 = k /\ g[k] \in X
        BY <2>5, <2>14, <3>1
      <4>2. g[k + 1] = Extend(g[k])
        <5>1. PICK j : j = k + 1
          OBVIOUS
        <5>2. g[j] = IF j = 0 THEN now ELSE Extend(g[j - 1])
          BY <2>12, <4>1, <5>1
        <5> QED
          BY <4>1, <5>1, <5>2
      <4> QED
        BY <2>3, <4>1, <4>2
    <3> QED
      BY <3>1
  <2> HIDE DEF S
  <2>15. Top \in S
    BY <2>5, <2>13, <2>14, NumbersOf
  <2>16. g[Top] \in X
    BY <2>5, <2>15 DEF S
  <2> QED
    BY <2>1, <2>10, <2>16
<1> QED
  BY <1>1, <1>2

\* The place a walk for its own address ends at, when it cannot go down.
LEMMA OwnWalk ==
    ASSUME NEW m, NEW u, NEW level, NEW part, Tree(m, u, level, part),
           NEW x \in PlacesIn(u, level, part), Lands(m, x), Descend(m, x) = x
    PROVE  Down(m, AtRoot(x.va)) = x
<1>1. x \in Places /\ x.va \in 0 .. Last /\ x.idx = PageIndex(x.va, x.level) /\ x.idx \in Indexes
      /\ x.perm = Full
      /\ x = [va |-> x.va, page |-> x.page, idx |-> x.idx, level |-> x.level, perm |-> x.perm]
  BY DEF PlacesIn, Places
<1>2. MovedTo(x, x.va) = [va |-> x.va, page |-> x.page, idx |-> PageIndex(x.va, x.level),
                          level |-> x.level, perm |-> Full]
  BY <1>1, MovedFields
<1>3. MovedTo(x, x.va) = x
  BY <1>1, <1>2
<1>4. Down(m, x) = x
  BY PlacesAreClosed, DownStays
<1>5. SameTable(x, x.va)
  BY DEF SameTable
<1> QED
  BY <1>1, <1>3, <1>4, <1>5 DEF Lands

\* Two places of the lowest level with one entry are for one address.
LEMMA LeafAddress ==
    ASSUME NEW u, NEW level, NEW part, NEW x \in PlacesIn(u, level, part),
           NEW y \in PlacesIn(u, level, part), x.va < Last, y.va < Last,
           x.page = y.page, x.idx = y.idx, x.level = 0
    PROVE  x.va = y.va
<1>1. y.level = 0
  BY DEF PlacesIn
<1>2. x.va \in Nat /\ y.va \in Nat /\ 0 \in 0 .. Top + 1
  BY Numbers DEF PlacesIn, Places
<1>3. x.va \div Span(0 + 1) = y.va \div Span(0 + 1) /\ PageIndex(x.va, 0) = PageIndex(y.va, 0)
  BY <1>1 DEF PlacesIn
<1>4. x.va \div Span(0) = (x.va \div Span(0 + 1)) * Fan + PageIndex(x.va, 0)
  BY <1>2, Addresses
<1>5. y.va \div Span(0) = (y.va \div Span(0 + 1)) * Fan + PageIndex(y.va, 0)
  BY <1>2, Addresses
<1>6. x.va \div Span(0) = y.va \div Span(0) /\ Span(0) = 1
  BY <1>3, <1>4, <1>5, SpansAre
<1>7. x.va \div 1 = x.va /\ y.va \div 1 = y.va
  BY <1>2
<1> QED
  BY <1>6, <1>7

\* Setting the leaf.
LEMMA SetSound ==
    ASSUME NEW m, NEW u, NEW at, NEW sp, NEW level, NEW part, Sound(m, u, at, sp, level, part),
           NEW x \in PlacesIn(u, level, part), x.level = 0, Lands(m, x), x.va < Last,
           NEW pa \in Nat, NEW perm \in SUBSET Full,
           NEW m2 \in Memories, OnlyEntry(m, m2, x.page, x.idx), At(m2, x) = Entry(pa, perm, FALSE),
           NEW i \in Iterators, NEW at2, at2 = [at EXCEPT ![i] = x],
           NEW sp2, sp2 = [sp EXCEPT ![x.va] = Mapping(pa, perm)]
    PROVE  Sound(m2, u, at2, sp2, level, part)
<1>1. PICK X : X = PlacesIn(u, level, part)
  OBVIOUS
<1>2. Tree(m, u, level, part)
  BY DEF Sound
<1>3. /\ Tree(m2, u, level, part)
      /\ \A y \in X : /\ y.page # x.page \/ y.idx # x.idx => At(m2, y) = At(m, y)
                      /\ Down(m2, y) = Down(m, y)
                      /\ Lands(m, y) => Lands(m2, y)
  BY <1>1, <1>2, SetLeaf
<1>4. x \in Places /\ x.va \in 0 .. Last - 1 /\ x.va \in Nat /\ x.perm = Full
  BY Numbers DEF PlacesIn, Places
<1>5. at2 \in [Iterators -> Places] /\ \A j \in Iterators : at2[j] \in X /\ Lands(m2, at2[j])
  <2>1. at \in [Iterators -> Places] /\ \A j \in Iterators : at[j] \in X /\ Lands(m, at[j])
    BY <1>1 DEF Sound
  <2>2. at2 \in [Iterators -> Places] /\ at2[i] = x /\ \A j \in Iterators : j # i => at2[j] = at[j]
    BY <1>4, <2>1
  <2> QED
    BY <1>1, <1>3, <2>1, <2>2
<1>6. ASSUME NEW va \in 0 .. Last - 1
      PROVE  sp2[va] = Report(m2, Down(m2, AtRoot(va)))
  <2>1. va \in 0 .. Last /\ va < Last
    BY Numbers
  <2>2. sp[va] = Report(m, Down(m, AtRoot(va))) /\ DOMAIN sp = 0 .. Last - 1
    BY DEF Sound
  <2>3. PICK z : z = Down(m, AtRoot(va))
    OBVIOUS
  <2>4. z \in X /\ z.va = va /\ Down(m2, AtRoot(va)) = z
    BY <1>1, <1>2, <1>3, <2>1, <2>3, WalkEnds, RootIsPlace
  <2>5. CASE va = x.va
    <3>1. Descend(m, x) = x
      BY DEF Descend
    <3>2. z = x
      BY <1>2, <2>3, <2>5, <3>1, OwnWalk
    <3>3. va % 1 = 0 /\ pa + 0 = pa
      BY <2>1, Numbers
    <3>4. Span(x.level) = 1
      BY SpansAre
    <3>5. PaAt(m2, x) = IF "P" \in perm THEN pa ELSE 0
      BY <2>5, <3>3, <3>4 DEF PaAt, Entry
    <3>6. PermAt(m2, x) = IF "P" \in perm THEN perm ELSE {}
      <4>1. perm \cap x.perm = perm
        BY <1>4
      <4>2. At(m2, x).perm = perm
        BY DEF Entry
      <4> QED
        BY <4>1, <4>2 DEF PermAt
    <3>7. Report(m2, x) = Mapping(pa, perm)
      BY <3>5, <3>6 DEF Report, Mapping, Unmapped
    <3>8. sp2[va] = Mapping(pa, perm)
      BY <2>2, <2>5
    <3> QED
      BY <2>4, <3>2, <3>7, <3>8
  <2>6. CASE va # x.va
    <3>1. z.page # x.page \/ z.idx # x.idx
      BY <1>1, <2>1, <2>4, <2>6, LeafAddress
    <3>2. Report(m2, z) = Report(m, z)
      BY <1>3, <2>4, <3>1, SameEntrySame
    <3>3. sp2[va] = sp[va]
      BY <2>2, <2>6
    <3> QED
      BY <2>2, <2>3, <2>4, <3>2, <3>3
  <2> QED
    BY <2>5, <2>6
<1>7. sp2 = [va \in 0 .. Last - 1 |-> Report(m2, Down(m2, AtRoot(va)))]
  <2>1. DOMAIN sp = 0 .. Last - 1
    BY DEF Sound
  <2>2. sp2 = [va \in 0 .. Last - 1 |-> sp2[va]]
    BY <2>1
  <2> QED
    BY <1>6, <2>2
<1> QED
  BY <1>1, <1>3, <1>5, <1>7 DEF Sound

\* What the ptiter does depends on no more than the tables that are made already.
LEMMA OffFrees ==
    ASSUME NEW m, NEW u, NEW level, NEW part, NEW m2, NEW u2, NEW level2, NEW part2,
           NEW p, NEW gone, p.pc = "off", Frees(m, u, p, gone, level, part)
    PROVE  Frees(m2, u2, p, gone, level2, part2)
BY DEF Frees

LEMMA MapKeeps ==
    ASSUME TableInvariant, NEW i \in Iterators, NEW pa \in Frames, NEW perm \in Perms,
           Map(i, pa, perm)
    PROVE  TableInvariant'
<1>1. PICK level, part, sp : /\ Sound(memory, used, it, sp, level, part)
                             /\ Answers(sp, space, ignored)
                             /\ Frees(memory, used, pt, freed, level, part)
  BY DEF TableInvariant
<1>2. PICK x, va : x = it[i] /\ va = x.va
  OBVIOUS
<1>3. PICK s : s = Extended(x, perm)
  OBVIOUS
<1>4. /\ pt.pc = "off" /\ x.va < Last /\ perm \subseteq Full
      /\ perm # {} /\ x.level > 0 => "P" \notin At(memory, x).perm
      /\ used' = s.used /\ it' = [it EXCEPT ![i] = s.x] /\ pt' = pt /\ freed' = freed
      /\ \/ /\ s.x.level = 0
            /\ memory' = [s.m EXCEPT ![s.x.page][s.x.idx] = Entry(pa, perm, FALSE)]
         \/ s.x.level # 0 /\ memory' = s.m
      /\ \/ /\ s.x.level = 0 \/ perm = {}
            /\ space' = [space EXCEPT ![va] = Mapping(pa, perm)]
            /\ ignored' = IF s.x.level = 0 \/ Mapped(va) = Unmapped THEN ignored \ {va}
                          ELSE ignored \cup {va}
         \/ s.x.level # 0 /\ perm # {} /\ space' = space /\ ignored' = ignored
  <2>1. perm \subseteq Full
    BY PageTableAssumption DEF Full
  <2> QED
    BY <1>2, <1>3, <2>1 DEF Map, MayMap, Alive, asked
<1>5. /\ Tree(memory, used, level, part) /\ x \in PlacesIn(used, level, part) /\ Lands(memory, x)
      /\ x \in Places /\ va \in 0 .. Last
  BY <1>1, <1>2 DEF Sound, PlacesIn, Places
<1>6. PICK now : now = [m |-> memory, used |-> used, x |-> x]
  OBVIOUS
<1>7. now \in LoopStates /\ now.m = memory /\ now.used = used /\ now.x = x
  BY <1>5, <1>6 DEF LoopStates, Tree
<1>8. InLoop(now, it, sp, va)
  BY <1>1, <1>2, <1>5, <1>7 DEF InLoop
<1>9. s \in LoopStates /\ InLoop(s, it, sp, va)
  BY <1>3, <1>4, <1>5, <1>6, <1>7, <1>8, ExtendedIs
<1>10. PICK level2, part2 : /\ Sound(s.m, s.used, it, sp, level2, part2)
                            /\ s.x \in PlacesIn(s.used, level2, part2)
  BY <1>9 DEF InLoop
<1>11. Lands(s.m, s.x) /\ s.x.va = va
  BY <1>9 DEF InLoop
<1>12. s.x \in Places /\ s.m \in Memories /\ s.x.page \in Tables /\ s.x.idx \in Indexes
  BY <1>9 DEF LoopStates, Places
<1>13. PICK now2 : now2 = IF s.x.level = 0 THEN [sp EXCEPT ![va] = Mapping(pa, perm)] ELSE sp
  OBVIOUS
<1>14. Sound(memory', used', it', now2, level2, part2)
  <2>1. CASE s.x.level # 0
    <3>1. it' \in [Iterators -> Places]
          /\ \A j \in Iterators : it'[j] \in PlacesIn(s.used, level2, part2) /\ Lands(s.m, it'[j])
      BY <1>4, <1>10, <1>11, <1>12 DEF Sound
    <3> QED
      BY <1>4, <1>10, <1>13, <2>1, <3>1 DEF Sound
  <2>2. CASE s.x.level = 0
    <3>1. PICK e : e = Entry(pa, perm, FALSE)
      OBVIOUS
    <3>2. e \in Entries
      <4>1. pa \in Nat /\ perm \in SUBSET Full
        BY <1>4, PageTableAssumption
      <4> QED
        BY <3>1, <4>1 DEF Entry, Entries
    <3>3. memory' = [s.m EXCEPT ![s.x.page][s.x.idx] = e]
      BY <1>4, <2>2, <3>1
    <3>4. memory' \in Memories
      BY <1>12, <3>2, <3>3 DEF Memories
    <3>5. OnlyEntry(s.m, memory', s.x.page, s.x.idx)
      BY <1>12, <3>3 DEF OnlyEntry, Memories
    <3>6. At(memory', s.x) = Entry(pa, perm, FALSE)
      BY <1>12, <3>1, <3>3 DEF At, Memories
    <3>7. pa \in Nat /\ perm \in SUBSET Full
      BY <1>4, PageTableAssumption
    <3>8. s.x.va < Last /\ now2 = [sp EXCEPT ![s.x.va] = Mapping(pa, perm)]
      BY <1>2, <1>4, <1>11, <1>13, <2>2
    <3>9. PICK m, u, y, m2, at2, sp2 : /\ m = s.m /\ u = s.used /\ y = s.x
                                       /\ m2 = memory' /\ at2 = it' /\ sp2 = now2
      OBVIOUS
    <3>10. Sound(m2, u, at2, sp2, level2, part2)
      BY <1>4, <1>10, <1>11, <2>2, <3>4, <3>5, <3>6, <3>7, <3>8, <3>9, SetSound
    <3> QED
      BY <1>4, <3>9, <3>10
  <2> QED
    BY <2>1, <2>2
<1>15. Frees(memory', used', pt', freed', level2, part2)
  BY <1>1, <1>4, OffFrees
<1>16. Mapped(va) = sp[va]
  <2>1. va \in 0 .. Last - 1
    BY <1>2, <1>4, <1>5, Numbers
  <2> QED
    BY <1>1, <2>1 DEF Sound, Mapped, Fresh
<1>17. Answers(now2, space', ignored')
  <2>1. /\ DOMAIN space = 0 .. Last - 1 /\ DOMAIN sp = 0 .. Last - 1
        /\ \A w \in 0 .. Last - 1 : IF w \in ignored THEN space[w] = Unmapped /\ sp[w] # Unmapped
                                     ELSE space[w] = sp[w]
    BY <1>1 DEF Answers, Sound
  <2>2. CASE s.x.level = 0
    BY <1>4, <1>13, <2>1, <2>2 DEF Answers
  <2>3. CASE s.x.level # 0 /\ perm = {}
    <3>1. Mapping(pa, perm) = Unmapped
      BY <2>3 DEF Mapping
    <3>2. now2 = sp /\ space' = [space EXCEPT ![va] = Unmapped]
          /\ ignored' = IF sp[va] = Unmapped THEN ignored \ {va} ELSE ignored \cup {va}
      BY <1>4, <1>16, <1>13, <2>3, <3>1
    <3> QED
      BY <2>1, <3>2 DEF Answers
  <2>4. CASE s.x.level # 0 /\ perm # {}
    BY <1>1, <1>4, <1>13, <2>4
  <2> QED
    BY <2>2, <2>3, <2>4
<1> QED
  BY <1>14, <1>15, <1>17 DEF TableInvariant

\* find(), next() and step() take the iterator to where a walk from the root ends.
LEMMA MovesKeep ==
    ASSUME TableInvariant, NEW i \in Iterators, NEW va \in 0 .. Last,
           it' = [it EXCEPT ![i] = RealFind(memory, @, va)],
           UNCHANGED <<memory, used, pt, freed, asked>>
    PROVE  TableInvariant'
<1>1. PICK level, part, sp : /\ Sound(memory, used, it, sp, level, part)
                             /\ Answers(sp, space, ignored)
                             /\ Frees(memory, used, pt, freed, level, part)
  BY DEF TableInvariant
<1>2. PICK y : y = Down(memory, AtRoot(va))
  OBVIOUS
<1>3. RealFind(memory, it[i], va) = y
  BY <1>1, <1>2, RealFindLands DEF Sound
<1>4. y \in PlacesIn(used, level, part) /\ Lands(memory, y)
  BY <1>1, <1>2, WalkEnds DEF Sound
<1>5. y \in Places
  BY <1>4 DEF PlacesIn
<1>6. it' = [it EXCEPT ![i] = y]
  BY <1>3
<1>7. it' \in [Iterators -> Places]
      /\ \A j \in Iterators : it'[j] \in PlacesIn(used, level, part) /\ Lands(memory, it'[j])
  BY <1>1, <1>4, <1>5, <1>6 DEF Sound
<1>8. Sound(memory', used', it', sp, level, part)
  BY <1>1, <1>7 DEF Sound
<1>9. Frees(memory', used', pt', freed', level, part)
  BY <1>1
<1>10. Answers(sp, space', ignored')
  BY <1>1 DEF asked
<1> QED
  BY <1>8, <1>9, <1>10 DEF TableInvariant

\* Where next() and step() look for is an address, or the end.
LEMMA NextAddresses ==
    ASSUME NEW x \in Places, x.va < Last, NEW m
    PROVE  /\ LastVa(x) \in 0 .. Last /\ x.va < LastVa(x)
           /\ NextVa(m, x) \in 0 .. Last /\ x.va < NextVa(m, x)
<1>1. x.va \in Nat /\ x.level \in 0 .. Top + 1 /\ 0 \in 0 .. Top + 1
  BY Numbers DEF Places
<1>2. PICK k : k = SkipLevel(m, x) /\ k \in 0 .. Top + 1
  BY <1>1 DEF SkipLevel
<1>3. x.va < LastVa(x) /\ LastVa(x) <= Last /\ LastVa(x) \in Nat
  BY <1>1, EndsBeforeLast DEF LastVa
<1>4. PICK e : e = (x.va \div Span(k) + 1) * Span(k) /\ x.va < e /\ e <= Last /\ e \in Nat
  BY <1>1, <1>2, EndsBeforeLast
<1>5. NextVa(m, x) = e
  BY <1>2, <1>4 DEF NextVa
<1> QED
  BY <1>3, <1>4, <1>5, Numbers

LEMMA VmiterKeeps ==
    ASSUME TableInvariant, NEW i \in Iterators, Vmiter(i)
    PROVE  TableInvariant'
<1>0. it[i] \in Places
  BY DEF TableInvariant, Sound
<1>1. CASE Find(i)
  <2>1. PICK va \in 0 .. Last : it' = [it EXCEPT ![i] = RealFind(memory, @, va)]
    BY <1>1 DEF Find
  <2> QED
    BY <1>1, <2>1, MovesKeep DEF Find
<1>2. CASE Next(i)
  <2>1. PICK va \in 0 .. Last : va = NextVa(memory, it[i])
    BY <1>0, <1>2, NextAddresses DEF Next
  <2>2. it' = [it EXCEPT ![i] = RealFind(memory, @, va)]
    BY <1>2, <2>1 DEF Next
  <2> QED
    BY <1>2, <2>2, MovesKeep DEF Next
<1>3. CASE Step(i)
  <2>1. PICK va \in 0 .. Last : va = LastVa(it[i])
    BY <1>0, <1>3, NextAddresses DEF Step
  <2>2. it' = [it EXCEPT ![i] = RealFind(memory, @, va)]
    BY <1>3, <2>1 DEF Step
  <2> QED
    BY <1>3, <2>2, MovesKeep DEF Step
<1>4. CASE \E pa \in Frames, perm \in Perms : Map(i, pa, perm)
  BY <1>4, MapKeeps
<1> QED
  BY <1>1, <1>2, <1>3, <1>4 DEF Vmiter

-----------------------------------------------------------------------------
(* The ptiter.                                                             *)

\* What Walking says of addresses, for every step of the ptiter.
LEMMA WalkingAt ==
    ASSUME NEW m, NEW u, NEW level, NEW part, Tree(m, u, level, part),
           NEW p \in PtStates, NEW gone, Walking(m, u, p, gone, level, part)
    PROVE  /\ p.va \in Nat /\ p.level \in 0 .. Top + 1 /\ p.level \in 0 .. Top
           /\ p.page \in 1 .. u /\ p.idx \in Indexes
           /\ p.va < LastVa(p) /\ LastVa(p) <= Last /\ LastVa(p) \in Nat
           /\ p.skip \in BOOLEAN
           /\ ~p.skip => Floor(p) = p.stop - 1
           /\ p.skip => Floor(p) = p.level
           /\ Floor(p) \in 0 .. p.level
<1>1. p.va \in Nat /\ p.va < Last /\ p.level \in 1 .. Top /\ p.level \in 0 .. Top + 1 /\ p.level \in 0 .. Top
      /\ p.stop \in 1 .. p.level /\ p.skip \in BOOLEAN /\ p.page \in 1 .. u /\ p.idx \in Indexes
  BY Numbers DEF PtStates, Walking
<1>2. p.va < LastVa(p) /\ LastVa(p) <= Last /\ LastVa(p) \in Nat
  BY <1>1, EndsBeforeLast DEF LastVa
<1>3. (~p.skip => Floor(p) = p.stop - 1) /\ (p.skip => Floor(p) = p.level)
  BY DEF Floor
<1>4. Floor(p) \in 0 .. p.level
  BY <1>1, <1>3, Numbers
<1> QED
  BY <1>1, <1>2, <1>3, <1>4

\* Where the ptiter begins, at the address va.
LEMMA FromRoot ==
    ASSUME NEW m, NEW u, NEW level, NEW part, Tree(m, u, level, part),
           NEW p \in PtStates, NEW gone, p.pc = "down", p.va < Last, p.level = Top,
           p.page = Root, p.idx = PageIndex(p.va, Top), p.stop \in 1 .. Top, gone \subseteq 1 .. u,
           \A t \in gone : Past(t, p.va, level, part) \/ Above(t, p, level, part)
    PROVE  Walking(m, u, p, gone, level, part)
<1>1. AtRoot(p.va) \in PlacesIn(u, level, part)
  BY RootIsPlace DEF PtStates
<1>2. part[Root] = p.va \div Span(Top + 1) /\ Root \in 1 .. u /\ level[Root] = Top
  BY <1>1 DEF PlacesIn, AtRoot
<1>3. Top \in 1 .. Top
  BY PageTableAssumption
<1> QED
  BY <1>2, <1>3 DEF Walking

LEMMA BeginKeeps ==
    ASSUME NEW level, NEW part, Tree(memory, used, level, part),
           Frees(memory, used, pt, freed, level, part), Begin
    PROVE  Frees(memory', used', pt', freed', level, part)
<1>1. PICK p : p = [pc |-> "down", va |-> 0, page |-> Root, idx |-> 0, level |-> Top,
                    skip |-> FALSE, stop |-> 1]
  OBVIOUS
<1>2. pt' = p /\ freed = {} /\ freed' = {} /\ memory' = memory /\ used' = used
  BY <1>1 DEF Begin, Frees
<1>3. PageIndex(0, Top) = 0 /\ 0 \in Indexes
  <2>1. Span(Top) \in Nat \ {0} /\ Fan \in Nat \ {0}
    BY SpansAre, Numbers
  <2>2. 0 \div Span(Top) = 0
    BY <2>1
  <2>3. 0 % Fan = 0 /\ 0 \in 0 .. Fan - 1
    BY <2>1
  <2> QED
    BY <2>2, <2>3 DEF PageIndex, Indexes
<1>4. p \in PtStates
  <2>1. 0 \in 0 .. Last /\ Top \in 0 .. Top /\ 1 \in Nat
    BY Numbers
  <2> QED
    BY <1>1, <1>3, <2>1, Numbers DEF PtStates
<1>5. Walking(memory, used, p, {}, level, part)
  <2>1. /\ p.pc = "down" /\ p.va < Last /\ p.level = Top /\ p.page = Root
        /\ p.idx = PageIndex(p.va, Top) /\ p.stop \in 1 .. Top
    BY <1>1, <1>3, PageTableAssumption, Numbers
  <2> QED
    BY <1>4, <2>1, FromRoot
<1>6. p.pc = "down"
  BY <1>1
<1> QED
  BY <1>2, <1>4, <1>5, <1>6 DEF Frees

LEMMA DownATableKeeps ==
    ASSUME NEW level, NEW part, Tree(memory, used, level, part),
           Frees(memory, used, pt, freed, level, part), DownATable
    PROVE  Frees(memory', used', pt', freed', level, part)
<1>1. pt \in PtStates /\ Walking(memory, used, pt, freed, level, part) /\ pt.pc = "down"
  BY DEF Frees, DownATable
<1>2. PICK e, j : e = memory[pt.page][pt.idx] /\ j = PageIndex(pt.va, pt.level - 1)
  OBVIOUS
<1>3. /\ IsTable(e) /\ ~pt.skip /\ pt.level # pt.stop
      /\ pt' = [pt EXCEPT !.level = @ - 1, !.page = e.to, !.idx = j]
      /\ freed' = freed /\ memory' = memory /\ used' = used
  BY <1>2 DEF DownATable, Enters, At
<1>4. /\ pt.va \in Nat /\ pt.level \in 0 .. Top + 1 /\ pt.level \in 0 .. Top /\ pt.page \in 1 .. used
      /\ pt.idx \in Indexes /\ Floor(pt) = pt.stop - 1
  BY <1>1, <1>3, WalkingAt
<1>5. pt.level \in 2 .. Top /\ pt.stop \in 1 .. pt.level - 1 /\ pt.level - 1 \in 0 .. Top + 1
      /\ pt.level - 1 \in 0 .. Top /\ pt.level - 1 \in 1 .. Top /\ (pt.level - 1) + 1 = pt.level
  BY <1>1, <1>3, <1>4, Numbers DEF Walking
<1>6. e.to \in 1 .. used /\ level[e.to] = pt.level - 1 /\ part[e.to] = part[pt.page] * Fan + pt.idx
  BY SMTT(30), <1>1, <1>2, <1>3, <1>4, <1>5 DEF Tree, Hangs, Walking
<1>7. part[e.to] = pt.va \div Span(pt.level)
  <2>1. pt.va \div Span(pt.level) = (pt.va \div Span(pt.level + 1)) * Fan + PageIndex(pt.va, pt.level)
    BY <1>4, Addresses
  <2> QED
    BY <1>1, <1>6, <2>1 DEF Walking
<1>8. j \in Indexes
  BY <1>2, <1>4, <1>5, Addresses
<1>9. e.to \in Tables
  <2>1. used \in 1 .. NTables
    BY DEF Tree
  <2> QED
    BY <1>6, <2>1, PageTableAssumption DEF Tables
<1>10. pt' \in PtStates
  BY <1>1, <1>3, <1>5, <1>8, <1>9 DEF PtStates
<1>11. /\ pt'.pc = "down" /\ pt'.va = pt.va /\ pt'.level = pt.level - 1 /\ pt'.page = e.to
       /\ pt'.idx = j /\ pt'.stop = pt.stop /\ ~pt'.skip
  BY <1>1, <1>3 DEF PtStates
<1>12. ASSUME NEW t \in freed
       PROVE  Past(t, pt'.va, level, part) \/ Above(t, pt', level, part)
  <2>1. Floor(pt') = Floor(pt)
    BY <1>4, <1>11 DEF Floor
  <2>2. Past(t, pt.va, level, part) \/ Above(t, pt, level, part)
    BY <1>1 DEF Walking
  <2> QED
    BY <1>11, <2>1, <2>2 DEF Above
<1>13. Walking(memory, used, pt', freed, level, part)
  BY <1>1, <1>2, <1>5, <1>6, <1>7, <1>11, <1>12 DEF Walking
<1> QED
  BY <1>3, <1>10, <1>11, <1>13 DEF Frees

LEMMA ArriveKeeps ==
    ASSUME NEW level, NEW part, Tree(memory, used, level, part),
           Frees(memory, used, pt, freed, level, part), Arrive
    PROVE  Frees(memory', used', pt', freed', level, part)
<1>1. pt \in PtStates /\ Walking(memory, used, pt, freed, level, part)
  BY DEF Frees, Arrive
<1>2. /\ IsTable(memory[pt.page][pt.idx]) /\ ~pt.skip /\ pt.level = pt.stop
      /\ pt' = [pt EXCEPT !.pc = "visit"]
      /\ freed' = freed /\ memory' = memory /\ used' = used
  BY DEF Arrive, Enters, At
<1>3. /\ pt' \in PtStates /\ pt'.pc = "visit" /\ pt'.va = pt.va /\ pt'.level = pt.level
      /\ pt'.page = pt.page /\ pt'.idx = pt.idx /\ pt'.stop = pt.stop /\ pt'.skip = pt.skip
  BY <1>1, <1>2 DEF PtStates
<1>4. Walking(memory, used, pt', freed, level, part)
  BY <1>1, <1>2, <1>3 DEF Walking, Above, Floor
<1> QED
  BY <1>2, <1>3, <1>4 DEF Frees

LEMMA VisitKeeps ==
    ASSUME NEW level, NEW part, Tree(memory, used, level, part),
           Frees(memory, used, pt, freed, level, part), Visit
    PROVE  Frees(memory', used', pt', freed', level, part)
<1>1. pt \in PtStates /\ Walking(memory, used, pt, freed, level, part) /\ pt.pc = "visit"
  BY DEF Frees, Visit
<1>2. PICK e : e = memory[pt.page][pt.idx]
  OBVIOUS
<1>3. /\ IsTable(e) /\ ~pt.skip /\ pt.level = pt.stop
      /\ pt' = [pt EXCEPT !.pc = "down", !.skip = TRUE, !.stop = 1]
      /\ freed' = freed \cup {e.to} /\ memory' = memory /\ used' = used
  BY <1>1, <1>2 DEF Visit, Walking, At
<1>4. /\ pt.va \in Nat /\ pt.level \in 0 .. Top + 1 /\ pt.level \in 0 .. Top /\ pt.page \in 1 .. used
      /\ pt.idx \in Indexes /\ Floor(pt) = pt.stop - 1
  BY <1>1, <1>3, WalkingAt
<1>5. pt.level \in 1 .. Top /\ (pt.level - 1) + 1 = pt.level /\ level[pt.page] = pt.level
      /\ pt.level - 1 < pt.level /\ 1 \in 1 .. pt.level
  BY <1>1, <1>4 DEF Walking
<1>6. e.to \in 1 .. used /\ level[e.to] = pt.level - 1 /\ part[e.to] = part[pt.page] * Fan + pt.idx
  BY <1>2, <1>3, <1>4, <1>5 DEF Tree, Hangs
<1>7. part[e.to] = pt.va \div Span(pt.level)
  <2>1. pt.va \div Span(pt.level) = (pt.va \div Span(pt.level + 1)) * Fan + PageIndex(pt.va, pt.level)
    BY <1>4, Addresses
  <2> QED
    BY <1>1, <1>6, <2>1 DEF Walking
<1>8. /\ pt' \in PtStates /\ pt'.pc = "down" /\ pt'.va = pt.va /\ pt'.level = pt.level
      /\ pt'.page = pt.page /\ pt'.idx = pt.idx /\ pt'.stop = 1 /\ pt'.skip
  BY <1>1, <1>3 DEF PtStates
<1>9. Floor(pt') = pt.level
  BY <1>8 DEF Floor
<1>10. ASSUME NEW t \in freed'
       PROVE  t \in 1 .. used /\ (Past(t, pt'.va, level, part) \/ Above(t, pt', level, part))
  <2>1. CASE t = e.to
    <3>1. Above(t, pt', level, part)
      BY <1>5, <1>6, <1>7, <1>8, <1>9, <2>1 DEF Above
    <3> QED
      BY <1>6, <2>1, <3>1
  <2>2. CASE t \in freed
    <3>1. t \in 1 .. used /\ (Past(t, pt.va, level, part) \/ Above(t, pt, level, part))
      BY <1>1, <2>2 DEF Walking
    <3>2. level[t] \in 0 .. Top
      BY <3>1, Numbers DEF Tree, Tables
    <3>3. level[t] < Floor(pt) => level[t] < Floor(pt')
      BY <1>3, <1>4, <1>5, <1>9, <3>2
    <3> QED
      BY <1>8, <3>1, <3>3 DEF Above
  <2> QED
    BY <1>3, <2>1, <2>2
<1>11. Walking(memory, used, pt', freed', level, part)
  BY <1>1, <1>5, <1>8, <1>10 DEF Walking
<1> QED
  BY <1>3, <1>8, <1>11 DEF Frees

\* What an entry covers ends with, or before, what an entry of a higher level does.
LEMMA NestedEnds ==
    ASSUME NEW v \in Nat, NEW h \in 0 .. Top + 1, NEW l \in 0 .. h
    PROVE  (v \div Span(l) + 1) * Span(l) <= (v \div Span(h) + 1) * Span(h)
<1>1. Top \in Nat /\ l \in Nat /\ h \in l .. Top + 2 /\ h \in 0 .. Top + 2 /\ l \in 0 .. Top + 2
  BY Numbers
<1>2. PICK c \in Nat : Span(h) = c * Span(l)
  BY <1>1, SpanDivides
<1>3. PICK s \in Nat \ {0} : Span(l) = s
  BY <1>1, SpansAre
<1>4. PICK b \in Nat \ {0} : Span(h) = b
  BY <1>1, SpansAre
<1>5. PICK q \in Nat : v \div b = q /\ v < (q + 1) * b
  BY <1>4, Remainders
<1>6. PICK k \in Nat : k = (q + 1) * c
  OBVIOUS
<1>7. k * s = (q + 1) * b
  <2>1. ((q + 1) * c) * s = (q + 1) * (c * s)
    OBVIOUS
  <2> QED
    BY <1>2, <1>3, <1>4, <1>6, <2>1
<1>8. (v \div s + 1) * s <= k * s
  BY <1>5, <1>7, Blocks
<1>9. v \div Span(h) = q
  BY <1>4, <1>5
<1> QED
  BY <1>3, <1>4, <1>7, <1>8, <1>9

LEMMA AlongKeeps ==
    ASSUME NEW level, NEW part, Tree(memory, used, level, part),
           Frees(memory, used, pt, freed, level, part), Along
    PROVE  Frees(memory', used', pt', freed', level, part)
<1>1. pt \in PtStates /\ Walking(memory, used, pt, freed, level, part) /\ pt.pc = "down"
  BY DEF Frees, Along
<1>2. PICK w : w = LastVa(pt)
  OBVIOUS
<1>3. /\ SameTable(pt, w)
      /\ pt' = [pt EXCEPT !.idx = @ + 1, !.va = w, !.skip = FALSE]
      /\ freed' = freed /\ memory' = memory /\ used' = used
  BY <1>2 DEF Along
<1>4. /\ pt.va \in Nat /\ pt.level \in 0 .. Top + 1 /\ pt.level + 1 \in 0 .. Top + 1 /\ pt.level \in 1 .. Top
      /\ pt.idx \in Indexes /\ Floor(pt) \in 0 .. pt.level
      /\ pt.va < w /\ w <= Last /\ w \in Nat
  <2>1. pt.level \in 1 .. Top
    BY <1>1 DEF Walking
  <2>2. pt.level + 1 \in 0 .. Top + 1
    BY <2>1, Numbers
  <2> QED
    BY <1>1, <1>2, <2>1, <2>2, WalkingAt
<1>5. w < Last
  <2>1. pt.va \div Span(pt.level + 1) # Last \div Span(pt.level + 1)
    BY <1>1, <1>4, EndsBeforeLast DEF Walking
  <2>2. w # Last
    BY <1>3, <2>1 DEF SameTable
  <2> QED
    BY <1>4, <2>2, Numbers
<1>6. PICK h \in Nat : pt.va \div Span(pt.level + 1) = h
  BY <1>4, Addresses
<1>7. w \div Span(pt.level + 1) = h
  BY <1>3, <1>6 DEF SameTable
<1>8. PICK q \in Nat : pt.va \div Span(pt.level) = q
  BY <1>4, Addresses
<1>9. w \div Span(pt.level) = q + 1
  <2>1. PICK s \in Nat \ {0} : Span(pt.level) = s
    <3>1. pt.level \in 0 .. Top + 2
      BY <1>4, Numbers
    <3> QED
      BY <3>1, SpansAre
  <2>2. w = (q + 1) * s
    BY <1>2, <1>8, <2>1 DEF LastVa
  <2>3. ((q + 1) * s) \div s = q + 1
    BY Blocks
  <2> QED
    BY <2>1, <2>2, <2>3
<1>10. pt.idx + 1 = PageIndex(w, pt.level) /\ PageIndex(w, pt.level) \in Indexes
  <2>1. q = h * Fan + PageIndex(pt.va, pt.level) /\ PageIndex(pt.va, pt.level) \in Indexes
    BY <1>4, <1>6, <1>8, Addresses
  <2>2. q + 1 = h * Fan + PageIndex(w, pt.level) /\ PageIndex(w, pt.level) \in Indexes
    BY <1>4, <1>7, <1>9, Addresses
  <2>3. pt.idx = PageIndex(pt.va, pt.level)
    BY <1>1 DEF Walking
  <2>4. PICK a \in Nat : a = h * Fan
    BY Numbers
  <2> QED
    BY <2>1, <2>2, <2>3, <2>4, Numbers DEF Indexes
<1>11. w \in 0 .. Last
  BY <1>4, Numbers
<1>12. pt' \in PtStates
  BY <1>1, <1>3, <1>10, <1>11 DEF PtStates
<1>13. /\ pt'.pc = "down" /\ pt'.va = w /\ pt'.level = pt.level /\ pt'.page = pt.page
       /\ pt'.idx = PageIndex(w, pt.level) /\ pt'.stop = pt.stop /\ ~pt'.skip
  BY <1>1, <1>3, <1>10 DEF PtStates
<1>14. ASSUME NEW t \in freed PROVE Past(t, w, level, part)
  <2>1. t \in 1 .. used /\ (Past(t, pt.va, level, part) \/ Above(t, pt, level, part))
    BY <1>1 DEF Walking
  <2>2. level[t] \in 0 .. Top /\ part[t] \in Nat
    BY <2>1, Numbers DEF Tree, Tables
  <2>3. CASE Past(t, pt.va, level, part)
    <3>1. PICK e \in Nat : e = (part[t] + 1) * Span(level[t] + 1)
      <4>1. level[t] + 1 \in 0 .. Top + 2
        BY <2>2, Numbers
      <4>2. Span(level[t] + 1) \in Nat
        BY <4>1, SpansAre
      <4> QED
        BY <2>2, <4>2
    <3>2. e <= pt.va
      BY <2>3, <3>1 DEF Past
    <3>3. e <= w
      BY <1>4, <3>1, <3>2
    <3> QED
      BY <3>1, <3>3, Zenon DEF Past
  <2>4. CASE Above(t, pt, level, part)
    <3>1. level[t] + 1 \in 0 .. pt.level
      BY <1>4, <2>2, <2>4, Numbers DEF Above
    <3>2. (pt.va \div Span(level[t] + 1) + 1) * Span(level[t] + 1)
            <= (pt.va \div Span(pt.level) + 1) * Span(pt.level)
      BY <1>4, <3>1, NestedEnds
    <3> QED
      BY <1>2, <2>4, <3>2 DEF Past, Above, LastVa
  <2> QED
    BY <2>1, <2>3, <2>4
<1>15. Walking(memory, used, pt', freed, level, part)
  <2>1. part[pt.page] = w \div Span(pt.level + 1)
    BY <1>1, <1>6, <1>7 DEF Walking
  <2> QED
    BY <1>1, <1>5, <1>13, <1>14, <2>1 DEF Walking
<1> QED
  BY <1>3, <1>12, <1>13, <1>15 DEF Frees

LEMMA UpKeeps ==
    ASSUME NEW level, NEW part, Tree(memory, used, level, part),
           Frees(memory, used, pt, freed, level, part), Up
    PROVE  Frees(memory', used', pt', freed', level, part)
<1>1. pt \in PtStates /\ Walking(memory, used, pt, freed, level, part) /\ pt.pc = "down"
  BY DEF Frees, Up
<1>2. freed' = freed /\ memory' = memory /\ used' = used
  BY DEF Up
<1>3. /\ pt.va \in Nat /\ pt.level \in 0 .. Top + 1 /\ pt.level \in 1 .. Top
      /\ Floor(pt) \in 0 .. pt.level
  BY <1>1, WalkingAt DEF Walking
<1>4. CASE pt.level = Top
  <2>1. pt' = [pt EXCEPT !.va = Last, !.pc = "end"]
    BY <1>4 DEF Up
  <2>2. Last \in 0 .. Last
    BY Numbers
  <2>3. pt' \in PtStates /\ pt'.pc = "end"
    BY <1>1, <2>1, <2>2 DEF PtStates
  <2> QED
    BY <1>2, <2>3 DEF Frees
<1>5. CASE pt.level # Top
  <2>1. PICK n, j : n = pt.level + 1 /\ j = PageIndex(pt.va, Top)
    OBVIOUS
  <2>2. pt' = [pt EXCEPT !.stop = n, !.level = Top, !.page = Root, !.idx = j, !.skip = FALSE]
    BY <1>5, <2>1 DEF Up, StopAbove
  <2>3. n \in 1 .. Top /\ n \in Nat /\ Top \in 0 .. Top /\ Top \in 0 .. Top + 1
    BY <1>3, <1>5, <2>1, Numbers
  <2>4. j \in Indexes
    BY <1>3, <2>1, <2>3, Addresses
  <2>5. pt' \in PtStates
    BY <1>1, <2>2, <2>3, <2>4, Numbers DEF PtStates
  <2>6. /\ pt'.pc = "down" /\ pt'.va = pt.va /\ pt'.level = Top /\ pt'.page = Root
        /\ pt'.idx = PageIndex(pt.va, Top) /\ pt'.stop = n /\ ~pt'.skip
    BY <1>1, <2>1, <2>2 DEF PtStates
  <2>7. Floor(pt') = pt.level
    BY <1>3, <2>1, <2>6 DEF Floor
  <2>8. ASSUME NEW t \in freed
        PROVE  t \in 1 .. used /\ (Past(t, pt'.va, level, part) \/ Above(t, pt', level, part))
    <3>1. t \in 1 .. used /\ (Past(t, pt.va, level, part) \/ Above(t, pt, level, part))
      BY <1>1 DEF Walking
    <3>2. level[t] \in 0 .. Top
      BY <3>1, Numbers DEF Tree, Tables
    <3>3. level[t] < Floor(pt) => level[t] < Floor(pt')
      BY <1>3, <2>7, <3>2
    <3> QED
      BY <2>6, <3>1, <3>3 DEF Above
  <2>9. pt.va < Last
    BY <1>1 DEF Walking
  <2>10. PICK p, gone : p = pt' /\ gone = freed
    OBVIOUS
  <2>11. Walking(memory, used, p, gone, level, part)
    <3>1. /\ p \in PtStates /\ p.pc = "down" /\ p.va < Last /\ p.level = Top /\ p.page = Root
          /\ p.idx = PageIndex(p.va, Top) /\ p.stop \in 1 .. Top /\ gone \subseteq 1 .. used
          /\ \A t \in gone : Past(t, p.va, level, part) \/ Above(t, p, level, part)
      BY <2>3, <2>5, <2>6, <2>8, <2>9, <2>10
    <3> QED
      BY <3>1, FromRoot
  <2> QED
    BY <1>2, <2>5, <2>6, <2>10, <2>11 DEF Frees
<1> QED
  BY <1>4, <1>5

LEMMA PtiterKeeps ==
    ASSUME TableInvariant, Ptiter
    PROVE  TableInvariant'
<1>1. PICK level, part, sp : /\ Sound(memory, used, it, sp, level, part)
                             /\ Answers(sp, space, ignored)
                             /\ Frees(memory, used, pt, freed, level, part)
  BY DEF TableInvariant
<1>2. Tree(memory, used, level, part)
  BY <1>1 DEF Sound
<1>3. UNCHANGED <<memory, used, it, space, ignored>>
  BY DEF asked, Ptiter, Begin, DownATable, Arrive, Along, Up, Visit, FreeRoot
<1>4. Sound(memory', used', it', sp, level, part) /\ Answers(sp, space', ignored')
  BY <1>1, <1>3
<1>5. CASE FreeRoot
  <2>1. pt' \in PtStates /\ pt'.pc = "done"
    BY <1>1, <1>5 DEF FreeRoot, Frees, PtStates
  <2>2. Frees(memory', used', pt', freed', level, part)
    BY <2>1 DEF Frees
  <2> QED
    BY <1>4, <2>2 DEF TableInvariant
<1>6. ASSUME ~FreeRoot PROVE Frees(memory', used', pt', freed', level, part)
  BY <1>1, <1>2, <1>6, BeginKeeps, DownATableKeeps, ArriveKeeps, AlongKeeps, UpKeeps, VisitKeeps
     DEF Ptiter
<1> QED
  BY <1>4, <1>5, <1>6 DEF TableInvariant

-----------------------------------------------------------------------------
(* The invariant holds.                                                    *)

LEMMA InitSound ==
    ASSUME TInit
    PROVE  TableInvariant
<1>1. PICK last \in {Empty, Large} :
        memory = [t \in Tables |-> IF t = Root THEN [EmptyTable EXCEPT ![Fan - 1] = last] ELSE Stale]
  BY DEF TInit
<1>3. Empty \in Entries /\ ~IsTable(Empty) /\ Entry(0, {"P"}, TRUE) \in Entries
  BY DEF Empty, Entry, Entries, Full, IsTable
<1>2. last \in Entries /\ ~IsTable(last)
  <2>1. Span(Top) \in Nat
    <3>1. Top \in 0 .. Top + 2
      BY Numbers
    <3> QED
      BY <3>1, SpansAre
  <2>2. Large \in Entries /\ ~IsTable(Large)
    BY <2>1 DEF Large, Entry, Entries, Full, IsTable
  <2> QED
    BY <1>3, <2>2
<1>4. memory \in Memories
  <2>1. EmptyTable \in [Indexes -> Entries] /\ Stale \in [Indexes -> Entries]
    BY <1>3 DEF EmptyTable, Stale
  <2>2. [EmptyTable EXCEPT ![Fan - 1] = last] \in [Indexes -> Entries]
    BY <1>2, <2>1
  <2> QED
    BY <1>1, <2>1, <2>2 DEF Memories
<1>5. ASSUME NEW i \in Indexes PROVE ~IsTable(memory[Root][i])
  <2>1. memory[Root] = [EmptyTable EXCEPT ![Fan - 1] = last]
    BY <1>1, Numbers
  <2>2. memory[Root][i] = Empty \/ memory[Root][i] = last
    BY <2>1 DEF EmptyTable
  <2> QED
    BY <1>2, <1>3, <2>2
<1>6. PICK level, part : level = [t \in Tables |-> Top] /\ part = [t \in Tables |-> 0]
  OBVIOUS
<1>7. Tree(memory, 1, level, part)
  <2>1. 1 \in 1 .. NTables /\ Top \in 0 .. Top /\ 1 .. 1 = {Root}
    BY Numbers DEF Root
  <2>2. level \in [Tables -> 0 .. Top] /\ part \in [Tables -> Nat] /\ level[Root] = Top /\ part[Root] = 0
    BY <1>6, <2>1, Numbers
  <2> QED
    BY <1>4, <1>5, <2>1, <2>2 DEF Tree
<1>8. ASSUME NEW va \in 0 .. Last
      PROVE  AtRoot(va) \in PlacesIn(1, level, part) /\ AtRoot(va) \in Places
             /\ Down(memory, AtRoot(va)) = AtRoot(va)
  <2>1. AtRoot(va) \in PlacesIn(1, level, part)
    BY <1>7, RootIsPlace
  <2>2. AtRoot(va) \in Places /\ AtRoot(va).page = Root /\ AtRoot(va).idx \in Indexes
    BY <2>1 DEF PlacesIn, Places, AtRoot
  <2>3. ~IsTable(At(memory, AtRoot(va)))
    BY <1>5, <2>2 DEF At
  <2>4. Descend(memory, AtRoot(va)) = AtRoot(va)
    BY <2>3 DEF Descend
  <2> QED
    BY <1>7, <2>1, <2>2, <2>4, PlacesAreClosed, DownStays
<1>9. 0 \in 0 .. Last /\ \A va \in 0 .. Last - 1 : va \in 0 .. Last
  BY Numbers
<1>10. space = [va \in 0 .. Last - 1 |-> Report(memory, Down(memory, AtRoot(va)))]
  <2>1. space = [va \in 0 .. Last - 1 |-> Report(memory, AtRoot(va))]
    BY DEF TInit
  <2> QED
    BY <1>8, <1>9, <2>1
<1>11. it = [i \in Iterators |-> AtRoot(0)]
  BY DEF TInit
<1>12. Sound(memory, 1, it, space, level, part)
  BY <1>7, <1>8, <1>9, <1>10, <1>11, RootLands DEF Sound
<1>13. used = 1 /\ pt = Off /\ freed = {}
  BY DEF TInit
<1>14. Off \in PtStates /\ Off.pc = "off"
  <2>1. 0 \in Indexes /\ Top \in 0 .. Top
    BY Numbers DEF Indexes
  <2> QED
    BY <1>9, <2>1, Numbers DEF Off, PtStates
<1>15. Frees(memory, used, pt, freed, level, part)
  BY <1>13, <1>14 DEF Frees
<1>16. Answers(space, space, ignored)
  BY DEF TInit, Answers
<1> QED
  BY <1>12, <1>13, <1>15, <1>16 DEF TableInvariant

LEMMA StepKeeps ==
    ASSUME TableInvariant, [TNext]_tvars
    PROVE  TableInvariant'
<1>1. CASE UNCHANGED tvars
  BY <1>1 DEF tvars, asked, TableInvariant
<1>2. CASE Ptiter
  BY <1>2, PtiterKeeps
<1>3. ASSUME NEW i \in Iterators, Vmiter(i) PROVE TableInvariant'
  BY <1>3, VmiterKeeps
<1> QED
  BY <1>1, <1>2, <1>3 DEF TNext

\* Every reachable state is one of a tree, of places in it, and of a ptiter that will
\* not come down to what it freed.
THEOREM TablesAreTrees == TSpec => []TableInvariant
<1>1. TInit => TableInvariant
  BY InitSound
<1>2. TableInvariant /\ [TNext]_tvars => TableInvariant'
  BY StepKeeps
<1> QED
  BY <1>1, <1>2, PTL DEF TSpec

-----------------------------------------------------------------------------
(* What follows from it.                                                   *)

\* The shortcut that real_find() takes from the place an iterator is at ends where a
\* walk from the root does, whatever the other iterators have mapped since
\* (k-vmiter.cc:13-31).
THEOREM ShortcutsLandFresh == TSpec => []LandsFresh
<1>1. TableInvariant => LandsFresh
  BY RealFindLands DEF TableInvariant, Sound, LandsFresh, Fresh
<1> QED
  BY <1>1, TablesAreTrees, PTL

\* Each page is mapped to what the last map() that returned 0 for it asked for, unless
\* that was to unmap it and the iterator was above level 0, over a large page or over a
\* table made since; then, and only then, the tables differ from what was asked.
\* Making a table, or failing to, changes no mapping (k-vmiter.cc:31-59).
THEOREM MapsHoldSpace == TSpec => []TablesHoldSpace
<1>1. TableInvariant => TablesHoldSpace
  <2>1. SUFFICES ASSUME TableInvariant, NEW va \in 0 .. Last - 1
                 PROVE  va \notin ignored <=> Mapped(va) = space[va]
    BY DEF TablesHoldSpace
  <2>2. PICK level, part, sp : /\ Sound(memory, used, it, sp, level, part)
                               /\ Answers(sp, space, ignored)
    BY <2>1 DEF TableInvariant
  <2>3. Mapped(va) = sp[va]
    BY <2>1, <2>2 DEF Sound, Mapped, Fresh
  <2> QED
    BY <2>1, <2>2, <2>3 DEF Answers
<1> QED
  BY <1>1, TablesAreTrees, PTL

\* The addresses that the entry of a place covers end up, when there is no table below,
\* at that entry.
LEMMA OneEntry ==
    ASSUME NEW m, NEW u, NEW level, NEW part, Tree(m, u, level, part),
           NEW x \in PlacesIn(u, level, part), Lands(m, x), Descend(m, x) = x, x.va < Last,
           NEW p \in x.va + 1 .. LastVa(x) - 1
    PROVE  /\ p \in 0 .. Last - 1
           /\ p % Span(x.level) = (x.va % Span(x.level)) + (p - x.va)
           /\ Down(m, AtRoot(p)) = [va |-> p, page |-> x.page, idx |-> x.idx,
                                    level |-> x.level, perm |-> Full]
<1>1. /\ x \in Places /\ x.va \in Nat /\ x.level \in 0 .. Top + 1 /\ x.level \in Nat
      /\ x.level + 1 \in x.level .. Top + 2 /\ x.level \in 0 .. Top + 2
      /\ x.idx = PageIndex(x.va, x.level)
  BY Numbers DEF PlacesIn, Places
<1>2. LastVa(x) <= Last /\ LastVa(x) \in Nat
  BY <1>1, EndsBeforeLast DEF LastVa
<1>3. p \in 0 .. Last - 1 /\ p \in 0 .. Last /\ p \in Nat /\ x.va < p /\ p < LastVa(x)
  BY <1>1, <1>2, Numbers
<1>4. PICK s \in Nat \ {0} : Span(x.level) = s
  BY <1>1, SpansAre
<1>5. PICK q \in Nat, r \in Nat : /\ x.va \div s = q /\ x.va % s = r /\ r < s /\ x.va = q * s + r
                                 /\ q * s <= x.va /\ x.va < (q + 1) * s
  BY <1>1, Remainders
<1>6. PICK q2 \in Nat, r2 \in Nat : /\ p \div s = q2 /\ p % s = r2 /\ r2 < s /\ p = q2 * s + r2
                                   /\ q2 * s <= p /\ p < (q2 + 1) * s
  BY <1>3, Remainders
<1>7. LastVa(x) = (q + 1) * s
  BY <1>4, <1>5 DEF LastVa
<1>8. q2 = q
  <2>1. q2 < q + 1
    <3>1. PICK k \in Nat : k = q + 1
      OBVIOUS
    <3>2. p < k * s
      BY <1>3, <1>7, <3>1
    <3>3. p \div s < k
      BY <1>3, <3>2, Blocks
    <3> QED
      BY <1>6, <3>1, <3>3
  <2>2. ~(q2 < q)
    <3>1. ASSUME q2 < q PROVE FALSE
      <4>1. p < q * s
        <5>1. x.va < q * s <=> q < q
          BY <1>1, <1>5, Blocks
        <5>2. p < q * s <=> q2 < q
          BY <1>3, <1>6, Blocks
        <5> QED
          BY <3>1, <5>2
      <4>2. q * s \in Nat
        OBVIOUS
      <4> QED
        BY <1>1, <1>3, <1>5, <4>1, <4>2
    <3> QED
      BY <3>1
  <2> QED
    BY <2>1, <2>2
<1>9. r2 = r + (p - x.va)
  <2>1. PICK k \in Nat : k = q * s
    OBVIOUS
  <2>2. x.va = k + r /\ p = k + r2
    BY <1>5, <1>6, <1>8, <2>1
  <2> QED
    BY <1>1, <1>3, <2>2
<1>10. p % Span(x.level) = (x.va % Span(x.level)) + (p - x.va)
  BY <1>4, <1>5, <1>6, <1>9
<1>11. p \div Span(x.level) = x.va \div Span(x.level)
  BY <1>4, <1>5, <1>6, <1>8
<1>12. SameTable(x, p) /\ PageIndex(p, x.level) = x.idx
  <2>1. p \div Span(x.level + 1) = x.va \div Span(x.level + 1)
    BY <1>1, <1>3, <1>11, SameAbove
  <2> QED
    BY <1>1, <1>11, <2>1 DEF SameTable, PageIndex
<1>13. PICK y : y = MovedTo(x, p)
  OBVIOUS
<1>14. y \in PlacesIn(u, level, part)
       /\ y = [va |-> p, page |-> x.page, idx |-> x.idx, level |-> x.level, perm |-> Full]
  BY <1>3, <1>12, <1>13, MovedIsPlace
<1>15. Descend(m, y) = y
  <2>1. At(m, y) = At(m, x) /\ y.level = x.level
    BY <1>14 DEF At
  <2>2. ~(x.level > 0 /\ IsTable(At(m, x)))
    <3>1. Descend(m, x).level = x.level
      OBVIOUS
    <3>2. x.level - 1 # x.level
      BY <1>1
    <3> QED
      BY <3>1, <3>2, DescendIs
  <2> QED
    BY <2>1, <2>2 DEF Descend
<1>16. Down(m, y) = y
  BY <1>14, <1>15, PlacesAreClosed, DownStays
<1>17. Down(m, AtRoot(p)) = y
  BY <1>3, <1>12, <1>13, <1>16 DEF Lands
<1> QED
  BY <1>3, <1>10, <1>14, <1>17

\* next() passes over no page that is mapped, and what step() passes over is the mapping
\* it was at, going on (k-vmiter.hh:37-42).
THEOREM NextSkipsNothing == TSpec => []SkipsNothing
<1>1. ASSUME TableInvariant, NEW i \in Iterators, it[i].va < Last
      PROVE  /\ \A p \in it[i].va + 1 .. NextVa(memory, it[i]) - 1 : Mapped(p) = Unmapped
             /\ it[i] = Fresh(it[i].va) =>
                  \A p \in it[i].va + 1 .. LastVa(it[i]) - 1 :
                    Mapped(p) = IF Mapped(it[i].va) = Unmapped THEN Mapped(it[i].va)
                                ELSE [Mapped(it[i].va) EXCEPT !.pa = @ + p - it[i].va]
  <2>1. PICK level, part, sp : Sound(memory, used, it, sp, level, part)
    BY <1>1 DEF TableInvariant
  <2>2. PICK x : x = it[i]
    OBVIOUS
  <2>3. /\ Tree(memory, used, level, part) /\ x \in PlacesIn(used, level, part)
        /\ Lands(memory, x) /\ x.va < Last
    BY <1>1, <2>1, <2>2 DEF Sound
  <2>4. x.perm = Full /\ x.va \in Nat /\ x.va \in 0 .. Last /\ x.level \in 0 .. Top /\ x \in Places
    BY <2>3, Numbers DEF PlacesIn, Places
  <2>5. ASSUME NEW p \in x.va + 1 .. NextVa(memory, x) - 1 PROVE Mapped(p) = Unmapped
    <3>1. CASE SkipLevel(memory, x) = 0
      <4>1. Span(0) = 1 /\ x.va \div 1 = x.va
        BY <2>4, SpansAre
      <4>2. NextVa(memory, x) = (x.va + 1) * 1
        BY <3>1, <4>1 DEF NextVa
      <4>3. p \in x.va + 1 .. (x.va + 1) * 1 - 1
        BY <4>2
      <4> QED
        BY <2>4, <4>3
    <3>2. CASE SkipLevel(memory, x) # 0
      <4>1. x.level > 0 /\ PermAt(memory, x) = {} /\ SkipLevel(memory, x) = x.level
        BY <3>2 DEF SkipLevel
      <4>2. "P" \notin At(memory, x).perm
        BY <2>4, <4>1 DEF PermAt, Full
      <4>3. Descend(memory, x) = x
        BY <4>2 DEF Descend, IsTable
      <4>4. p \in x.va + 1 .. LastVa(x) - 1
        BY <4>1 DEF NextVa, LastVa
      <4>5. PICK y : y = Down(memory, AtRoot(p))
        OBVIOUS
      <4>6. y.page = x.page /\ y.idx = x.idx
        BY <2>3, <4>3, <4>4, <4>5, OneEntry
      <4>7. "P" \notin At(memory, y).perm
        BY <4>2, <4>6 DEF At
      <4> QED
        BY <4>5, <4>7 DEF Mapped, Fresh, Report, PermAt, PaAt, Unmapped
    <3> QED
      BY <3>1, <3>2
  <2>6. ASSUME x = Fresh(x.va), NEW p \in x.va + 1 .. LastVa(x) - 1
        PROVE  Mapped(p) = IF Mapped(x.va) = Unmapped THEN Mapped(x.va)
                           ELSE [Mapped(x.va) EXCEPT !.pa = @ + p - x.va]
    <3>1. Descend(memory, x) = x
      BY <2>3, <2>4, <2>6, WalkEnds DEF Fresh
    <3>2. PICK y : y = Down(memory, AtRoot(p))
      OBVIOUS
    <3>3. /\ p \in 0 .. Last - 1
          /\ p % Span(x.level) = (x.va % Span(x.level)) + (p - x.va)
          /\ y.va = p /\ y.page = x.page /\ y.idx = x.idx /\ y.level = x.level /\ y.perm = Full
      BY <2>3, <3>1, <3>2, OneEntry
    <3>4. PICK e : e = At(memory, x)
      OBVIOUS
    <3>5. At(memory, y) = e
      BY <3>3, <3>4 DEF At
    <3>6. Mapped(x.va) = Report(memory, x) /\ Mapped(p) = Report(memory, y)
      BY <2>6, <3>2 DEF Mapped, Fresh
    <3>7. CASE "P" \notin e.perm
      BY <3>4, <3>5, <3>6, <3>7 DEF Report, PermAt, PaAt, Unmapped
    <3>8. CASE "P" \in e.perm
      <4>1. PICK a, b : a = x.va % Span(x.level) /\ b = p % Span(x.level)
        OBVIOUS
      <4>2. e.to \in Nat /\ a \in Nat /\ b = a + (p - x.va) /\ p \in Nat
        <5>1. e \in Entries
          BY <2>3, <3>4 DEF Tree, Memories, At, PlacesIn, Places
        <5>2. Span(x.level) \in Nat \ {0}
          <6>1. x.level \in 0 .. Top + 2
            BY <2>4, Numbers
          <6> QED
            BY <6>1, SpansAre
        <5>3. a \in Nat
          BY <2>4, <4>1, <5>2, Remainders
        <5>4. p \in Nat
          BY <3>3
        <5> QED
          BY <3>3, <4>1, <5>1, <5>3, <5>4 DEF Entries
      <4>3. Report(memory, x) = [pa |-> e.to + a, perm |-> e.perm \cap Full]
        BY <2>4, <3>4, <3>8, <4>1 DEF Report, PermAt, PaAt
      <4>4. Report(memory, y) = [pa |-> e.to + b, perm |-> e.perm \cap Full]
        BY <3>3, <3>5, <3>8, <4>1 DEF Report, PermAt, PaAt
      <4>5. Report(memory, x) # Unmapped
        <5>1. "P" \in e.perm \cap Full
          BY <3>8 DEF Full
        <5>2. Report(memory, x).perm # Unmapped.perm
          BY <4>3, <5>1 DEF Unmapped
        <5> QED
          BY <5>2
      <4>6. (e.to + a) + p - x.va = e.to + b
        BY <2>4, <4>2
      <4>7. [Report(memory, x) EXCEPT !.pa = @ + p - x.va] = Report(memory, y)
        <5>1. PICK c, d, f : c = e.perm \cap Full /\ d = e.to + a /\ f = e.to + b /\ d + p - x.va = f
          BY <4>6
        <5>2. Report(memory, x) = [pa |-> d, perm |-> c] /\ Report(memory, y) = [pa |-> f, perm |-> c]
          BY <4>3, <4>4, <5>1
        <5>3. PICK r : r = [pa |-> d, perm |-> c]
          OBVIOUS
        <5>4. r.pa + p - x.va = f
          BY <5>1, <5>3
        <5>5. [r EXCEPT !.pa = f] = [pa |-> f, perm |-> c]
          BY <5>3
        <5>6. [r EXCEPT !.pa = @ + p - x.va] = [r EXCEPT !.pa = f]
          BY <5>4
        <5> QED
          BY <5>2, <5>3, <5>5, <5>6
      <4> QED
        BY <3>6, <4>5, <4>7
    <3> QED
      BY <3>7, <3>8
  <2> QED
    BY <2>2, <2>5, <2>6
<1>2. TableInvariant => SkipsNothing
  BY <1>1 DEF SkipsNothing
<1> QED
  BY <1>2, TablesAreTrees, PTL

\* The loop that frees a page table reads no table it has freed and frees none twice
\* (k-vmiter.hh:74-84, k-vmiter.cc:60-106).
THEOREM FreesOnce == TSpec => []NoUseAfterFree
<1>1. ASSUME TableInvariant, pt.pc \in {"down", "visit"}
      PROVE  pt.page \notin freed /\ (pt.pc = "visit" => At(memory, pt).to \notin freed)
  <2>1. PICK level, part : /\ Tree(memory, used, level, part) /\ pt \in PtStates
                           /\ Walking(memory, used, pt, freed, level, part)
    BY <1>1 DEF TableInvariant, Sound, Frees
  <2>2. /\ pt.va \in Nat /\ pt.level \in 0 .. Top + 1 /\ pt.level \in 0 .. Top /\ pt.level \in 1 .. Top
        /\ pt.page \in 1 .. used /\ pt.idx \in Indexes /\ Floor(pt) \in 0 .. pt.level
        /\ ~pt.skip => Floor(pt) = pt.stop - 1
    <3>1. pt.level \in 1 .. Top
      BY <2>1 DEF Walking
    <3> QED
      BY <2>1, <3>1, WalkingAt
  \* No table at the ptiter's address, of its floor or above, is freed.
  <2>3. ASSUME NEW t \in freed, part[t] = pt.va \div Span(level[t] + 1), Floor(pt) <= level[t]
        PROVE  FALSE
    <3>1. t \in 1 .. used /\ (Past(t, pt.va, level, part) \/ Above(t, pt, level, part))
      BY <2>1 DEF Walking
    <3>2. level[t] \in 0 .. Top /\ level[t] + 1 \in 0 .. Top + 2
      <4>1. used \in 1 .. NTables /\ level \in [Tables -> 0 .. Top]
        BY <2>1 DEF Tree
      <4>2. t \in Tables
        BY <3>1, <4>1, PageTableAssumption DEF Tables
      <4> QED
        BY <4>1, <4>2, PageTableAssumption
    <3>3. ~Above(t, pt, level, part)
      BY <2>2, <2>3, <3>2 DEF Above
    <3>4. PICK s \in Nat \ {0} : Span(level[t] + 1) = s
      BY <3>2, SpansAre
    <3>5. PICK q \in Nat : pt.va \div s = q /\ pt.va < (q + 1) * s
      BY <2>2, Remainders
    <3>6. (q + 1) * s <= pt.va
      BY <2>3, <3>1, <3>3, <3>4, <3>5 DEF Past
    <3>7. (q + 1) * s \in Nat
      OBVIOUS
    <3> QED
      BY <2>2, <3>5, <3>6, <3>7
  <2>4. pt.page \notin freed
    <3>1. level[pt.page] = pt.level /\ part[pt.page] = pt.va \div Span(pt.level + 1)
      BY <2>1 DEF Walking
    <3>2. Floor(pt) <= pt.level
      BY <2>2
    <3> QED
      BY <2>3, <3>1, <3>2
  <2>5. ASSUME pt.pc = "visit" PROVE At(memory, pt).to \notin freed
    <3>1. PICK e : e = memory[pt.page][pt.idx]
      OBVIOUS
    <3>2. IsTable(e) /\ ~pt.skip /\ pt.level = pt.stop /\ level[pt.page] = pt.level
          /\ part[pt.page] = pt.va \div Span(pt.level + 1) /\ pt.idx = PageIndex(pt.va, pt.level)
      BY <2>1, <2>5, <3>1 DEF Walking
    <3>3. level[e.to] = pt.level - 1 /\ part[e.to] = part[pt.page] * Fan + pt.idx
      BY <2>1, <2>2, <3>1, <3>2 DEF Tree, Hangs
    <3>4. pt.va \div Span(pt.level) = (pt.va \div Span(pt.level + 1)) * Fan + PageIndex(pt.va, pt.level)
      BY <2>2, Addresses
    <3>5. (pt.level - 1) + 1 = pt.level /\ Floor(pt) <= pt.level - 1
      BY <2>2, <3>2
    <3>6. part[e.to] = pt.va \div Span(level[e.to] + 1) /\ Floor(pt) <= level[e.to]
      BY <3>2, <3>3, <3>4, <3>5
    <3>7. e.to \notin freed
      BY <2>3, <3>6
    <3> QED
      BY <3>1, <3>7 DEF At
  <2> QED
    BY <2>4, <2>5
<1>2. TableInvariant => NoUseAfterFree
  BY <1>1 DEF NoUseAfterFree
<1> QED
  BY <1>2, TablesAreTrees, PTL
=============================================================================
