-------------------------- MODULE SmallPartsProofs --------------------------
(***************************************************************************)
(* Proofs about five parts that work alone: the guard of static variables  *)
(* of WeensyOS, its keyboard decoder and its text console, the debugging   *)
(* allocator of pset1, and the shell of pset5.                             *)
(***************************************************************************)
EXTENDS Keyboard, CxaGuard, Console, BaseAlloc, Shell, Iteration

-----------------------------------------------------------------------------
(* The guard of static variables, for any threads and any number of calls:    *)
(* the variable is initialised once and nobody uses it before.                *)

\* The threads between taking the lock and giving it back.
Holder(t) == at[t] \in {"initialize", "release"}

\* While the guard is 0 nobody is past the exchange.
ZeroIsFree ==
    guard = 0 => /\ initialized = 0
                 /\ \A t \in Threads : at[t] \notin {"initialize", "release", "restore"}

\* One thread at most holds the lock, and the guard is 1 as long.
OneHolder ==
    /\ \A t, u \in Threads : Holder(t) /\ Holder(u) => t = u
    /\ \A t \in Threads : Holder(t) => guard = 1
    /\ \A t, u \in Threads : Holder(t) => at[u] # "restore"

\* What is known of the initialisation at each place.
Progress ==
    /\ \A t \in Threads : at[t] = "initialize" => initialized = 0
    /\ \A t \in Threads : at[t] \in {"release", "restore"} => initialized = 1
    /\ guard = 2 => initialized = 1
    /\ initialized \in {0, 1}

GuardInv == GuardTypeOK /\ ZeroIsFree /\ OneHolder /\ Progress /\ used = {}

\* The strengthened invariant holds at the start.
LEMMA GuardInvInit == GuardInit => GuardInv
  BY GuardAssumption DEF GuardInit, GuardInv, GuardTypeOK, ZeroIsFree, OneHolder, Progress, Holder

\* Every step of every thread keeps it.
LEMMA GuardInvNext == ASSUME GuardInv, [GuardNext]_guardVars PROVE GuardInv'
<1> USE GuardAssumption DEF GuardInv, GuardTypeOK, Go
<1>1. CASE UNCHANGED guardVars
  BY <1>1 DEF guardVars, ZeroIsFree, OneHolder, Progress, Holder
<1>2. ASSUME NEW t \in Threads, Enter(t) PROVE GuardInv'
  BY <1>2 DEF Enter, ZeroIsFree, OneHolder, Progress, Holder
<1>3. ASSUME NEW t \in Threads, Load(t) PROVE GuardInv'
  <2>1. CASE guard = 2
    BY <1>3, <2>1 DEF Load, Use, ZeroIsFree, OneHolder, Progress, Holder
  <2>2. CASE guard # 2
    BY <1>3, <2>2 DEF Load, ZeroIsFree, OneHolder, Progress, Holder
  <2> QED BY <2>1, <2>2
<1>4. ASSUME NEW t \in Threads, Exchange(t) PROVE GuardInv'
  <2>1. CASE guard = 0
    BY <1>4, <2>1 DEF Exchange, AfterExchange, ZeroIsFree, OneHolder, Progress, Holder
  <2>2. CASE guard = 1
    BY <1>4, <2>2 DEF Exchange, AfterExchange, ZeroIsFree, OneHolder, Progress, Holder
  <2>3. CASE guard = 2
    BY <1>4, <2>3 DEF Exchange, AfterExchange, ZeroIsFree, OneHolder, Progress, Holder
  <2> QED BY <2>1, <2>2, <2>3
<1>5. ASSUME NEW t \in Threads, Restore(t) PROVE GuardInv'
  BY <1>5 DEF Restore, Restored, Use, ZeroIsFree, OneHolder, Progress, Holder
<1>6. ASSUME NEW t \in Threads, Initialize(t) PROVE GuardInv'
  BY <1>6 DEF Initialize, ZeroIsFree, OneHolder, Progress, Holder
<1>7. ASSUME NEW t \in Threads, StoreRelease(t) PROVE GuardInv'
  BY <1>7 DEF StoreRelease, Use, ZeroIsFree, OneHolder, Progress, Holder
<1> QED BY <1>1, <1>2, <1>3, <1>4, <1>5, <1>6, <1>7 DEF GuardNext, GuardStep

\* However many threads call at the same time, the variable is initialised at
\* most once and used only after that.
THEOREM GuardSafe == GuardSpec => []InitializedOnce
<1>1. GuardInv => InitializedOnce
  BY DEF GuardInv, Progress, InitializedOnce
<1> QED BY GuardInvInit, GuardInvNext, <1>1, PTL DEF GuardSpec

-----------------------------------------------------------------------------
(* The debugging allocator, for any memory, any width of size_t and any       *)
(* sequence of calls, wrong ones included: what it hands out is sound, and its*)
(* exit handler leaves exactly the program's leaks.                           *)

\* What an entry of the vector `frees' is.
Entries == [ptr : Addresses, size : Nat]

\* Types: the maps hold sizes, the vector pairs of an address and a size.
AllocTypeOK ==
    /\ system \in [DOMAIN system -> Nat]
    /\ held \in [DOMAIN held -> Nat]
    /\ allocs \in [DOMAIN allocs -> Nat]
    /\ frees \in Seq(Entries)
    /\ disabled \in BOOLEAN /\ exited \in BOOLEAN

\* Every block of the system is either held by the program or waits in the
\* vector, once.
Accounted ==
    /\ DOMAIN system = DOMAIN held \cup FreedPtrs
    /\ DOMAIN held \cap FreedPtrs = {}
    /\ \A i, j \in DOMAIN frees : frees[i].ptr = frees[j].ptr => i = j

\* A block is as large as anything recorded about it.
LargeEnough ==
    /\ \A p \in DOMAIN held : held[p] < Word => held[p] <= system[p]
    /\ \A i \in DOMAIN frees : frees[i].size <= system[frees[i].ptr]

\* While the allocator is enabled its hash table lists what the program holds;
\* afterwards the table is stale, and nothing looks at it.
TableKept ==
    ~disabled => DOMAIN allocs = DOMAIN held /\ \A p \in DOMAIN allocs : allocs[p] <= system[p]

\* The strengthening of HandedOutSound and OnlyLeaksAreLeft that every step
\* preserves: wild and double frees are harmless because of TableKept, which the
\* statement of the two does not mention.
AllocInv ==
    /\ AllocTypeOK
    /\ ~exited => Accounted /\ Disjoint(system) /\ LargeEnough /\ TableKept
    /\ OnlyLeaksAreLeft

-----------------------------------------------------------------------------
(* Maps and the vector.                                                    *)

\* The last of n entries moves to the place of the one taken out.
LEMMA Renumbered ==
    ASSUME NEW n \in Nat, NEW i \in 1 .. n, NEW k \in 1 .. n, k # i
    PROVE  \E j \in 1 .. n - 1 : (IF j = i THEN n ELSE j) = k
<1>1. CASE k = n
  <2>1. i \in 1 .. n - 1 /\ (IF i = i THEN n ELSE i) = k
    BY <1>1
  <2> QED
    BY <2>1
<1>2. CASE k # n
  <2>1. k \in 1 .. n - 1 /\ (IF k = i THEN n ELSE k) = k
    BY <1>2
  <2> QED
    BY <2>1
<1> QED
  BY <1>1, <1>2

\* Taking an entry out of the vector takes its address out of the freed ones,
\* and nothing else, since the address is there once.
LEMMA TakenOut ==
    ASSUME AllocTypeOK, Accounted, NEW i \in DOMAIN frees, frees' = TakeOut(frees, i)
    PROVE  /\ frees' \in Seq(Entries)
           /\ FreedPtrs' = FreedPtrs \ {frees[i].ptr}
           /\ \A j, k \in DOMAIN frees' : frees'[j].ptr = frees'[k].ptr => j = k
           /\ \A j \in DOMAIN frees' : \E k \in DOMAIN frees : frees'[j] = frees[k]
<1> DEFINE n == Len(frees)
           From(j) == IF j = i THEN n ELSE j
<1>1. n \in Nat /\ DOMAIN frees = 1 .. n /\ i \in 1 .. n
      /\ \A j \in 1 .. n : frees[j] \in Entries
  BY DEF AllocTypeOK
<1>2. frees' = [j \in 1 .. n - 1 |-> frees[From(j)]]
      /\ \A j \in 1 .. n - 1 : From(j) \in 1 .. n /\ From(j) # i
  BY <1>1 DEF TakeOut
<1>3. /\ DOMAIN frees' = 1 .. n - 1 /\ n - 1 \in Nat
      /\ \A j \in 1 .. n - 1 : frees'[j] = frees[From(j)]
  BY <1>1, <1>2
<1>4. frees' \in Seq(Entries)
  <2>1. frees' \in [1 .. n - 1 -> Entries]
    BY <1>1, <1>2
  <2> QED
    BY <1>3, <2>1
<1>5. \A j, k \in 1 .. n - 1 : From(j) = From(k) => j = k
  BY <1>1
<1>6. \A k \in 1 .. n : k # i => \E j \in 1 .. n - 1 : From(j) = k
  BY <1>1, Renumbered
<1> HIDE DEF From
<1>7. \A j, k \in DOMAIN frees' : frees'[j].ptr = frees'[k].ptr => j = k
  BY <1>1, <1>2, <1>3, <1>5 DEF Accounted
<1>8. FreedPtrs' = FreedPtrs \ {frees[i].ptr}
  <2>1. ASSUME NEW p \in FreedPtrs' PROVE p \in FreedPtrs \ {frees[i].ptr}
    BY <1>1, <1>2, <1>3, <2>1 DEF FreedPtrs, Accounted
  <2>2. ASSUME NEW p \in FreedPtrs, p # frees[i].ptr PROVE p \in FreedPtrs'
    <3>1. PICK k \in 1 .. n : p = frees[k].ptr
      BY <1>1 DEF FreedPtrs
    <3>2. PICK j \in 1 .. n - 1 : From(j) = k
      BY <1>6, <2>2, <3>1
    <3> QED
      BY <1>3, <3>1, <3>2 DEF FreedPtrs
  <2> QED
    BY <2>1, <2>2
<1> QED
  BY <1>1, <1>2, <1>3, <1>4, <1>7, <1>8

\* push_back() of a new address.
LEMMA PushedBack ==
    ASSUME AllocTypeOK, Accounted, NEW e \in Entries, e.ptr \notin FreedPtrs,
           frees' = Append(frees, e)
    PROVE  /\ frees' \in Seq(Entries)
           /\ FreedPtrs' = FreedPtrs \cup {e.ptr}
           /\ \A j, k \in DOMAIN frees' : frees'[j].ptr = frees'[k].ptr => j = k
           /\ \A j \in DOMAIN frees' : frees'[j] = e \/ \E k \in DOMAIN frees : frees'[j] = frees[k]
<1> DEFINE n == Len(frees)
<1>1. n \in Nat /\ DOMAIN frees = 1 .. n
  BY DEF AllocTypeOK
<1>2. /\ DOMAIN frees' = 1 .. n + 1 /\ frees' \in Seq(Entries)
      /\ \A j \in 1 .. n : frees'[j] = frees[j]
      /\ frees'[n + 1] = e
  BY DEF AllocTypeOK
<1>3. \A j \in 1 .. n + 1 : j = n + 1 \/ j \in 1 .. n
  BY <1>1
<1>4. \A j \in 1 .. n : frees[j].ptr \in FreedPtrs
  BY <1>1 DEF FreedPtrs
<1>5. FreedPtrs' = FreedPtrs \cup {e.ptr}
  <2>1. FreedPtrs' = {frees'[j].ptr : j \in 1 .. n + 1}
    BY <1>2 DEF FreedPtrs
  <2>2. FreedPtrs = {frees[j].ptr : j \in 1 .. n}
    BY <1>1 DEF FreedPtrs
  <2>3. n + 1 \in 1 .. n + 1 /\ 1 .. n \subseteq 1 .. n + 1
    BY <1>1
  <2> HIDE DEF n
  <2> QED
    BY <1>2, <1>3, <2>1, <2>2, <2>3
<1>6. \A j, k \in DOMAIN frees' : frees'[j].ptr = frees'[k].ptr => j = k
  BY <1>1, <1>2, <1>3, <1>4 DEF Accounted
<1> QED
  BY <1>1, <1>2, <1>3, <1>5, <1>6

-----------------------------------------------------------------------------
(* Each call keeps the invariant.                                          *)

\* Nothing is allocated at first.
LEMMA AllocInit == AInit => AllocInv
<1> SUFFICES ASSUME AInit PROVE AllocInv
  OBVIOUS
<1>1. DOMAIN NoBlocks = {} /\ NoBlocks \in [{} -> Nat]
  BY DEF NoBlocks
<1>2. /\ system = NoBlocks /\ allocs = NoBlocks /\ held = NoBlocks
      /\ frees = <<>> /\ DOMAIN frees = {} /\ disabled = FALSE /\ exited = FALSE
  BY DEF AInit
<1>3. FreedPtrs = {}
  BY <1>2 DEF FreedPtrs
<1>4. AllocTypeOK
  <2>1. frees \in Seq(Entries) /\ disabled \in BOOLEAN /\ exited \in BOOLEAN
    <3>1. << >> \in Seq(Entries)
      OBVIOUS
    <3> QED
      BY <1>2, <3>1
  <2>2. /\ system \in [DOMAIN system -> Nat] /\ held \in [DOMAIN held -> Nat]
        /\ allocs \in [DOMAIN allocs -> Nat]
    BY <1>1, <1>2
  <2> QED
    BY <2>1, <2>2 DEF AllocTypeOK
<1> QED
  BY <1>1, <1>2, <1>3, <1>4 DEF AllocInv, Accounted, Disjoint, LargeEnough, TableKept,
                                OnlyLeaksAreLeft

\* malloc() of the system adds a block that shares no byte with the others.
LEMMA SystemGives ==
    ASSUME AllocInv, ~exited, NEW p \in Addresses, NEW n \in Nat, SystemMalloc(p, n)
    PROVE  /\ p \notin DOMAIN system /\ DOMAIN system' = DOMAIN system \cup {p}
           /\ system' \in [DOMAIN system' -> Nat]
           /\ system'[p] = n /\ \A q \in DOMAIN system : system'[q] = system[q]
           /\ Disjoint(system)'
<1>1. system \in [DOMAIN system -> Nat]
  BY DEF AllocInv, AllocTypeOK
<1>2. system' = With(system, p, n) /\ p \notin DOMAIN system /\ Disjoint(With(system, p, n))
  BY DEF SystemMalloc
<1>3. /\ DOMAIN With(system, p, n) = DOMAIN system \cup {p}
      /\ With(system, p, n) \in [DOMAIN system \cup {p} -> Nat]
      /\ With(system, p, n)[p] = n
      /\ \A q \in DOMAIN system : q # p => With(system, p, n)[q] = system[q]
  BY <1>1 DEF With
<1>4. Disjoint(system)'
  BY <1>2 DEF Disjoint, Bytes
<1> QED
  BY <1>2, <1>3, <1>4

\* A block handed out, of sz bytes or more for a program that counts on `want'.
LEMMA HandedOut ==
    ASSUME AllocInv, ~exited, NEW p \in Addresses, NEW sz \in Nat, BaseMalloc(p, sz),
           NEW want \in Nat, want < Word => want <= sz,
           held' = With(held, p, want), UNCHANGED <<disabled, exited>>
    PROVE  AllocInv'
<1>1. AllocTypeOK /\ Accounted /\ Disjoint(system) /\ LargeEnough /\ TableKept
  BY DEF AllocInv
<1>2. /\ DOMAIN held' = DOMAIN held \cup {p} /\ held' \in [DOMAIN held' -> Nat]
      /\ held'[p] = want /\ \A q \in DOMAIN held : q # p => held'[q] = held[q]
  BY <1>1 DEF AllocTypeOK, With
<1>3. (IF sz = 0 THEN 1 ELSE sz) \in Nat /\ sz <= (IF sz = 0 THEN 1 ELSE sz)
  OBVIOUS
<1>4. CASE SystemMalloc(p, IF sz = 0 THEN 1 ELSE sz) /\ frees' = frees
           /\ allocs' = IF disabled THEN allocs ELSE With(allocs, p, sz)
  <2>1. /\ p \notin DOMAIN system /\ DOMAIN system' = DOMAIN system \cup {p}
        /\ system' \in [DOMAIN system' -> Nat] /\ sz <= system'[p]
        /\ \A q \in DOMAIN system : system'[q] = system[q]
        /\ Disjoint(system)'
    BY <1>3, <1>4, SystemGives
  <2>2. IF disabled THEN allocs' = allocs
        ELSE /\ DOMAIN allocs' = DOMAIN allocs \cup {p}
             /\ allocs' \in [DOMAIN allocs' -> Nat] /\ allocs'[p] = sz
             /\ \A q \in DOMAIN allocs : q # p => allocs'[q] = allocs[q]
    BY <1>1, <1>4 DEF AllocTypeOK, With
  <2>3. FreedPtrs' = FreedPtrs
    BY <1>4 DEF FreedPtrs
  <2>4. AllocTypeOK'
    BY <1>1, <1>2, <1>4, <2>1, <2>2 DEF AllocTypeOK
  <2>5. Accounted'
    BY <1>1, <1>2, <1>4, <2>1, <2>3 DEF Accounted
  <2>6. LargeEnough'
    <3>1. \A q \in DOMAIN held' : held'[q] < Word => held'[q] <= system'[q]
      <4> SUFFICES ASSUME NEW q \in DOMAIN held', held'[q] < Word
                   PROVE  held'[q] <= system'[q]
        OBVIOUS
      <4>1. CASE q = p
        BY <1>2, <2>1, <4>1
      <4>2. CASE q # p
        BY <1>1, <1>2, <2>1, <4>2 DEF LargeEnough, Accounted
      <4> QED
        BY <4>1, <4>2
    <3>2. \A i \in DOMAIN frees : frees[i].ptr \in DOMAIN system
      BY <1>1 DEF Accounted, FreedPtrs
    <3> QED
      BY <1>1, <1>4, <2>1, <3>1, <3>2 DEF LargeEnough
  <2>7. TableKept'
    <3>1. CASE disabled
      BY <3>1 DEF TableKept
    <3>2. CASE ~disabled
      <4>1. DOMAIN allocs' = DOMAIN held'
        BY <1>1, <1>2, <1>4, <2>2, <3>2 DEF TableKept
      <4>2. ASSUME NEW q \in DOMAIN allocs' PROVE allocs'[q] <= system'[q]
        <5>1. CASE q = p
          BY <1>4, <2>1, <2>2, <3>2, <5>1
        <5>2. CASE q # p
          BY <1>1, <1>4, <2>1, <2>2, <3>2, <4>2, <5>2 DEF TableKept, Accounted
        <5> QED
          BY <5>1, <5>2
      <4> QED
        BY <4>1, <4>2 DEF TableKept
    <3> QED
      BY <3>1, <3>2
  <2> QED
    BY <2>1, <2>4, <2>5, <2>6, <2>7 DEF AllocInv, OnlyLeaksAreLeft
<1>5. CASE ~disabled /\ Reuse(p, sz)
  <2>1. PICK i \in DOMAIN frees :
          /\ Fits(frees[i], sz) /\ frees[i].ptr = p
          /\ allocs' = IF p \in DOMAIN allocs THEN allocs ELSE With(allocs, p, frees[i].size)
          /\ frees' = TakeOut(frees, i)
          /\ UNCHANGED system
    BY <1>5 DEF Reuse, Fits, TakeOut, With
  <2>2. frees[i] \in Entries /\ p \in FreedPtrs /\ frees[i].size \in Nat /\ sz <= frees[i].size
    <3>1. frees[i] \in Entries /\ p \in FreedPtrs
      BY <1>1, <2>1 DEF AllocTypeOK, FreedPtrs
    <3>2. frees[i].size \in Nat
      BY <3>1 DEF Entries
    <3> QED
      BY <2>1, <3>1, <3>2 DEF Fits
  <2>3. p \notin DOMAIN held /\ p \in DOMAIN system /\ frees[i].size <= system[p]
    BY <1>1, <2>1, <2>2 DEF Accounted, LargeEnough
  <2>4. /\ DOMAIN allocs' = DOMAIN allocs \cup {p} /\ allocs' \in [DOMAIN allocs' -> Nat]
        /\ allocs'[p] = frees[i].size
        /\ \A q \in DOMAIN allocs : q # p => allocs'[q] = allocs[q]
    <3>1. p \notin DOMAIN allocs
      BY <1>1, <1>5, <2>3 DEF TableKept
    <3> QED
      BY <1>1, <2>1, <2>2, <3>1 DEF AllocTypeOK, With
  <2>5. /\ frees' \in Seq(Entries)
        /\ FreedPtrs' = FreedPtrs \ {p}
        /\ \A j, k \in DOMAIN frees' : frees'[j].ptr = frees'[k].ptr => j = k
        /\ \A j \in DOMAIN frees' : \E k \in DOMAIN frees : frees'[j] = frees[k]
    BY <1>1, <2>1, TakenOut
  <2>6. AllocTypeOK'
    BY <1>1, <1>2, <2>1, <2>4, <2>5 DEF AllocTypeOK
  <2>7. Accounted'
    BY <1>1, <1>2, <2>1, <2>2, <2>5 DEF Accounted
  <2>8. LargeEnough'
    <3>1. ASSUME NEW q \in DOMAIN held', held'[q] < Word PROVE held'[q] <= system'[q]
      <4>1. CASE q = p
        <5>1. /\ held'[q] <= sz /\ sz <= frees[i].size /\ frees[i].size <= system'[q]
              /\ held'[q] \in Nat /\ system'[q] \in Nat /\ frees[i].size \in Nat
          BY <1>1, <1>2, <2>1, <2>2, <2>3, <3>1, <4>1 DEF AllocTypeOK
        <5> QED
          BY <5>1
      <4>2. CASE q # p
        BY <1>1, <1>2, <2>1, <3>1, <4>2 DEF LargeEnough
      <4> QED
        BY <4>1, <4>2
    <3> QED
      BY <1>1, <2>1, <2>5, <3>1 DEF LargeEnough
  <2>9. TableKept'
    <3>1. DOMAIN allocs' = DOMAIN held'
      BY <1>1, <1>2, <1>5, <2>4 DEF TableKept
    <3>2. \A q \in DOMAIN allocs' : allocs'[q] <= system'[q]
      BY <1>1, <1>5, <2>1, <2>3, <2>4 DEF TableKept
    <3> QED
      BY <3>1, <3>2 DEF TableKept
  <2>10. Disjoint(system)'
    BY <1>1, <2>1 DEF Disjoint, Bytes
  <2> QED
    BY <2>6, <2>7, <2>8, <2>9, <2>10 DEF AllocInv, OnlyLeaksAreLeft
<1> QED
  BY <1>4, <1>5 DEF BaseMalloc, NewBlock

\* free() and delete: a block the program holds goes to the vector, or back to
\* the system; any other address does nothing.
LEMMA Freed == ASSUME AllocInv, ~exited, NEW p \in Addresses, Free(p) PROVE AllocInv'
<1>1. AllocTypeOK /\ Accounted /\ Disjoint(system) /\ LargeEnough /\ TableKept
  BY DEF AllocInv
<1>2. /\ DOMAIN held' = DOMAIN held \ {p} /\ held' \in [DOMAIN held' -> Nat]
      /\ \A q \in DOMAIN held' : held'[q] = held[q]
      /\ disabled' = disabled /\ exited' = exited
  BY <1>1 DEF AllocTypeOK, Without, Restrict, Free
<1>3. CASE disabled
  <2>1. system' = Without(system, {p}) /\ UNCHANGED <<allocs, frees>> /\ p \in DOMAIN held
    BY <1>3 DEF Free, BaseFree
  <2>2. /\ DOMAIN system' = DOMAIN system \ {p} /\ system' \in [DOMAIN system' -> Nat]
        /\ \A q \in DOMAIN system' : system'[q] = system[q]
    BY <1>1, <2>1 DEF AllocTypeOK, Without, Restrict
  <2>3. FreedPtrs' = FreedPtrs /\ p \notin FreedPtrs
    BY <1>1, <2>1 DEF FreedPtrs, Accounted
  <2>4. AllocTypeOK' /\ Accounted'
    BY <1>1, <1>2, <2>1, <2>2, <2>3 DEF AllocTypeOK, Accounted
  <2>5. LargeEnough'
    <3>1. \A i \in DOMAIN frees : frees[i].ptr \in DOMAIN system'
      BY <1>1, <2>2, <2>3 DEF Accounted, FreedPtrs
    <3>2. \A q \in DOMAIN held' : q \in DOMAIN system'
      BY <1>1, <1>2, <2>2 DEF Accounted
    <3> QED
      BY <1>1, <1>2, <2>1, <2>2, <3>1, <3>2 DEF LargeEnough
  <2>6. Disjoint(system)'
    BY <1>1, <2>2 DEF Disjoint, Bytes
  <2> QED
    BY <1>2, <1>3, <2>4, <2>5, <2>6 DEF AllocInv, TableKept, OnlyLeaksAreLeft
<1>4. CASE ~disabled /\ p \in DOMAIN allocs
  <2> DEFINE e == [ptr |-> p, size |-> allocs[p]]
  <2>1. frees' = Append(frees, e) /\ allocs' = Without(allocs, {p}) /\ system' = system
    BY <1>4 DEF Free, BaseFree
  <2>2. /\ e \in Entries /\ e.ptr = p /\ p \in DOMAIN held /\ p \notin FreedPtrs
        /\ e.size <= system[p] /\ p \in DOMAIN system
    BY <1>1, <1>4 DEF Entries, AllocTypeOK, TableKept, Accounted
  <2>3. /\ DOMAIN allocs' = DOMAIN allocs \ {p} /\ allocs' \in [DOMAIN allocs' -> Nat]
        /\ \A q \in DOMAIN allocs' : allocs'[q] = allocs[q]
    BY <1>1, <2>1 DEF AllocTypeOK, Without, Restrict
  <2> HIDE DEF e
  <2>4. /\ frees' \in Seq(Entries)
        /\ FreedPtrs' = FreedPtrs \cup {p}
        /\ \A j, k \in DOMAIN frees' : frees'[j].ptr = frees'[k].ptr => j = k
        /\ \A j \in DOMAIN frees' : frees'[j] = e \/ \E k \in DOMAIN frees : frees'[j] = frees[k]
    BY <1>1, <2>1, <2>2, PushedBack
  <2>5. AllocTypeOK'
    BY <1>1, <1>2, <2>1, <2>3, <2>4 DEF AllocTypeOK
  <2>6. Accounted'
    BY <1>1, <1>2, <2>1, <2>2, <2>4 DEF Accounted
  <2>7. LargeEnough'
    BY <1>1, <1>2, <2>1, <2>2, <2>4 DEF LargeEnough
  <2>8. TableKept'
    BY <1>1, <1>2, <1>4, <2>1, <2>3 DEF TableKept
  <2>9. Disjoint(system)'
    BY <1>1, <2>1 DEF Disjoint, Bytes
  <2> QED
    BY <1>2, <2>5, <2>6, <2>7, <2>8, <2>9 DEF AllocInv, OnlyLeaksAreLeft
<1>5. CASE ~disabled /\ p \notin DOMAIN allocs
  <2>1. UNCHANGED <<system, allocs, frees>>
    BY <1>5 DEF Free, BaseFree
  <2>2. p \notin DOMAIN held
    BY <1>1, <1>5 DEF TableKept
  <2>3. DOMAIN held' = DOMAIN held /\ FreedPtrs' = FreedPtrs
    BY <1>2, <2>1, <2>2 DEF FreedPtrs
  <2>4. AllocTypeOK' /\ Accounted' /\ LargeEnough' /\ TableKept' /\ Disjoint(system)'
    BY <1>1, <1>2, <2>1, <2>3 DEF AllocTypeOK, Accounted, LargeEnough, TableKept, Disjoint, Bytes
  <2> QED
    BY <1>2, <2>4 DEF AllocInv, OnlyLeaksAreLeft
<1> QED
  BY <1>3, <1>4, <1>5

\* The exit handler gives back the vector's blocks, so that the program's stay.
LEMMA Exits == ASSUME AllocInv, ~exited, Exit PROVE AllocInv'
<1>1. AllocTypeOK /\ Accounted
  BY DEF AllocInv
<1>2. /\ DOMAIN system' = DOMAIN system \ FreedPtrs /\ system' \in [DOMAIN system' -> Nat]
  BY <1>1 DEF AllocTypeOK, Without, Restrict, Exit
<1>3. DOMAIN system' = DOMAIN held'
  BY <1>1, <1>2 DEF Accounted, Exit
<1> QED
  BY <1>1, <1>2, <1>3 DEF Exit, AllocInv, AllocTypeOK, OnlyLeaksAreLeft

\* base_allocate_disable(1), or nothing.
LEMMA DisableInv == ASSUME AllocInv, Disable \/ UNCHANGED avars PROVE AllocInv'
<1>1. UNCHANGED <<system, allocs, frees, held, exited>> /\ disabled' \in {disabled, TRUE}
  BY DEF Disable, avars
<1>2. FreedPtrs' = FreedPtrs
  BY <1>1 DEF FreedPtrs
<1> QED
  BY <1>1, <1>2 DEF AllocInv, AllocTypeOK, Accounted, LargeEnough, TableKept, Disjoint, Bytes,
                    OnlyLeaksAreLeft

\* Every step keeps the invariant.
LEMMA AllocNext == AllocInv /\ [ANext]_avars => AllocInv'
<1> SUFFICES ASSUME AllocInv, [ANext]_avars PROVE AllocInv'
  OBVIOUS
<1>1. ASSUME ~exited, NEW sz \in Sizes, Malloc(sz) PROVE AllocInv'
  BY <1>1, AllocAssumption, HandedOut DEF Malloc
<1>2. ASSUME ~exited, NEW n \in Counts, NEW sz \in Sizes, Calloc(n, sz) PROVE AllocInv'
  <2> DEFINE want == n * sz
  <2>1. Word \in Nat \ {0} /\ n \in Nat /\ sz \in Nat
    BY AllocAssumption
  <2>2. want \in Nat
    BY <2>1
  <2>3. PICK p \in Addresses : /\ BaseMalloc(p, want % Word)
                               /\ held' = With(held, p, want)
                               /\ UNCHANGED <<disabled, exited>>
    BY <1>2 DEF Calloc
  <2> HIDE DEF want
  <2>4. want % Word \in Nat /\ (want < Word => want % Word = want)
    BY <2>1, <2>2
  <2>5. want < Word => want <= want % Word
    BY <2>2, <2>4
  <2> QED
    BY <1>2, <2>2, <2>3, <2>4, <2>5, HandedOut
<1> QED
  BY <1>1, <1>2, Freed, Exits, DisableInv DEF ANext

\* The invariant holds in every reachable state.
LEMMA AllocInvHolds == ASpec => []AllocInv
BY AllocInit, AllocNext, PTL DEF ASpec

-----------------------------------------------------------------------------
\* What the allocator hands out is the system's, large enough, and shares no byte
\* with another block the program holds, whatever is freed twice, wrongly or
\* after the allocator was disabled.
THEOREM BlocksAreSound == ASpec => []HandedOutSound
<1>1. AllocInv => HandedOutSound
  <2> SUFFICES ASSUME AllocInv, ~exited PROVE HandedOutSound
    BY DEF HandedOutSound
  <2>1. AllocTypeOK /\ Accounted /\ Disjoint(system) /\ LargeEnough
    BY DEF AllocInv
  <2>2. DOMAIN held \subseteq DOMAIN system
    BY <2>1 DEF Accounted
  <2>3. /\ DOMAIN Restrict(system, DOMAIN held) = DOMAIN held
        /\ \A q \in DOMAIN held : Restrict(system, DOMAIN held)[q] = system[q]
    BY DEF Restrict
  <2>4. Disjoint(Restrict(system, DOMAIN held))
    BY <2>1, <2>2, <2>3 DEF Disjoint, Bytes
  <2> QED
    BY <2>1, <2>2, <2>4 DEF HandedOutSound, LargeEnough, Accounted
<1> QED
  BY <1>1, AllocInvHolds, PTL

\* After the exit handler the system still has exactly what the program leaked.
THEOREM LeaksAloneAreLeft == ASpec => []OnlyLeaksAreLeft
<1>1. AllocInv => OnlyLeaksAreLeft
  BY DEF AllocInv
<1> QED
  BY <1>1, AllocInvHolds, PTL

-----------------------------------------------------------------------------
(* The keyboard decoder, for any of the keys, any capacity of the controller  *)
(* and any order of presses, releases, repetitions and calls: no modifier     *)
(* sticks, and a key types what is printed on it. What makes it work is that  *)
(* each byte is read with the prefix that belongs to it, and that the release *)
(* of a key whose press is still to be read comes after it.                   *)

\* What is known of a byte from the keyboard.
IsEscapeByte(b) == b.value = 224
IsPress(b) == b.value = Scan[b.key].code
IsRelease(b) == b.value = Scan[b.key].code + 128
KeyBytes == {b \in [value : Nat, key : Keys] :
             (IsEscapeByte(b) /\ Scan[b.key].escape) \/ IsPress(b) \/ IsRelease(b)}

\* The character of a key.
CharOf(key) == Char(Scan[key].code + (IF Scan[key].escape THEN 128 ELSE 0))

\* Whether the byte at j comes after a prefix.
Escaped(j) == IF j = 1 THEN last_escape ELSE IsEscapeByte(buffer[j - 1])

KeyTypeOK ==
    /\ buffer \in Seq(KeyBytes) /\ down \subseteq Keys /\ modifiers \subseteq DOMAIN Modifier
    /\ last_escape \in BOOLEAN /\ typed \in [key : Keys \cup {"none"}, char : Int]

\* A prefix is the prefix of the byte behind it, the last one read included.
Aligned ==
    /\ \A j \in 1 .. Len(buffer) :
          ~IsEscapeByte(buffer[j]) => (Scan[buffer[j].key].escape <=> Escaped(j))
    /\ IF buffer = << >> THEN ~last_escape ELSE ~IsEscapeByte(buffer[Len(buffer)])

\* The press of a key that is up is followed by its release.
ReleasesCome ==
    \A j \in 1 .. Len(buffer) :
        IsPress(buffer[j]) /\ buffer[j].key \notin down =>
            \E i \in j + 1 .. Len(buffer) : IsRelease(buffer[i]) /\ buffer[i].key = buffer[j].key

\* A modifier is set by a key that is down, or will be cleared.
ModifiersAccounted ==
    \A m \in modifiers \ {"capslock"} :
        \/ \E key \in down : m \in Means(key)
        \/ \E j \in 1 .. Len(buffer) : IsRelease(buffer[j]) /\ m \in Means(buffer[j].key)

KeyInv == KeyTypeOK /\ Aligned /\ ReleasesCome /\ ModifiersAccounted /\ TypesWhatWasPressed

\* The table keymap[] at the codes of the keys.
LEMMA KeymapIs ==
    /\ Char(30) = 97 /\ Char(46) = 99 /\ Char(7) = 133 /\ Char(156) = 142 /\ Char(200) = 192
    /\ Char(72) = 56 /\ Char(42) = 250 /\ Char(54) = 250 /\ Char(29) = 251 /\ Char(157) = 251
    /\ Char(56) = 252 /\ Char(58) = 253
BY DEF Char, Keymap, CKey, KeyUp, Modifier

\* The keys there are, and the range of their scan codes.
LEMMA ScanIs ==
    ASSUME NEW key \in DOMAIN Scan
    PROVE  /\ Scan[key].code \in 1 .. 95 /\ Scan[key].escape \in BOOLEAN
           /\ key \in {"a", "c", "six", "enter", "up", "eight", "lshift", "rshift", "lctrl",
                       "rctrl", "alt", "caps"}
<1>1. DOMAIN Scan = {"a", "c", "six", "enter", "up", "eight", "lshift", "rshift", "lctrl",
                       "rctrl", "alt", "caps"}
  BY DEF Scan
<1>2. key \in {"a", "c", "six", "enter", "up", "eight", "lshift", "rshift", "lctrl",
                       "rctrl", "alt", "caps"}
  BY <1>1
<1>3. /\ Scan["a"].code = 30 /\ Scan["c"].code = 46 /\ Scan["six"].code = 7
      /\ Scan["enter"].code = 28 /\ Scan["up"].code = 72 /\ Scan["eight"].code = 72
      /\ Scan["lshift"].code = 42 /\ Scan["rshift"].code = 54 /\ Scan["lctrl"].code = 29
      /\ Scan["rctrl"].code = 29 /\ Scan["alt"].code = 56 /\ Scan["caps"].code = 58
  BY DEF Scan
<1>4. Scan[key].code \in 1 .. 95
  BY <1>2, <1>3
<1>5. Scan[key].escape \in BOOLEAN
  <2>1. /\ Scan["a"].escape = FALSE /\ Scan["c"].escape = FALSE /\ Scan["six"].escape = FALSE
        /\ Scan["enter"].escape = TRUE /\ Scan["up"].escape = TRUE
        /\ Scan["eight"].escape = FALSE /\ Scan["lshift"].escape = FALSE
        /\ Scan["rshift"].escape = FALSE /\ Scan["lctrl"].escape = FALSE
        /\ Scan["rctrl"].escape = TRUE /\ Scan["alt"].escape = FALSE
        /\ Scan["caps"].escape = FALSE
    BY DEF Scan
  <2> QED
    BY <1>2, <2>1, Zenon
<1> QED
  BY <1>2, <1>4, <1>5

\* The character of each key.
LEMMA CharOfIs ==
    /\ CharOf("a") = 97 /\ CharOf("c") = 99 /\ CharOf("six") = 133 /\ CharOf("enter") = 142
    /\ CharOf("up") = 192 /\ CharOf("eight") = 56 /\ CharOf("lshift") = 250
    /\ CharOf("rshift") = 250 /\ CharOf("lctrl") = 251 /\ CharOf("rctrl") = 251
    /\ CharOf("alt") = 252 /\ CharOf("caps") = 253
BY KeymapIs DEF CharOf, Scan

\* The rows of complex_keymap[] for the keys 6 and Enter.
LEMMA ComplexIs ==
    /\ ComplexKeymap[133] = <<54, 94, 0, 30>> /\ ComplexKeymap[142] = <<10, 10, 13, 13>>
BY DEF ComplexKeymap, CKey

\* What is known of a key of the keyboard.
LEMMA KeysKnown ==
    ASSUME NEW key \in Keys
    PROVE  /\ key \in DOMAIN Scan /\ Scan[key].code \in 1 .. 95 /\ Scan[key].escape \in BOOLEAN
           /\ Means(key) = {m \in DOMAIN Modifier : Modifier[m] = CharOf(key)}
<1>1. key \in DOMAIN Scan
  BY KeyboardAssumption
<1> QED
  BY <1>1, ScanIs DEF Means, CharOf

\* A byte is of one kind only.
LEMMA BytesAre ==
    ASSUME NEW b \in KeyBytes
    PROVE  /\ b.key \in Keys /\ b.value \in Nat
           /\ IsEscapeByte(b) => Scan[b.key].escape /\ ~IsPress(b) /\ ~IsRelease(b)
           /\ ~IsEscapeByte(b) => IsPress(b) \/ IsRelease(b)
           /\ ~(IsPress(b) /\ IsRelease(b))
<1>1. b.key \in Keys /\ b.value \in Nat
  BY DEF KeyBytes
<1>2. Scan[b.key].code \in 1 .. 95
  BY <1>1, KeysKnown
<1>3. (IsEscapeByte(b) /\ Scan[b.key].escape) \/ IsPress(b) \/ IsRelease(b)
  BY DEF KeyBytes
<1>4. IsEscapeByte(b) => ~IsPress(b) /\ ~IsRelease(b)
  BY <1>1, <1>2 DEF IsEscapeByte, IsPress, IsRelease
<1>5. ~(IsPress(b) /\ IsRelease(b))
  BY <1>1, <1>2 DEF IsPress, IsRelease
<1> QED
  BY <1>1, <1>3, <1>4, <1>5, Zenon

\* What a key sends.
LEMMA Sent ==
    ASSUME NEW key \in Keys, NEW release \in BOOLEAN
    PROVE  \E b \in KeyBytes :
              /\ b.key = key /\ (release => IsRelease(b)) /\ (~release => IsPress(b))
              /\ ~Scan[key].escape => ScanBytes(key, release) = <<b>>
              /\ Scan[key].escape => \E e \in KeyBytes :
                    e.key = key /\ IsEscapeByte(e) /\ ScanBytes(key, release) = <<e>> \o <<b>>
<1>1. PICK v \in Nat : v = Scan[key].code + (IF release THEN 128 ELSE 0)
  BY KeysKnown
<1>2. PICK b : b = ScanByte(v, key)
  OBVIOUS
<1>3. b = [value |-> v, key |-> key] /\ b.key = key /\ b.value = v
  BY <1>2 DEF ScanByte
<1>4. (release => IsRelease(b)) /\ (~release => IsPress(b))
  BY <1>1, <1>3, KeysKnown DEF IsRelease, IsPress
<1>5. b \in KeyBytes
  BY <1>3, <1>4 DEF KeyBytes
<1>6. CASE Scan[key].escape
  <2>1. PICK e : e = ScanByte(224, key)
    OBVIOUS
  <2>2. e \in KeyBytes /\ e.key = key /\ IsEscapeByte(e)
    BY <1>6, <2>1 DEF ScanByte, KeyBytes, IsEscapeByte
  <2>3. ScanBytes(key, release) = <<e>> \o <<b>>
    BY <1>1, <1>2, <1>6, <2>1 DEF ScanBytes
  <2> QED
    BY <1>3, <1>4, <1>5, <1>6, <2>2, <2>3
<1>7. CASE ~Scan[key].escape
  <2>1. ScanBytes(key, release) = << >> \o <<b>>
    BY <1>1, <1>2, <1>7 DEF ScanBytes
  <2>2. ScanBytes(key, release) = <<b>>
    BY <2>1
  <2> QED
    BY <1>3, <1>4, <1>5, <1>7, <2>2
<1> QED
  BY <1>6, <1>7

\* A sequence behind another.
LEMMA Joined ==
    ASSUME NEW S, NEW s \in Seq(S), NEW t \in Seq(S), NEW u, u = s \o t
    PROVE  /\ u \in Seq(S) /\ Len(u) = Len(s) + Len(t)
           /\ \A i \in 1 .. Len(s) : u[i] = s[i]
           /\ \A i \in 1 .. Len(t) : u[Len(s) + i] = t[i]
<1>1. /\ u \in Seq(S) /\ Len(u) = Len(s) + Len(t)
      /\ \A i \in 1 .. Len(s) + Len(t) :
            u[i] = IF i <= Len(s) THEN s[i] ELSE t[i - Len(s)]
  BY ConcatProperties
<1>2. Len(s) \in Nat /\ Len(t) \in Nat
  OBVIOUS
<1>3. ASSUME NEW i \in 1 .. Len(t)
      PROVE  u[Len(s) + i] = t[i]
  <2>1. Len(s) + i \in 1 .. Len(s) + Len(t) /\ ~(Len(s) + i <= Len(s)) /\ Len(s) + i - Len(s) = i
    BY <1>2
  <2> QED
    BY <1>1, <2>1
<1> QED
  BY <1>1, <1>2, <1>3

\* Two bytes, one after the other.
LEMMA TwoBytes ==
    ASSUME NEW S, NEW e \in S, NEW b \in S, NEW t, t = <<e>> \o <<b>>
    PROVE  t \in Seq(S) /\ Len(t) = 2 /\ t[1] = e /\ t[2] = b
<1>1. /\ <<e>> \in Seq(S) /\ Len(<<e>>) = 1 /\ <<e>>[1] = e
      /\ <<b>> \in Seq(S) /\ Len(<<b>>) = 1 /\ <<b>>[1] = b
  OBVIOUS
<1>2. /\ t \in Seq(S) /\ Len(t) = Len(<<e>>) + Len(<<b>>)
      /\ \A i \in 1 .. Len(<<e>>) + Len(<<b>>) :
            t[i] = IF i <= Len(<<e>>) THEN <<e>>[i] ELSE <<b>>[i - Len(<<e>>)]
  BY <1>1, ConcatProperties
<1>3. Len(t) = 2 /\ t[1] = e
  BY <1>1, <1>2
<1>4. t[2] = <<b>>[1]
  BY <1>1, <1>2
<1> QED
  BY <1>1, <1>2, <1>3, <1>4

\* The buffer after it.
LEMMA Appended ==
    ASSUME KeyTypeOK, Aligned, NEW key \in Keys, NEW release \in BOOLEAN,
           buffer' = buffer \o ScanBytes(key, release), UNCHANGED last_escape
    PROVE  /\ buffer' \in Seq(KeyBytes) /\ Aligned'
           /\ Len(buffer') > Len(buffer) /\ \A j \in 1 .. Len(buffer) : buffer'[j] = buffer[j]
           /\ \A j \in Len(buffer) + 1 .. Len(buffer') : buffer'[j].key = key
           /\ \A j \in Len(buffer) + 1 .. Len(buffer') : release => ~IsPress(buffer'[j])
           /\ release => IsRelease(buffer'[Len(buffer')])
<1>1. PICK b \in KeyBytes :
          /\ b.key = key /\ (release => IsRelease(b)) /\ (~release => IsPress(b))
          /\ ~Scan[key].escape => ScanBytes(key, release) = <<b>>
          /\ Scan[key].escape => \E e \in KeyBytes :
                e.key = key /\ IsEscapeByte(e) /\ ScanBytes(key, release) = <<e>> \o <<b>>
  BY Sent
<1>2. ~IsEscapeByte(b) /\ (release => ~IsPress(b))
  BY <1>1, BytesAre
<1>3. PICK n \in Nat : n = Len(buffer)
  BY DEF KeyTypeOK
<1>4. buffer \in Seq(KeyBytes) /\ \A j \in 1 .. n : buffer[j] \in KeyBytes
  BY <1>3 DEF KeyTypeOK
<1>5. CASE ~Scan[key].escape
  <2>1. buffer' = buffer \o <<b>>
    BY <1>1, <1>5
  <2>2. /\ buffer' \in Seq(KeyBytes) /\ Len(buffer') = n + 1 /\ buffer'[n + 1] = b
        /\ \A j \in 1 .. n : buffer'[j] = buffer[j]
    BY <1>3, <1>4, <2>1
  <2>3. Aligned'
    <3>1. ASSUME NEW j \in 1 .. n + 1, ~IsEscapeByte(buffer'[j])
          PROVE  Scan[buffer'[j].key].escape <=> Escaped(j)'
      <4>1. CASE j \in 1 .. n
        <5>1. Escaped(j)' <=> Escaped(j)
          <6>1. j # 1 => j - 1 \in 1 .. n
            BY <4>1
          <6> QED
            BY <2>2, <6>1 DEF Escaped
        <5>2. buffer'[j] = buffer[j] /\ j \in 1 .. Len(buffer)
          BY <1>3, <2>2, <4>1
        <5> QED
          BY <3>1, <5>1, <5>2 DEF Aligned
      <4>2. CASE j \notin 1 .. n
        <5>1. j = n + 1 /\ buffer'[j].key = key
          BY <1>1, <2>2, <4>2
        <5>2. ~Escaped(j)'
          <6>1. CASE n = 0
            <7>1. buffer = << >>
              BY <1>3, <1>4, <6>1, EmptySeq
            <7> QED
              BY <5>1, <6>1, <7>1 DEF Aligned, Escaped
          <6>2. CASE n # 0
            <7>1. j # 1 /\ j - 1 = n /\ buffer'[n] = buffer[n] /\ buffer # << >>
              BY <1>3, <2>2, <5>1, <6>2
            <7> QED
              BY <1>3, <7>1 DEF Aligned, Escaped
          <6> QED
            BY <6>1, <6>2
        <5> QED
          BY <1>5, <5>1, <5>2
      <4> QED
        BY <4>1, <4>2
    <3>2. buffer' # << >> /\ ~IsEscapeByte(buffer'[Len(buffer')])
      BY <1>2, <2>2
    <3> QED
      BY <2>2, <3>1, <3>2 DEF Aligned
  <2>4. \A j \in n + 1 .. n + 1 : buffer'[j] = b
    BY <2>2
  <2> QED
    BY <1>1, <1>2, <1>3, <2>2, <2>3, <2>4
<1>6. CASE Scan[key].escape
  <2>1. PICK e : /\ e \in KeyBytes /\ e.key = key /\ IsEscapeByte(e)
                 /\ buffer' = buffer \o (<<e>> \o <<b>>)
    BY <1>1, <1>6
  <2>2. /\ buffer' \in Seq(KeyBytes) /\ Len(buffer') = n + 2
        /\ buffer'[n + 1] = e /\ buffer'[n + 2] = b
        /\ \A j \in 1 .. n : buffer'[j] = buffer[j]
    <3>1. PICK t : t = <<e>> \o <<b>>
      OBVIOUS
    <3>2. t \in Seq(KeyBytes) /\ Len(t) = 2 /\ t[1] = e /\ t[2] = b
      <4>1. e \in KeyBytes /\ b \in KeyBytes
        BY <2>1
      <4> QED
        BY <3>1, <4>1, TwoBytes
    <3>3. buffer' = buffer \o t
      BY <2>1, <3>1
    <3>4. /\ buffer' \in Seq(KeyBytes) /\ Len(buffer') = Len(buffer) + Len(t)
          /\ \A i \in 1 .. Len(buffer) : buffer'[i] = buffer[i]
          /\ \A i \in 1 .. Len(t) : buffer'[Len(buffer) + i] = t[i]
      <4>1. buffer \in Seq(KeyBytes) /\ t \in Seq(KeyBytes)
        BY <1>4, <3>2
      <4> QED
        BY <3>3, <4>1, Joined
    <3>5. buffer'[n + 1] = t[1] /\ buffer'[n + 2] = t[2]
      BY <1>3, <3>2, <3>4
    <3> QED
      BY <1>3, <3>2, <3>4, <3>5
  <2>3. Aligned'
    <3>1. ASSUME NEW j \in 1 .. n + 2, ~IsEscapeByte(buffer'[j])
          PROVE  Scan[buffer'[j].key].escape <=> Escaped(j)'
      <4>1. CASE j \in 1 .. n
        <5>1. Escaped(j)' <=> Escaped(j)
          <6>1. j # 1 => j - 1 \in 1 .. n
            BY <4>1
          <6> QED
            BY <2>2, <6>1 DEF Escaped
        <5>2. buffer'[j] = buffer[j] /\ j \in 1 .. Len(buffer)
          BY <1>3, <2>2, <4>1
        <5> QED
          BY <3>1, <5>1, <5>2 DEF Aligned
      <4>2. CASE j \notin 1 .. n
        <5>1. j = n + 2
          <6>1. j # n + 1
            BY <2>1, <2>2, <3>1
          <6>2. j \in 1 .. n + 2 /\ n \in Nat
            BY <1>3, <3>1
          <6> QED
            <7>1. j > n
              BY <4>2, <6>2
            <7> QED
              BY <6>1, <6>2, <7>1
        <5>2. j # 1 /\ j - 1 = n + 1 /\ buffer'[j].key = key
          <6>1. b.key = key
            BY <1>1
          <6> QED
            BY <1>3, <2>2, <5>1, <6>1
        <5>3. Escaped(j)'
          BY <2>1, <2>2, <5>2 DEF Escaped
        <5> QED
          BY <1>6, <5>2, <5>3
      <4> QED
        BY <4>1, <4>2
    <3>2. buffer' # << >> /\ ~IsEscapeByte(buffer'[Len(buffer')])
      BY <1>2, <2>2
    <3> QED
      BY <2>2, <3>1, <3>2 DEF Aligned
  <2>4. \A j \in n + 1 .. n + 2 : buffer'[j] \in {b, e}
    BY SMTT(30), <2>2
  <2>5. ~IsPress(e) /\ e.key = key /\ b.key = key /\ (release => IsRelease(b))
    BY <1>1, <2>1, BytesAre
  <2>6. ASSUME NEW j \in Len(buffer) + 1 .. Len(buffer')
        PROVE  buffer'[j].key = key /\ (release => ~IsPress(buffer'[j]))
    <3>1. buffer'[j] \in {b, e}
      BY <1>3, <2>2, <2>4
    <3> QED
      BY <1>2, <2>5, <3>1
  <2>7. /\ Len(buffer') > Len(buffer) /\ \A j \in 1 .. Len(buffer) : buffer'[j] = buffer[j]
        /\ buffer'[Len(buffer')] = b
    BY <1>3, <2>2
  <2> QED
    BY <2>2, <2>3, <2>5, <2>6, <2>7
<1> QED
  BY <1>5, <1>6

\* The character a key types is one of those printed on it.
LEMMA DecodedIs ==
    ASSUME NEW key \in Keys, ~IsModifier(CharOf(key))
    PROVE  Decoded(CharOf(key)) \in Int /\ Decoded(CharOf(key)) \in Legend(key) \cup {0}
<1>1. key \in {"a", "c", "six", "enter", "up", "eight", "lshift", "rshift", "lctrl",
                       "rctrl", "alt", "caps"}
  BY KeysKnown, ScanIs
<1>2. key \in {"a", "c", "six", "enter", "up", "eight"}
  BY <1>1, CharOfIs DEF IsModifier, Modifier
<1>3. CASE key = "a"
  BY <1>3, CharOfIs DEF Decoded, Letter, Legend
<1>4. CASE key = "c"
  BY <1>4, CharOfIs DEF Decoded, Letter, Legend
<1>5. CASE key = "six"
  <2>1. Decoded(CharOf(key)) = Complex(133)
    BY <1>5, CharOfIs DEF Decoded, CKey
  <2>2. Complex(133) \in {54, 94, 0, 30}
    BY ComplexIs DEF Complex
  <2> QED
    BY <1>5, <2>1, <2>2 DEF Legend
<1>6. CASE key = "enter"
  <2>1. Decoded(CharOf(key)) = Complex(142)
    BY <1>6, CharOfIs DEF Decoded, CKey
  <2>2. Complex(142) \in {10, 13}
    BY ComplexIs DEF Complex
  <2> QED
    BY <1>6, <2>1, <2>2 DEF Legend
<1>7. CASE key = "up"
  BY <1>7, CharOfIs DEF Decoded, Legend, CKey, KeyUp
<1>8. CASE key = "eight"
  BY <1>8, CharOfIs DEF Decoded, Legend, CKey
<1> QED
  BY <1>2, <1>3, <1>4, <1>5, <1>6, <1>7, <1>8

\* What a call does with the byte it reads.
LEMMA ReadIs ==
    ASSUME KeyTypeOK, Aligned, CheckKeyboard
    PROVE  \E b \in KeyBytes :
              /\ buffer # << >> /\ b = buffer[1] /\ down' = down
              /\ buffer' \in Seq(KeyBytes) /\ Len(buffer') = Len(buffer) - 1
              /\ \A j \in 1 .. Len(buffer') : buffer'[j] = buffer[j + 1]
              /\ last_escape' = IsEscapeByte(b)
              /\ IsEscapeByte(b) => modifiers' = modifiers /\ typed' = [key |-> b.key, char |-> 0]
              /\ IsRelease(b) => /\ modifiers' = modifiers \ ClearedBy(CharOf(b.key))
                                 /\ typed' = [key |-> b.key, char |-> 0]
              /\ IsPress(b) /\ IsModifier(CharOf(b.key)) =>
                    modifiers' = Pressed(CharOf(b.key)) /\ typed' = [key |-> b.key, char |-> 0]
              /\ IsPress(b) /\ ~IsModifier(CharOf(b.key)) =>
                    /\ modifiers' \in {modifiers, {}}
                    /\ typed' = [key |-> b.key, char |-> Decoded(CharOf(b.key))]
<1>1. buffer # << >> /\ buffer' = Tail(buffer) /\ down' = down
  BY DEF CheckKeyboard
<1>2. PICK b : b = Head(buffer)
  OBVIOUS
<1>3. /\ b \in KeyBytes /\ b = buffer[1]
      /\ buffer' \in Seq(KeyBytes) /\ Len(buffer') = Len(buffer) - 1
      /\ \A j \in 1 .. Len(buffer') : buffer'[j] = buffer[j + 1]
  BY <1>1, <1>2, HeadTailProperties DEF KeyTypeOK
<1>4. /\ b.value \in Nat /\ b.key \in Keys /\ Scan[b.key].code \in 1 .. 95
      /\ Scan[b.key].escape \in BOOLEAN
  BY <1>3, BytesAre, KeysKnown
<1>5. ~IsEscapeByte(b) => (last_escape <=> Scan[b.key].escape)
  <2>1. 1 \in 1 .. Len(buffer)
    BY <1>1, EmptySeq DEF KeyTypeOK
  <2> QED
    BY <1>3, <2>1 DEF Aligned, Escaped
<1>6. last_escape \in BOOLEAN
  BY DEF KeyTypeOK
<1>7. PICK v \in Nat : v = b.value
  BY <1>4
<1>11. Head(buffer).value = v /\ Head(buffer).key = b.key
  BY <1>2, <1>7
<1>12. PICK ch : ch = Char(Index(IF v >= 128 THEN v - 128 ELSE v))
  OBVIOUS
<1>13. PICK char : char = IF v = 224 \/ v >= 128 \/ IsModifier(ch) THEN 0 ELSE Decoded(ch)
  OBVIOUS
<1>14. /\ last_escape' = (v = 224 /\ ~(char = 97))
       /\ modifiers' = IF v = 224 THEN modifiers
                       ELSE IF v >= 128 THEN modifiers \ ClearedBy(ch)
                       ELSE IF IsModifier(ch) THEN Pressed(ch)
                       ELSE IF char = 97 THEN {}
                       ELSE modifiers
       /\ typed' = [key |-> b.key, char |-> char]
  BY <1>11, <1>12, <1>13, ZenonT(30) DEF CheckKeyboard, NextEscape, Reboots
<1>15. CASE IsEscapeByte(b)
  <2>1. v = 224
    BY <1>7, <1>15 DEF IsEscapeByte
  <2>2. char = 0 /\ char # 97
    BY <1>13, <2>1
  <2>3. /\ last_escape' = TRUE /\ modifiers' = modifiers
        /\ typed' = [key |-> b.key, char |-> 0]
    BY <1>14, <2>1, <2>2, Zenon
  <2> QED
    BY <1>1, <1>3, <1>15, <2>3, BytesAre
<1>16. CASE IsRelease(b)
  <2>1. v = Scan[b.key].code + 128 /\ v # 224 /\ v >= 128 /\ v - 128 = Scan[b.key].code
    BY <1>4, <1>7, <1>16 DEF IsRelease
  <2>2. ~IsEscapeByte(b)
    BY <1>3, <1>16, BytesAre
  <2>3. ch = CharOf(b.key)
    BY <1>4, <1>5, <1>6, <1>12, <2>1, <2>2 DEF Index, CharOf
  <2>4. char = 0 /\ char # 97
    BY <1>13, <2>1
  <2>5. /\ last_escape' = FALSE /\ modifiers' = modifiers \ ClearedBy(CharOf(b.key))
        /\ typed' = [key |-> b.key, char |-> 0]
    BY <1>14, <2>1, <2>3, <2>4, Zenon
  <2>6. ~IsPress(b)
    BY <1>3, <1>16, BytesAre
  <2>7. last_escape' = IsEscapeByte(b)
    BY <2>2, <2>5 DEF IsEscapeByte
  <2> QED
    BY <1>1, <1>3, <1>16, <2>2, <2>5, <2>6, <2>7, Zenon
<1>17. CASE IsPress(b)
  <2>1. v = Scan[b.key].code /\ v # 224 /\ ~(v >= 128)
    BY <1>4, <1>7, <1>17 DEF IsPress
  <2>2. ~IsEscapeByte(b) /\ ~IsRelease(b)
    BY <1>3, <1>17, BytesAre
  <2>3. ch = CharOf(b.key)
    BY <1>4, <1>5, <1>6, <1>12, <2>1, <2>2 DEF Index, CharOf
  <2>4. last_escape' = IsEscapeByte(b)
    <3>1. last_escape' = FALSE
      BY <1>14, <2>1, Zenon
    <3> QED
      BY <2>2, <3>1 DEF IsEscapeByte
  <2>5. CASE IsModifier(CharOf(b.key))
    <3>1. char = 0
      BY <1>13, <2>3, <2>5
    <3>2. modifiers' = Pressed(CharOf(b.key)) /\ typed' = [key |-> b.key, char |-> 0]
      BY <1>14, <2>1, <2>3, <2>5, <3>1, Zenon
    <3> QED
      BY <1>1, <1>3, <1>17, <2>2, <2>4, <2>5, <3>2, Zenon
  <2>6. CASE ~IsModifier(CharOf(b.key))
    <3>1. char = Decoded(CharOf(b.key))
      BY <1>13, <2>1, <2>3, <2>6, Zenon
    <3>2. modifiers' \in {modifiers, {}} /\ typed' = [key |-> b.key, char |-> char]
      BY <1>14, <2>1, <2>3, <2>6
    <3>3. typed' = [key |-> b.key, char |-> Decoded(CharOf(b.key))]
      BY <3>1, <3>2
    <3> QED
      BY <1>1, <1>3, <1>17, <2>2, <2>4, <2>6, <3>2, <3>3, Zenon
  <2> QED
    BY <2>5, <2>6
<1> QED
  BY <1>3, <1>15, <1>16, <1>17, BytesAre

\* A press keeps the invariant: its bytes are behind all others, and the key is down.
LEMMA PressGood ==
    ASSUME KeyInv, NEW key \in Keys, Press(key)
    PROVE  KeyInv'
<1>1. /\ down' = down \cup {key} /\ buffer' = buffer \o ScanBytes(key, FALSE)
      /\ UNCHANGED <<modifiers, last_escape, typed>>
  BY DEF Press
<1>2. KeyTypeOK /\ Aligned /\ ReleasesCome /\ ModifiersAccounted /\ TypesWhatWasPressed
  BY DEF KeyInv
<1>3. /\ buffer' \in Seq(KeyBytes) /\ Aligned' /\ Len(buffer') > Len(buffer)
      /\ \A j \in 1 .. Len(buffer) : buffer'[j] = buffer[j]
      /\ \A j \in Len(buffer) + 1 .. Len(buffer') : buffer'[j].key = key
  BY <1>1, <1>2, Appended
<1>4. Len(buffer) \in Nat /\ Len(buffer') \in Nat
  BY <1>2, <1>3 DEF KeyTypeOK
<1>5. KeyTypeOK'
  BY <1>1, <1>2, <1>3 DEF KeyTypeOK
<1>6. ReleasesCome'
  <2>1. ASSUME NEW j \in 1 .. Len(buffer'), IsPress(buffer'[j]), buffer'[j].key \notin down'
        PROVE  \E i \in j + 1 .. Len(buffer') :
                  IsRelease(buffer'[i]) /\ buffer'[i].key = buffer'[j].key
    <3>1. j \in 1 .. Len(buffer)
      <4>1. buffer'[j].key # key
        BY <1>1, <2>1
      <4>2. j \notin Len(buffer) + 1 .. Len(buffer')
        BY <1>3, <4>1
      <4> QED
        BY <1>4, <2>1, <4>2
    <3>2. PICK i \in j + 1 .. Len(buffer) : IsRelease(buffer[i]) /\ buffer[i].key = buffer[j].key
      BY <1>1, <1>2, <1>3, <2>1, <3>1 DEF ReleasesCome
    <3>3. i \in 1 .. Len(buffer) /\ i \in j + 1 .. Len(buffer')
      BY <1>3, <1>4, <3>1, <3>2
    <3> QED
      BY <1>3, <3>1, <3>2, <3>3
  <2> QED
    BY <2>1 DEF ReleasesCome
<1>7. ModifiersAccounted'
  <2>1. ASSUME NEW m \in modifiers \ {"capslock"}
        PROVE  \/ \E k \in down' : m \in Means(k)
               \/ \E j \in 1 .. Len(buffer') : IsRelease(buffer'[j]) /\ m \in Means(buffer'[j].key)
    <3>1. CASE \E k \in down : m \in Means(k)
      BY <1>1, <3>1
    <3>2. CASE \E j \in 1 .. Len(buffer) : IsRelease(buffer[j]) /\ m \in Means(buffer[j].key)
      <4>1. PICK j \in 1 .. Len(buffer) : IsRelease(buffer[j]) /\ m \in Means(buffer[j].key)
        BY <3>2
      <4>2. j \in 1 .. Len(buffer') /\ buffer'[j] = buffer[j]
        BY <1>3, <1>4, <4>1
      <4> QED
        BY <4>1, <4>2
    <3> QED
      BY <1>2, <2>1, <3>1, <3>2 DEF ModifiersAccounted
  <2> QED
    BY <1>1, <2>1 DEF ModifiersAccounted
<1>8. TypesWhatWasPressed'
  BY <1>1, <1>2 DEF TypesWhatWasPressed
<1> QED
  BY <1>3, <1>5, <1>6, <1>7, <1>8 DEF KeyInv

\* A release keeps it: its bytes are behind the presses of the key still to be read.
LEMMA ReleaseGood ==
    ASSUME KeyInv, NEW key \in Keys, Release(key)
    PROVE  KeyInv'
<1>1. /\ down' = down \ {key} /\ buffer' = buffer \o ScanBytes(key, TRUE)
      /\ UNCHANGED <<modifiers, last_escape, typed>>
  BY DEF Release
<1>2. KeyTypeOK /\ Aligned /\ ReleasesCome /\ ModifiersAccounted /\ TypesWhatWasPressed
  BY DEF KeyInv
<1>3. /\ buffer' \in Seq(KeyBytes) /\ Aligned' /\ Len(buffer') > Len(buffer)
      /\ \A j \in 1 .. Len(buffer) : buffer'[j] = buffer[j]
      /\ \A j \in Len(buffer) + 1 .. Len(buffer') : buffer'[j].key = key
      /\ \A j \in Len(buffer) + 1 .. Len(buffer') : ~IsPress(buffer'[j])
      /\ IsRelease(buffer'[Len(buffer')])
  BY <1>1, <1>2, Appended
<1>4. PICK n \in Nat, k \in Nat : n = Len(buffer) /\ k = Len(buffer')
  BY <1>2, <1>3 DEF KeyTypeOK
<1>5. k \in n + 1 .. k /\ k \in 1 .. k /\ IsRelease(buffer'[k]) /\ buffer'[k].key = key
  BY <1>3, <1>4
<1>6. KeyTypeOK'
  BY <1>1, <1>2, <1>3 DEF KeyTypeOK
<1>7. ReleasesCome'
  <2>1. ASSUME NEW j \in 1 .. k, IsPress(buffer'[j]), buffer'[j].key \notin down'
        PROVE  \E i \in j + 1 .. k : IsRelease(buffer'[i]) /\ buffer'[i].key = buffer'[j].key
    <3>1. j \in 1 .. n
      BY <1>3, <1>4, <2>1
    <3>2. CASE buffer'[j].key = key
      <4>1. k \in j + 1 .. k
        BY <1>4, <1>5, <3>1
      <4> QED
        BY <1>5, <3>2, <4>1
    <3>3. CASE buffer'[j].key # key
      <4>1. PICK i \in j + 1 .. n : IsRelease(buffer[i]) /\ buffer[i].key = buffer[j].key
        BY <1>1, <1>2, <1>3, <1>4, <2>1, <3>1, <3>3 DEF ReleasesCome
      <4>2. i \in 1 .. n /\ i \in j + 1 .. k
        BY <1>4, <1>5, <3>1, <4>1
      <4> QED
        BY <1>3, <1>4, <3>1, <4>1, <4>2
    <3> QED
      BY <3>2, <3>3
  <2> QED
    BY <1>4, <2>1 DEF ReleasesCome
<1>8. ModifiersAccounted'
  <2>1. ASSUME NEW m \in modifiers \ {"capslock"}
        PROVE  \/ \E d \in down' : m \in Means(d)
               \/ \E j \in 1 .. k : IsRelease(buffer'[j]) /\ m \in Means(buffer'[j].key)
    <3>1. CASE \E d \in down : m \in Means(d)
      <4>1. PICK d \in down : m \in Means(d)
        BY <3>1
      <4>2. CASE d = key
        BY <1>5, <4>1, <4>2
      <4>3. CASE d # key
        BY <1>1, <4>1, <4>3
      <4> QED
        BY <4>2, <4>3
    <3>2. CASE \E j \in 1 .. n : IsRelease(buffer[j]) /\ m \in Means(buffer[j].key)
      <4>1. PICK j \in 1 .. n : IsRelease(buffer[j]) /\ m \in Means(buffer[j].key)
        BY <3>2
      <4>2. j \in 1 .. k /\ buffer'[j] = buffer[j]
        BY <1>3, <1>4, <4>1
      <4> QED
        BY <4>1, <4>2
    <3> QED
      BY <1>2, <1>4, <2>1, <3>1, <3>2 DEF ModifiersAccounted
  <2> QED
    BY <1>1, <1>4, <2>1 DEF ModifiersAccounted
<1>9. TypesWhatWasPressed'
  BY <1>1, <1>2 DEF TypesWhatWasPressed
<1> QED
  BY <1>3, <1>6, <1>7, <1>8, <1>9 DEF KeyInv

\* A call of keyboard_readc() with a byte ready keeps it, whatever the byte.
LEMMA CheckGood ==
    ASSUME KeyInv, CheckKeyboard
    PROVE  KeyInv'
<1>1. KeyTypeOK /\ Aligned /\ ReleasesCome /\ ModifiersAccounted /\ TypesWhatWasPressed
  BY DEF KeyInv
<1>2. PICK b : 
         /\ b \in KeyBytes
         /\ buffer # << >> /\ b = buffer[1] /\ down' = down
         /\ buffer' \in Seq(KeyBytes) /\ Len(buffer') = Len(buffer) - 1
         /\ \A j \in 1 .. Len(buffer') : buffer'[j] = buffer[j + 1]
         /\ last_escape' = IsEscapeByte(b)
         /\ IsEscapeByte(b) => modifiers' = modifiers /\ typed' = [key |-> b.key, char |-> 0]
         /\ IsRelease(b) => /\ modifiers' = modifiers \ ClearedBy(CharOf(b.key))
                            /\ typed' = [key |-> b.key, char |-> 0]
         /\ IsPress(b) /\ IsModifier(CharOf(b.key)) =>
               modifiers' = Pressed(CharOf(b.key)) /\ typed' = [key |-> b.key, char |-> 0]
         /\ IsPress(b) /\ ~IsModifier(CharOf(b.key)) =>
               /\ modifiers' \in {modifiers, {}}
               /\ typed' = [key |-> b.key, char |-> Decoded(CharOf(b.key))]
  BY <1>1, ReadIs
<1>3. /\ b.key \in Keys /\ IsEscapeByte(b) \in BOOLEAN
      /\ IsEscapeByte(b) => ~IsRelease(b)
      /\ IsEscapeByte(b) \/ IsRelease(b) \/ IsPress(b)
  BY <1>2, BytesAre DEF IsEscapeByte
<1>4. PICK n \in Nat, k \in Nat : n = Len(buffer) /\ k = Len(buffer') /\ n = k + 1
  BY <1>1, <1>2 DEF KeyTypeOK
<1>5. \A j \in 1 .. k : j + 1 \in 1 .. n /\ buffer'[j] = buffer[j + 1]
  BY <1>2, <1>4
<1>6. typed' \in [key : Keys \cup {"none"}, char : Int] /\ TypesWhatWasPressed'
  <2>1. CASE typed' = [key |-> b.key, char |-> 0]
    BY <1>3, <2>1 DEF TypesWhatWasPressed
  <2>2. CASE ~IsModifier(CharOf(b.key)) /\ typed' = [key |-> b.key, char |-> Decoded(CharOf(b.key))]
    <3>1. PICK c : c = Decoded(CharOf(b.key))
      OBVIOUS
    <3>2. c \in Int /\ c \in Legend(b.key) \cup {0}
      BY <1>3, <2>2, <3>1, DecodedIs
    <3>3. typed' = [key |-> b.key, char |-> c]
      BY <2>2, <3>1
    <3> QED
      BY <1>3, <3>2, <3>3 DEF TypesWhatWasPressed
  <2> QED
    BY <1>2, <1>3, <2>1, <2>2
<1>7. modifiers' \subseteq modifiers \cup Means(b.key) /\ (~IsPress(b) => modifiers' \subseteq modifiers)
  <2>1. Means(b.key) = {m \in DOMAIN Modifier : Modifier[m] = CharOf(b.key)}
    BY <1>3, KeysKnown
  <2>2. Pressed(CharOf(b.key)) \subseteq modifiers \cup Means(b.key)
    BY <2>1 DEF Pressed
  <2> QED
    BY <1>2, <1>3, <2>2
<1>8. IsRelease(b) => \A m \in modifiers' \ {"capslock"} : m \notin Means(b.key)
  <2>1. ASSUME IsRelease(b), NEW m \in modifiers' \ {"capslock"}, m \in Means(b.key)
        PROVE  FALSE
    <3>1. m \in DOMAIN Modifier /\ Modifier[m] = CharOf(b.key)
      BY <1>3, <2>1, KeysKnown
    <3>2. Modifier[m] \in 250 .. 252
      BY <2>1, <3>1 DEF Modifier
    <3>3. m \in ClearedBy(CharOf(b.key))
      BY <3>1, <3>2 DEF ClearedBy, Modifier
    <3> QED
      BY <1>2, <2>1, <3>3
  <2> QED
    BY <2>1
<1>9. KeyTypeOK'
  <2>1. Means(b.key) \subseteq DOMAIN Modifier
    BY DEF Means
  <2>2. last_escape' \in BOOLEAN
    BY <1>2, <1>3, Zenon
  <2> QED
    BY <1>1, <1>2, <1>6, <1>7, <2>1, <2>2 DEF KeyTypeOK
<1>10. Aligned'
  <2>1. ASSUME NEW j \in 1 .. k, ~IsEscapeByte(buffer'[j])
        PROVE  Scan[buffer'[j].key].escape <=> Escaped(j)'
    <3>1. j + 1 \in 1 .. n /\ buffer'[j] = buffer[j + 1]
      BY <1>5
    <3>2. Escaped(j)' <=> Escaped(j + 1)
      <4>1. CASE j = 1
        BY <1>2, <4>1 DEF Escaped
      <4>2. CASE j # 1
        <5>1. j - 1 \in 1 .. k /\ j + 1 # 1 /\ j - 1 + 1 = j /\ j + 1 - 1 = j
          BY <1>4, <4>2
        <5>2. buffer'[j - 1] = buffer[j]
          BY <1>5, <5>1
        <5> QED
          BY <4>2, <5>1, <5>2 DEF Escaped
      <4> QED
        BY <4>1, <4>2
    <3> QED
      BY <1>1, <1>4, <2>1, <3>1, <3>2 DEF Aligned
  <2>2. ~IsEscapeByte(buffer[n])
    BY <1>1, <1>2, <1>4 DEF Aligned
  <2>3. CASE buffer' = << >>
    <3>1. k = 0 /\ n = 1
      BY <1>4, <2>3
    <3>2. ~last_escape'
      BY <1>2, <2>2, <3>1
    <3> QED
      BY <1>4, <2>1, <2>3, <3>2 DEF Aligned
  <2>4. CASE buffer' # << >>
    <3>1. k \in 1 .. k
      BY <1>2, <1>4, <2>4, EmptySeq
    <3>2. buffer'[k] = buffer[n]
      BY <1>4, <1>5, <3>1
    <3> QED
      BY <1>4, <2>1, <2>2, <2>4, <3>2 DEF Aligned
  <2> QED
    BY <2>3, <2>4
<1>11. ReleasesCome'
  <2>1. ASSUME NEW j \in 1 .. k, IsPress(buffer'[j]), buffer'[j].key \notin down'
        PROVE  \E i \in j + 1 .. k : IsRelease(buffer'[i]) /\ buffer'[i].key = buffer'[j].key
    <3>1. j + 1 \in 1 .. n /\ buffer'[j] = buffer[j + 1]
      BY <1>5
    <3>2. PICK i : /\ i \in j + 1 + 1 .. n
                   /\ IsRelease(buffer[i]) /\ buffer[i].key = buffer[j + 1].key
      BY <1>1, <1>2, <1>4, <2>1, <3>1 DEF ReleasesCome
    <3>3. i - 1 \in j + 1 .. k /\ i - 1 \in 1 .. k /\ i - 1 + 1 = i
      BY <1>4, <3>2
    <3> QED
      BY <1>5, <3>1, <3>2, <3>3
  <2> QED
    BY <1>4, <2>1 DEF ReleasesCome
<1>12. ModifiersAccounted'
  <2>1. ASSUME NEW m \in modifiers' \ {"capslock"}
        PROVE  \/ \E d \in down' : m \in Means(d)
               \/ \E j \in 1 .. k : IsRelease(buffer'[j]) /\ m \in Means(buffer'[j].key)
    <3>1. CASE \E d \in down : m \in Means(d)
      BY <1>2, <3>1
    <3>2. ASSUME NEW j \in 1 .. n, IsRelease(buffer[j]), m \in Means(buffer[j].key)
          PROVE  \E i \in 1 .. k : IsRelease(buffer'[i]) /\ m \in Means(buffer'[i].key)
      <4>1. j # 1
        BY <1>2, <1>8, <2>1, <3>2
      <4>2. j - 1 \in 1 .. k /\ j - 1 + 1 = j
        BY <1>4, <4>1
      <4> QED
        BY <1>5, <3>2, <4>2
    <3>3. CASE m \in modifiers
      BY <1>1, <1>4, <2>1, <3>1, <3>2, <3>3 DEF ModifiersAccounted
    <3>4. CASE m \notin modifiers
      <4>1. IsPress(b) /\ m \in Means(b.key)
        BY <1>7, <2>1, <3>4
      <4>2. CASE b.key \in down
        BY <3>1, <4>1, <4>2
      <4>3. CASE b.key \notin down
        <5>1. 1 \in 1 .. n
          BY <1>4
        <5>2. PICK i : i \in 1 + 1 .. n /\ IsRelease(buffer[i]) /\ buffer[i].key = b.key
          BY <1>1, <1>2, <1>4, <4>1, <4>3, <5>1 DEF ReleasesCome
        <5>3. i \in 1 .. n
          BY <1>4, <5>2
        <5> QED
          BY <3>2, <4>1, <5>2, <5>3
      <4> QED
        BY <4>2, <4>3
    <3> QED
      BY <3>3, <3>4
  <2> QED
    BY <1>4, <2>1 DEF ModifiersAccounted
<1> QED
  BY <1>6, <1>9, <1>10, <1>11, <1>12 DEF KeyInv

\* Every step keeps the invariant.
LEMMA KeyNext ==
    ASSUME KeyInv, [KeyboardNext]_keyboardVars
    PROVE  KeyInv'
<1>1. CASE KeyboardNext
  BY <1>1, PressGood, ReleaseGood, CheckGood DEF KeyboardNext
<1>2. CASE UNCHANGED keyboardVars
  BY <1>2 DEF keyboardVars, KeyInv, KeyTypeOK, Aligned, Escaped, ReleasesCome,
              ModifiersAccounted, TypesWhatWasPressed
<1> QED
  BY <1>1, <1>2

\* The invariant holds when nothing was pressed yet.
LEMMA KeyInit ==
    ASSUME KeyboardInit
    PROVE  KeyInv
<1>1. buffer \in Seq(KeyBytes) /\ Len(buffer) = 0
  BY DEF KeyboardInit
<1>2. /\ modifiers = {} /\ last_escape = FALSE /\ buffer = << >> /\ down = {}
      /\ typed = [key |-> "none", char |-> 0]
  BY DEF KeyboardInit
<1>3. KeyTypeOK
  <2>1. typed \in [key : Keys \cup {"none"}, char : Int]
    BY <1>2
  <2>2. last_escape \in BOOLEAN
    BY <1>2, Zenon
  <2> QED
    BY <1>1, <1>2, <2>1, <2>2 DEF KeyTypeOK
<1>4. Aligned
  <2>1. 1 .. Len(buffer) = {}
    BY <1>1
  <2>2. buffer = << >> /\ ~last_escape
    BY <1>2
  <2> QED
    BY <2>1, <2>2, Zenon DEF Aligned
<1>5. ReleasesCome /\ ModifiersAccounted
  BY <1>1, <1>2 DEF ReleasesCome, ModifiersAccounted
<1>6. TypesWhatWasPressed
  BY <1>2 DEF TypesWhatWasPressed
<1> QED
  BY <1>3, <1>4, <1>5, <1>6 DEF KeyInv

\* The invariant holds in every behaviour.
LEMMA KeyInvHolds == KeyboardSpec => []KeyInv
<1>1. KeyboardInit => KeyInv
  BY KeyInit
<1>2. KeyInv /\ [KeyboardNext]_keyboardVars => KeyInv'
  BY KeyNext
<1> QED
  BY <1>1, <1>2, PTL DEF KeyboardSpec

\* For any of the keys and any order of presses, releases and calls, reboots in the
\* middle included: once every byte is read, shift, control and alt are set only
\* while such a key is down (keyboard_readc(), k-hardware.cc).
THEOREM ModifiersDoNotStick == KeyboardSpec => []NothingSticks
<1>1. KeyInv => NothingSticks
  <2>1. ASSUME KeyInv, buffer = << >>, NEW m \in modifiers \ {"capslock"}
        PROVE  \E key \in down : m \in Means(key)
    <3>1. 1 .. Len(buffer) = {}
      BY <2>1
    <3> QED
      BY <2>1, <3>1 DEF KeyInv, ModifiersAccounted
  <2> QED
    BY <2>1 DEF NothingSticks
<1> QED
  BY <1>1, KeyInvHolds, PTL

\* Every character keyboard_readc() returns is printed on the key whose bytes it just
\* read, although the bytes say so only together with the prefix and the modifiers.
THEOREM KeysTypeTheirLegend == KeyboardSpec => []TypesWhatWasPressed
<1>1. KeyInv => TypesWhatWasPressed
  BY DEF KeyInv
<1> QED
  BY <1>1, KeyInvHolds, PTL

-----------------------------------------------------------------------------
(* The console's printer, for a console of every size and any texts.        *)

Cells == [0 .. Screen - 1 -> Nat]
Printing == [cells : Cells, cursor : 0 .. Screen]

LEMMA ScreenSizes ==
    /\ Rows \in Nat \ {0} /\ Columns \in Nat \ {0} /\ Screen \in Nat \ {0}
    /\ Columns <= Screen
<1>1. Rows \in Nat \ {0} /\ Columns \in Nat \ {0}
  BY ConsoleAssumption
<1>2. PICK r \in Nat : Rows = r + 1
  <2>1. Rows - 1 \in Nat /\ Rows = (Rows - 1) + 1
    BY <1>1
  <2> QED
    BY <2>1
<1>3. (r + 1) * Columns = r * Columns + Columns /\ r * Columns \in Nat
  BY <1>1
<1> QED
  BY <1>1, <1>2, <1>3 DEF Screen

\* The rest of the row is on the screen.
LEMMA RowFits ==
    ASSUME NEW cur \in Nat, cur < Screen
    PROVE  cur % Columns \in 0 .. Columns - 1 /\ cur + Columns - (cur % Columns) <= Screen
<1>0. Columns \in Nat \ {0} /\ Rows \in Nat
  BY ScreenSizes
<1>1. PICK q \in Nat, r \in Nat : /\ cur \div Columns = q /\ cur % Columns = r /\ r < Columns
                                 /\ cur = q * Columns + r
                                 /\ q * Columns <= cur /\ cur < (q + 1) * Columns
  BY <1>0, Remainders, Zenon
<1>2. (q + 1) * Columns <= Screen
  <2>1. cur < Rows * Columns
    BY DEF Screen
  <2>2. (cur \div Columns + 1) * Columns <= Rows * Columns
    BY <1>0, <2>1, Blocks
  <2> QED
    BY <1>1, <2>2 DEF Screen
<1>3. (q + 1) * Columns = q * Columns + Columns /\ q * Columns \in Nat
  BY <1>1, ScreenSizes
<1> QED
  BY <1>1, <1>2, <1>3, ScreenSizes

\* k cells from the cursor on, filled with v.
Fill(cells, cur, k, v) ==
    [i \in 0 .. Screen - 1 |-> IF i \in cur .. cur + k - 1 THEN v ELSE cells[i]]

\* How many cells c fills, and with what, from the cursor on.
Width(cur, c) == IF c = Newline THEN Columns - (cur % Columns) ELSE 1
Ink(c) == IF c = Newline THEN Blank ELSE c

LEMMA RoomIs ==
    ASSUME NEW printer \in Printing, NEW scroll \in BOOLEAN
    PROVE  /\ Room(printer, scroll) \in Printing /\ Room(printer, scroll).cursor < Screen
           /\ printer.cursor < Screen => Room(printer, scroll) = printer
           /\ printer.cursor = Screen /\ scroll =>
                Room(printer, scroll) = [cells |-> Scrolled(printer.cells), cursor |-> Screen - Columns]
           /\ printer.cursor = Screen /\ ~scroll =>
                Room(printer, scroll) = [cells |-> printer.cells, cursor |-> 0]
<1>1. printer.cursor \in 0 .. Screen /\ printer.cells \in Cells
  BY DEF Printing
<1>2. Scrolled(printer.cells) \in Cells
  <2>1. ASSUME NEW i \in 0 .. Screen - 1
        PROVE  (IF i + Columns < Screen THEN printer.cells[i + Columns] ELSE 0) \in Nat
    <3>1. i + Columns < Screen => i + Columns \in 0 .. Screen - 1
      BY ScreenSizes
    <3> QED
      BY <1>1, <3>1 DEF Cells
  <2> QED
    BY <2>1 DEF Scrolled, Cells
<1>3. CASE printer.cursor < Screen
  BY <1>1, <1>3, ScreenSizes DEF Room
<1>4. CASE printer.cursor = Screen /\ scroll
  <2>1. Room(printer, scroll) = [cells |-> Scrolled(printer.cells), cursor |-> Screen - Columns]
    BY <1>4, ScreenSizes DEF Room
  <2>2. Screen - Columns \in 0 .. Screen /\ Screen - Columns < Screen
    BY ScreenSizes
  <2>3. [cells |-> Scrolled(printer.cells), cursor |-> Screen - Columns] \in Printing
    BY <1>2, <2>2 DEF Printing
  <2>4. Room(printer, scroll).cursor < Screen /\ Room(printer, scroll) \in Printing
    BY <2>1, <2>2, <2>3
  <2>5. ~(printer.cursor < Screen)
    BY <1>4, ScreenSizes
  <2> QED
    BY <1>4, <2>1, <2>4, <2>5, Zenon
<1>5. CASE printer.cursor = Screen /\ ~scroll
  <2>1. Room(printer, scroll) = [printer EXCEPT !.cursor = 0]
    BY <1>5, ScreenSizes DEF Room
  <2>2. [printer EXCEPT !.cursor = 0] = [cells |-> printer.cells, cursor |-> 0]
    BY DEF Printing
  <2>3. [cells |-> printer.cells, cursor |-> 0] \in Printing /\ 0 < Screen
    BY <1>1, ScreenSizes DEF Printing
  <2> QED
    BY <1>5, <2>1, <2>2, <2>3, ScreenSizes
<1> QED
  BY <1>1, <1>3, <1>4, <1>5, ScreenSizes

PutTo(here, k, c, now) ==
    /\ k \in 1 .. Columns /\ here.cursor + k <= Screen /\ now \in Printing
    /\ now = [cells |-> Fill(here.cells, here.cursor, k, Ink(c)), cursor |-> here.cursor + k]

LEMMA PutcIs ==
    ASSUME NEW printer \in Printing, NEW scroll \in BOOLEAN, NEW c \in Nat
    PROVE  PutTo(Room(printer, scroll), Width(Room(printer, scroll).cursor, c), c, Putc(printer, c, scroll))
<1> SUFFICES ASSUME NEW here, here = Room(printer, scroll), NEW k, k = Width(here.cursor, c)
    PROVE  /\ k \in 1 .. Columns /\ here.cursor + k <= Screen
           /\ Putc(printer, c, scroll) \in Printing
           /\ Putc(printer, c, scroll) = [cells |-> Fill(here.cells, here.cursor, k, Ink(c)),
                                     cursor |-> here.cursor + k]
  BY Zenon DEF PutTo
<1>1. here \in Printing /\ here.cursor < Screen
  BY RoomIs
<1>2. here.cursor \in Nat /\ here.cells \in Cells /\ DOMAIN here.cells = 0 .. Screen - 1
  BY <1>1, ScreenSizes DEF Printing, Cells
<1>3. /\ here.cursor % Columns \in 0 .. Columns - 1
      /\ here.cursor + Columns - (here.cursor % Columns) <= Screen
  BY <1>1, <1>2, RowFits
<1>4. k \in 1 .. Columns /\ here.cursor + k <= Screen
  BY SMTT(30), <1>1, <1>2, <1>3, ScreenSizes DEF Width
<1>5. (IF c = Newline THEN RestOfRow(here) ELSE {here.cursor}) = here.cursor .. here.cursor + k - 1
  <2>1. CASE c = Newline
    <3>1. k = Columns - (here.cursor % Columns)
      BY <2>1 DEF Width
    <3>2. here.cursor + k - 1 = here.cursor + Columns - 1 - (here.cursor % Columns)
      BY <1>2, <1>3, <3>1, ScreenSizes
    <3> QED
      BY <2>1, <3>2 DEF RestOfRow
  <2>2. CASE c # Newline
    <3>1. k = 1 /\ here.cursor .. here.cursor + 1 - 1 = {here.cursor}
      BY <1>2, <2>2 DEF Width
    <3> QED
      BY <2>2, <3>1
  <2> QED
    BY <2>1, <2>2
<1>6. Putc(printer, c, scroll) = [cells |-> Fill(here.cells, here.cursor, k, Ink(c)),
                             cursor |-> here.cursor + k]
  <2>1. [i \in DOMAIN here.cells |->
            IF i \notin here.cursor .. here.cursor + k - 1 THEN here.cells[i]
            ELSE IF c = Newline THEN Blank ELSE c] = Fill(here.cells, here.cursor, k, Ink(c))
    BY <1>2 DEF Fill, Ink
  <2>2. here.cursor + k = here.cursor + (IF c = Newline THEN Columns - (here.cursor % Columns) ELSE 1)
    BY DEF Width
  <2> QED
    BY <1>5, <2>1, <2>2 DEF Putc
<1>7. Fill(here.cells, here.cursor, k, Ink(c)) \in Cells
  <2>1. Ink(c) \in Nat
    BY DEF Ink, Blank
  <2> QED
    BY <1>2, <2>1 DEF Fill, Cells
<1>8. here.cursor + k \in 0 .. Screen
  BY <1>2, <1>4, ScreenSizes
<1> QED
  BY <1>4, <1>6, <1>7, <1>8 DEF Printing

\* The states of the printer, character by character.
LEMMA PutAllIs ==
    ASSUME NEW from \in Printing, NEW text \in Seq(Nat), NEW scroll \in BOOLEAN
    PROVE  \E printer \in [0 .. Len(text) -> Printing] :
              /\ printer[0] = from
              /\ \A n \in 1 .. Len(text) : printer[n] = Putc(printer[n - 1], text[n], scroll)
              /\ PutAll(from, text, scroll) = printer[Len(text)]
<1> DEFINE N == Len(text)
<1>0. N \in Nat /\ \A n \in 1 .. N : text[n] \in Nat
  OBVIOUS
<1> HIDE DEF N
<1>1. PICK h : h = [n \in 1 .. N |-> [x \in Printing |-> Putc(x, text[n], scroll)]]
  OBVIOUS
<1>2. \A n \in 1 .. N, x \in Printing : Putc(x, text[n], scroll) \in Printing
  BY <1>0, PutcIs DEF PutTo
<1>3. h \in [1 .. N -> [Printing -> Printing]]
  BY <1>1, <1>2
<1>4. PICK f : Folds(f, h, from, N, Printing)
  BY <1>0, <1>3, FoldExists
<1>5. f \in [0 .. N -> Printing] /\ f[0] = from
  BY <1>4 DEF Folds
<1>6. ASSUME NEW n \in 1 .. N PROVE f[n] = Putc(f[n - 1], text[n], scroll)
  <2>1. n - 1 \in 0 .. N /\ f[n] = h[n][f[n - 1]]
    BY <1>0, <1>4 DEF Folds
  <2>2. f[n - 1] \in Printing
    BY <1>5, <2>1
  <2> QED
    BY <1>1, <2>1, <2>2
<1>7. f = [n \in 0 .. N |-> IF n = 0 THEN from ELSE Putc(f[n - 1], text[n], scroll)]
  <2>1. ASSUME NEW n \in 0 .. N
        PROVE  f[n] = IF n = 0 THEN from ELSE Putc(f[n - 1], text[n], scroll)
    <3>1. n # 0 => n \in 1 .. N
      BY <1>0
    <3> QED
      BY <1>5, <1>6, <3>1
  <2> QED
    BY <1>5, <2>1
<1>8. PICK g : /\ g = CHOOSE printer :
                        printer = [n \in 0 .. N |-> IF n = 0 THEN from
                                               ELSE Putc(printer[n - 1], text[n], scroll)]
               /\ PutAll(from, text, scroll) = g[N]
  BY DEF PutAll, N
<1>9. g = [n \in 0 .. N |-> IF n = 0 THEN from ELSE Putc(g[n - 1], text[n], scroll)]
  BY <1>7, <1>8
<1>10. ASSUME NEW n \in 1 .. N PROVE g[n] = Putc(g[n - 1], text[n], scroll)
  BY <1>0, <1>9
<1>11. g[0] = from
  BY <1>0, <1>9
<1> DEFINE S == {n \in 0 .. N : g[n] \in Printing}
<1>12. 0 \in S
  BY <1>0, <1>11
<1>13. ASSUME NEW n \in 0 .. N - 1, n \in S PROVE n + 1 \in S
  <2>1. n + 1 \in 1 .. N /\ (n + 1) - 1 = n /\ n + 1 \in 0 .. N
    BY <1>0
  <2>2. g[n + 1] = Putc(g[n], text[n + 1], scroll)
    BY <1>10, <2>1
  <2>3. g[n] \in Printing
    BY <1>13
  <2> QED
    BY <1>2, <2>1, <2>2, <2>3
<1> HIDE DEF S
<1>14. \A n \in 0 .. N : n \in S
  BY <1>0, <1>12, <1>13, UpTo
<1>15. g \in [0 .. N -> Printing]
  BY <1>9, <1>14 DEF S
<1>16. \E printer \in [0 .. N -> Printing] :
          /\ printer[0] = from
          /\ \A n \in 1 .. N : printer[n] = Putc(printer[n - 1], text[n], scroll)
          /\ PutAll(from, text, scroll) = printer[N]
  BY <1>8, <1>10, <1>11, <1>15
<1> QED
  BY <1>16 DEF N

\* k times v after a sequence.
Longer(paper, k, v) == paper \o [i \in 1 .. k |-> v]

LEMMA LongerIs ==
    ASSUME NEW paper \in Seq(Nat), NEW k \in Nat, NEW v \in Nat
    PROVE  /\ Longer(paper, k, v) \in Seq(Nat) /\ Len(Longer(paper, k, v)) = Len(paper) + k
           /\ \A j \in 1 .. Len(paper) : Longer(paper, k, v)[j] = paper[j]
           /\ \A j \in Len(paper) + 1 .. Len(paper) + k : Longer(paper, k, v)[j] = v
<1>1. PICK t : t = [i \in 1 .. k |-> v]
  OBVIOUS
<1>2. t \in Seq(Nat) /\ Len(t) = k
  BY <1>1
<1>3. Longer(paper, k, v) = paper \o t
  BY <1>1 DEF Longer
<1>4. \A j \in 1 .. k : t[j] = v
  BY <1>1
<1> HIDE <1>1
<1>5. paper \o t \in Seq(Nat) /\ Len(paper \o t) = Len(paper) + k
  BY SMTT(30), <1>2
<1>6. \A j \in 1 .. Len(paper) : (paper \o t)[j] = paper[j]
  BY <1>2
<1>7. ASSUME NEW j \in Len(paper) + 1 .. Len(paper) + k PROVE (paper \o t)[j] = v
  <2>1. (paper \o t)[j] = t[j - Len(paper)] /\ j - Len(paper) \in 1 .. k
    BY <1>2
  <2> QED
    BY <1>4, <2>1
<1> QED
  BY <1>3, <1>5, <1>6, <1>7

\* The roll after one more character, and after each.
Rolled(paper, c, start) == Longer(paper, Width(start + Len(paper), c), Ink(c))

LEMMA RolledIs ==
    ASSUME NEW paper \in Seq(Nat), NEW c \in Nat, NEW start \in Nat
    PROVE  /\ Rolled(paper, c, start) \in Seq(Nat)
           /\ Rolled(paper, c, start) =
                IF c # Newline THEN Append(paper, c)
                ELSE paper \o [i \in 1 .. Columns - ((start + Len(paper)) % Columns) |-> Blank]
<1>1. Ink(c) \in Nat
  BY DEF Ink, Blank
<1>2. Width(start + Len(paper), c) \in Nat
  <2>1. start + Len(paper) \in Nat /\ Columns \in Nat \ {0}
    BY ScreenSizes
  <2>2. (start + Len(paper)) % Columns \in 0 .. Columns - 1
    BY <2>1
  <2> QED
    BY <2>1, <2>2 DEF Width
<1>3. Rolled(paper, c, start) \in Seq(Nat)
  BY <1>1, <1>2, LongerIs DEF Rolled
<1>4. CASE c = Newline
  BY <1>3, <1>4 DEF Rolled, Longer, Width, Ink
<1>5. CASE c # Newline
  <2>1. Rolled(paper, c, start) = paper \o [i \in 1 .. 1 |-> c]
    BY <1>5 DEF Rolled, Longer, Width, Ink
  <2>2. paper \o [i \in 1 .. 1 |-> c] = Append(paper, c)
    OBVIOUS
  <2> QED
    BY <1>3, <1>5, <2>1, <2>2
<1> QED
  BY <1>4, <1>5

\* The roll of paper, character by character.
LEMMA OnPaperIs ==
    ASSUME NEW text \in Seq(Nat), NEW start \in Nat
    PROVE  \E roll \in [0 .. Len(text) -> Seq(Nat)] :
              /\ roll[0] = << >>
              /\ \A n \in 1 .. Len(text) : roll[n] = Rolled(roll[n - 1], text[n], start)
              /\ OnPaper(text, start) = roll[Len(text)]
<1> DEFINE N == Len(text)
           Next(p, n) == IF text[n] # Newline THEN Append(p, text[n])
                         ELSE p \o [i \in 1 .. Columns - ((start + Len(p)) % Columns) |-> Blank]
<1>0. N \in Nat /\ \A n \in 1 .. N : text[n] \in Nat
  OBVIOUS
<1>2. \A n \in 1 .. N, p \in Seq(Nat) : /\ Rolled(p, text[n], start) \in Seq(Nat)
                                        /\ Rolled(p, text[n], start) = Next(p, n)
  BY <1>0, RolledIs
<1>8. PICK g : /\ g = CHOOSE roll :
                        roll = [n \in 0 .. N |-> IF n = 0 THEN << >> ELSE Next(roll[n - 1], n)]
               /\ OnPaper(text, start) = g[N]
  BY DEF OnPaper
<1> HIDE DEF N, Next
<1>1. PICK h : h = [n \in 1 .. N |-> [p \in Seq(Nat) |-> Rolled(p, text[n], start)]]
  OBVIOUS
<1>3. h \in [1 .. N -> [Seq(Nat) -> Seq(Nat)]] /\ << >> \in Seq(Nat)
  BY <1>1, <1>2
<1>4. PICK f : Folds(f, h, << >>, N, Seq(Nat))
  BY <1>0, <1>3, FoldExists
<1>5. f \in [0 .. N -> Seq(Nat)] /\ f[0] = << >>
  BY <1>4 DEF Folds
<1>6. ASSUME NEW n \in 1 .. N PROVE f[n] = Next(f[n - 1], n)
  <2>1. n - 1 \in 0 .. N /\ f[n] = h[n][f[n - 1]]
    BY <1>0, <1>4 DEF Folds
  <2>2. f[n - 1] \in Seq(Nat)
    BY <1>5, <2>1
  <2> QED
    BY <1>1, <1>2, <2>1, <2>2
<1>7. f = [n \in 0 .. N |-> IF n = 0 THEN << >> ELSE Next(f[n - 1], n)]
  <2>1. ASSUME NEW n \in 0 .. N
        PROVE  f[n] = IF n = 0 THEN << >> ELSE Next(f[n - 1], n)
    <3>1. n # 0 => n \in 1 .. N
      BY <1>0
    <3> QED
      BY <1>5, <1>6, <3>1
  <2> QED
    BY <1>5, <2>1
<1>9. g = [n \in 0 .. N |-> IF n = 0 THEN << >> ELSE Next(g[n - 1], n)]
  BY <1>7, <1>8
<1>10. ASSUME NEW n \in 1 .. N PROVE g[n] = Next(g[n - 1], n)
  BY <1>0, <1>9
<1>11. g[0] = << >>
  BY <1>0, <1>9
<1> DEFINE S == {n \in 0 .. N : g[n] \in Seq(Nat)}
<1>12. 0 \in S
  <2>1. 0 \in 0 .. N
    BY <1>0
  <2>2. g[0] \in Seq(Nat)
    BY <1>3, <1>11, Zenon
  <2> QED
    BY <2>1, <2>2
<1>13. ASSUME NEW n \in 0 .. N - 1, n \in S PROVE n + 1 \in S
  <2>1. n + 1 \in 1 .. N /\ (n + 1) - 1 = n /\ n + 1 \in 0 .. N
    BY <1>0
  <2>2. g[n + 1] = Next(g[n], n + 1)
    BY <1>10, <2>1
  <2>3. g[n] \in Seq(Nat)
    BY <1>13
  <2> QED
    BY <1>2, <2>1, <2>2, <2>3
<1> HIDE DEF S
<1>14. \A n \in 0 .. N : n \in S
  BY <1>0, <1>12, <1>13, UpTo
<1>15. g \in [0 .. N -> Seq(Nat)]
  BY <1>9, <1>14 DEF S
<1>16. ASSUME NEW n \in 1 .. N PROVE g[n] = Rolled(g[n - 1], text[n], start)
  <2>1. n - 1 \in 0 .. N
    BY <1>0
  <2>2. g[n - 1] \in Seq(Nat)
    BY <1>15, <2>1
  <2> QED
    BY <1>2, <1>10, <2>2
<1>17. \E roll \in [0 .. N -> Seq(Nat)] :
          /\ roll[0] = << >>
          /\ \A n \in 1 .. N : roll[n] = Rolled(roll[n - 1], text[n], start)
          /\ OnPaper(text, start) = roll[N]
  BY <1>8, <1>11, <1>15, <1>16
<1> QED
  BY <1>17 DEF N

-----------------------------------------------------------------------------
(* Scrolling.                                                              *)

\* The rows the roll has moved leave its end in the last row of the screen.
LastRow(end, r) == /\ r = 0 => end <= Screen
                   /\ r > 0 => end - r * Columns \in Screen - Columns + 1 .. Screen

LEMMA RowsUpFits ==
    ASSUME NEW end \in Nat
    PROVE  RowsUp(end) \in Nat /\ LastRow(end, RowsUp(end))
<1>0. Screen \in Nat \ {0} /\ Columns \in Nat \ {0}
  BY ScreenSizes
<1>1. CASE end <= Screen
  BY <1>1 DEF RowsUp, LastRow
<1>2. CASE end > Screen
  <2>1. PICK v \in Nat : v = end - Screen + Columns - 1 /\ v >= Columns
    <3>1. end - Screen + Columns - 1 \in Nat /\ end - Screen + Columns - 1 >= Columns
      BY <1>0, <1>2
    <3> QED
      BY <3>1
  <2>2. PICK q \in Nat, r \in Nat : /\ v \div Columns = q /\ v % Columns = r /\ r < Columns
                                   /\ v = q * Columns + r
                                   /\ q * Columns <= v /\ v < (q + 1) * Columns
    BY <1>0, Remainders, Zenon
  <2>3. RowsUp(end) = q
    BY <1>0, <1>2, <2>1, <2>2 DEF RowsUp
  <2>4. q * Columns \in Int
    BY <1>0
  <2>5. q > 0
    <3>1. q = 0 => q * Columns = 0
      BY <1>0
    <3> QED
      BY <1>0, <2>1, <2>2, <3>1
  <2>6. end - q * Columns \in Screen - Columns + 1 .. Screen
    BY <1>0, <2>1, <2>2, <2>4
  <2> QED
    BY <2>3, <2>5, <2>6 DEF LastRow
<1> QED
  BY <1>0, <1>1, <1>2

LEMMA RowsUpIs ==
    ASSUME NEW end \in Nat, NEW r \in Nat, LastRow(end, r)
    PROVE  RowsUp(end) = r
<1>0. Screen \in Nat \ {0} /\ Columns \in Nat \ {0} /\ Columns <= Screen
  BY ScreenSizes
<1>1. CASE r = 0
  BY <1>1, <1>0 DEF LastRow, RowsUp
<1>2. CASE r > 0
  <2>1. r * Columns \in Int /\ end - r * Columns \in Screen - Columns + 1 .. Screen
    BY <1>0, <1>2 DEF LastRow
  <2>2. r * Columns >= Columns
    <3>1. PICK d \in Nat : r = d + 1
      <4>1. r - 1 \in Nat /\ r = (r - 1) + 1
        BY <1>2
      <4> QED
        BY <4>1
    <3>2. (d + 1) * Columns = d * Columns + Columns /\ d * Columns >= 0
      BY <1>0
    <3>3. r * Columns = (d + 1) * Columns
      BY <3>1
    <3> QED
      BY <1>0, <3>2, <3>3
  <2>3. PICK v \in Int : v = end - Screen + Columns - 1
    BY <1>0
  <2>4. r * Columns <= v /\ v < r * Columns + Columns
    BY <1>0, <2>1, <2>3
  <2>5. v \div Columns = r
    BY <1>0, <2>3, <2>4, Quotient
  <2>6. ~(end <= Screen)
    BY <1>0, <2>1, <2>2
  <2> QED
    BY <2>3, <2>5, <2>6 DEF RowsUp
<1> QED
  BY <1>1, <1>2

\* The place p of the roll.
Place(paper, start, p) ==
    IF p >= start /\ p < start + Len(paper) THEN paper[p - start + 1]
    ELSE IF p < Screen THEN console[p] ELSE 0

LEMMA MorePlaces ==
    ASSUME NEW paper \in Seq(Nat), NEW start \in Nat, NEW k \in Nat, NEW v \in Nat, NEW p \in Nat
    PROVE  Place(Longer(paper, k, v), start, p) =
              IF p \in start + Len(paper) .. start + Len(paper) + k - 1 THEN v
              ELSE Place(paper, start, p)
<1>1. Len(Longer(paper, k, v)) = Len(paper) + k
  BY LongerIs
<1>6. \A j \in 1 .. Len(paper) : Longer(paper, k, v)[j] = paper[j]
  BY LongerIs
<1>7. \A j \in Len(paper) + 1 .. Len(paper) + k : Longer(paper, k, v)[j] = v
  BY LongerIs
<1>2. CASE p < start
  BY <1>1, <1>2 DEF Place
<1>3. CASE p >= start /\ p < start + Len(paper)
  <2>1. p - start + 1 \in 1 .. Len(paper)
    BY <1>3
  <2>2. Longer(paper, k, v)[p - start + 1] = paper[p - start + 1]
    BY <1>6, <2>1
  <2> QED
    BY <1>1, <1>3, <2>2 DEF Place
<1>4. CASE p \in start + Len(paper) .. start + Len(paper) + k - 1
  <2>1. p - start + 1 \in Len(paper) + 1 .. Len(paper) + k
    BY <1>4
  <2>2. Longer(paper, k, v)[p - start + 1] = v
    BY <1>7, <2>1
  <2> QED
    BY <1>1, <1>4, <2>2 DEF Place
<1>5. CASE p >= start + Len(paper) + k
  BY <1>1, <1>5 DEF Place
<1> QED
  BY <1>2, <1>3, <1>4, <1>5

\* With the rows that have gone up, the screen is the end of the roll.
OnScreen(printer, paper, start) ==
    LET end == start + Len(paper)
    IN  /\ printer.cursor = end - RowsUp(end) * Columns
        /\ printer.cells = [i \in 0 .. Screen - 1 |-> RolledCell(paper, start, i)]

LEMMA ScrollKeeps ==
    ASSUME NEW printer \in Printing, NEW paper \in Seq(Nat), NEW start \in Nat,
           OnScreen(printer, paper, start),
           NEW here \in Printing,
           printer.cursor < Screen => here = printer,
           printer.cursor = Screen =>
              here = [cells |-> Scrolled(printer.cells), cursor |-> Screen - Columns],
           NEW k \in 1 .. Columns, here.cursor + k <= Screen, NEW v \in Nat
    PROVE  OnScreen([cells |-> Fill(here.cells, here.cursor, k, v), cursor |-> here.cursor + k],
                    Longer(paper, k, v), start)
<1>0. Screen \in Nat \ {0} /\ Columns \in Nat \ {0} /\ Columns <= Screen /\ k \in Nat \ {0}
  BY ScreenSizes
<1>1a. PICK end \in Nat : end = start + Len(paper)
  OBVIOUS
<1>1. PICK more : end = start + Len(paper) /\ more = Longer(paper, k, v)
  BY <1>1a
<1>2. more \in Seq(Nat) /\ start + Len(more) = end + k
  <2>1. Longer(paper, k, v) \in Seq(Nat) /\ Len(Longer(paper, k, v)) = Len(paper) + k
    BY <1>0, LongerIs
  <2> QED
    BY <1>0, <1>1, <2>1
<1>10. here.cursor \in Nat /\ printer.cursor \in Nat
  BY <1>0 DEF Printing
<1>3. PICK r \in Nat, up \in Nat : r = RowsUp(end) /\ up = r * Columns
  <2>1. RowsUp(end) \in Nat
    BY RowsUpFits
  <2>2. RowsUp(end) * Columns \in Nat
    BY <1>0, <2>1
  <2> QED
    BY <2>1, <2>2
<1>4. LastRow(end, r)
  BY <1>3, RowsUpFits
<1>5. printer.cursor = end - up /\ printer.cells = [i \in 0 .. Screen - 1 |-> Place(paper, start, i + up)]
  BY <1>1, <1>3 DEF OnScreen, RolledCell, Place
<1>6. ASSUME NEW q \in Nat, LastRow(end + k, q), NEW high \in Nat, high = q * Columns,
             here.cursor = end - high,
             \A i \in 0 .. Screen - 1 :
                i < here.cursor \/ i >= here.cursor + k
                  => here.cells[i] = Place(paper, start, i + high)
      PROVE  OnScreen([cells |-> Fill(here.cells, here.cursor, k, v), cursor |-> here.cursor + k],
                      more, start)
  <2>1. RowsUp(end + k) = q
    BY <1>0, <1>6, RowsUpIs
  <2>2. ASSUME NEW i \in 0 .. Screen - 1
        PROVE  Fill(here.cells, here.cursor, k, v)[i] = RolledCell(more, start, i)
    <3>1. RolledCell(more, start, i) = Place(more, start, i + high)
      BY <1>2, <1>6, <2>1 DEF RolledCell, Place
    <3>2. i + high \in Nat
      BY <1>0
    <3>3. Place(more, start, i + high) = IF i + high \in end .. end + k - 1 THEN v
                                         ELSE Place(paper, start, i + high)
      BY <1>0, <1>1, <3>2, MorePlaces
    <3>4. i + high \in end .. end + k - 1 <=> i \in here.cursor .. here.cursor + k - 1
      BY <1>0, <1>6, <1>10
    <3>5. i \notin here.cursor .. here.cursor + k - 1 => i < here.cursor \/ i >= here.cursor + k
      BY <1>0, <1>6, <1>10
    <3> QED
      BY <1>6, <3>1, <3>3, <3>4, <3>5 DEF Fill
  <2>3. Fill(here.cells, here.cursor, k, v) = [i \in 0 .. Screen - 1 |-> RolledCell(more, start, i)]
    BY <2>2 DEF Fill
  <2>4. here.cursor + k = (end + k) - RowsUp(end + k) * Columns
    BY <1>0, <1>6, <1>10, <2>1
  <2> QED
    BY <1>2, <2>3, <2>4 DEF OnScreen
<1>7. CASE printer.cursor < Screen
  <2>1. here = printer
    BY <1>7
  <2>2. LastRow(end + k, r)
    <3>1. r = 0 => up = 0
      BY <1>0, <1>3
    <3>2. r = 0 => end + k <= Screen
      BY <1>0, <1>5, <1>10, <2>1, <3>1
    <3>3. r > 0 => end - up \in Screen - Columns + 1 .. Screen
      BY <1>3, <1>4 DEF LastRow
    <3>4. r > 0 => end + k - up \in Screen - Columns + 1 .. Screen
      BY <1>0, <1>5, <1>10, <2>1, <3>3
    <3> QED
      BY <1>3, <3>2, <3>4 DEF LastRow
  <2> QED
    BY <1>1, <1>3, <1>5, <1>6, <2>1, <2>2
<1>8. CASE printer.cursor = Screen
  <2>1. here = [cells |-> Scrolled(printer.cells), cursor |-> Screen - Columns]
    BY <1>8
  <2>2. (r + 1) * Columns = up + Columns /\ up + Columns \in Nat
    BY <1>0, <1>3
  <2>3. LastRow(end + k, r + 1)
    BY <1>0, <1>5, <1>8, <2>1, <2>2 DEF LastRow
  <2>4. here.cursor = end - (up + Columns)
    BY <1>0, <1>5, <1>8, <1>10, <2>1
  <2>5. ASSUME NEW i \in 0 .. Screen - 1, i < here.cursor \/ i >= here.cursor + k
        PROVE  here.cells[i] = Place(paper, start, i + (up + Columns))
    <3>1. here.cells[i] = IF i + Columns < Screen THEN printer.cells[i + Columns] ELSE 0
      BY <2>1 DEF Scrolled
    <3>2. CASE i + Columns < Screen
      <4>1. i + Columns \in 0 .. Screen - 1 /\ i + Columns + up = i + (up + Columns)
        BY <1>0, <3>2
      <4> QED
        BY <1>5, <3>1, <3>2, <4>1
    <3>3. CASE ~(i + Columns < Screen)
      <4>1. i + (up + Columns) >= end /\ i + (up + Columns) >= Screen
        BY <1>0, <1>5, <1>8, <3>3
      <4> QED
        BY <1>0, <1>1, <3>1, <3>3, <4>1 DEF Place
    <3> QED
      BY <3>2, <3>3
  <2> QED
    <3>1. PICK q \in Nat, high \in Nat : q = r + 1 /\ high = up + Columns
      <4>1. r + 1 \in Nat
        OBVIOUS
      <4> QED
        BY <2>2, <4>1, Zenon
    <3>2. LastRow(end + k, q) /\ high = q * Columns /\ here.cursor = end - high
      BY <2>2, <2>3, <2>4, <3>1
    <3>3. \A i \in 0 .. Screen - 1 :
             i < here.cursor \/ i >= here.cursor + k => here.cells[i] = Place(paper, start, i + high)
      BY <2>5, <3>1
    <3> QED
      BY <1>1, <1>6, <3>2, <3>3
<1>9. printer.cursor < Screen \/ printer.cursor = Screen
  BY <1>0 DEF Printing
<1> QED
  BY <1>7, <1>8, <1>9

-----------------------------------------------------------------------------
(* Going round.                                                            *)

Hits(paper, start, i) == {n \in 1 .. Len(paper) : (start + n - 1) % Screen = i}

\* Round the screen, the last lap wins.
Round(printer, paper, start) ==
    /\ (start + Len(paper)) % Screen = printer.cursor % Screen
    /\ printer.cursor = StopCell(paper, start, FALSE)
    /\ printer.cells = [i \in 0 .. Screen - 1 |-> WrappedCell(paper, start, i)]

LEMMA MoreHits ==
    ASSUME NEW paper \in Seq(Nat), NEW start \in Nat, NEW k \in 1 .. Columns, NEW v \in Nat,
           NEW cur \in Nat, (start + Len(paper)) % Screen = cur, cur + k <= Screen,
           NEW i \in 0 .. Screen - 1
    PROVE  WrappedCell(Longer(paper, k, v), start, i) =
              IF i \in cur .. cur + k - 1 THEN v ELSE WrappedCell(paper, start, i)
<1>0. Screen \in Nat \ {0} /\ Columns \in Nat \ {0} /\ k \in Nat \ {0} /\ i \in Nat
  BY ScreenSizes
<1>1a. PICK l \in Nat : l = Len(paper)
  OBVIOUS
<1>1. PICK more : l = Len(paper) /\ more = Longer(paper, k, v)
  BY <1>1a
<1>10. /\ Longer(paper, k, v) \in Seq(Nat) /\ Len(Longer(paper, k, v)) = Len(paper) + k
       /\ \A j \in 1 .. Len(paper) : Longer(paper, k, v)[j] = paper[j]
       /\ \A j \in Len(paper) + 1 .. Len(paper) + k : Longer(paper, k, v)[j] = v
  BY <1>0, LongerIs
<1>2. more \in Seq(Nat) /\ Len(more) = l + k
  BY <1>1, <1>10
<1>3. \A n \in 1 .. l : more[n] = paper[n]
  BY <1>1, <1>10
<1>4. \A n \in l + 1 .. l + k : more[n] = v
  BY <1>1, <1>10
<1>5. ASSUME NEW n \in l + 1 .. l + k
      PROVE  (start + n - 1) % Screen = cur + (n - l - 1)
  <2>1. PICK q \in Nat, r \in Nat :
              /\ (start + l) \div Screen = q /\ (start + l) % Screen = r /\ r < Screen
              /\ start + l = q * Screen + r
              /\ q * Screen <= start + l /\ start + l < (q + 1) * Screen
    <3>1. start + l \in Nat
      OBVIOUS
    <3> QED
      BY <1>0, <3>1, Remainders, Zenon
  <2>2. PICK w \in Nat : w = q * Screen
    BY <1>0
  <2>3. r = cur /\ start + l = w + cur
    BY <1>1, <2>1, <2>2
  <2>4. PICK x \in Int : x = start + n - 1
    BY <1>0
  <2>5. w <= x /\ x < w + Screen /\ x - w = cur + (n - l - 1)
    BY <1>0, <2>3, <2>4
  <2>6. x % Screen = x - w
    <3>1. q * Screen <= x /\ x < q * Screen + Screen
      BY <2>2, <2>5
    <3>2. q \in Int /\ x \in Int /\ Screen \in Nat \ {0}
      BY <1>0
    <3>3. x % Screen = x - q * Screen
      BY <3>1, <3>2, Quotient
    <3> QED
      BY <2>2, <3>3
  <2> QED
    BY <2>4, <2>5, <2>6
<1>6. Hits(more, start, i) = Hits(paper, start, i) \cup
                             {n \in l + 1 .. l + k : (start + n - 1) % Screen = i}
  <2>1. 1 .. l + k = (1 .. l) \cup (l + 1 .. l + k)
    BY <1>0
  <2> QED
    BY <1>1, <1>2, <2>1 DEF Hits
<1>7. Hits(paper, start, i) \in SUBSET (1 .. l) /\ Hits(more, start, i) \in SUBSET (0 .. l + k)
  BY SMTT(30), <1>0, <1>1, <1>2 DEF Hits
<1>8. CASE i \in cur .. cur + k - 1
  <2>1. PICK m \in Nat : m = l + 1 + i - cur
    BY <1>8
  <2>2. m \in l + 1 .. l + k /\ cur + (m - l - 1) = i
    BY <1>0, <1>8, <2>1
  <2>3. m \in Hits(more, start, i)
    BY <1>5, <1>6, <2>2
  <2>4. Max(Hits(more, start, i)) \in Hits(more, start, i) /\ Max(Hits(more, start, i)) >= m
    <3>1. l + k \in Nat /\ Hits(more, start, i) # {}
      BY <1>0, <2>3
    <3> QED
      BY <1>7, <2>3, <3>1, MaxIs
  <2>5. Max(Hits(more, start, i)) \in l + 1 .. l + k
    BY <1>0, <1>6, <1>7, <2>2, <2>4
  <2> QED
    BY <1>1, <1>2, <1>4, <1>8, <2>3, <2>5 DEF WrappedCell, Hits
<1>9. CASE i \notin cur .. cur + k - 1
  <2>1. ASSUME NEW n \in l + 1 .. l + k PROVE (start + n - 1) % Screen # i
    <3>1. (start + n - 1) % Screen = cur + (n - l - 1)
      BY <1>5
    <3>2. cur + (n - l - 1) \in cur .. cur + k - 1
      BY <1>0
    <3> QED
      BY <1>9, <3>1, <3>2
  <2>2. Hits(more, start, i) = Hits(paper, start, i)
    BY <1>6, <2>1
  <2>3. Hits(paper, start, i) # {} => Max(Hits(paper, start, i)) \in 1 .. l
    <3>1. Hits(paper, start, i) \in SUBSET (0 .. l)
      BY <1>7
    <3> QED
      BY <1>7, <3>1, MaxIs
  <2> QED
    BY <1>1, <1>2, <1>3, <1>9, <2>2, <2>3 DEF WrappedCell, Hits
<1> QED
  BY <1>8, <1>9

LEMMA RoundKeeps ==
    ASSUME NEW printer \in Printing, NEW paper \in Seq(Nat), NEW start \in Nat,
           Round(printer, paper, start),
           NEW here \in Printing, here.cursor < Screen,
           printer.cursor < Screen => here = printer,
           printer.cursor = Screen => here = [cells |-> printer.cells, cursor |-> 0],
           NEW k \in 1 .. Columns, here.cursor + k <= Screen, NEW v \in Nat
    PROVE  Round([cells |-> Fill(here.cells, here.cursor, k, v), cursor |-> here.cursor + k],
                 Longer(paper, k, v), start)
<1>0. Screen \in Nat \ {0} /\ Columns \in Nat \ {0} /\ k \in Nat
  BY ScreenSizes
<1>1. printer.cursor \in 0 .. Screen /\ here.cursor \in Nat
  BY <1>0 DEF Printing
<1>2. (start + Len(paper)) % Screen = here.cursor
  <2>1. printer.cursor < Screen => printer.cursor % Screen = printer.cursor
    <3>1. printer.cursor \in Nat
      BY <1>0, <1>1
    <3> QED
      BY <1>0, <3>1, SmallRest
  <2>2. Screen % Screen = 0
    BY <1>0
  <2>3. (start + Len(paper)) % Screen = printer.cursor % Screen
    BY DEF Round
  <2> QED
    BY SMTT(30), <1>0, <1>1, <2>1, <2>2, <2>3
<1>3. here.cells = [i \in 0 .. Screen - 1 |-> WrappedCell(paper, start, i)]
  <2>1. here.cells = printer.cells
    <3>1. CASE printer.cursor < Screen
      BY <3>1
    <3>2. CASE printer.cursor = Screen
      <4>1. here = [cells |-> printer.cells, cursor |-> 0]
        BY <3>2
      <4> QED
        BY <4>1
    <3> QED
      BY <1>0, <1>1, <3>1, <3>2
  <2> QED
    BY <2>1 DEF Round
<1>4. Fill(here.cells, here.cursor, k, v) =
         [i \in 0 .. Screen - 1 |-> WrappedCell(Longer(paper, k, v), start, i)]
  <2>1. ASSUME NEW i \in 0 .. Screen - 1
        PROVE  Fill(here.cells, here.cursor, k, v)[i] = WrappedCell(Longer(paper, k, v), start, i)
    <3>1. WrappedCell(Longer(paper, k, v), start, i) =
             IF i \in here.cursor .. here.cursor + k - 1 THEN v ELSE WrappedCell(paper, start, i)
      BY <1>1, <1>2, MoreHits
    <3> QED
      BY <1>3, <3>1 DEF Fill
  <2> QED
    BY <2>1 DEF Fill
<1>5. (start + Len(Longer(paper, k, v))) % Screen = (here.cursor + k) % Screen
  <2>1. Len(Longer(paper, k, v)) = Len(paper) + k
    BY <1>0, LongerIs
  <2>2. PICK e \in Nat : e = start + Len(paper)
    OBVIOUS
  <2>3. start + Len(Longer(paper, k, v)) = e + k
    BY <1>0, <2>1, <2>2
  <2>4. (e + k) % Screen = (here.cursor + k) % Screen
    <3>1. e % Screen = here.cursor
      BY <1>2, <2>2
    <3> QED
      BY <1>0, <1>1, <3>1, RestsOn
  <2> QED
    BY <2>3, <2>4
<1>6. here.cursor + k = StopCell(Longer(paper, k, v), start, FALSE)
  <2>1. Longer(paper, k, v) \in Seq(Nat) /\ Len(Longer(paper, k, v)) = Len(paper) + k
    BY <1>0, LongerIs
  <2>2. PICK e \in Nat, j \in Nat, m \in Nat :
            e = start + Len(paper) /\ j = k - 1 /\ m = here.cursor + j
    <3>1. PICK c \in Nat : c = here.cursor
      BY <1>1
    <3>2. start + Len(paper) \in Nat /\ k - 1 \in Nat /\ c + (k - 1) \in Nat
      BY <1>0
    <3> QED
      BY <3>1, <3>2
  <2>3. e % Screen = here.cursor % Screen
    <3>1. here.cursor % Screen = here.cursor
      BY <1>0, <1>1, SmallRest
    <3> QED
      BY <1>2, <2>2, <3>1
  <2>4. (e + j) % Screen = m % Screen
    <3>1. PICK c \in Nat : c = here.cursor
      BY <1>1
    <3>2. e % Screen = c /\ m = c + j
      BY <1>2, <2>2, <3>1
    <3>3. c + k <= Screen
      BY <3>1
    <3>4. c + j <= Screen
      BY <1>0, <2>2, <3>3
    <3> QED
      BY <1>0, <3>2, <3>4, RestsOn
  <2>5. m \in Nat /\ m < Screen /\ m + 1 = here.cursor + k
    <3>1. PICK c \in Nat : c = here.cursor
      BY <1>1
    <3>2. m = c + j /\ k = j + 1 /\ c + k <= Screen
      BY <1>0, <2>2, <3>1
    <3>3. m < Screen /\ m + 1 = c + k
      BY <1>0, <3>2
    <3> QED
      BY <3>1, <3>3
  <2>6. m % Screen = m
    BY <1>0, <2>5, SmallRest
  <2>7. Longer(paper, k, v) # << >>
    BY <1>0, <2>1
  <2>8. (start + Len(Longer(paper, k, v))) - 1 = e + j
    BY <1>0, <2>1, <2>2
  <2> QED
    BY <2>4, <2>5, <2>6, <2>7, <2>8 DEF StopCell
<1> QED
  BY <1>4, <1>5, <1>6 DEF Round

-----------------------------------------------------------------------------
(* Printing.                                                               *)

\* The same remainder by the rows, after any number of rows.
LEMMA RowsOff ==
    ASSUME NEW a \in Nat, NEW b \in Nat, NEW q \in Nat, a = b + q * Columns
    PROVE  a % Columns = b % Columns
<1>0. Columns \in Nat \ {0}
  BY ScreenSizes
<1>1. PICK p \in Nat, r \in Nat : /\ b \div Columns = p /\ b % Columns = r /\ r < Columns
                                 /\ b = p * Columns + r
                                 /\ p * Columns <= b /\ b < (p + 1) * Columns
  BY <1>0, Remainders, Zenon
<1>2. (p + q) * Columns = p * Columns + q * Columns
  BY <1>0
<1>3. PICK w \in Nat : w = (p + q) * Columns
  BY <1>0
<1>4. a = w + r
  <2>1. p * Columns \in Nat /\ q * Columns \in Nat
    BY <1>0
  <2> QED
    BY <1>1, <1>2, <1>3, <2>1
<1>5. a % Columns = a - (p + q) * Columns
  <2>1. (p + q) * Columns <= a /\ a < (p + q) * Columns + Columns
    BY <1>0, <1>1, <1>3, <1>4
  <2>2. a \in Int /\ p + q \in Int
    OBVIOUS
  <2> QED
    BY <1>0, <2>1, <2>2, Quotient
<1> QED
  BY <1>1, <1>3, <1>4, <1>5

\* The remainder by the screen gives the one by the rows.
LEMMA ScreensOff ==
    ASSUME NEW a \in Nat, NEW b \in Nat, a % Screen = b % Screen
    PROVE  a % Columns = b % Columns
<1>0. Screen \in Nat \ {0} /\ Columns \in Nat \ {0} /\ Rows \in Nat
  BY ScreenSizes
<1>1. PICK p \in Nat, r \in Nat : /\ a \div Screen = p /\ a % Screen = r /\ r < Screen
                                 /\ a = p * Screen + r
                                 /\ p * Screen <= a /\ a < (p + 1) * Screen
  BY <1>0, Remainders, Zenon
<1>2. PICK q \in Nat, t \in Nat : /\ b \div Screen = q /\ b % Screen = t /\ t < Screen
                                 /\ b = q * Screen + t
                                 /\ q * Screen <= b /\ b < (q + 1) * Screen
  BY <1>0, Remainders, Zenon
<1>3. PICK x \in Nat, y \in Nat : x = p * Rows /\ y = q * Rows
  BY <1>0
<1>6. p * Screen = x * Columns /\ q * Screen = y * Columns
  <2>1. p * (Rows * Columns) = (p * Rows) * Columns /\ q * (Rows * Columns) = (q * Rows) * Columns
    BY <1>0
  <2> QED
    BY <1>3, <2>1 DEF Screen
<1>4. a % Columns = r % Columns
  <2>1. a = r + x * Columns
    <3>1. x * Columns \in Nat
      BY <1>0
    <3> QED
      BY <1>1, <1>6, <3>1
  <2> QED
    BY <2>1, RowsOff
<1>5. b % Columns = t % Columns
  <2>1. b = t + y * Columns
    <3>1. y * Columns \in Nat
      BY <1>0
    <3> QED
      BY <1>2, <1>6, <3>1
  <2> QED
    BY <2>1, RowsOff
<1> QED
  BY <1>1, <1>2, <1>4, <1>5

\* The blanks of a newline depend on the remainder by the rows only.
LEMMA SameWidth ==
    ASSUME NEW a, NEW b, a % Columns = b % Columns, NEW c
    PROVE  Width(a, c) = Width(b, c)
BY DEF Width

\* With the last row on the screen the cursor is at the end of the roll.
LEMMA ScrollRest ==
    ASSUME NEW printer \in Printing, NEW paper \in Seq(Nat), NEW start \in Nat,
           OnScreen(printer, paper, start)
    PROVE  printer.cursor % Columns = (start + Len(paper)) % Columns
<1>1. PICK end \in Nat, r \in Nat : end = start + Len(paper) /\ r = RowsUp(end)
  <2>1. start + Len(paper) \in Nat
    OBVIOUS
  <2> QED
    BY <2>1, RowsUpFits
<1>2. printer.cursor \in Nat /\ Columns \in Nat \ {0}
  BY ScreenSizes DEF Printing
<1>3. printer.cursor = end - r * Columns /\ r * Columns \in Nat
  BY <1>1, <1>2 DEF OnScreen
<1>4. end = printer.cursor + r * Columns
  BY <1>2, <1>3
<1>5. end % Columns = printer.cursor % Columns
  BY <1>2, <1>4, RowsOff
<1> QED
  BY <1>1, <1>5

LEMMA RoundRest ==
    ASSUME NEW printer \in Printing, NEW paper \in Seq(Nat), NEW start \in Nat, Round(printer, paper, start)
    PROVE  printer.cursor % Columns = (start + Len(paper)) % Columns
<1>1. printer.cursor \in Nat /\ start + Len(paper) \in Nat
  BY ScreenSizes DEF Printing
<1>2. (start + Len(paper)) % Screen = printer.cursor % Screen
  BY DEF Round
<1> QED
  BY <1>1, <1>2, ScreensOff

\* The first cell of the next row is as far in its row as the first one of the screen.
LEMMA RoomRest ==
    ASSUME NEW printer \in Printing, NEW here \in Printing,
           printer.cursor < Screen => here = printer,
           printer.cursor = Screen => here.cursor \in {0, Screen - Columns}
    PROVE  here.cursor % Columns = printer.cursor % Columns
<1>0. Screen \in Nat \ {0} /\ Columns \in Nat \ {0} /\ Columns <= Screen /\ Rows \in Nat \ {0}
  BY ScreenSizes
<1>1. printer.cursor \in 0 .. Screen
  BY DEF Printing
<1>2. Screen % Columns = 0 % Columns
  <2>1. Screen = 0 + Rows * Columns
    BY <1>0 DEF Screen
  <2> QED
    BY <1>0, <2>1, RowsOff
<1>3. (Screen - Columns) % Columns = Screen % Columns
  <2>1. Screen = (Screen - Columns) + 1 * Columns /\ Screen - Columns \in Nat
    BY <1>0
  <2>2. PICK x \in Nat : x = Screen - Columns
    BY <2>1
  <2>3. PICK one \in Nat : one = 1
    OBVIOUS
  <2>4. Screen = x + one * Columns
    BY <2>1, <2>2, <2>3
  <2>5. Screen % Columns = x % Columns
    BY <1>0, <2>4, RowsOff
  <2> QED
    BY <2>2, <2>5
<1> QED
  BY <1>0, <1>1, <1>2, <1>3

-----------------------------------------------------------------------------
(* A print, character by character.                                        *)

\* One character: the screen follows the roll.
LEMMA OneScrolls ==
    ASSUME NEW printer \in Printing, NEW paper \in Seq(Nat), NEW start \in Nat,
           OnScreen(printer, paper, start), NEW c \in Nat
    PROVE  OnScreen(Putc(printer, c, TRUE), Rolled(paper, c, start), start)
<1>1. PICK here : here = Room(printer, TRUE)
  OBVIOUS
<1>2. /\ here \in Printing /\ here.cursor < Screen
      /\ printer.cursor < Screen => here = printer
      /\ printer.cursor = Screen =>
           here = [cells |-> Scrolled(printer.cells), cursor |-> Screen - Columns]
  BY <1>1, RoomIs
<1>3. PICK k : k = Width(here.cursor, c)
  OBVIOUS
<1>4. /\ k \in 1 .. Columns /\ here.cursor + k <= Screen
      /\ Putc(printer, c, TRUE) = [cells |-> Fill(here.cells, here.cursor, k, Ink(c)),
                              cursor |-> here.cursor + k]
  <2>1. TRUE \in BOOLEAN
    OBVIOUS
  <2>2. PutTo(here, k, c, Putc(printer, c, TRUE))
    BY <1>1, <1>3, <2>1, PutcIs, Zenon
  <2> QED
    BY <2>2 DEF PutTo
<1>5. k = Width(start + Len(paper), c)
  <2>1. printer.cursor % Columns = (start + Len(paper)) % Columns
    BY ScrollRest
  <2>2. here.cursor % Columns = printer.cursor % Columns
    BY <1>2, RoomRest
  <2> QED
    BY <1>3, <2>1, <2>2, SameWidth
<1>6. Ink(c) \in Nat
  BY DEF Ink, Blank
<1>7. OnScreen([cells |-> Fill(here.cells, here.cursor, k, Ink(c)), cursor |-> here.cursor + k],
               Longer(paper, k, Ink(c)), start)
  BY <1>2, <1>4, <1>6, ScrollKeeps
<1> QED
  BY <1>4, <1>5, <1>7 DEF Rolled

LEMMA OneGoesRound ==
    ASSUME NEW printer \in Printing, NEW paper \in Seq(Nat), NEW start \in Nat,
           Round(printer, paper, start), NEW c \in Nat
    PROVE  Round(Putc(printer, c, FALSE), Rolled(paper, c, start), start)
<1>1. PICK here : here = Room(printer, FALSE)
  OBVIOUS
<1>2. /\ here \in Printing /\ here.cursor < Screen
      /\ printer.cursor < Screen => here = printer
      /\ printer.cursor = Screen => here = [cells |-> printer.cells, cursor |-> 0]
  BY <1>1, RoomIs
<1>3. PICK k : k = Width(here.cursor, c)
  OBVIOUS
<1>4. /\ k \in 1 .. Columns /\ here.cursor + k <= Screen
      /\ Putc(printer, c, FALSE) = [cells |-> Fill(here.cells, here.cursor, k, Ink(c)),
                               cursor |-> here.cursor + k]
  <2>1. FALSE \in BOOLEAN
    OBVIOUS
  <2>2. PutTo(here, k, c, Putc(printer, c, FALSE))
    BY <1>1, <1>3, <2>1, PutcIs, Zenon
  <2> QED
    BY <2>2 DEF PutTo
<1>5. k = Width(start + Len(paper), c)
  <2>1. printer.cursor % Columns = (start + Len(paper)) % Columns
    BY RoundRest
  <2>2. here.cursor % Columns = printer.cursor % Columns
    BY <1>2, RoomRest
  <2> QED
    BY <1>3, <2>1, <2>2, SameWidth
<1>6. Ink(c) \in Nat
  BY DEF Ink, Blank
<1>7. Round([cells |-> Fill(here.cells, here.cursor, k, Ink(c)), cursor |-> here.cursor + k],
            Longer(paper, k, Ink(c)), start)
  BY <1>2, <1>4, <1>6, RoundKeeps
<1> QED
  BY <1>4, <1>5, <1>7 DEF Rolled

\* The whole text.
LEMMA AllScroll ==
    ASSUME NEW start \in 0 .. Screen, console \in Cells, NEW text \in Seq(Nat),
           NEW from, from = [cells |-> console, cursor |-> start]
    PROVE  /\ PutAll(from, text, TRUE) \in Printing /\ OnPaper(text, start) \in Seq(Nat)
           /\ OnScreen(PutAll(from, text, TRUE), OnPaper(text, start), start)
<1>0. Screen \in Nat \ {0} /\ start \in Nat /\ Len(text) \in Nat /\ Columns \in Nat
  BY ScreenSizes
<1>1. from \in Printing
  BY DEF Printing
<1>2. PICK printer \in [0 .. Len(text) -> Printing] :
              /\ printer[0] = from
              /\ \A n \in 1 .. Len(text) : printer[n] = Putc(printer[n - 1], text[n], TRUE)
              /\ PutAll(from, text, TRUE) = printer[Len(text)]
  BY <1>1, PutAllIs
<1>3. PICK roll \in [0 .. Len(text) -> Seq(Nat)] :
              /\ roll[0] = << >>
              /\ \A n \in 1 .. Len(text) : roll[n] = Rolled(roll[n - 1], text[n], start)
              /\ OnPaper(text, start) = roll[Len(text)]
  BY <1>0, OnPaperIs
<1> DEFINE S == {n \in 0 .. Len(text) : OnScreen(printer[n], roll[n], start)}
<1>4. 0 \in S
  <2>1. RowsUp(start + Len(<< >>)) = 0 /\ start + Len(<< >>) = start
    BY <1>0 DEF RowsUp
  <2>2. ASSUME NEW i \in 0 .. Screen - 1 PROVE RolledCell(<< >>, start, i) = console[i]
    BY <1>0, <2>1 DEF RolledCell
  <2>3. from.cells = [i \in 0 .. Screen - 1 |-> RolledCell(<< >>, start, i)]
    BY <2>2 DEF Cells
  <2>4. from.cursor = start - 0 * Columns
    BY <1>0
  <2>5. OnScreen(from, << >>, start)
    BY <2>1, <2>3, <2>4 DEF OnScreen
  <2> QED
    BY <1>0, <1>2, <1>3, <2>5
<1>5. ASSUME NEW n \in 0 .. Len(text) - 1, n \in S PROVE n + 1 \in S
  <2>1. n + 1 \in 1 .. Len(text) /\ (n + 1) - 1 = n /\ n + 1 \in 0 .. Len(text) /\ n \in 0 .. Len(text)
    BY <1>0
  <2>2. /\ printer[n + 1] = Putc(printer[n], text[n + 1], TRUE)
        /\ roll[n + 1] = Rolled(roll[n], text[n + 1], start)
    BY <1>2, <1>3, <2>1
  <2>3. printer[n] \in Printing /\ roll[n] \in Seq(Nat) /\ text[n + 1] \in Nat
    BY SMTT(30), <1>2, <1>3, <2>1
  <2>4. OnScreen(printer[n], roll[n], start)
    BY <1>5
  <2>5. OnScreen(Putc(printer[n], text[n + 1], TRUE), Rolled(roll[n], text[n + 1], start), start)
    BY <1>0, <2>3, <2>4, OneScrolls
  <2> QED
    BY <2>1, <2>2, <2>5
<1> HIDE DEF S
<1>6. \A n \in 0 .. Len(text) : n \in S
  BY <1>0, <1>4, <1>5, UpTo
<1>7. OnScreen(printer[Len(text)], roll[Len(text)], start)
  BY <1>0, <1>6 DEF S
<1>8. Len(text) \in 0 .. Len(text)
  BY <1>0
<1> QED
  BY <1>2, <1>3, <1>7, <1>8

LEMMA AllGoRound ==
    ASSUME NEW start \in 0 .. Screen, console \in Cells, NEW text \in Seq(Nat),
           NEW from, from = [cells |-> console, cursor |-> start]
    PROVE  /\ PutAll(from, text, FALSE) \in Printing /\ OnPaper(text, start) \in Seq(Nat)
           /\ Round(PutAll(from, text, FALSE), OnPaper(text, start), start)
<1>0. Screen \in Nat \ {0} /\ start \in Nat /\ Len(text) \in Nat /\ Columns \in Nat
  BY ScreenSizes
<1>1. from \in Printing
  BY DEF Printing
<1>2. PICK printer \in [0 .. Len(text) -> Printing] :
              /\ printer[0] = from
              /\ \A n \in 1 .. Len(text) : printer[n] = Putc(printer[n - 1], text[n], FALSE)
              /\ PutAll(from, text, FALSE) = printer[Len(text)]
  BY <1>1, PutAllIs
<1>3. PICK roll \in [0 .. Len(text) -> Seq(Nat)] :
              /\ roll[0] = << >>
              /\ \A n \in 1 .. Len(text) : roll[n] = Rolled(roll[n - 1], text[n], start)
              /\ OnPaper(text, start) = roll[Len(text)]
  BY <1>0, OnPaperIs
<1> DEFINE S == {n \in 0 .. Len(text) : Round(printer[n], roll[n], start)}
<1>4. 0 \in S
  <2>1. start + Len(<< >>) = start /\ 1 .. Len(<< >>) = {}
    BY <1>0
  <2>2. ASSUME NEW i \in 0 .. Screen - 1 PROVE WrappedCell(<< >>, start, i) = console[i]
    BY <2>1 DEF WrappedCell
  <2>3. from.cells = [i \in 0 .. Screen - 1 |-> WrappedCell(<< >>, start, i)]
    BY <2>2 DEF Cells
  <2>5. Round(from, << >>, start)
    BY <2>1, <2>3 DEF Round, StopCell
  <2> QED
    BY <1>0, <1>2, <1>3, <2>5
<1>5. ASSUME NEW n \in 0 .. Len(text) - 1, n \in S PROVE n + 1 \in S
  <2>1. n + 1 \in 1 .. Len(text) /\ (n + 1) - 1 = n /\ n + 1 \in 0 .. Len(text) /\ n \in 0 .. Len(text)
    BY <1>0
  <2>2. /\ printer[n + 1] = Putc(printer[n], text[n + 1], FALSE)
        /\ roll[n + 1] = Rolled(roll[n], text[n + 1], start)
    BY <1>2, <1>3, <2>1
  <2>3. printer[n] \in Printing /\ roll[n] \in Seq(Nat) /\ text[n + 1] \in Nat
    BY SMTT(30), <1>2, <1>3, <2>1
  <2>4. Round(printer[n], roll[n], start)
    BY <1>5
  <2>5. Round(Putc(printer[n], text[n + 1], FALSE), Rolled(roll[n], text[n + 1], start), start)
    BY <1>0, <2>3, <2>4, OneGoesRound
  <2> QED
    BY <2>1, <2>2, <2>5
<1> HIDE DEF S
<1>6. \A n \in 0 .. Len(text) : n \in S
  BY <1>0, <1>4, <1>5, UpTo
<1>7. Round(printer[Len(text)], roll[Len(text)], start)
  BY <1>0, <1>6 DEF S
<1>8. Len(text) \in 0 .. Len(text)
  BY <1>0
<1> QED
  BY <1>2, <1>3, <1>7, <1>8

\* The cells of the screen are all written, and the cursor is on it or just after it.
ConsoleOK == console \in Cells /\ cursorpos \in 0 .. Screen

LEMMA StartFits ==
    ASSUME ConsoleOK, NEW cpos \in Int
    PROVE  StartCell(cpos) \in 0 .. Screen
BY ScreenSizes DEF StartCell, ConsoleOK

\* One print.
LEMMA PrintStep ==
    ASSUME ConsoleOK, NEW cpos \in Positions, NEW text \in Texts, ConsolePrintf(cpos, text)
    PROVE  /\ ConsoleOK'
           /\ LET scroll == printed'.cpos < 0
                  start  == StartCell(printed'.cpos)
                  paper  == OnPaper(printed'.text, start)
              IN  /\ printed'.stop = StopCell(paper, start, scroll)
                  /\ cursorpos' = IF scroll THEN printed'.stop ELSE cursorpos
                  /\ console' = [i \in 0..Screen - 1 |-> IF scroll THEN RolledCell(paper, start, i)
                                                        ELSE WrappedCell(paper, start, i)]
<1>1. cpos \in Int /\ text \in Seq(Nat)
  BY ConsoleAssumption
<1>2. PICK start \in 0 .. Screen : start = StartCell(cpos)
  BY <1>1, StartFits
<1>3. PICK from : from = [cells |-> console, cursor |-> start]
  OBVIOUS
<1>4. console \in Cells /\ start \in Nat /\ cursorpos \in 0 .. Screen
  BY ScreenSizes DEF ConsoleOK
<1>5. PICK paper : paper = OnPaper(text, start)
  OBVIOUS
<1>6. printed'.cpos = cpos /\ printed'.text = text
  BY DEF ConsolePrintf
<1>7. CASE cpos < 0
  <2>1. PICK printer : printer = PutAll(from, text, TRUE)
    OBVIOUS
  <2>2. PutAll(from, text, cpos < 0) = printer
    <3>1. (cpos < 0) = TRUE
      BY <1>7
    <3> QED
      BY <2>1, <3>1, Zenon
  <2>3. console' = printer.cells /\ cursorpos' = printer.cursor /\ printed'.stop = printer.cursor
    BY <1>2, <1>3, <1>7, <2>2 DEF ConsolePrintf
  <2>4. printer \in Printing /\ paper \in Seq(Nat) /\ OnScreen(printer, paper, start)
    BY <1>1, <1>3, <1>4, <1>5, <2>1, AllScroll
  <2>5. printer.cursor = StopCell(paper, start, TRUE)
    BY <2>4 DEF OnScreen, StopCell
  <2>6. printer.cells = [i \in 0 .. Screen - 1 |-> RolledCell(paper, start, i)]
    BY <2>4 DEF OnScreen
  <2>7. printer.cursor \in 0 .. Screen /\ printer.cells \in Cells
    BY <2>4 DEF Printing
  <2>8. ConsoleOK'
    BY <2>3, <2>7 DEF ConsoleOK, Cells, Screen
  <2>9. StopCell(paper, start, cpos < 0) = StopCell(paper, start, TRUE)
    BY <1>7 DEF StopCell
  <2> QED
    BY <1>2, <1>5, <1>6, <1>7, <2>3, <2>5, <2>6, <2>8, <2>9
<1>8. CASE ~(cpos < 0)
  <2>1. PICK printer : printer = PutAll(from, text, FALSE)
    OBVIOUS
  <2>2. PutAll(from, text, cpos < 0) = printer
    <3>1. (cpos < 0) = FALSE
      BY <1>8
    <3> QED
      BY <2>1, <3>1, Zenon
  <2>3. console' = printer.cells /\ cursorpos' = cursorpos /\ printed'.stop = printer.cursor
    BY <1>2, <1>3, <1>8, <2>2 DEF ConsolePrintf
  <2>4. printer \in Printing /\ paper \in Seq(Nat) /\ Round(printer, paper, start)
    BY <1>1, <1>3, <1>4, <1>5, <2>1, AllGoRound
  <2>5. printer.cursor = StopCell(paper, start, FALSE)
    BY <2>4 DEF Round
  <2>6. printer.cells = [i \in 0 .. Screen - 1 |-> WrappedCell(paper, start, i)]
    BY <2>4 DEF Round
  <2>7. printer.cursor \in 0 .. Screen /\ printer.cells \in Cells
    BY <2>4 DEF Printing
  <2>8. ConsoleOK'
    BY <1>4, <2>3, <2>7 DEF ConsoleOK, Cells, Screen
  <2>9. StopCell(paper, start, cpos < 0) = StopCell(paper, start, FALSE)
    BY <1>8 DEF StopCell
  <2> QED
    BY <1>2, <1>5, <1>6, <1>8, <2>3, <2>5, <2>6, <2>8, <2>9
<1> QED
  BY <1>7, <1>8

LEMMA ConsoleIsOK == ConsoleSpec => []ConsoleOK
<1>1. ConsoleInit => ConsoleOK
  <2>1. Cleared \in Cells
    BY DEF Cleared, Cells, Blank
  <2> QED
    BY <2>1, ScreenSizes DEF ConsoleInit, ConsoleOK
<1>2. ConsoleOK /\ [ConsoleNext]_consoleVars => ConsoleOK'
  <2> SUFFICES ASSUME ConsoleOK, [ConsoleNext]_consoleVars PROVE ConsoleOK'
    OBVIOUS
  <2>1. CASE ConsoleClear
    <3>1. Cleared \in Cells
      BY DEF Cleared, Cells, Blank
    <3> QED
      BY <2>1, <3>1, ScreenSizes DEF ConsoleClear, ConsoleOK, Cells, Screen
  <2>2. ASSUME NEW cpos \in Positions, NEW text \in Texts, ConsolePrintf(cpos, text)
        PROVE  ConsoleOK'
    BY <2>2, PrintStep
  <2>3. CASE UNCHANGED consoleVars
    BY <2>3 DEF consoleVars, ConsoleOK, Cells, Screen
  <2> QED
    BY <2>1, <2>2, <2>3 DEF ConsoleNext
<1> QED
  BY <1>1, <1>2, PTL DEF ConsoleSpec

\* For every size of screen, every text and every position (lib.cc:432-474): the
\* screen after a print is the end of the roll of paper, or, without scrolling,
\* its last lap; the call returns the cell just after the last character, where the
\* next scrolling print starts if this one scrolled.
THEOREM ConsolePrints == ConsoleSpec => PrintsAsRoll
<1>1. ASSUME ConsoleOK, [ConsoleNext]_consoleVars
      PROVE  [ConsoleClear \/
       LET scroll == printed'.cpos < 0
           start  == StartCell(printed'.cpos)
           paper  == OnPaper(printed'.text, start)
       IN  /\ printed'.stop = StopCell(paper, start, scroll)
           /\ cursorpos' = IF scroll THEN printed'.stop ELSE cursorpos
           /\ console' = [i \in 0..Screen - 1 |-> IF scroll THEN RolledCell(paper, start, i)
                                                 ELSE WrappedCell(paper, start, i)]]_consoleVars
  <2>1. ASSUME NEW cpos \in Positions, NEW text \in Texts, ConsolePrintf(cpos, text)
        PROVE  LET scroll == printed'.cpos < 0
                   start  == StartCell(printed'.cpos)
                   paper  == OnPaper(printed'.text, start)
               IN  /\ printed'.stop = StopCell(paper, start, scroll)
                   /\ cursorpos' = IF scroll THEN printed'.stop ELSE cursorpos
                   /\ console' = [i \in 0..Screen - 1 |->
                                     IF scroll THEN RolledCell(paper, start, i)
                                     ELSE WrappedCell(paper, start, i)]
    BY <1>1, <2>1, PrintStep
  <2> QED
    BY <1>1, <2>1, Zenon DEF ConsoleNext
<1> QED
  BY <1>1, ConsoleIsOK, PTL DEF ConsoleSpec, PrintsAsRoll

-----------------------------------------------------------------------------
(* Scripts.                                                                *)

Alphabet == Characters \cup {"\n"}
Chars == Seq(Alphabet)
Line == [text : Seq(Characters), words : Seq(Seq(Characters))]

\* A line as it is in the file.
Written(lines, end, i) ==
    lines[i].text \o (IF i < Len(lines) \/ end THEN <<"\n">> ELSE << >>)

LEMMA WrittenIs ==
    ASSUME NEW lines \in Seq(Line), NEW end \in BOOLEAN, NEW i \in 1 .. Len(lines)
    PROVE  Written(lines, end, i) \in Chars
<1>1. lines[i] \in Line
  OBVIOUS
<1>2. lines[i].text \in Chars
  <2>1. lines[i].text \in Seq(Characters)
    BY <1>1 DEF Line
  <2> QED
    BY <2>1 DEF Chars, Alphabet
<1>3. <<"\n">> \in Chars /\ << >> \in Chars
  BY DEF Chars, Alphabet
<1>4. (IF i < Len(lines) \/ end THEN <<"\n">> ELSE << >>) \in Chars
  BY <1>3
<1> QED
  BY <1>2, <1>4 DEF Written, Chars

LEMMA ContentIs ==
    ASSUME NEW lines \in Seq(Line), NEW end \in BOOLEAN
    PROVE  /\ \A n \in 0 .. Len(lines) : Content(lines, end, n) \in Chars
           /\ Content(lines, end, 0) = << >>
           /\ \A n \in 1 .. Len(lines) :
                 Content(lines, end, n)
                   = Written(lines, end, (Len(lines) - n) + 1) \o Content(lines, end, n - 1)
<1>1. PICK N \in Nat : N = Len(lines)
  OBVIOUS
<1>2. PICK h : h = [n \in 1 .. N |->
                      [s \in Chars |-> Written(lines, end, (N - n) + 1) \o s]]
  OBVIOUS
<1>3. \A n \in 1 .. N : Written(lines, end, (N - n) + 1) \in Chars
  <2>1. \A n \in 1 .. N : (N - n) + 1 \in 1 .. N
    OBVIOUS
  <2> QED
    BY <1>1, <2>1, WrittenIs
<1>4. h \in [1 .. N -> [Chars -> Chars]]
  <2>1. \A n \in 1 .. N, s \in Chars : Written(lines, end, (N - n) + 1) \o s \in Chars
    BY <1>3 DEF Chars
  <2> QED
    BY <1>2, <2>1
<1>5. << >> \in Chars
  BY DEF Chars
<1>6. PICK f : Folds(f, h, << >>, N, Chars)
  BY <1>4, <1>5, FoldExists
<1>7. f \in [0 .. N -> Chars] /\ f[0] = << >>
  BY <1>6 DEF Folds
<1>8. ASSUME NEW n \in 1 .. N
      PROVE  f[n] = Written(lines, end, (N - n) + 1) \o f[n - 1]
  <2>1. n - 1 \in 0 .. N /\ f[n] = h[n][f[n - 1]]
    BY <1>6 DEF Folds
  <2>2. f[n - 1] \in Chars
    BY <1>7, <2>1
  <2> QED
    BY <1>2, <2>1, <2>2
<1>9. f = [n \in 0 .. N |-> IF n = 0 THEN << >>
                            ELSE Written(lines, end, (N - n) + 1) \o f[n - 1]]
  <2>1. ASSUME NEW n \in 0 .. N
        PROVE  f[n] = IF n = 0 THEN << >> ELSE Written(lines, end, (N - n) + 1) \o f[n - 1]
    <3>1. n # 0 => n \in 1 .. N
      OBVIOUS
    <3> QED
      BY <1>7, <1>8, <3>1
  <2> QED
    BY <1>7, <2>1
<1>10. PICK g : /\ g = CHOOSE content :
                        content = [k \in 0 .. Len(lines) |->
                           IF k = 0 THEN << >>
                           ELSE (lines[Len(lines) - k + 1].text
                                   \o (IF Len(lines) - k + 1 < Len(lines) \/ end
                                       THEN <<"\n">> ELSE << >>)) \o content[k - 1]]
                /\ \A n : Content(lines, end, n) = g[n]
  BY DEF Content
<1>11. g = [n \in 0 .. N |-> IF n = 0 THEN << >>
                             ELSE Written(lines, end, (N - n) + 1) \o g[n - 1]]
  BY ZenonT(30), <1>1, <1>9, <1>10 DEF Written
<1> DEFINE S == {n \in 0 .. N : g[n] \in Chars}
<1>12. 0 \in S
  BY <1>5, <1>11
<1>13. ASSUME NEW n \in 0 .. N - 1, n \in S PROVE n + 1 \in S
  <2>1. n + 1 \in 1 .. N /\ (n + 1) - 1 = n /\ n + 1 \in 0 .. N
    OBVIOUS
  <2>2. PICK m \in 1 .. N : m = n + 1 /\ m - 1 = n /\ m # 0 /\ m \in 0 .. N
    BY <2>1
  <2>3. g[m] = Written(lines, end, (N - m) + 1) \o g[m - 1]
    BY <1>11, <2>2
  <2>4. Written(lines, end, (N - m) + 1) \in Chars /\ g[m - 1] \in Chars
    BY <1>3, <1>13, <2>2
  <2>5. g[m] \in Chars
    BY <2>3, <2>4 DEF Chars
  <2> QED
    BY <2>2, <2>5
<1> HIDE DEF S
<1>14. \A n \in 0 .. N : n \in S
  BY <1>12, <1>13, UpTo
<1>15. \A n \in 0 .. N : g[n] \in Chars
  BY <1>14 DEF S
<1>16. g[0] = << >> /\ \A n \in 1 .. N : g[n] = Written(lines, end, (N - n) + 1) \o g[n - 1]
  BY <1>11
<1> QED
  BY <1>1, <1>10, <1>15, <1>16

-----------------------------------------------------------------------------
(* The main loop.                                                          *)

\* Sequences put together can be taken apart.
LEMMA TakeApart ==
    ASSUME NEW C, NEW s \in Seq(C), NEW t \in Seq(C)
    PROVE  /\ SubSeq(s \o t, 1, Len(s)) = s
           /\ SubSeq(s \o t, Len(s) + 1, Len(s \o t)) = t
<1>1. PICK m \in Nat, n \in Nat : m = Len(s) /\ n = Len(t)
  OBVIOUS
<1>2. PICK u : u = s \o t
  OBVIOUS
<1>3. /\ u \in Seq(C) /\ Len(u) = m + n
      /\ \A i \in 1 .. m : u[i] = s[i]
      /\ \A i \in 1 .. n : u[m + i] = t[i]
  BY <1>1, <1>2
<1>4. SubSeq(u, 1, m) = s
  <2>1. \A i \in 1 .. m : u[i] \in C
    BY <1>3
  <2>2. /\ SubSeq(u, 1, m) \in Seq(C) /\ Len(SubSeq(u, 1, m)) = IF 1 <= m THEN m - 1 + 1 ELSE 0
        /\ \A i \in 1 .. m - 1 + 1 : SubSeq(u, 1, m)[i] = u[1 + i - 1]
    BY <2>1, SubSeqProperties
  <2> QED
    BY <1>1, <1>3, <2>2
<1>5. SubSeq(u, m + 1, m + n) = t
  <2>1. \A i \in m + 1 .. m + n : u[i] \in C
    BY <1>3
  <2>2. m + 1 \in Int /\ m + n \in Int
    OBVIOUS
  <2>3. PICK v : v = SubSeq(u, m + 1, m + n)
    OBVIOUS
  <2>4. /\ v \in Seq(C)
        /\ Len(v) = IF m + 1 <= m + n THEN (m + n) - (m + 1) + 1 ELSE 0
        /\ \A i \in 1 .. (m + n) - (m + 1) + 1 : v[i] = u[(m + 1) + i - 1]
    BY <2>1, <2>2, <2>3, SubSeqProperties
  <2>5. Len(v) = n
    BY <2>4
  <2>6. ASSUME NEW i \in 1 .. n PROVE v[i] = t[i]
    <3>1. v[i] = u[m + i]
      BY <2>4
    <3> QED
      BY <1>3, <3>1
  <2>7. v = t
    BY <1>1, <2>4, <2>5, <2>6
  <2> QED
    BY <2>3, <2>7
<1> QED
  BY <1>1, <1>2, <1>3, <1>4, <1>5

\* What one call of fgets() gives: a line, or the end of the file.
LEMMA GotIs ==
    ASSUME NEW s \in Chars, NEW t \in Chars, file = s \o t, bufpos = 0,
           s # << >>, Len(s) < BufSize,
           \A i \in 1 .. Len(s) - 1 : s[i] # "\n",
           \A i \in 1 .. Len(s) : s[i] # "NUL",
           s[Len(s)] = "\n" \/ t = << >>
    PROVE  Got = s /\ SubSeq(file, Len(Got) + 1, Len(file)) = t
<1>1. PICK m \in Nat, n \in Nat, B \in Nat :
              m = Len(s) /\ n = Len(t) /\ m > 0 /\ m <= B /\ B = BufSize - 1 - bufpos
  <2>1. Len(s) \in Nat /\ Len(t) \in Nat /\ Len(s) > 0
    BY DEF Chars
  <2> QED
    BY <2>1, ShellAssumption
<1>2. PICK u : u = file
  OBVIOUS
<1>3. Len(u) = m + n /\ \A i \in 1 .. m : u[i] = s[i]
  BY <1>1, <1>2 DEF Chars
<1>4. PICK S : S = {j \in 1 .. Len(u) + 1 : ~(At(u, j) \notin {"\n", "NUL"})}
  OBVIOUS
<1>5. PICK e : e = Min(S)
  OBVIOUS
<1>6. S \in SUBSET Int
  BY <1>3, <1>4
<1>7. \A j \in 1 .. m - 1 : j \notin S
  <2>1. ASSUME NEW j \in 1 .. m - 1 PROVE j \notin S
    <3>1. j \in 1 .. m /\ u[j] = s[j] /\ j <= Len(u)
      BY <1>3
    <3>2. At(u, j) = s[j]
      BY <3>1 DEF At
    <3>3. s[j] # "\n" /\ s[j] # "NUL"
      BY <1>1, <3>1
    <3> QED
      BY <1>4, <3>2, <3>3
  <2> QED
    BY <2>1
<1>8. \A j \in S : j \in Nat /\ m <= j
  BY <1>3, <1>4, <1>7
<1>9. s[m] = "\n" => e = m
  <2>1. SUFFICES ASSUME s[m] = "\n" PROVE e = m
    OBVIOUS
  <2>2. m \in 1 .. Len(u) + 1 /\ At(u, m) = "\n"
    BY <1>1, <1>3, <2>1 DEF At
  <2>3. m \in S
    BY <1>4, <2>2
  <2> QED
    BY <1>5, <1>6, <1>8, <2>3, MinIs
<1>10. s[m] # "\n" => n = 0 /\ e = m + 1
  <2>1. SUFFICES ASSUME s[m] # "\n" PROVE n = 0 /\ e = m + 1
    OBVIOUS
  <2>2. n = 0 /\ Len(u) = m
    BY <1>1, <1>3, <2>1
  <2>3. m \notin S
    <3>1. At(u, m) = s[m] /\ s[m] # "NUL"
      BY <1>1, <1>3, <2>2 DEF At
    <3> QED
      BY <1>4, <2>1, <3>1
  <2>4. m + 1 \in S
    <3>1. At(u, m + 1) = "NUL" /\ m + 1 \in 1 .. Len(u) + 1
      BY <2>2 DEF At
    <3> QED
      BY <1>4, <3>1
  <2>5. \A j \in S : m + 1 <= j
    <3>1. \A j \in S : j # m
      BY <2>3
    <3> QED
      BY <1>8, <3>1
  <2> QED
    BY <1>5, <1>6, <2>2, <2>4, <2>5, MinIs
<1>11. PICK T : T = {B, e, Len(u)}
  OBVIOUS
<1>12. Min(T) = m
  <2>1. e = m \/ (e = m + 1 /\ n = 0)
    BY <1>9, <1>10
  <2>2. T \in SUBSET Int /\ \A y \in T : m <= y
    BY <1>1, <1>3, <1>11, <2>1
  <2>3. m \in T
    BY <1>3, <1>11, <2>1
  <2> QED
    BY <2>2, <2>3, MinIs
<1>13. Got = SubSeq(u, 1, Min({B, FirstFailing(u, 1, LAMBDA c : c \notin {"\n", "NUL"}), Len(u)}))
  BY <1>1, <1>2 DEF Got
<1>14. FirstFailing(u, 1, LAMBDA c : c \notin {"\n", "NUL"}) = e
  BY <1>4, <1>5 DEF FirstFailing
<1>15. Got = SubSeq(u, 1, m)
  BY <1>11, <1>12, <1>13, <1>14
<1>16. SubSeq(u, 1, m) = s /\ SubSeq(u, m + 1, Len(u)) = t
  BY <1>1, <1>2, TakeApart DEF Chars
<1> QED
  BY <1>1, <1>2, <1>15, <1>16

LEMMA GotNothing ==
    ASSUME file = << >>, bufpos = 0
    PROVE  Got = << >>
<1>1. PICK S : S = {j \in 1 .. Len(file) + 1 : ~(At(file, j) \notin {"\n", "NUL"})}
  OBVIOUS
<1>2. Len(file) = 0
  OBVIOUS
<1>3. S = {1}
  <2>1. At(file, 1) = "NUL"
    BY <1>2 DEF At
  <2> QED
    BY <1>1, <1>2, <2>1
<1>4. PICK e : e = Min(S) /\ e = 1
  BY <1>3, MinIs
<1>5. PICK B \in Nat : B = BufSize - 1 - bufpos
  BY ShellAssumption
<1>6. PICK T : T = {B, e, Len(file)}
  OBVIOUS
<1>7. Min(T) = 0
  <2>1. T = {B, 1, 0}
    BY <1>2, <1>4, <1>6
  <2>2. T \in SUBSET Int /\ 0 \in T /\ \A y \in T : 0 <= y
    BY <2>1
  <2> QED
    BY <2>2, MinIs
<1>8. FirstFailing(file, 1, LAMBDA c : c \notin {"\n", "NUL"}) = e
  BY <1>1, <1>4 DEF FirstFailing
<1>9. Got = SubSeq(file, 1, Min({B, FirstFailing(file, 1, LAMBDA c : c \notin {"\n", "NUL"}), Len(file)}))
  BY <1>5 DEF Got
<1>11. T = {B, FirstFailing(file, 1, LAMBDA c : c \notin {"\n", "NUL"}), Len(file)}
  BY <1>6, <1>8
<1>12. Got = SubSeq(file, 1, Min(T))
  BY <1>9, <1>11
<1>10. Got = SubSeq(file, 1, 0)
  BY <1>7, <1>12
<1> QED
  BY <1>10, SubSeqEmpty

\* The lines of a script are of characters, and the lexer makes of each the
\* words its writer meant.
WordsAreTokens ==
    \A lines \in Scripts : \A i \in DOMAIN lines :
        Tokens(lines[i].text \o <<"\n">>) = lines[i].words

LineEnd(i) == IF i <= CompleteLines THEN <<"\n">> ELSE << >>

\* What fgets() has not given out: the rest x of the line it is in, whole unless an
\* interrupted read took a part of it, and the lines after it.
Left(x) ==
    /\ x \in Seq(Characters) /\ Len(x) <= Len(script[lineno].text)
    /\ lineno \in torn \/ x = script[lineno].text
    /\ file = (x \o LineEnd(lineno)) \o Content(script, ended, Len(script) - lineno)

Unread == IF lineno > Len(script) THEN file = << >> ELSE \E x : Left(x)

\* No command is missing of the lines before a place.
NoneLostBefore(n) ==
    \A l \in 1 .. CompleteLines \ torn :
        l < n /\ script[l].words # << >> => \E i \in DOMAIN ran : ran[i].line = l

LoopOK ==
    /\ script \in Scripts /\ script \in Seq(Line) /\ ended \in BOOLEAN /\ running \in BOOLEAN
    /\ \E S : ran \in Seq(S)
    /\ FitsBuffer =>
         /\ lineno \in 1 .. CompleteLines + 1
         /\ \A i \in DOMAIN ran : ran[i].line < lineno
         /\ InOrder /\ AsWritten(torn) /\ NoneLostBefore(lineno)
         /\ running => bufpos = 0 /\ Unread
         /\ file = << >> => lineno = CompleteLines + 1

LEMMA LinesAre ==
    ASSUME script \in Seq(Line), ended \in BOOLEAN
    PROVE  /\ CompleteLines \in 0 .. Len(script) /\ Len(script) \in Nat
           /\ \A i \in 1 .. Len(script) :
                /\ script[i].text \in Seq(Characters) /\ script[i].text \in Chars
                /\ i <= CompleteLines => Written(script, ended, i) = script[i].text \o <<"\n">>
                /\ i > CompleteLines => Written(script, ended, i) = script[i].text /\ i = Len(script)
<1>1. PICK N \in Nat : N = Len(script)
  OBVIOUS
<1>2. script = << >> <=> N = 0
  BY <1>1
<1>3. CompleteLines = IF ended \/ N = 0 THEN N ELSE N - 1
  BY <1>1, <1>2 DEF CompleteLines
<1>4. ASSUME NEW i \in 1 .. N
      PROVE  /\ script[i].text \in Seq(Characters) /\ script[i].text \in Chars
             /\ i <= CompleteLines => Written(script, ended, i) = script[i].text \o <<"\n">>
             /\ i > CompleteLines => Written(script, ended, i) = script[i].text /\ i = N
  <2>1. script[i] \in Line
    BY <1>1
  <2>2. script[i].text \in Seq(Characters)
    BY <2>1 DEF Line
  <2>3. script[i].text \in Chars
    BY <2>2 DEF Chars, Alphabet
  <2>4. i <= CompleteLines => i < N \/ ended
    BY <1>3
  <2>5. i > CompleteLines => i = N /\ ~ended
    BY <1>3
  <2>6. script[i].text \o << >> = script[i].text
    BY <2>2, ConcatEmptySeq
  <2>7. i <= CompleteLines => Written(script, ended, i) = script[i].text \o <<"\n">>
    BY <1>1, <2>4 DEF Written
  <2>8. i > CompleteLines => Written(script, ended, i) = script[i].text
    <3>1. SUFFICES ASSUME i > CompleteLines PROVE Written(script, ended, i) = script[i].text
      OBVIOUS
    <3>2. ~(i < Len(script) \/ ended)
      BY <1>1, <2>5, <3>1
    <3>3. (IF i < Len(script) \/ ended THEN <<"\n">> ELSE << >>) = << >>
      BY <3>2
    <3> QED
      BY <2>6, <3>3 DEF Written
  <2> QED
    BY <2>2, <2>3, <2>5, <2>7, <2>8
<1> QED
  BY <1>1, <1>3, <1>4

LEMMA LineMore ==
    ASSUME script \in Seq(Line), ended \in BOOLEAN, NEW n \in 0 .. Len(script) - 1
    PROVE  Content(script, ended, Len(script) - n)
             = Written(script, ended, n + 1) \o Content(script, ended, Len(script) - (n + 1))
<1>4. PICK N \in Nat : N = Len(script)
  OBVIOUS
<1>1. PICK k \in 1 .. N : N = Len(script) /\ k = N - n
  BY <1>4
<1>2. (N - k) + 1 = n + 1 /\ k - 1 = N - (n + 1)
  BY <1>1
<1>3. Content(script, ended, k) = Written(script, ended, (N - k) + 1) \o Content(script, ended, k - 1)
  BY <1>1, ContentIs
<1> QED
  BY <1>1, <1>2, <1>3

\* The lines left when fgets() is at the start of one.
LEMMA LeftIs ==
    ASSUME script \in Seq(Line), ended \in BOOLEAN, NEW n \in 1 .. Len(script)
    PROVE  Content(script, ended, Len(script) - (n - 1))
             = (script[n].text \o LineEnd(n)) \o Content(script, ended, Len(script) - n)
<1>1. PICK N \in Nat, m \in Nat : N = Len(script) /\ m = n - 1
  OBVIOUS
<1>2. m \in 0 .. Len(script) - 1 /\ m + 1 = n
  BY <1>1
<1>3. Content(script, ended, Len(script) - m)
        = Written(script, ended, n) \o Content(script, ended, Len(script) - n)
  BY <1>2, LineMore
<1>4. Written(script, ended, n) = script[n].text \o LineEnd(n)
  <2>1. CASE n <= CompleteLines
    BY <2>1, LinesAre DEF LineEnd
  <2>2. CASE ~(n <= CompleteLines)
    <3>1. CompleteLines \in Nat
      BY LinesAre
    <3>2. Written(script, ended, n) = script[n].text /\ script[n].text \in Seq(Characters)
      BY <2>2, <3>1, LinesAre
    <3>3. script[n].text \o << >> = script[n].text
      BY <3>2, ConcatEmptySeq
    <3> QED
      BY <2>2, <3>2, <3>3 DEF LineEnd
  <2> QED
    BY <2>1, <2>2
<1> QED
  BY <1>1, <1>3, <1>4

\* At the start of the line n, or after the last one, Unread holds.
LEMMA AtStart ==
    ASSUME script \in Seq(Line), ended \in BOOLEAN, NEW n \in 1 .. Len(script) + 1, lineno = n,
           file = Content(script, ended, Len(script) - (n - 1))
    PROVE  Unread
<1>1. CASE n = Len(script) + 1
  <2>1. Len(script) - (n - 1) = 0
    BY <1>1
  <2>2. file = << >>
    BY <2>1, ContentIs
  <2> QED
    BY <1>1, <2>2 DEF Unread
<1>2. CASE n \in 1 .. Len(script)
  <2>1. PICK x : x = script[n].text
    OBVIOUS
  <2>2. x \in Seq(Characters) /\ Len(x) <= Len(x)
    BY <1>2, <2>1, LinesAre
  <2>3. file = (x \o LineEnd(n)) \o Content(script, ended, Len(script) - n)
    BY <1>2, <2>1, LeftIs
  <2>4. Left(x)
    BY <2>1, <2>2, <2>3 DEF Left
  <2> QED
    BY <1>2, <2>4 DEF Unread
<1> QED
  BY <1>1, <1>2

\* A complete line has its newline left.
LEMMA HasNewline ==
    ASSUME NEW x \in Chars, NEW t \in Chars
    PROVE  (x \o <<"\n">>) \o t # << >>
<1>1. Len((x \o <<"\n">>) \o t) > 0
  BY DEF Chars
<1> QED
  BY <1>1

LEMMA StartsOK ==
    ASSUME ShellInit
    PROVE  LoopOK
<1>1. /\ script \in Scripts /\ ended \in BOOLEAN /\ running = TRUE /\ ran = << >> /\ bufpos = 0
      /\ file = Content(script, ended, Len(script)) /\ lineno = 1
  BY DEF ShellInit
<1>2. script \in Seq(Line)
  BY <1>1, ShellAssumption DEF Line
<1>3. CompleteLines \in 0 .. Len(script) /\ Len(script) \in Nat
  BY <1>1, <1>2, LinesAre
<1>4. Unread
  <2>1. 1 \in 1 .. Len(script) + 1 /\ Len(script) - (1 - 1) = Len(script)
    BY <1>3
  <2> QED
    BY <1>1, <1>2, <2>1, AtStart
<1>5. file = << >> => lineno = CompleteLines + 1
  <2>1. SUFFICES ASSUME CompleteLines > 0 PROVE file # << >>
    BY <1>1, <1>3
  <2>2. 1 \in 1 .. Len(script) /\ 1 <= CompleteLines /\ Len(script) - (1 - 1) = Len(script)
        /\ Len(script) - 1 \in 0 .. Len(script)
    BY <1>3, <2>1
  <2>3. file = (script[1].text \o LineEnd(1)) \o Content(script, ended, Len(script) - 1)
    BY <1>1, <1>2, <2>2, LeftIs
  <2>4. script[1].text \in Chars /\ Content(script, ended, Len(script) - 1) \in Chars
    BY <1>1, <1>2, <2>2, LinesAre, ContentIs
  <2> QED
    BY <2>2, <2>3, <2>4, HasNewline DEF LineEnd
<1>6. DOMAIN ran = {} /\ ran \in Seq({})
  BY <1>1
<1>7. InOrder /\ AsWritten(torn) /\ NoneLostBefore(lineno)
  BY <1>1, <1>3, <1>6 DEF InOrder, AsWritten, NoneLostBefore
<1> QED
  BY <1>1, <1>2, <1>3, <1>4, <1>5, <1>6, <1>7 DEF LoopOK

\* A call of fgets() gives out s, and t is left: s is the rest x of the line it is in.
Gives(x, s, t) ==
    /\ x \in Chars /\ s \in Chars /\ t \in Chars /\ file = s \o t /\ Got = s
    /\ SubSeq(file, Len(Got) + 1, Len(file)) = t
    /\ Kept \o Got = s /\ Len(x) + 1 < BufSize
    /\ \A i \in 1 .. Len(x) : x[i] # "\n"
    /\ lineno <= CompleteLines =>
         /\ s = x \o <<"\n">> /\ Len(s) = Len(x) + 1 /\ s[Len(x) + 1] = "\n"
    /\ lineno > CompleteLines => s = x /\ t = << >>

LEMMA NextLine ==
    ASSUME LoopOK, FitsBuffer, running, lineno \in 1 .. Len(script), NEW x, Left(x)
    PROVE  Gives(x, x \o LineEnd(lineno), Content(script, ended, Len(script) - lineno))
<1> DEFINE s == x \o LineEnd(lineno)
           t == Content(script, ended, Len(script) - lineno)
<1> HIDE DEF s, t
<1> SUFFICES Gives(x, s, t)
  BY DEF s, t
<1>1. script \in Scripts /\ script \in Seq(Line) /\ ended \in BOOLEAN /\ bufpos = 0
  BY DEF LoopOK
<1>2. PICK N \in Nat, j \in Nat : N = Len(script) /\ j = lineno /\ j \in 1 .. N
  BY <1>1
<1>3. CompleteLines \in 0 .. N
  BY <1>1, <1>2, LinesAre
<1>4. x \in Seq(Characters) /\ file = s \o t /\ Len(x) <= Len(script[j].text)
  BY <1>2 DEF Left, s, t
<1>5. t \in Chars
  <2>1. N - j \in 0 .. N
    BY <1>2
  <2> QED
    BY <1>1, <1>2, <2>1, ContentIs DEF t
<1>6. x \in Chars
  BY <1>4 DEF Chars, Alphabet
<1>7. PICK l \in Nat, B \in Nat : l = Len(x) /\ B = BufSize /\ l + 1 < B
  <2>1. Len(script[j].text) + 1 < BufSize
    BY <1>1, <1>2 DEF FitsBuffer
  <2>2. Len(x) \in Nat /\ Len(script[j].text) \in Nat /\ BufSize \in Nat
    BY <1>1, <1>2, <1>4, LinesAre, ShellAssumption
  <2> QED
    BY <1>4, <2>1, <2>2
<1>8. \A i \in 1 .. l : x[i] # "\n" /\ x[i] # "NUL"
  <2>1. \A i \in 1 .. l : x[i] \in Characters
    BY <1>4, <1>7
  <2> QED
    BY <2>1, ShellAssumption
<1>9. Kept = << >>
  <2>1. bufpos < 1 /\ bufpos \in Int /\ 1 \in Int
    BY <1>1
  <2> QED
    BY <2>1, SubSeqEmpty DEF Kept
<1>10. CASE j <= CompleteLines
  <2>1. s = x \o <<"\n">>
    BY <1>2, <1>10 DEF LineEnd, s
  <2>2. /\ s \in Chars /\ Len(s) = l + 1 /\ s[l + 1] = "\n" /\ \A i \in 1 .. l : s[i] = x[i]
    <3>1. <<"\n">> \in Chars
      BY DEF Chars, Alphabet
    <3> QED
      BY <1>6, <1>7, <2>1, <3>1 DEF Chars
  <2>4. s # << >> /\ Len(s) < BufSize
    BY <1>7, <2>2
  <2>5. \A i \in 1 .. Len(s) - 1 : s[i] # "\n"
    BY <1>8, <2>2
  <2>6. \A i \in 1 .. Len(s) : s[i] # "NUL"
    <3>1. ASSUME NEW i \in 1 .. l + 1 PROVE s[i] # "NUL"
      <4>1. CASE i = l + 1
        BY <2>2, <4>1
      <4>2. CASE i # l + 1
        <5>1. i \in 1 .. l
          BY <4>2
        <5> QED
          BY <1>8, <2>2, <5>1
      <4> QED
        BY <4>1, <4>2
    <3> QED
      BY <2>2, <3>1
  <2>7. Got = s /\ SubSeq(file, Len(Got) + 1, Len(file)) = t
    BY <1>1, <1>4, <1>5, <2>2, <2>4, <2>5, <2>6, GotIs
  <2>8. Kept \o Got = s
    BY <1>9, <2>2, <2>7, ConcatEmptySeq DEF Chars
  <2>9. lineno <= CompleteLines /\ ~(lineno > CompleteLines)
    BY <1>2, <1>3, <1>10
  <2>10. Len(x) + 1 < BufSize /\ \A i \in 1 .. Len(x) : x[i] # "\n"
    BY <1>7, <1>8
  <2>11. Len(s) = Len(x) + 1 /\ s[Len(x) + 1] = "\n"
    BY <1>7, <2>2
  <2> QED
    BY <1>4, <1>5, <1>6, <2>1, <2>2, <2>7, <2>8, <2>9, <2>10, <2>11 DEF Gives
<1>11. CASE ~(j <= CompleteLines)
  <2>1. s = x
    <3>1. LineEnd(lineno) = << >>
      BY <1>2, <1>11 DEF LineEnd
    <3> QED
      BY <1>6, <3>1, ConcatEmptySeq DEF Chars, s
  <2>2. j = N
    BY <1>1, <1>2, <1>3, <1>11, LinesAre
  <2>3. t = << >>
    <3>1. N - j = 0
      BY <2>2
    <3> QED
      BY <1>1, <1>2, <3>1, ContentIs DEF t
  <2>4. file = x
    BY <1>4, <1>6, <2>1, <2>3, ConcatEmptySeq DEF Chars
  <2>5. Got = s /\ SubSeq(file, Len(Got) + 1, Len(file)) = t
    <3>1. CASE x # << >>
      BY SMTT(30), <1>1, <1>4, <1>5, <1>6, <1>7, <1>8, <2>1, <2>3, <3>1, GotIs
    <3>2. CASE x = << >>
      <4>1. file = << >> /\ Got = << >>
        BY <1>1, <2>4, <3>2, GotNothing
      <4>2. SubSeq(file, 1, 0) = << >>
        BY SubSeqEmpty
      <4> QED
        BY <2>1, <2>3, <3>2, <4>1, <4>2
    <3> QED
      BY <3>1, <3>2
  <2>6. Kept \o Got = s
    BY <1>6, <1>9, <2>1, <2>5, ConcatEmptySeq DEF Chars
  <2>7. lineno > CompleteLines /\ ~(lineno <= CompleteLines)
    BY <1>2, <1>3, <1>11
  <2>8. Len(x) + 1 < BufSize /\ \A i \in 1 .. Len(x) : x[i] # "\n"
    BY <1>7, <1>8
  <2> QED
    BY <1>4, <1>5, <1>6, <2>1, <2>3, <2>5, <2>6, <2>7, <2>8 DEF Gives
<1> QED
  BY <1>10, <1>11

\* One more command keeps the order.
LEMMA OneMore ==
    ASSUME NEW S, ran \in Seq(S), NEW w, ran' = Append(ran, [line |-> lineno, words |-> w])
    PROVE  /\ \E T : ran' \in Seq(T)
           /\ DOMAIN ran' = 1 .. Len(ran) + 1 /\ DOMAIN ran = 1 .. Len(ran) /\ Len(ran) \in Nat
           /\ \A i \in 1 .. Len(ran) : ran'[i] = ran[i]
           /\ ran'[Len(ran) + 1].line = lineno /\ ran'[Len(ran) + 1].words = w
<1>1. PICK e, T : e = [line |-> lineno, words |-> w] /\ T = S \cup {e}
  OBVIOUS
<1>2. ran \in Seq(T) /\ e \in T
  <2>1. Seq(S) \subseteq Seq(T)
    BY <1>1, SeqMonotonic
  <2> QED
    BY <1>1, <2>1
<1>3. PICK r : r = Append(ran, e)
  OBVIOUS
<1>4. /\ r \in Seq(T) /\ Len(r) = Len(ran) + 1 /\ \A i \in 1 .. Len(ran) : r[i] = ran[i]
      /\ r[Len(ran) + 1] = e
  BY <1>2, <1>3
<1> QED
  BY <1>1, <1>2, <1>3, <1>4

\* A line that is run behind all that have run.
LEMMA RunsOne ==
    ASSUME LoopOK, FitsBuffer, lineno \in 1 .. CompleteLines,
           NEW w, lineno \in torn \/ w = script[lineno].words,
           ran' = (IF w = << >> THEN ran ELSE Append(ran, [line |-> lineno, words |-> w])),
           script' = script, ended' = ended, torn' = torn, lineno' = lineno + 1
    PROVE  /\ \E S : ran' \in Seq(S)
           /\ \A i \in DOMAIN ran' : ran'[i].line < lineno'
           /\ InOrder' /\ AsWritten(torn)' /\ NoneLostBefore(lineno)'
<1>1. PICK S : ran \in Seq(S)
  BY DEF LoopOK
<1>2. /\ CompleteLines \in Nat
      /\ \A i \in DOMAIN ran : ran[i].line \in 1 .. CompleteLines /\ ran[i].line < lineno
      /\ InOrder /\ AsWritten(torn) /\ NoneLostBefore(lineno)
  BY LinesAre DEF LoopOK, AsWritten
<1>3. CompleteLines' = CompleteLines
  BY DEF CompleteLines
<1>4. CASE w = << >>
  <2>1. ran' = ran
    BY <1>4
  <2>2. \A i \in DOMAIN ran : ran[i].line < lineno + 1
    BY <1>2
  <2>3. InOrder' /\ AsWritten(torn)'
    BY <1>2, <1>3, <2>1 DEF InOrder, AsWritten
  <2>4. NoneLostBefore(lineno)'
    <3>1. ASSUME NEW l \in 1 .. CompleteLines \ torn, l < lineno + 1, script[l].words # << >>
          PROVE  \E i \in DOMAIN ran : ran[i].line = l
      <4>1. l < lineno \/ l = lineno
        BY <1>2, <3>1
      <4>2. l # lineno
        BY <1>4, <3>1
      <4> QED
        BY <1>2, <3>1, <4>1, <4>2 DEF NoneLostBefore
    <3> QED
      BY <1>3, <2>1, <3>1 DEF NoneLostBefore
  <2> QED
    BY <1>1, <2>1, <2>2, <2>3, <2>4
<1>5. CASE w # << >>
  <2>1. ran' = Append(ran, [line |-> lineno, words |-> w])
    BY <1>5
  <2>2. PICK n \in Nat : n = Len(ran)
    BY <1>1
  <2>3. /\ \E T : ran' \in Seq(T)
        /\ DOMAIN ran' = 1 .. n + 1 /\ DOMAIN ran = 1 .. n
        /\ \A i \in 1 .. n : ran'[i] = ran[i]
        /\ ran'[n + 1].line = lineno /\ ran'[n + 1].words = w
    BY <1>1, <2>1, <2>2, OneMore
  <2>4. \A i \in 1 .. n + 1 : i \in 1 .. n \/ i = n + 1
    BY <2>2
  <2>5. \A i \in 1 .. n + 1 : ran'[i].line \in 1 .. CompleteLines /\ ran'[i].line < lineno + 1
    <3>1. ASSUME NEW i \in 1 .. n
          PROVE  ran'[i].line \in 1 .. CompleteLines /\ ran'[i].line < lineno + 1
      <4>1. i \in DOMAIN ran /\ ran'[i] = ran[i]
        BY <2>3
      <4>2. ran[i].line \in 1 .. CompleteLines /\ ran[i].line < lineno
        BY <1>2, <4>1
      <4>3. lineno \in Int /\ ran[i].line \in Int
        BY <1>2, <4>2
      <4> QED
        BY <4>1, <4>2, <4>3
    <3>2. ran'[n + 1].line \in 1 .. CompleteLines /\ ran'[n + 1].line < lineno + 1
      BY <2>3
    <3> QED
      BY <2>4, <3>1, <3>2
  <2>6. InOrder'
    <3>1. ASSUME NEW i \in 1 .. n + 1, NEW j \in 1 .. n + 1, i < j
          PROVE  ran'[i].line < ran'[j].line
      <4>1. i \in 1 .. n
        BY <3>1
      <4>2. CASE j \in 1 .. n
        BY <1>2, <2>3, <3>1, <4>1, <4>2 DEF InOrder
      <4>3. CASE j = n + 1
        BY <1>2, <2>3, <4>1, <4>3
      <4> QED
        BY <2>4, <4>2, <4>3
    <3> QED
      BY <2>3, <3>1 DEF InOrder
  <2>7. AsWritten(torn)'
    <3>1. ASSUME NEW i \in 1 .. n + 1
          PROVE  ran'[i].line \in torn \/ ran'[i].words = script[ran'[i].line].words
      <4>1. CASE i \in 1 .. n
        BY <1>2, <2>3, <4>1 DEF AsWritten
      <4>2. CASE i = n + 1
        BY <2>3, <4>2
      <4> QED
        BY <2>4, <4>1, <4>2
    <3> QED
      BY <1>3, <2>3, <2>5, <3>1 DEF AsWritten
  <2>8. NoneLostBefore(lineno)'
    <3>1. ASSUME NEW l \in 1 .. CompleteLines \ torn, l < lineno + 1, script[l].words # << >>
          PROVE  \E i \in 1 .. n + 1 : ran'[i].line = l
      <4>1. CASE l = lineno
        <5>1. n + 1 \in 1 .. n + 1
          BY <2>2
        <5> QED
          BY <2>3, <4>1, <5>1
      <4>2. CASE l # lineno
        <5>1. l < lineno
          BY <1>2, <3>1, <4>2
        <5>2. PICK i \in 1 .. n : ran[i].line = l
          BY <1>2, <2>3, <3>1, <5>1 DEF NoneLostBefore
        <5>3. i \in 1 .. n + 1
          BY <2>2
        <5> QED
          BY <2>3, <5>2, <5>3
      <4> QED
        BY <4>1, <4>2
    <3> QED
      BY <1>3, <2>3, <3>1 DEF NoneLostBefore
  <2> QED
    BY <2>3, <2>5, <2>6, <2>7, <2>8
<1> QED
  BY <1>4, <1>5

\* A line is read and, if it is complete, run.
LEMMA ReadKeeps ==
    ASSUME WordsAreTokens, LoopOK, FitsBuffer, ReadLine
    PROVE  /\ \E S : ran' \in Seq(S)
           /\ lineno' \in 1 .. CompleteLines + 1
           /\ \A i \in DOMAIN ran' : ran'[i].line < lineno'
           /\ InOrder' /\ AsWritten(torn)' /\ NoneLostBefore(lineno)'
           /\ running' => bufpos' = 0 /\ Unread'
           /\ file' = << >> => lineno' = CompleteLines + 1
<1>1. /\ script \in Scripts /\ script \in Seq(Line) /\ ended \in BOOLEAN
      /\ running /\ bufpos = 0 /\ Unread /\ lineno \in 1 .. CompleteLines + 1
  BY DEF LoopOK, ReadLine
<1>2. PICK N \in Nat, C \in Nat : N = Len(script) /\ C = CompleteLines /\ C <= N
  BY <1>1, LinesAre
<1>3. script' = script /\ ended' = ended /\ torn' = torn /\ CompleteLines' = CompleteLines
  BY DEF ReadLine, CompleteLines
<1>4. lineno \in 1 .. N
  <2>1. SUFFICES ASSUME lineno > Len(script) PROVE FALSE
    BY <1>1, <1>2
  <2>2. file = << >>
    BY <1>1, <2>1 DEF Unread
  <2> QED
    BY <1>1, <2>2, GotNothing DEF ReadLine
<1>5. PICK x : Left(x)
  BY <1>1, <1>2, <1>4 DEF Unread
<1>6. PICK s, t : s = x \o LineEnd(lineno) /\ t = Content(script, ended, Len(script) - lineno)
  OBVIOUS
<1>7. Gives(x, s, t)
  BY <1>1, <1>2, <1>4, <1>5, <1>6, NextLine
<1>8. Len(x) \in Nat /\ BufSize \in Nat
  BY <1>7, ShellAssumption DEF Gives, Chars
<1>9. CASE lineno <= C
  <2>1. s # << >> /\ Len(s) = Len(x) + 1 /\ Last(s) = "\n"
    BY <1>2, <1>7, <1>8, <1>9 DEF Gives, Last
  <2>2. Complete(s)
    BY <2>1 DEF Complete
  <2>3. /\ file' = t /\ running' = TRUE /\ bufpos' = 0 /\ EvalLine(s) /\ lineno' = lineno + 1
    BY <1>7, <2>1, <2>2 DEF Gives, ReadLine, Take, After
  <2>4. PICK w : w = Tokens(s)
    OBVIOUS
  <2>5. lineno \in torn \/ w = script[lineno].words
    <3>1. SUFFICES ASSUME x = script[lineno].text PROVE w = script[lineno].words
      BY <1>5 DEF Left
    <3>2. s = script[lineno].text \o <<"\n">>
      BY <1>2, <1>7, <1>9, <3>1 DEF Gives
    <3> QED
      BY <1>1, <1>2, <1>4, <2>4, <3>2 DEF WordsAreTokens
  <2>6. ran' = IF w = << >> THEN ran ELSE Append(ran, [line |-> lineno, words |-> w])
    BY <2>3, <2>4 DEF EvalLine
  <2>7. lineno \in 1 .. CompleteLines
    BY <1>2, <1>4, <1>9
  <2>8. /\ \E S : ran' \in Seq(S)
        /\ \A i \in DOMAIN ran' : ran'[i].line < lineno'
        /\ InOrder' /\ AsWritten(torn)' /\ NoneLostBefore(lineno)'
    BY <1>3, <2>3, <2>5, <2>6, <2>7, RunsOne
  <2>9. lineno' \in 1 .. CompleteLines + 1
    BY <1>2, <2>3, <2>7
  <2>10. Unread' /\ (file' = << >> => lineno' = CompleteLines + 1)
    <3>1. PICK m : m = lineno + 1 /\ m \in 1 .. N + 1
      BY <1>2, <1>4
    <3>2. N - lineno = N - (m - 1)
      BY <1>2, <1>4, <3>1
    <3>3. CASE m > N
      <4>1. N - lineno = 0
        BY <1>2, <1>4, <3>1, <3>3
      <4>2. file' = << >>
        BY <1>1, <1>2, <1>6, <2>3, <4>1, ContentIs
      <4>3. lineno' = CompleteLines + 1
        BY <1>2, <1>4, <1>9, <2>3, <3>1, <3>3
      <4> QED
        BY <1>2, <1>3, <2>3, <3>1, <3>3, <4>2, <4>3 DEF Unread
    <3>4. CASE ~(m > N)
      <4>1. m \in 1 .. Len(script)
        BY <1>2, <3>1, <3>4
      <4>2. PICK y, u : y = script[m].text /\ u = Content(script, ended, Len(script) - m)
        OBVIOUS
      <4>3. file' = (y \o LineEnd(m)) \o u
        BY <1>1, <1>2, <1>6, <2>3, <3>2, <4>1, <4>2, LeftIs
      <4>4. y \in Seq(Characters) /\ y \in Chars /\ Len(y) <= Len(y)
        BY <1>1, <4>1, <4>2, LinesAre
      <4>5. u \in Chars
        <5>1. Len(script) - m \in 0 .. Len(script)
          BY <1>2, <4>1
        <5> QED
          BY <1>1, <4>2, <5>1, ContentIs
      <4>6. Left(y)'
        BY <1>3, <2>3, <3>1, <4>2, <4>3, <4>4 DEF Left, LineEnd
      <4>7. m <= CompleteLines => file' # << >>
        BY <4>3, <4>4, <4>5, HasNewline DEF LineEnd
      <4> QED
        BY <1>2, <1>3, <2>3, <2>9, <3>1, <3>4, <4>6, <4>7 DEF Unread
    <3> QED
      BY <3>3, <3>4
  <2> QED
    BY <2>3, <2>8, <2>9, <2>10
<1>10. CASE lineno > C
  <2>1. s = x /\ x # << >>
    BY <1>2, <1>7, <1>10 DEF Gives, ReadLine
  <2>2. Last(x) = x[Len(x)] /\ Len(x) \in 1 .. Len(x)
    BY <1>7, <1>8, <2>1 DEF Gives, Last, Chars
  <2>3. ~Complete(s) /\ Last(Got) # "\n"
    BY <1>7, <1>8, <2>1, <2>2 DEF Gives, Complete
  <2>4. ran' = ran /\ running' = FALSE /\ lineno' = lineno
    BY <1>7, <2>3 DEF Gives, ReadLine, Take
  <2>5. lineno = CompleteLines + 1
    BY <1>1, <1>2, <1>10
  <2>6. /\ \E S : ran \in Seq(S)
        /\ \A i \in DOMAIN ran : ran[i].line < lineno
        /\ InOrder /\ AsWritten(torn) /\ NoneLostBefore(lineno)
    BY DEF LoopOK
  <2>7. InOrder' /\ AsWritten(torn)' /\ NoneLostBefore(lineno)'
    BY <1>3, <2>4, <2>6 DEF InOrder, AsWritten, NoneLostBefore
  <2> QED
    BY <1>1, <2>4, <2>5, <2>6, <2>7
<1> QED
  BY <1>2, <1>4, <1>9, <1>10

\* What is left of a line when some of it is taken.
LEMMA TakeSome ==
    ASSUME NEW x \in Chars, NEW e \in Chars, NEW t \in Chars, NEW n \in 0 .. Len(x)
    PROVE  SubSeq((x \o e) \o t, n + 1, Len((x \o e) \o t)) = (SubSeq(x, n + 1, Len(x)) \o e) \o t
<1>1. PICK a, b : a = SubSeq(x, 1, n) /\ b = SubSeq(x, n + 1, Len(x))
  OBVIOUS
<1>2. a \in Chars /\ Len(a) = n /\ b \in Chars
  <2>1. PICK l \in Nat : l = Len(x) /\ n \in Int /\ l \in Int /\ n + 1 \in Int
    BY DEF Chars
  <2>2. \A i \in 1 .. l : x[i] \in Alphabet
    BY <2>1 DEF Chars
  <2>3. (\A i \in 1 .. n : x[i] \in Alphabet) /\ \A i \in n + 1 .. l : x[i] \in Alphabet
    BY <2>1, <2>2
  <2>4. a \in Seq(Alphabet) /\ Len(a) = IF 1 <= n THEN n - 1 + 1 ELSE 0
    BY <1>1, <2>3, SubSeqProperties
  <2>5. b \in Seq(Alphabet)
    BY <1>1, <2>1, <2>3, SubSeqProperties
  <2> QED
    BY <2>4, <2>5 DEF Chars
<1>3. x = a \o b
  <2>1. PICK l \in Nat : l = Len(x)
    BY DEF Chars
  <2>2. 1 \in 1 .. Len(x) + 1 /\ n \in 1 - 1 .. Len(x) /\ Len(x) \in n .. Len(x)
    BY <2>1
  <2>3. SubSeq(x, 1, n) \o SubSeq(x, n + 1, Len(x)) = SubSeq(x, 1, Len(x))
    BY <2>2, ConcatAdjacentSubSeq DEF Chars
  <2> QED
    BY <1>1, <2>3, SubSeqFull DEF Chars
<1>4. PICK c : c = (b \o e) \o t
  OBVIOUS
<1>5. c \in Chars /\ b \o e \in Chars
  BY <1>2, <1>4 DEF Chars
<1>6. (x \o e) \o t = a \o c
  <2>1. x \o e = a \o (b \o e)
    <3>1. a \in Seq(Alphabet) /\ b \in Seq(Alphabet) /\ e \in Seq(Alphabet)
      BY <1>2 DEF Chars
    <3>2. (a \o b) \o e = a \o (b \o e)
      BY <3>1, ConcatAssociative, SMTT(30)
    <3> QED
      BY <1>3, <3>2
  <2>2. (a \o (b \o e)) \o t = a \o ((b \o e) \o t)
    <3>1. PICK d : d = b \o e
      OBVIOUS
    <3>2. a \in Seq(Alphabet) /\ d \in Seq(Alphabet) /\ t \in Seq(Alphabet)
      BY <1>2, <1>5, <3>1 DEF Chars
    <3>3. (a \o d) \o t = a \o (d \o t)
      BY <3>2, ConcatAssociative, SMTT(30)
    <3> QED
      BY <3>1, <3>3
  <2> QED
    BY <1>4, <2>1, <2>2
<1>7. SubSeq(a \o c, Len(a) + 1, Len(a \o c)) = c
  BY <1>2, <1>5, TakeApart DEF Chars
<1> QED
  BY <1>1, <1>2, <1>4, <1>6, <1>7

\* An interrupted read.
LEMMA InterruptKeeps ==
    ASSUME LoopOK, FitsBuffer, Interrupted
    PROVE  /\ ran' = ran /\ bufpos' = 0 /\ lineno' = lineno /\ Unread'
           /\ file' = << >> => lineno' = CompleteLines + 1
           /\ torn \subseteq torn' /\ running' = running
           /\ script' = script /\ ended' = ended
<1>1. /\ script \in Scripts /\ script \in Seq(Line) /\ ended \in BOOLEAN
      /\ running /\ bufpos = 0 /\ Unread /\ lineno \in 1 .. CompleteLines + 1
  BY DEF LoopOK, Interrupted
<1>2. PICK n \in 0 .. Len(Got) :
         /\ \A i \in 1 .. n : file[i] # "\n"
         /\ Take(AfterInterrupt)
         /\ file' = SubSeq(file, n + 1, Len(file))
         /\ torn' = IF n = 0 THEN torn ELSE torn \cup {lineno}
         /\ UNCHANGED <<script, ended, running, lineno>>
  BY Zenon DEF Interrupted
<1>3. AfterInterrupt = << >>
  <2>1. bufpos < 1 /\ bufpos \in Int /\ 1 \in Int
    BY <1>1
  <2> QED
    BY <1>1, <2>1, SubSeqEmpty DEF AfterInterrupt, Kept
<1>4. ~Complete(<< >>) /\ After(<< >>) = 0
  BY ShellAssumption DEF Complete, After
<1>5. ran' = ran /\ bufpos' = 0
  BY <1>2, <1>3, <1>4 DEF Take
<1>6. script' = script /\ ended' = ended /\ lineno' = lineno /\ CompleteLines' = CompleteLines
  BY <1>2 DEF CompleteLines
<1>7. Unread' /\ (file' = << >> => lineno' = CompleteLines + 1)
  <2>1. CASE lineno > Len(script)
    <3>1. file = << >> /\ Got = << >>
      BY <1>1, <2>1, GotNothing DEF Unread
    <3>2. n = 0
      BY <3>1
    <3>3. file' = << >>
      BY <1>2, <3>1, <3>2, SubSeqEmpty
    <3>4. lineno = CompleteLines + 1
      BY <1>1, <2>1, LinesAre
    <3> QED
      BY <1>6, <2>1, <3>3, <3>4 DEF Unread
  <2>2. CASE ~(lineno > Len(script))
    <3>1. lineno \in 1 .. Len(script) /\ CompleteLines \in 0 .. Len(script)
      BY <1>1, <2>2, LinesAre
    <3>2. PICK x : Left(x)
      BY <1>1, <2>2 DEF Unread
    <3>3. PICK e, s, t : /\ e = LineEnd(lineno) /\ s = x \o e
                         /\ t = Content(script, ended, Len(script) - lineno)
      OBVIOUS
    <3>4. Gives(x, s, t)
      BY <1>1, <3>1, <3>2, <3>3, NextLine
    <3>5. Len(x) \in Nat /\ n \in Nat
      BY <1>2, <3>4 DEF Gives, Chars
    <3>6. n \in 0 .. Len(x)
      <4>1. CASE lineno <= CompleteLines
        <5>1. SUFFICES ASSUME n = Len(x) + 1 PROVE FALSE
          BY <1>2, <3>4, <3>5, <4>1 DEF Gives
        <5>2. s \in Chars /\ t \in Chars /\ file = s \o t /\ Len(s) = n /\ s[n] = "\n"
          BY <3>4, <4>1, <5>1 DEF Gives
        <5>3. file[n] = s[n] /\ n \in 1 .. n
          BY <3>5, <5>1, <5>2 DEF Chars
        <5> QED
          BY <1>2, <5>2, <5>3
      <4>2. CASE ~(lineno <= CompleteLines)
        <5>1. Got = x
          BY <1>1, <3>1, <3>4, <4>2 DEF Gives
        <5> QED
          BY <1>2, <5>1
      <4> QED
        BY <4>1, <4>2
    <3>7. e \in Chars
      <4>1. <<"\n">> \in Chars /\ << >> \in Chars
        BY DEF Chars, Alphabet
      <4> QED
        BY <3>3, <4>1 DEF LineEnd
    <3>8. PICK y : y = SubSeq(x, n + 1, Len(x))
      OBVIOUS
    <3>9. file' = (y \o e) \o t
      <4>1. x \in Chars /\ t \in Chars /\ file = (x \o e) \o t
        BY <3>3, <3>4 DEF Gives
      <4>2. file' = SubSeq((x \o e) \o t, n + 1, Len((x \o e) \o t))
        BY <1>2, <4>1
      <4> QED
        BY <3>6, <3>7, <3>8, <4>1, <4>2, TakeSome
    <3>10. y \in Seq(Characters) /\ Len(y) <= Len(x)
      <4>1. x \in Seq(Characters)
        BY <3>2 DEF Left
      <4>2. \A i \in n + 1 .. Len(x) : x[i] \in Characters
        BY <3>5, <4>1
      <4>3. /\ y \in Seq(Characters)
            /\ Len(y) = IF n + 1 <= Len(x) THEN Len(x) - (n + 1) + 1 ELSE 0
        BY <3>5, <3>8, <4>2, SubSeqProperties
      <4> QED
        BY <3>5, <4>3
    <3>11. lineno \in torn' \/ y = script[lineno].text
      <4>1. CASE n = 0
        <5>1. x \in Seq(Characters) /\ (lineno \in torn \/ x = script[lineno].text)
          BY <3>2 DEF Left
        <5>2. y = x
          BY <3>8, <4>1, <5>1, SubSeqFull
        <5> QED
          BY <1>2, <4>1, <5>1, <5>2
      <4>2. CASE n # 0
        BY <1>2, <4>2
      <4> QED
        BY <4>1, <4>2
    <3>12. Len(y) <= Len(script[lineno].text)
      <4>1. Len(x) <= Len(script[lineno].text) /\ Len(script[lineno].text) \in Nat
        BY <1>1, <3>1, <3>2, LinesAre DEF Left
      <4> QED
        BY <3>5, <3>10, <4>1
    <3>13. e = LineEnd(lineno)'
      BY <1>6, <3>3 DEF LineEnd
    <3>14. Left(y)'
      BY <1>6, <3>3, <3>9, <3>10, <3>11, <3>12, <3>13 DEF Left
    <3>15. lineno <= CompleteLines => file' # << >>
      <4>1. SUFFICES ASSUME lineno <= CompleteLines PROVE file' # << >>
        OBVIOUS
      <4>2. e = <<"\n">>
        BY <3>3, <4>1 DEF LineEnd
      <4>3. t \in Chars /\ y \in Chars
        <5>1. y \in Chars
          BY <3>10 DEF Chars, Alphabet
        <5> QED
          BY <3>4, <5>1 DEF Gives
      <4> QED
        BY <3>9, <4>2, <4>3, HasNewline
    <3>16. file' = << >> => lineno = CompleteLines + 1
      BY <1>1, <3>1, <3>15
    <3> QED
      BY <1>6, <2>2, <3>14, <3>16 DEF Unread
  <2> QED
    BY <2>1, <2>2
<1> QED
  BY <1>2, <1>5, <1>6, <1>7

LEMMA LoopKeeps ==
    ASSUME WordsAreTokens, LoopOK, [ShellNext]_shellVars
    PROVE  LoopOK'
<1>1. script \in Scripts /\ script \in Seq(Line) /\ ended \in BOOLEAN /\ running \in BOOLEAN
  BY DEF LoopOK
<1>2. script' = script /\ ended' = ended /\ running' \in BOOLEAN
  <2>1. CASE Interrupted \/ UNCHANGED shellVars
    BY <1>1, <2>1 DEF Interrupted, shellVars
  <2>2. CASE ReadLine
    <3>1. Complete(Kept \o Got) \in BOOLEAN
      BY DEF Complete
    <3> QED
      BY <2>2, <3>1 DEF ReadLine
  <2>3. CASE EndOfFile \/ ReadError
    BY <2>3 DEF EndOfFile, ReadError, Leave
  <2> QED
    BY <2>1, <2>2, <2>3 DEF ShellNext
<1>3. CompleteLines' = CompleteLines /\ FitsBuffer' = FitsBuffer
  BY <1>2 DEF CompleteLines, FitsBuffer
<1>4. \E S : ran' \in Seq(S)
  <2>1. PICK S : ran \in Seq(S)
    BY DEF LoopOK
  <2>2. ASSUME NEW s, EvalLine(s) PROVE \E T : ran' \in Seq(T)
    BY <2>1, <2>2, OneMore DEF EvalLine
  <2>3. ASSUME NEW s, Take(s) PROVE \E T : ran' \in Seq(T)
    BY <2>1, <2>2, <2>3 DEF Take
  <2> QED
    BY <2>1, <2>3
       DEF ShellNext, ReadLine, Interrupted, EndOfFile, ReadError, Leave, shellVars
<1>5. SUFFICES ASSUME FitsBuffer
               PROVE  /\ lineno' \in 1 .. CompleteLines + 1
                      /\ \A i \in DOMAIN ran' : ran'[i].line < lineno'
                      /\ InOrder' /\ AsWritten(torn)' /\ NoneLostBefore(lineno)'
                      /\ running' => bufpos' = 0 /\ Unread'
                      /\ file' = << >> => lineno' = CompleteLines + 1
  BY <1>1, <1>2, <1>3, <1>4 DEF LoopOK
<1>6. /\ lineno \in 1 .. CompleteLines + 1
      /\ \A i \in DOMAIN ran : ran[i].line < lineno
      /\ InOrder /\ AsWritten(torn) /\ NoneLostBefore(lineno)
      /\ running => bufpos = 0 /\ Unread
      /\ file = << >> => lineno = CompleteLines + 1
  BY <1>5 DEF LoopOK
<1>7. CASE ReadLine
  BY <1>5, <1>7, ReadKeeps
<1>8. CASE Interrupted
  <2>1. /\ ran' = ran /\ bufpos' = 0 /\ lineno' = lineno /\ Unread' /\ torn \subseteq torn'
        /\ file' = << >> => lineno' = CompleteLines + 1
    BY <1>5, <1>8, InterruptKeeps
  <2>3. InOrder' /\ AsWritten(torn)' /\ NoneLostBefore(lineno)'
    BY <1>2, <1>3, <1>6, <2>1 DEF InOrder, AsWritten, NoneLostBefore
  <2> QED
    BY <1>6, <2>1, <2>3
<1>9. CASE EndOfFile \/ ReadError
  <2>1. running' = FALSE /\ UNCHANGED <<file, ran, lineno, torn>>
    BY <1>9 DEF EndOfFile, ReadError, Leave
  <2>2. InOrder' /\ AsWritten(torn)' /\ NoneLostBefore(lineno)'
    BY <1>2, <1>3, <1>6, <2>1 DEF InOrder, AsWritten, NoneLostBefore
  <2> QED
    BY <1>6, <2>1, <2>2
<1>10. CASE UNCHANGED shellVars
  <2>1. UNCHANGED <<file, ran, lineno, torn, running, bufpos>>
    BY <1>10 DEF shellVars
  <2>2. InOrder' /\ AsWritten(torn)' /\ NoneLostBefore(lineno)'
    BY <1>2, <1>3, <1>6, <2>1 DEF InOrder, AsWritten, NoneLostBefore
  <2>3. Unread' = Unread
    BY <1>2, <1>3, <2>1 DEF Unread, Left, LineEnd
  <2> QED
    BY <1>6, <2>1, <2>2, <2>3
<1> QED
  BY <1>7, <1>8, <1>9, <1>10 DEF ShellNext

\* The command loop runs the tokens of the lines.
LEMMA LoopRunsTokens ==
    ASSUME WordsAreTokens
    PROVE  ShellSpec => []RunsWhatWasWritten
<1>1. ShellInit => LoopOK
  BY StartsOK
<1>2. LoopOK /\ [ShellNext]_shellVars => LoopOK'
  BY LoopKeeps
<1>3. LoopOK => RunsWhatWasWritten
  <2>1. SUFFICES ASSUME LoopOK, FitsBuffer
                 PROVE  InOrder /\ AsWritten(torn) /\ NoneLost(torn)
    BY DEF RunsWhatWasWritten
  <2>2. /\ InOrder /\ AsWritten(torn) /\ NoneLostBefore(lineno)
        /\ file = << >> => lineno = CompleteLines + 1
        /\ CompleteLines \in Nat
    BY <2>1, LinesAre DEF LoopOK
  <2>3. NoneLost(torn)
    <3>1. ASSUME NEW l \in 1 .. CompleteLines \ torn, l < lineno \/ file = << >>
          PROVE  l < lineno
      BY <2>2, <3>1
    <3> QED
      BY <2>2, <3>1 DEF NoneLost, NoneLostBefore
  <2> QED
    BY <2>2, <2>3
<1> QED
  BY <1>1, <1>2, <1>3, PTL DEF ShellSpec

-----------------------------------------------------------------------------
(* The lexer: normal words.                                                *)

Quoting == Quotes \cup {"no"}
Reading(C, s) == [token : Seq(C), next : 1 .. Len(s) + 1]

Follows(c, w) == [token |-> <<c>> \o w.token, next |-> w.next]

\* What is read from place i, when g tells what is read from the places after it.
WordAt(s, g, i, quoted) ==
    IF EndsWord(s, i, quoted) THEN [token |-> << >>, next |-> i]
    ELSE IF s[i] \in Quotes /\ quoted = "no" THEN g[i + 1][s[i]]
    ELSE IF s[i] = quoted THEN g[i + 1]["no"]
    ELSE IF Escapes(s, i, quoted) THEN Follows(s[i + 1], g[i + 2][quoted])
    ELSE Follows(s[i], g[i + 1][quoted])

LEMMA WordAtIs ==
    ASSUME NEW C, NEW s \in Seq(C), NEW i \in 1 .. Len(s) + 1, NEW quoted \in Quoting,
           NEW R, R = Reading(C, s),
           NEW g, \A j \in i + 1 .. Len(s) + 1 : g[j] \in [Quoting -> R]
    PROVE  /\ WordAt(s, g, i, quoted) \in R
           /\ \A h : (\A j \in i + 1 .. Len(s) + 1 : h[j] = g[j])
                        => WordAt(s, h, i, quoted) = WordAt(s, g, i, quoted)
           /\ (\A j \in i + 1 .. Len(s) + 1 : \A q \in Quoting : g[j][q].next >= j)
                 => /\ WordAt(s, g, i, quoted).next >= i
                    /\ ~EndsWord(s, i, quoted) => WordAt(s, g, i, quoted).next > i
<1>1. PICK l \in Nat : l = Len(s)
  OBVIOUS
<1>2. "no" \in Quoting /\ \A c \in Quotes : c \in Quoting
  BY DEF Quoting
<1>3. ASSUME NEW c \in C, NEW w \in R
      PROVE  Follows(c, w) \in R /\ Follows(c, w).next = w.next
  <2>1. w.token \in Seq(C) /\ w.next \in 1 .. Len(s) + 1
    BY <1>3 DEF Reading
  <2>2. <<c>> \o w.token \in Seq(C)
    BY <2>1
  <2> QED
    BY <2>1, <2>2 DEF Follows, Reading
<1>4. CASE EndsWord(s, i, quoted)
  <2>1. \A h : WordAt(s, h, i, quoted) = [token |-> << >>, next |-> i]
    BY <1>4 DEF WordAt
  <2>2. [token |-> << >>, next |-> i] \in R
    BY DEF Reading
  <2> QED
    BY <1>4, <2>1, <2>2
<1>5. CASE ~EndsWord(s, i, quoted)
  <2>1. i \in 1 .. l /\ i + 1 \in i + 1 .. Len(s) + 1 /\ s[i] \in C
    BY <1>1, <1>5 DEF EndsWord
  <2>2. Escapes(s, i, quoted) => i + 2 \in i + 1 .. Len(s) + 1 /\ s[i + 1] \in C
    BY <1>1, <2>1 DEF Escapes
  <2>3. CASE s[i] \in Quotes /\ quoted = "no"
    <3>1. \A h : WordAt(s, h, i, quoted) = h[i + 1][s[i]]
      BY <1>5, <2>3 DEF WordAt
    <3>2. g[i + 1] \in [Quoting -> R] /\ s[i] \in Quoting
      BY <1>2, <2>1, <2>3
    <3>3. g[i + 1][s[i]] \in R
      BY <3>2
    <3>4. g[i + 1][s[i]].next \in Nat
      BY <1>1, <3>3 DEF Reading
    <3>5. \A h : h[i + 1] = g[i + 1] => WordAt(s, h, i, quoted) = WordAt(s, g, i, quoted)
      BY <3>1
    <3> QED
      BY <1>5, <2>1, <3>1, <3>2, <3>3, <3>4, <3>5
  <2>4. CASE ~(s[i] \in Quotes /\ quoted = "no") /\ s[i] = quoted
    <3>1. \A h : WordAt(s, h, i, quoted) = h[i + 1]["no"]
      BY <1>5, <2>4 DEF WordAt
    <3>2. g[i + 1] \in [Quoting -> R]
      BY <2>1
    <3>3. g[i + 1]["no"] \in R
      BY <1>2, <3>2
    <3>4. g[i + 1]["no"].next \in Nat
      BY <1>1, <3>3 DEF Reading
    <3>5. \A h : h[i + 1] = g[i + 1] => WordAt(s, h, i, quoted) = WordAt(s, g, i, quoted)
      BY <3>1
    <3> QED
      BY <1>2, <1>5, <2>1, <3>1, <3>2, <3>3, <3>4, <3>5
  <2>5. CASE ~(s[i] \in Quotes /\ quoted = "no") /\ s[i] # quoted /\ Escapes(s, i, quoted)
    <3>1. \A h : WordAt(s, h, i, quoted) = Follows(s[i + 1], h[i + 2][quoted])
      BY <1>5, <2>5 DEF WordAt
    <3>2. g[i + 2] \in [Quoting -> R] /\ s[i + 1] \in C
      BY <2>2, <2>5
    <3>3. g[i + 2][quoted] \in R
      BY <3>2
    <3>4. /\ Follows(s[i + 1], g[i + 2][quoted]) \in R
          /\ Follows(s[i + 1], g[i + 2][quoted]).next = g[i + 2][quoted].next
      BY <1>3, <3>2, <3>3
    <3>5. g[i + 2][quoted].next \in Nat
      BY <1>1, <3>3 DEF Reading
    <3> QED
      BY <1>5, <2>1, <2>2, <2>5, <3>1, <3>4, <3>5
  <2>6. CASE ~(s[i] \in Quotes /\ quoted = "no") /\ s[i] # quoted /\ ~Escapes(s, i, quoted)
    <3>1. \A h : WordAt(s, h, i, quoted) = Follows(s[i], h[i + 1][quoted])
      BY <1>5, <2>6 DEF WordAt
    <3>2. g[i + 1] \in [Quoting -> R]
      BY <2>1
    <3>3. g[i + 1][quoted] \in R
      BY <3>2
    <3>4. /\ Follows(s[i], g[i + 1][quoted]) \in R
          /\ Follows(s[i], g[i + 1][quoted]).next = g[i + 1][quoted].next
      BY <1>3, <2>1, <3>3
    <3>5. g[i + 1][quoted].next \in Nat
      BY <1>1, <3>3 DEF Reading
    <3> QED
      BY <1>5, <2>1, <3>1, <3>4, <3>5
  <2> QED
    BY <2>3, <2>4, <2>5, <2>6
<1> QED
  BY <1>4, <1>5


\* The function that NormalWord() is defined by.
Readings(C, s, g) ==
    /\ \A i \in 1 .. Len(s) + 1 : g[i] \in [Quoting -> Reading(C, s)]
    /\ \A i \in 1 .. Len(s) + 1 : \A q \in Quoting :
          /\ g[i][q] = WordAt(s, g, i, q)
          /\ g[i][q].next >= i
          /\ ~EndsWord(s, i, q) => g[i][q].next > i
    /\ \A i : NormalWord(s, i) = g[i]["no"]

LEMMA NormalWordIs ==
    ASSUME NEW C, NEW s \in Seq(C)
    PROVE  \E g : Readings(C, s, g)
<1>1. PICK L \in Nat : L = Len(s) + 1 /\ 1 \in 1 .. L
  OBVIOUS
<1>2. PICK R : R = Reading(C, s)
  OBVIOUS
<1>3. PICK X : X = [Quoting -> R]
  OBVIOUS
<1>4. PICK x \in X : TRUE
  <2>1. [token |-> << >>, next |-> 1] \in R
    BY <1>1, <1>2 DEF Reading
  <2>2. [q \in Quoting |-> [token |-> << >>, next |-> 1]] \in X
    BY <1>3, <2>1
  <2> QED
    BY <2>2
<1>5. PICK E : E = [i \in 1 .. L |-> [g \in [1 .. L -> X] |->
                      [q \in Quoting |-> WordAt(s, g, i, q)]]]
  OBVIOUS
<1>6. ASSUME NEW i \in 1 .. L, NEW g, \A j \in i + 1 .. L : g[j] \in X
      PROVE  /\ [q \in Quoting |-> WordAt(s, g, i, q)] \in X
             /\ \A h : (\A j \in i + 1 .. L : h[j] = g[j])
                   => \A q \in Quoting : WordAt(s, h, i, q) = WordAt(s, g, i, q)
             /\ (\A j \in i + 1 .. L : \A q \in Quoting : g[j][q].next >= j)
                   => \A q \in Quoting :
                        /\ WordAt(s, g, i, q).next >= i
                        /\ ~EndsWord(s, i, q) => WordAt(s, g, i, q).next > i
  <2>1. i \in 1 .. Len(s) + 1 /\ \A j \in i + 1 .. Len(s) + 1 : g[j] \in [Quoting -> R]
    BY <1>1, <1>3, <1>6
  <2>2. ASSUME NEW q \in Quoting
        PROVE  /\ WordAt(s, g, i, q) \in R
               /\ \A h : (\A j \in i + 1 .. Len(s) + 1 : h[j] = g[j])
                            => WordAt(s, h, i, q) = WordAt(s, g, i, q)
               /\ (\A j \in i + 1 .. Len(s) + 1 : \A p \in Quoting : g[j][p].next >= j)
                     => /\ WordAt(s, g, i, q).next >= i
                        /\ ~EndsWord(s, i, q) => WordAt(s, g, i, q).next > i
    BY <1>2, <2>1, WordAtIs
  <2>3. [q \in Quoting |-> WordAt(s, g, i, q)] \in X
    BY <1>3, <2>2
  <2> QED
    BY <1>1, <2>2, <2>3
<1>7. E \in [1 .. L -> [[1 .. L -> X] -> X]]
  <2>1. ASSUME NEW i \in 1 .. L, NEW g \in [1 .. L -> X]
        PROVE  [q \in Quoting |-> WordAt(s, g, i, q)] \in X
    <3>1. \A j \in i + 1 .. L : g[j] \in X
      OBVIOUS
    <3> QED
      BY <1>6, <3>1
  <2> QED
    BY <1>5, <2>1
<1>8. ASSUME NEW i \in 1 .. L, NEW g \in [1 .. L -> X], NEW h \in [1 .. L -> X],
             \A j \in i + 1 .. L : g[j] = h[j]
      PROVE  E[i][g] = E[i][h]
  <2>1. \A j \in i + 1 .. L : g[j] \in X
    OBVIOUS
  <2>2. \A q \in Quoting : WordAt(s, h, i, q) = WordAt(s, g, i, q)
    BY <1>6, <1>8, <2>1
  <2>3. [q \in Quoting |-> WordAt(s, h, i, q)] = [q \in Quoting |-> WordAt(s, g, i, q)]
    BY <2>2
  <2> QED
    BY <1>5, <2>3
<1>9. PICK f : FoldsBack(f, E, L, X)
  <2>1. LooksAhead(E, L, X)
    BY <1>8 DEF LooksAhead
  <2> QED
    BY <1>4, <1>7, <2>1, BackwardExists
<1>10. f = [i \in 1 .. L |-> [q \in Quoting |-> WordAt(s, f, i, q)]]
  <2>1. \A i \in 1 .. L : f[i] = [q \in Quoting |-> WordAt(s, f, i, q)]
    BY <1>5, <1>9 DEF FoldsBack
  <2>2. f \in [1 .. L -> X]
    BY <1>9 DEF FoldsBack
  <2> QED
    BY <2>1, <2>2
<1>11. PICK g : /\ g = CHOOSE word : word = [i \in 1 .. Len(s) + 1 |->
                         [quoted \in Quotes \cup {"no"} |-> WordAt(s, word, i, quoted)]]
                /\ \A i : NormalWord(s, i) = g[i]["no"]
  BY DEF NormalWord, WordAt, Follows
<1>12. g = [i \in 1 .. L |-> [q \in Quoting |-> WordAt(s, g, i, q)]]
  BY <1>1, <1>10, <1>11 DEF Quoting
<1> DEFINE S == {i \in 1 .. L : g[i] \in X /\ \A q \in Quoting : g[i][q].next >= i}
<1>13. ASSUME NEW i \in 1 .. L, \A j \in i + 1 .. L : j \in S PROVE i \in S
  <2>1. \A j \in i + 1 .. L : g[j] \in X /\ \A q \in Quoting : g[j][q].next >= j
    BY <1>13
  <2>2. g[i] = [q \in Quoting |-> WordAt(s, g, i, q)]
    BY <1>12
  <2>3. g[i] \in X /\ \A q \in Quoting : WordAt(s, g, i, q).next >= i
    BY <1>6, <2>1, <2>2
  <2> QED
    BY <2>2, <2>3
<1> HIDE DEF S
<1>14. \A i \in 1 .. L : i \in S
  BY <1>13, DownFrom
<1>15. \A i \in 1 .. L : g[i] \in X /\ \A q \in Quoting : g[i][q].next >= i
  BY <1>14 DEF S
<1>16. ASSUME NEW i \in 1 .. L, NEW q \in Quoting
       PROVE  g[i][q] = WordAt(s, g, i, q) /\ (~EndsWord(s, i, q) => g[i][q].next > i)
  <2>1. g[i][q] = WordAt(s, g, i, q)
    <3>1. g[i] = [p \in Quoting |-> WordAt(s, g, i, p)]
      BY <1>12
    <3> QED
      BY <1>16, <3>1
  <2>2. \A j \in i + 1 .. L : g[j] \in X /\ \A p \in Quoting : g[j][p].next >= j
    BY <1>15
  <2>3. ~EndsWord(s, i, q) => WordAt(s, g, i, q).next > i
    BY <1>6, <2>2
  <2> QED
    BY <2>1, <2>3
<1>17. \A i : NormalWord(s, i) = g[i]["no"]
  BY <1>11
<1> QED
  BY <1>1, <1>2, <1>3, <1>15, <1>16, <1>17 DEF Readings

-----------------------------------------------------------------------------
(* The lexer: tokens.                                                      *)

\* Where a run of spaces, and a run of digits, ends.
LEMMA SpacesEnd ==
    ASSUME NEW C, NEW s \in Seq(C), NEW i \in 1 .. Len(s) + 1
    PROVE  /\ FirstFailing(s, i, IsShellSpace) \in i .. Len(s) + 1
           /\ ~IsShellSpace(At(s, FirstFailing(s, i, IsShellSpace)))
           /\ \A k \in i .. Len(s) + 1 :
                 (\A j \in i .. k - 1 : IsShellSpace(s[j])) /\ ~IsShellSpace(At(s, k))
                    => FirstFailing(s, i, IsShellSpace) = k
<1>1. PICK L \in Nat : L = Len(s) + 1 /\ i \in 1 .. L
  OBVIOUS
<1>2. PICK S : S = {j \in i .. L : ~IsShellSpace(At(s, j))}
  OBVIOUS
<1>3. S \in SUBSET Int /\ L \in S
  <2>1. At(s, L) = "NUL"
    BY <1>1 DEF At
  <2>2. ~IsShellSpace(At(s, L))
    BY <2>1 DEF IsShellSpace
  <2> QED
    BY <1>1, <1>2, <2>2
<1>4. FirstFailing(s, i, IsShellSpace) = Min(S)
  BY <1>1, <1>2 DEF FirstFailing
<1>5. Min(S) \in S
  <2>1. S \in SUBSET (i .. L) /\ S # {} /\ i \in Nat
    BY <1>1, <1>2, <1>3
  <2> QED
    BY <2>1, MinIn
<1>6. ASSUME NEW k \in i .. L, \A j \in i .. k - 1 : IsShellSpace(s[j]), ~IsShellSpace(At(s, k))
      PROVE  Min(S) = k
  <2>1. \A j \in i .. k - 1 : j <= Len(s) /\ At(s, j) = s[j]
    BY <1>1 DEF At
  <2>2. \A y \in S : k <= y
    BY <1>2, <1>6, <2>1
  <2>3. k \in S
    BY <1>2, <1>6
  <2> QED
    BY <1>3, <2>2, <2>3, MinIs
<1> QED
  BY <1>1, <1>2, <1>4, <1>5, <1>6

LEMMA DigitsEnd ==
    ASSUME NEW C, NEW s \in Seq(C), NEW i \in 1 .. Len(s) + 1
    PROVE  /\ FirstFailing(s, i, IsDigit) \in i .. Len(s) + 1
           /\ ~IsDigit(At(s, FirstFailing(s, i, IsDigit)))
           /\ \A j \in i .. FirstFailing(s, i, IsDigit) - 1 : IsDigit(s[j])
           /\ \A k \in i .. Len(s) + 1 :
                 (\A j \in i .. k - 1 : IsDigit(s[j])) /\ ~IsDigit(At(s, k))
                    => FirstFailing(s, i, IsDigit) = k
<1>1. PICK L \in Nat : L = Len(s) + 1 /\ i \in 1 .. L
  OBVIOUS
<1>2. PICK S : S = {j \in i .. L : ~IsDigit(At(s, j))}
  OBVIOUS
<1>3. S \in SUBSET Int /\ L \in S
  <2>1. At(s, L) = "NUL"
    BY <1>1 DEF At
  <2>2. ~IsDigit(At(s, L))
    BY <2>1 DEF IsDigit
  <2> QED
    BY <1>1, <1>2, <2>2
<1>4. FirstFailing(s, i, IsDigit) = Min(S)
  BY <1>1, <1>2 DEF FirstFailing
<1>5. Min(S) \in S /\ \A y \in S : Min(S) <= y
  <2>1. S \in SUBSET (i .. L) /\ S # {} /\ i \in Nat
    BY <1>1, <1>2, <1>3
  <2> QED
    BY <2>1, MinIn
<1>6. ASSUME NEW k \in i .. L, \A j \in i .. k - 1 : IsDigit(s[j]), ~IsDigit(At(s, k))
      PROVE  Min(S) = k
  <2>1. \A j \in i .. k - 1 : j <= Len(s) /\ At(s, j) = s[j]
    BY <1>1 DEF At
  <2>2. \A y \in S : k <= y
    BY <1>2, <1>6, <2>1
  <2>3. k \in S
    BY <1>2, <1>6
  <2> QED
    BY <1>3, <2>2, <2>3, MinIs
<1>7. ASSUME NEW j \in i .. Min(S) - 1 PROVE IsDigit(s[j])
  <2>1. Min(S) \in i .. L
    BY <1>2, <1>5
  <2>2. j \in i .. L /\ j <= Len(s) /\ j < Min(S)
    BY <1>1, <2>1
  <2>3. j \notin S
    BY <1>5, <2>1, <2>2
  <2> QED
    BY <1>2, <2>2, <2>3 DEF At
<1> QED
  BY <1>1, <1>2, <1>4, <1>5, <1>6, <1>7

\* A token takes at least one character.
LEMMA TokenIs ==
    ASSUME NEW C, NEW s \in Seq(C), NEW i \in 1 .. Len(s), ~IsShellSpace(s[i])
    PROVE  Token(s, i).token \in Seq(C) /\ Token(s, i).next \in i + 1 .. Len(s) + 1
<1>1. PICK L \in Nat : L = Len(s) + 1 /\ i \in 1 .. L /\ i < L
  OBVIOUS
<1>2. PICK j : j = FirstFailing(s, i, IsDigit)
  OBVIOUS
<1>3. j \in i .. L /\ j \in 1 .. L
  <2>1. j \in i .. L
    BY <1>1, <1>2, DigitsEnd
  <2> QED
    BY <1>1, <2>1
<1>4. PICK g : Readings(C, s, g)
  BY NormalWordIs
<1>5. PICK w : w = NormalWord(s, j) /\ w = g[j]["no"]
  BY <1>4 DEF Readings
<1>6. w \in Reading(C, s) /\ w.next >= j /\ (~EndsWord(s, j, "no") => w.next > j)
  <2>1. "no" \in Quoting
    BY DEF Quoting
  <2> QED
    BY <1>1, <1>3, <1>4, <1>5, <2>1 DEF Readings
<1>7. w.token \in Seq(C) /\ w.next \in 1 .. L
  BY <1>1, <1>6 DEF Reading
<1>8. \A k \in 1 .. L : SubSeq(s, i, k - 1) \in Seq(C)
  <2>1. ASSUME NEW k \in 1 .. L PROVE SubSeq(s, i, k - 1) \in Seq(C)
    <3>1. \A m \in i .. k - 1 : s[m] \in C
      BY <1>1
    <3> QED
      BY <1>1, <3>1, SubSeqProperties
  <2> QED
    BY <2>1
<1>9. \A k \in 1 .. L + 2 : At(s, k) # "NUL" => k < L
  BY <1>1 DEF At
<1>10. PICK up : up = [k \in 1 .. L |-> [token |-> SubSeq(s, i, k - 1), next |-> k]]
  OBVIOUS
<1>11. ASSUME NEW k \in i + 1 .. L
       PROVE  up[k].token \in Seq(C) /\ up[k].next \in i + 1 .. L
  <2>1. k \in 1 .. L
    BY <1>1
  <2>2. up[k] = [token |-> SubSeq(s, i, k - 1), next |-> k]
    BY <1>10, <2>1
  <2>3. up[k].token = SubSeq(s, i, k - 1) /\ up[k].next = k
    BY <2>2
  <2>4. SubSeq(s, i, k - 1) \in Seq(C)
    BY <1>8, <2>1
  <2> QED
    BY <2>3, <2>4
<1>12. CASE At(s, j) \in {"<", ">"}
  <2>1. PICK k : k = Redirection(s, j)
    OBVIOUS
  <2>2. j < L /\ j + 1 \in 1 .. L /\ j + 2 \in 1 .. L + 2
    BY <1>1, <1>3, <1>9, <1>12
  <2>3. k \in j + 1 .. L
    <3>1. CASE At(s, j + 1) = ">"
      <4>1. k = j + 2 /\ j + 1 < L
        BY <1>9, <2>1, <2>2, <3>1 DEF Redirection
      <4> QED
        BY <1>1, <1>3, <4>1
    <3>2. CASE At(s, j + 1) # ">" /\ At(s, j + 1) = "&" /\ IsDigit(At(s, j + 2))
      <4>1. At(s, j + 2) # "NUL"
        BY <3>2 DEF IsDigit
      <4>2. j + 2 < L
        BY <1>9, <2>2, <4>1
      <4>3. k = FirstFailing(s, j + 2, IsDigit)
        BY <2>1, <3>2 DEF Redirection
      <4>4. j + 2 \in 1 .. Len(s) + 1
        BY <1>1, <1>3, <4>2
      <4>5. k \in j + 2 .. L
        BY <1>1, <4>3, <4>4, DigitsEnd
      <4> QED
        BY <1>1, <1>3, <4>5
    <3>3. CASE At(s, j + 1) # ">" /\ ~(At(s, j + 1) = "&" /\ IsDigit(At(s, j + 2)))
      <4>1. k = j + 1
        BY <2>1, <3>3 DEF Redirection
      <4> QED
        BY <1>1, <1>3, <2>2, <4>1
    <3> QED
      BY <3>1, <3>2, <3>3
  <2>4. Token(s, i) = [token |-> SubSeq(s, i, k - 1), next |-> k]
    BY <1>2, <1>12, <2>1 DEF Token
  <2>5. k \in i + 1 .. L
    BY <1>1, <1>3, <2>3
  <2>6. Token(s, i) = up[k]
    BY <1>1, <1>10, <2>4, <2>5
  <2> QED
    BY <1>1, <1>11, <2>5, <2>6
<1>13. CASE ~(At(s, j) \in {"<", ">"}) /\ j = i /\ s[i] \in {"&", "|"} /\ At(s, i + 1) = s[i]
  <2>1. At(s, i + 1) # "NUL"
    BY <1>13
  <2>2. i + 1 < L
    BY <1>1, <1>9, <2>1
  <2>3. Token(s, i) = [token |-> SubSeq(s, i, (i + 2) - 1), next |-> i + 2]
    BY <1>2, <1>13 DEF Token
  <2>4. i + 2 \in i + 1 .. L /\ i + 2 \in 1 .. L
    BY <1>1, <2>2
  <2>5. Token(s, i) = up[i + 2]
    BY <1>10, <2>3, <2>4
  <2> QED
    BY <1>1, <1>11, <2>4, <2>5
<1>14. CASE /\ ~(At(s, j) \in {"<", ">"})
            /\ ~(j = i /\ s[i] \in {"&", "|"} /\ At(s, i + 1) = s[i])
            /\ j = i /\ IsShellSpecial(s[i])
  <2>1. Token(s, i) = [token |-> SubSeq(s, i, (i + 1) - 1), next |-> i + 1]
    BY <1>2, <1>14 DEF Token
  <2>2. i + 1 \in i + 1 .. L /\ i + 1 \in 1 .. L
    BY <1>1
  <2>3. Token(s, i) = up[i + 1]
    BY <1>10, <2>1, <2>2
  <2> QED
    BY <1>1, <1>11, <2>2, <2>3
<1>15. CASE /\ ~(At(s, j) \in {"<", ">"})
            /\ ~(j = i /\ s[i] \in {"&", "|"} /\ At(s, i + 1) = s[i])
            /\ ~(j = i /\ IsShellSpecial(s[i]))
  <2>1. Token(s, i) = [token |-> SubSeq(s, i, j - 1) \o w.token, next |-> w.next]
    BY <1>2, <1>5, <1>15 DEF Token
  <2>2. SubSeq(s, i, j - 1) \o w.token \in Seq(C)
    BY <1>3, <1>7, <1>8
  <2>3. w.next > i
    <3>1. CASE j = i
      <4>1. ~EndsWord(s, j, "no")
        BY <1>1, <1>15, <3>1 DEF EndsWord
      <4> QED
        BY <1>6, <3>1, <4>1
    <3>2. CASE j # i
      BY <1>1, <1>3, <1>6, <1>7, <3>2
    <3> QED
      BY <3>1, <3>2
  <2>4. w.next \in i + 1 .. L
    BY <1>1, <1>7, <2>3
  <2> QED
    BY <1>1, <2>1, <2>2, <2>4
<1> QED
  BY <1>12, <1>13, <1>14, <1>15

\* What is read from place i, when t tells what is read from the places after it.
TokensAt(s, t, i) ==
    LET start == FirstFailing(s, i, IsShellSpace)
    IN  IF At(s, start) \in {"NUL", "#"} THEN << >>
        ELSE <<Token(s, start).token>> \o t[Token(s, start).next]

LEMMA TokensAtIs ==
    ASSUME NEW C, NEW s \in Seq(C), NEW L \in Nat, L = Len(s) + 1, NEW i \in 1 .. L,
           NEW t, \A j \in i + 1 .. L : t[j] \in Seq(Seq(C))
    PROVE  /\ TokensAt(s, t, i) \in Seq(Seq(C))
           /\ \A u : (\A j \in i + 1 .. L : t[j] = u[j]) => TokensAt(s, u, i) = TokensAt(s, t, i)
<1>1. PICK k : k = FirstFailing(s, i, IsShellSpace)
  OBVIOUS
<1>2. k \in i .. L /\ ~IsShellSpace(At(s, k))
  BY <1>1, SpacesEnd
<1>3. CASE At(s, k) \in {"NUL", "#"}
  <2>1. \A u : TokensAt(s, u, i) = << >>
    BY <1>1, <1>3 DEF TokensAt
  <2>2. << >> \in Seq(Seq(C))
    OBVIOUS
  <2> QED
    BY <2>1, <2>2
<1>4. CASE At(s, k) \notin {"NUL", "#"}
  <2>1. \A u : TokensAt(s, u, i) = <<Token(s, k).token>> \o u[Token(s, k).next]
    BY <1>1, <1>4 DEF TokensAt
  <2>2. k \in 1 .. Len(s) /\ At(s, k) = s[k]
    BY <1>2, <1>4 DEF At
  <2>3. PICK x \in Seq(C), n \in k + 1 .. L : x = Token(s, k).token /\ n = Token(s, k).next
    BY <1>2, <2>2, TokenIs
  <2>4. n \in i + 1 .. L
    BY <1>2, <2>3
  <2>5. <<x>> \o t[n] \in Seq(Seq(C))
    <3>1. t[n] \in Seq(Seq(C))
      BY <2>4
    <3>2. <<x>> \in Seq(Seq(C))
      OBVIOUS
    <3> QED
      BY <3>1, <3>2
  <2> QED
    BY <2>1, <2>3, <2>4, <2>5
<1> QED
  BY <1>3, <1>4

LEMMA TokensAre ==
    ASSUME NEW C, NEW s \in Seq(C)
    PROVE  \E t : /\ \A i \in 1 .. Len(s) + 1 :
                        t[i] \in Seq(Seq(C)) /\ t[i] = TokensAt(s, t, i)
                  /\ Tokens(s) = t[1]
<1>1. PICK L \in Nat : L = Len(s) + 1 /\ 1 \in 1 .. L
  OBVIOUS
<1>2. PICK X : X = Seq(Seq(C))
  OBVIOUS
<1>3. PICK x \in X : TRUE
  <2>1. << >> \in Seq(Seq(C))
    OBVIOUS
  <2> QED
    BY <1>2, <2>1
<1>4. PICK E : E = [i \in 1 .. L |-> [t \in [1 .. L -> X] |-> TokensAt(s, t, i)]]
  OBVIOUS
<1>5. ASSUME NEW i \in 1 .. L, NEW t, \A j \in i + 1 .. L : t[j] \in X
      PROVE  /\ TokensAt(s, t, i) \in X
             /\ \A u : (\A j \in i + 1 .. L : t[j] = u[j]) => TokensAt(s, u, i) = TokensAt(s, t, i)
  <2>1. \A j \in i + 1 .. L : t[j] \in Seq(Seq(C))
    BY <1>2, <1>5
  <2>2. /\ TokensAt(s, t, i) \in Seq(Seq(C))
        /\ \A u : (\A j \in i + 1 .. L : t[j] = u[j]) => TokensAt(s, u, i) = TokensAt(s, t, i)
    BY <1>1, <2>1, TokensAtIs
  <2> QED
    BY <1>2, <2>2
<1>6. ASSUME NEW i \in 1 .. L, NEW t \in [1 .. L -> X] PROVE TokensAt(s, t, i) \in X
  <2>1. \A j \in i + 1 .. L : t[j] \in X
    OBVIOUS
  <2> QED
    BY <1>5, <2>1
<1>7. E \in [1 .. L -> [[1 .. L -> X] -> X]]
  BY <1>4, <1>6
<1>8. LooksAhead(E, L, X)
  <2>1. ASSUME NEW i \in 1 .. L, NEW t \in [1 .. L -> X], NEW u \in [1 .. L -> X],
               \A j \in i + 1 .. L : t[j] = u[j]
        PROVE  E[i][t] = E[i][u]
    <3>1. \A j \in i + 1 .. L : t[j] \in X
      OBVIOUS
    <3>2. TokensAt(s, u, i) = TokensAt(s, t, i)
      BY <1>5, <2>1, <3>1
    <3> QED
      BY <1>4, <3>2
  <2> QED
    BY <2>1 DEF LooksAhead
<1>9. PICK f : FoldsBack(f, E, L, X)
  BY <1>3, <1>7, <1>8, BackwardExists
<1>10. f = [i \in 1 .. L |-> TokensAt(s, f, i)]
  <2>1. \A i \in 1 .. L : f[i] = TokensAt(s, f, i)
    BY <1>4, <1>9 DEF FoldsBack
  <2>2. f \in [1 .. L -> X]
    BY <1>9 DEF FoldsBack
  <2> QED
    BY <2>1, <2>2
<1>11. PICK t : /\ t = CHOOSE tokens : tokens = [i \in 1 .. Len(s) + 1 |-> TokensAt(s, tokens, i)]
                /\ Tokens(s) = t[1]
  BY DEF Tokens, TokensAt
<1>12. t = [i \in 1 .. L |-> TokensAt(s, t, i)]
  BY <1>1, <1>10, <1>11
<1> DEFINE S == {i \in 1 .. L : t[i] \in X}
<1>13. ASSUME NEW i \in 1 .. L, \A j \in i + 1 .. L : j \in S PROVE i \in S
  <2>1. \A j \in i + 1 .. L : t[j] \in X
    BY <1>13
  <2>2. TokensAt(s, t, i) \in X
    BY <1>5, <2>1
  <2>3. t[i] = TokensAt(s, t, i)
    BY <1>12
  <2> QED
    BY <2>2, <2>3
<1> HIDE DEF S
<1>14. \A i \in 1 .. L : i \in S
  BY <1>13, DownFrom
<1>15. \A i \in 1 .. L : t[i] \in X /\ t[i] = TokensAt(s, t, i)
  BY <1>12, <1>14 DEF S
<1> QED
  BY <1>1, <1>2, <1>11, <1>15

-----------------------------------------------------------------------------
(* How a line is written. The places p and q are those of its first character *)
(* and of the first one after it.                                             *)

DoubleQuote == "\""

\* A part in quotes c that stands for the characters t: each of them is there as
\* it is or, between double quotes, after a backslash. The marks are the places of
\* the characters, or of their backslashes.
InQuotes(s, p, q, c, t) ==
    /\ s[p] = c /\ s[q - 1] = c
    /\ \E mark \in [0 .. Len(t) -> p + 1 .. q - 1] :
          /\ mark[0] = p + 1 /\ mark[Len(t)] = q - 1
          /\ \A k \in 1 .. Len(t) :
                \/ /\ s[mark[k - 1]] = t[k] /\ t[k] # c /\ (c = DoubleQuote => t[k] # "\\")
                   /\ mark[k] = mark[k - 1] + 1
                \/ /\ c = DoubleQuote /\ s[mark[k - 1]] = "\\" /\ s[mark[k - 1] + 1] = t[k]
                   /\ mark[k] = mark[k - 1] + 2

\* A part of a word: a character that means nothing else, any character after a
\* backslash, or characters in quotes.
PartOf(s, p, q, t) ==
    \/ /\ q = p + 1 /\ t = <<s[p]>>
       /\ ~IsShellSpace(s[p]) /\ ~IsShellSpecial(s[p]) /\ s[p] \notin Quotes \cup {"\\"}
    \/ q = p + 2 /\ s[p] = "\\" /\ t = <<s[p + 1]>>
    \/ \E c \in Quotes : InQuotes(s, p, q, c, t)

\* A word w is parts put together, up to a space or a character that means
\* something else; digits before a redirection are not a word.
AsWord(s, p, q, w) ==
    /\ \E n \in Nat \ {0} : \E mark \in [0 .. n -> p .. q] : \E so \in [0 .. n -> Chars] :
          /\ mark[0] = p /\ mark[n] = q /\ so[0] = << >> /\ so[n] = w
          /\ \A k \in 1 .. n :
                /\ mark[k - 1] < mark[k]
                /\ \E t \in Chars : PartOf(s, mark[k - 1], mark[k], t) /\ so[k] = so[k - 1] \o t
    /\ EndsWord(s, q, "no")
    /\ At(s, q) \in {"<", ">"} => \E j \in p .. q - 1 : ~IsDigit(s[j])

\* An operator is as long as it can be.
AsOperator(s, p, q) ==
    \/ q = p + 1 /\ s[p] \in {";", "(", ")"}
    \/ q = p + 1 /\ s[p] \in {"&", "|"} /\ At(s, p + 1) # s[p]
    \/ q = p + 2 /\ s[p] \in {"&", "|"} /\ At(s, p + 1) = s[p]

\* A redirection, with the digits before it: < and > alone, <> and >>, or >& and digits.
AsRedirection(s, p, q) ==
    \E j \in p .. q - 1 :
        /\ \A k \in p .. j - 1 : IsDigit(s[k])
        /\ s[j] \in {"<", ">"}
        /\ \/ /\ q = j + 1 /\ At(s, j + 1) # ">"
              /\ ~(At(s, j + 1) = "&" /\ IsDigit(At(s, j + 2)))
           \/ q = j + 2 /\ At(s, j + 1) = ">"
           \/ /\ q > j + 2 /\ At(s, j + 1) = "&" /\ ~IsDigit(At(s, q))
              /\ \A k \in j + 2 .. q - 1 : IsDigit(s[k])

AsToken(s, p, q, w) ==
    \/ AsWord(s, p, q, w)
    \/ (AsOperator(s, p, q) \/ AsRedirection(s, p, q)) /\ w = SubSeq(s, p, q - 1)

\* A line of these words: tokens with spaces around them, up to the end of the
\* line or a comment.
LaidOut(s, words) ==
    \E from \in [1 .. Len(words) + 1 -> 1 .. Len(s) + 1] :
    \E to \in [0 .. Len(words) -> 1 .. Len(s) + 1] :
        /\ to[0] = 1
        /\ \A k \in 1 .. Len(words) + 1 :
              to[k - 1] <= from[k] /\ \A j \in to[k - 1] .. from[k] - 1 : IsShellSpace(s[j])
        /\ \A k \in 1 .. Len(words) :
              from[k] < to[k] /\ AsToken(s, from[k], to[k], words[k])
        /\ At(s, from[Len(words) + 1]) \in {"NUL", "#"}

-----------------------------------------------------------------------------
(* The lexer finds the words a line is written with.                          *)

\* One character of a word, as NormalWord() reads it: a quote opens or closes a
\* quoted part, a backslash protects the character after it.
LEMMA QuoteOpens ==
    ASSUME NEW C, NEW s \in Seq(C), NEW g, Readings(C, s, g),
           NEW i \in 1 .. Len(s), ~EndsWord(s, i, "no"), s[i] \in Quotes
    PROVE  g[i]["no"] = g[i + 1][s[i]]
<1>1. i \in 1 .. Len(s) + 1 /\ "no" \in Quoting
  BY DEF Quoting
<1>2. g[i]["no"] = WordAt(s, g, i, "no")
  BY <1>1 DEF Readings
<1> QED
  BY <1>2 DEF WordAt

LEMMA QuoteCloses ==
    ASSUME NEW C, NEW s \in Seq(C), NEW g, Readings(C, s, g)
    PROVE  \A i \in 1 .. Len(s) : \A c \in Quotes :
              s[i] = c /\ ~EndsWord(s, i, c) => g[i][c] = g[i + 1]["no"]
<1>0. SUFFICES ASSUME NEW i \in 1 .. Len(s), NEW c \in Quotes, s[i] = c, ~EndsWord(s, i, c)
               PROVE  g[i][c] = g[i + 1]["no"]
  OBVIOUS
<1>1. i \in 1 .. Len(s) + 1 /\ c \in Quoting
  BY DEF Quoting
<1>2. g[i][c] = WordAt(s, g, i, c)
  BY <1>1 DEF Readings
<1>3. c # "no"
  BY Zenon DEF Quotes
<1> QED
  BY <1>0, <1>2, <1>3 DEF WordAt

\* From place i to place j, quoted alike, the character x is read.
Reads(g, i, quoted, x, j) ==
    /\ g[i][quoted].token = <<x>> \o g[j][quoted].token
    /\ g[i][quoted].next = g[j][quoted].next

LEMMA BackslashProtects ==
    ASSUME NEW C, NEW s \in Seq(C), NEW g, Readings(C, s, g)
    PROVE  \A i \in 1 .. Len(s) : \A quoted \in Quoting :
              /\ ~EndsWord(s, i, quoted)
              /\ Escapes(s, i, quoted)
              => Reads(g, i, quoted, s[i + 1], i + 2)
<1>0. SUFFICES ASSUME NEW i \in 1 .. Len(s), NEW quoted \in Quoting, ~EndsWord(s, i, quoted),
                      Escapes(s, i, quoted)
               PROVE  Reads(g, i, quoted, s[i + 1], i + 2)
  OBVIOUS
<1>1. i \in 1 .. Len(s) + 1
  OBVIOUS
<1>2. g[i][quoted] = WordAt(s, g, i, quoted)
  BY <1>1 DEF Readings
<1>3. s[i] \notin Quotes /\ s[i] # quoted
  BY Zenon, <1>0 DEF Quotes, Quoting, Escapes
<1>4. g[i][quoted] = Follows(s[i + 1], g[i + 2][quoted])
  BY <1>0, <1>2, <1>3 DEF WordAt
<1>5. PICK y : y = <<s[i + 1]>> \o g[i + 2][quoted].token
  OBVIOUS
<1>6. PICK n : n = g[i + 2][quoted].next
  OBVIOUS
<1>7. g[i][quoted] = [token |-> y, next |-> n]
  BY Zenon, <1>4, <1>5, <1>6 DEF Follows
<1>8. g[i][quoted].token = y /\ g[i][quoted].next = n
  BY <1>7
<1> QED
  BY Zenon, <1>5, <1>6, <1>8 DEF Reads

LEMMA CharacterStands ==
    ASSUME NEW C, NEW s \in Seq(C), NEW g, Readings(C, s, g)
    PROVE  \A i \in 1 .. Len(s) : \A quoted \in Quoting :
              /\ ~EndsWord(s, i, quoted)
              /\ s[i] # quoted /\ ~(s[i] \in Quotes /\ quoted = "no") /\ ~Escapes(s, i, quoted)
              => Reads(g, i, quoted, s[i], i + 1)
<1>0. SUFFICES ASSUME NEW i \in 1 .. Len(s), NEW quoted \in Quoting, ~EndsWord(s, i, quoted),
                      s[i] # quoted /\ ~(s[i] \in Quotes /\ quoted = "no") /\ ~Escapes(s, i, quoted)
               PROVE  Reads(g, i, quoted, s[i], i + 1)
  OBVIOUS
<1>1. i \in 1 .. Len(s) + 1
  OBVIOUS
<1>2. g[i][quoted] = WordAt(s, g, i, quoted)
  BY <1>1 DEF Readings
<1>3. g[i][quoted] = Follows(s[i], g[i + 1][quoted])
  BY <1>0, <1>2 DEF WordAt
<1> QED
  BY <1>3 DEF Follows, Reads

LEMMA QuotesAre ==
    /\ "no" \in Quoting
    /\ \A c \in Quotes : c \in Quoting /\ c # "no" /\ c # "\\"
  BY Zenon DEF Quotes, Quoting

LEMMA QuotesBelong ==
    \A c \in Quotes : ~IsShellSpace(c) /\ ~IsShellSpecial(c) /\ ~IsDigit(c)
  BY Zenon DEF Quotes, IsShellSpace, IsShellSpecial, IsDigit

LEMMA DoubleQuoteIs ==
    DoubleQuote # "'" /\ \A c \in Quotes : c # DoubleQuote => c = "'"
  BY Zenon DEF Quotes, DoubleQuote


LEMMA NothingFirst == \A C : \A x \in Seq(C) : << >> \o x = x
  BY ConcatEmptySeq

\* What is read is put together from its parts, the last first.
Along(C, n, so, f) ==
    /\ so \in [0 .. n -> Seq(C)] /\ f \in [0 .. n -> Seq(C)] /\ so[0] = << >>
    /\ \A k \in 1 .. n : \E t \in Seq(C) : so[k] = so[k - 1] \o t /\ f[k - 1] = t \o f[k]

ReadJoined(n, so, f) == f[0] = so[n] \o f[n]

LEMMA ReadAlong ==
    \A C : \A n \in Nat : \A so, f : Along(C, n, so, f) => ReadJoined(n, so, f)
<1>0. SUFFICES ASSUME NEW C, NEW n \in Nat, NEW so, NEW f, Along(C, n, so, f)
               PROVE  f[0] = so[n] \o f[n]
  BY DEF ReadJoined
<1> DEFINE S == {k \in 0 .. n : f[0] = so[k] \o f[k]}
<1>1. 0 \in S
  <2>1. f[0] \in Seq(C)
    BY <1>0 DEF Along
  <2>2. f[0] = << >> \o f[0]
    BY <2>1, NothingFirst
  <2>3. so[0] = << >>
    BY <1>0 DEF Along
  <2>4. 0 \in 0 .. n /\ f[0] = so[0] \o f[0]
    BY <2>2, <2>3
  <2> QED
    BY <2>4
<1>2. ASSUME NEW k \in 0 .. n - 1, k \in S PROVE k + 1 \in S
  <2>1. PICK m \in 1 .. n : m = k + 1 /\ m - 1 = k /\ m \in 0 .. n
    OBVIOUS
  <2>2. PICK t \in Seq(C) : so[m] = so[k] \o t /\ f[k] = t \o f[m]
    BY <1>0, <2>1 DEF Along
  <2>3. PICK x \in Seq(C), y \in Seq(C) : x = so[k] /\ y = f[m]
    <3>1. so \in [0 .. n -> Seq(C)] /\ f \in [0 .. n -> Seq(C)]
      BY <1>0 DEF Along
    <3>2. so[k] \in Seq(C) /\ f[m] \in Seq(C)
      BY <2>1, <3>1
    <3> QED
      BY <3>2
  <2>4. f[0] = x \o (t \o y)
    BY <1>2, <2>2, <2>3
  <2>5. x \o (t \o y) = (x \o t) \o y
    BY Regrouped
  <2> QED
    BY <2>1, <2>2, <2>3, <2>4, <2>5
<1> HIDE DEF S
<1>3. \A k \in 0 .. n : k \in S
  BY <1>1, <1>2, UpTo
<1>4. n \in S
  BY <1>3
<1> QED
  BY <1>4 DEF S

LEMMA Beginnings ==
    ASSUME NEW C, NEW t \in Seq(C), NEW n \in Nat, n = Len(t)
    PROVE  /\ [k \in 0 .. n |-> SubSeq(t, 1, k)] \in [0 .. n -> Seq(C)]
           /\ SubSeq(t, 1, 0) = << >> /\ SubSeq(t, 1, n) = t
           /\ \A k \in 1 .. n : SubSeq(t, 1, k) = SubSeq(t, 1, k - 1) \o <<t[k]>>
<1>1. ASSUME NEW k \in 0 .. n PROVE SubSeq(t, 1, k) \in Seq(C)
  <2>1. \A i \in 1 .. k : t[i] \in C
    OBVIOUS
  <2> QED
    BY <2>1, SubSeqProperties
<1>2. ASSUME NEW k \in 1 .. n PROVE SubSeq(t, 1, k) = SubSeq(t, 1, k - 1) \o <<t[k]>>
  <2>1. k \in 1 .. Len(t) /\ 1 \in 1 .. Len(t)
    OBVIOUS
  <2> QED
    BY <2>1, SubSeqRecursiveSecond
<1>3. SubSeq(t, 1, 0) = << >>
  BY SubSeqEmpty
<1>4. SubSeq(t, 1, n) = t
  BY SubSeqFull
<1> QED
  BY <1>1, <1>2, <1>3, <1>4

\* From p to q the characters t are read.
ReadAs(g, p, q, t) ==
    g[p]["no"].token = t \o g[q]["no"].token /\ g[p]["no"].next = g[q]["no"].next

\* A part in quotes is read as what it stands for.
LEMMA QuotesRead ==
    ASSUME NEW C, NEW s \in Seq(C), NEW g, Readings(C, s, g), "no" \notin C,
           NEW p \in 1 .. Len(s), NEW q \in 1 .. Len(s) + 1, p < q,
           NEW c \in Quotes, NEW t \in Seq(C), InQuotes(s, p, q, c, t)
    PROVE  ReadAs(g, p, q, t)
<1>1. PICK L \in Nat : L = Len(s) + 1 /\ \A i \in 1 .. L : i < L => i \in 1 .. Len(s)
  OBVIOUS
<1>2. s[p] = c /\ s[q - 1] = c
  BY DEF InQuotes
<1>3. c \in Quoting /\ c # "no" /\ \A i \in 1 .. Len(s) : ~EndsWord(s, i, c)
  <2>1. c \in Quoting /\ c # "no"
    BY QuotesAre
  <2> QED
    BY <1>1, <2>1 DEF EndsWord
<1>4. \A i \in 1 .. Len(s) : s[i] # c /\ ~Escapes(s, i, c) => Reads(g, i, c, s[i], i + 1)
  BY <1>3, CharacterStands
<1>5. \A i \in 1 .. Len(s) : Escapes(s, i, c) => Reads(g, i, c, s[i + 1], i + 2)
  BY <1>3, BackslashProtects
<1>6. \A i \in 1 .. Len(s) : s[i] = c => g[i][c] = g[i + 1]["no"]
  BY <1>3, QuoteCloses
<1>7. g[p]["no"] = g[p + 1][c]
  <2>1. ~EndsWord(s, p, "no")
    BY <1>1, <1>2, QuotesBelong DEF EndsWord
  <2> QED
    BY <1>2, <2>1, QuoteOpens
<1>8. g[q - 1][c] = g[q]["no"]
  <2>1. PICK i \in 1 .. Len(s) : i = q - 1 /\ i + 1 = q
    BY <1>1
  <2>2. g[i][c] = g[i + 1]["no"]
    BY <1>2, <1>6, <2>1
  <2> QED
    BY <2>1, <2>2
<1>9. \A i \in 1 .. L : g[i][c] \in Reading(C, s)
  BY <1>1, <1>3 DEF Readings
<1>10. PICK n \in Nat : n = Len(t)
  OBVIOUS
<1>11. PICK mark \in [0 .. n -> p + 1 .. q - 1] :
         /\ mark[0] = p + 1 /\ mark[n] = q - 1
         /\ \A k \in 1 .. n :
               \/ /\ s[mark[k - 1]] = t[k] /\ t[k] # c /\ (c = DoubleQuote => t[k] # "\\")
                  /\ mark[k] = mark[k - 1] + 1
               \/ /\ c = DoubleQuote /\ s[mark[k - 1]] = "\\" /\ s[mark[k - 1] + 1] = t[k]
                  /\ mark[k] = mark[k - 1] + 2
  BY <1>10 DEF InQuotes
<1>12. ASSUME NEW k \in 1 .. n
       PROVE  /\ t[k] \in C /\ g[mark[k - 1]][c].token = <<t[k]>> \o g[mark[k]][c].token
              /\ g[mark[k - 1]][c].next = g[mark[k]][c].next
  <2>1. PICK i \in 1 .. Len(s) : i = mark[k - 1]
    BY <1>1, <1>11
  <2>2. mark[k] \in p + 1 .. q - 1 /\ t[k] \in C
    BY <1>10, <1>11
  <2>3. CASE s[i] = t[k] /\ t[k] # c /\ (c = DoubleQuote => t[k] # "\\") /\ mark[k] = i + 1
    <3>1. ~Escapes(s, i, c)
      BY <2>3, DoubleQuoteIs DEF Escapes
    <3>2. Reads(g, i, c, t[k], mark[k])
      BY <1>4, <2>3, <3>1
    <3> QED
      BY <2>1, <2>2, <3>2 DEF Reads
  <2>4. CASE c = DoubleQuote /\ s[i] = "\\" /\ s[i + 1] = t[k] /\ mark[k] = i + 2
    <3>1. i < Len(s)
      BY <1>1, <2>2, <2>4
    <3>2. Escapes(s, i, c)
      BY <2>4, <3>1, DoubleQuoteIs DEF Escapes
    <3>3. Reads(g, i, c, t[k], mark[k])
      BY <1>5, <2>4, <3>2
    <3> QED
      BY <2>1, <2>2, <3>3 DEF Reads
  <2> QED
    BY <1>11, <2>1, <2>3, <2>4
<1>13. \A k \in 0 .. n : g[mark[k]][c].token \in Seq(C)
  <2>1. ASSUME NEW k \in 0 .. n PROVE g[mark[k]][c].token \in Seq(C)
    <3>1. mark[k] \in 1 .. L
      BY <1>1, <1>11
    <3> QED
      BY <1>9, <3>1 DEF Reading
  <2> QED
    BY <2>1
<1>14. PICK f : f = [k \in 0 .. n |-> g[mark[k]][c].token]
  OBVIOUS
<1>15. PICK so : so = [k \in 0 .. n |-> SubSeq(t, 1, k)]
  OBVIOUS
<1>16. f \in [0 .. n -> Seq(C)] /\ so \in [0 .. n -> Seq(C)] /\ so[0] = << >> /\ so[n] = t
  <2>1. f \in [0 .. n -> Seq(C)]
    BY <1>13, <1>14
  <2>2. so \in [0 .. n -> Seq(C)]
    BY <1>10, <1>15, Beginnings
  <2>3. so[0] = << >> /\ so[n] = t
    BY <1>10, <1>15, Beginnings
  <2> QED
    BY <2>1, <2>2, <2>3
<1>17. ASSUME NEW k \in 1 .. n
       PROVE  \E u \in Seq(C) : so[k] = so[k - 1] \o u /\ f[k - 1] = u \o f[k]
  <2>1. <<t[k]>> \in Seq(C)
    BY <1>10
  <2>2. k \in 0 .. n /\ k - 1 \in 0 .. n
    OBVIOUS
  <2>3. so[k] = SubSeq(t, 1, k) /\ so[k - 1] = SubSeq(t, 1, k - 1)
    BY <1>15, <2>2
  <2>4. SubSeq(t, 1, k) = SubSeq(t, 1, k - 1) \o <<t[k]>>
    BY <1>10, Beginnings
  <2>5. f[k] = g[mark[k]][c].token /\ f[k - 1] = g[mark[k - 1]][c].token
    BY <1>14, <2>2
  <2> QED
    BY <1>12, <2>1, <2>3, <2>4, <2>5
<1>18. f[0] = t \o f[n]
  <2>1. Along(C, n, so, f)
    BY <1>16, <1>17 DEF Along
  <2>2. ReadJoined(n, so, f)
    BY <2>1, ReadAlong
  <2>3. so[n] = t
    BY <1>16
  <2> QED
    BY <2>2, <2>3 DEF ReadJoined
<1> DEFINE S == {k \in 0 .. n : g[mark[0]][c].next = g[mark[k]][c].next}
<1>19. 0 \in S
  OBVIOUS
<1>20. ASSUME NEW k \in 0 .. n - 1, k \in S PROVE k + 1 \in S
  <2>1. PICK m \in 1 .. n : m = k + 1 /\ m - 1 = k /\ m \in 0 .. n
    OBVIOUS
  <2>2. g[mark[k]][c].next = g[mark[m]][c].next
    BY <1>12, <2>1
  <2> QED
    BY <1>20, <2>1, <2>2
<1> HIDE DEF S
<1>21. \A k \in 0 .. n : k \in S
  BY <1>19, <1>20, UpTo
<1>22. g[mark[0]][c].next = g[mark[n]][c].next
  BY <1>21 DEF S
<1>23. f[0] = g[p]["no"].token /\ f[n] = g[q]["no"].token
  <2>1. 0 \in 0 .. n /\ n \in 0 .. n
    OBVIOUS
  <2>2. f[0] = g[mark[0]][c].token /\ f[n] = g[mark[n]][c].token
    BY <1>14, <2>1
  <2> QED
    BY <1>7, <1>8, <1>11, <2>2
<1>24. g[p]["no"].next = g[q]["no"].next
  BY <1>7, <1>8, <1>11, <1>22
<1> QED
  BY <1>18, <1>23, <1>24 DEF ReadAs

\* So is each part of a word.
LEMMA PartRead ==
    ASSUME NEW C, NEW s \in Seq(C), NEW g, Readings(C, s, g), "no" \notin C,
           NEW p \in 1 .. Len(s), NEW q \in 1 .. Len(s) + 1, p < q,
           NEW t \in Seq(C), PartOf(s, p, q, t)
    PROVE  ReadAs(g, p, q, t) /\ ~IsShellSpace(s[p]) /\ ~IsShellSpecial(s[p])
<1>1. CASE /\ q = p + 1 /\ t = <<s[p]>>
           /\ ~IsShellSpace(s[p]) /\ ~IsShellSpecial(s[p]) /\ s[p] \notin Quotes \cup {"\\"}
  <2>1. ~EndsWord(s, p, "no") /\ ~Escapes(s, p, "no") /\ s[p] # "no"
    BY <1>1 DEF EndsWord, Escapes
  <2>2. "no" \in Quoting /\ s[p] \notin Quotes
    BY <1>1, QuotesAre
  <2>3. Reads(g, p, "no", s[p], p + 1)
    BY <2>1, <2>2, CharacterStands
  <2> QED
    BY <1>1, <2>3 DEF ReadAs, Reads
<1>2. CASE q = p + 2 /\ s[p] = "\\" /\ t = <<s[p + 1]>>
  <2>1. ~IsShellSpace(s[p]) /\ ~IsShellSpecial(s[p])
    BY Zenon, <1>2 DEF IsShellSpace, IsShellSpecial
  <2>2. p < Len(s)
    BY <1>2
  <2>3. Escapes(s, p, "no") /\ ~EndsWord(s, p, "no")
    BY <1>2, <2>1, <2>2 DEF EndsWord, Escapes
  <2>4. "no" \in Quoting
    BY QuotesAre
  <2>5. Reads(g, p, "no", s[p + 1], p + 2)
    BY <2>3, <2>4, BackslashProtects
  <2> QED
    BY <1>2, <2>1, <2>5 DEF ReadAs, Reads
<1>3. ASSUME NEW c \in Quotes, InQuotes(s, p, q, c, t)
      PROVE  ReadAs(g, p, q, t) /\ ~IsShellSpace(s[p]) /\ ~IsShellSpecial(s[p])
  <2>1. ReadAs(g, p, q, t)
    BY <1>3, QuotesRead
  <2>2. s[p] = c
    BY <1>3 DEF InQuotes
  <2> QED
    BY <2>1, <2>2, QuotesBelong
<1> QED
  BY <1>1, <1>2, <1>3 DEF PartOf

LEMMA AlphabetIs ==
    "no" \notin Alphabet /\ "NUL" \notin Alphabet
  BY ShellAssumption DEF Alphabet

\* A word is read as what it stands for, and to its end.
LEMMA WordRead ==
    ASSUME NEW s \in Chars, NEW g, Readings(Alphabet, s, g),
           NEW p \in 1 .. Len(s), NEW q \in 1 .. Len(s) + 1, NEW w, AsWord(s, p, q, w)
    PROVE  /\ g[p]["no"].token = w /\ g[p]["no"].next = q
           /\ ~IsShellSpace(s[p]) /\ ~IsShellSpecial(s[p])
<1>1. PICK n \in Nat \ {0} : \E mark \in [0 .. n -> p .. q] : \E so \in [0 .. n -> Chars] :
         /\ mark[0] = p /\ mark[n] = q /\ so[0] = << >> /\ so[n] = w
         /\ \A k \in 1 .. n :
               /\ mark[k - 1] < mark[k]
               /\ \E t \in Chars : PartOf(s, mark[k - 1], mark[k], t) /\ so[k] = so[k - 1] \o t
  BY DEF AsWord
<1>2. PICK mark \in [0 .. n -> p .. q], so \in [0 .. n -> Chars] :
         /\ mark[0] = p /\ mark[n] = q /\ so[0] = << >> /\ so[n] = w
         /\ \A k \in 1 .. n :
               /\ mark[k - 1] < mark[k]
               /\ \E t \in Chars : PartOf(s, mark[k - 1], mark[k], t) /\ so[k] = so[k - 1] \o t
  BY <1>1
<1>3. PICK L \in Nat : L = Len(s) + 1 /\ p \in 1 .. L /\ q \in 1 .. L
  BY DEF Chars
<1>4. ASSUME NEW k \in 1 .. n
      PROVE  /\ mark[k - 1] \in 1 .. Len(s) /\ mark[k] \in 1 .. Len(s) + 1 /\ mark[k - 1] < mark[k]
             /\ k - 1 \in 0 .. n /\ k \in 0 .. n
  <2>1. k - 1 \in 0 .. n /\ k \in 0 .. n
    OBVIOUS
  <2>2. mark[k - 1] \in p .. q /\ mark[k] \in p .. q /\ mark[k - 1] < mark[k]
    BY <1>2, <2>1
  <2>3. mark[k] \in 1 .. L /\ mark[k - 1] \in 1 .. L /\ mark[k - 1] < L
    BY <1>3, <2>2
  <2> QED
    BY <1>3, <2>1, <2>2, <2>3
<1>5. ASSUME NEW k \in 1 .. n, NEW t \in Chars, PartOf(s, mark[k - 1], mark[k], t)
      PROVE  /\ ReadAs(g, mark[k - 1], mark[k], t)
             /\ ~IsShellSpace(s[mark[k - 1]]) /\ ~IsShellSpecial(s[mark[k - 1]])
  <2>1. PICK a \in 1 .. Len(s), b \in 1 .. Len(s) + 1 : a = mark[k - 1] /\ b = mark[k] /\ a < b
    BY <1>4
  <2>2. s \in Seq(Alphabet) /\ t \in Seq(Alphabet) /\ PartOf(s, a, b, t)
    BY <1>5, <2>1 DEF Chars
  <2>3. ReadAs(g, a, b, t) /\ ~IsShellSpace(s[a]) /\ ~IsShellSpecial(s[a])
    BY <2>1, <2>2, PartRead, AlphabetIs
  <2> QED
    BY <2>1, <2>3
<1>6. ~IsShellSpace(s[p]) /\ ~IsShellSpecial(s[p])
  <2>1. 1 \in 1 .. n /\ 1 - 1 = 0
    OBVIOUS
  <2>2. PICK t \in Chars : PartOf(s, mark[0], mark[1], t)
    BY <1>2, <2>1
  <2> QED
    BY <1>2, <1>5, <2>1, <2>2
<1>7. \A i \in 1 .. L : g[i]["no"] \in Reading(Alphabet, s)
  <2>1. "no" \in Quoting
    BY QuotesAre
  <2> QED
    BY <1>3, <2>1 DEF Readings
<1>8. PICK f : f = [k \in 0 .. n |-> g[mark[k]]["no"].token]
  OBVIOUS
<1>9. \A k \in 0 .. n : mark[k] \in 1 .. L
  BY <1>3
<1>10. f \in [0 .. n -> Seq(Alphabet)]
  <2>1. \A k \in 0 .. n : g[mark[k]]["no"].token \in Seq(Alphabet)
    BY <1>7, <1>9 DEF Reading
  <2> QED
    BY <1>8, <2>1
<1>11. ASSUME NEW k \in 1 .. n
       PROVE  \E t \in Seq(Alphabet) : so[k] = so[k - 1] \o t /\ f[k - 1] = t \o f[k]
  <2>1. PICK t \in Chars : PartOf(s, mark[k - 1], mark[k], t) /\ so[k] = so[k - 1] \o t
    BY <1>2
  <2>2. ReadAs(g, mark[k - 1], mark[k], t)
    BY <1>5, <2>1
  <2>3. f[k - 1] = g[mark[k - 1]]["no"].token /\ f[k] = g[mark[k]]["no"].token
    BY <1>4, <1>8
  <2>4. f[k - 1] = t \o f[k]
    BY <2>2, <2>3 DEF ReadAs
  <2> QED
    BY <2>1, <2>4 DEF Chars
<1>12. f[0] = w \o f[n]
  <2>1. so \in [0 .. n -> Seq(Alphabet)] /\ so[0] = << >>
    BY <1>2 DEF Chars
  <2>2. Along(Alphabet, n, so, f)
    BY <1>10, <1>11, <2>1 DEF Along
  <2>3. n \in Nat
    OBVIOUS
  <2>4. ReadJoined(n, so, f)
    BY <2>2, <2>3, ReadAlong
  <2> QED
    BY <1>2, <2>4 DEF ReadJoined
<1> DEFINE S == {k \in 0 .. n : g[mark[0]]["no"].next = g[mark[k]]["no"].next}
<1>13. 0 \in S
  OBVIOUS
<1>14. ASSUME NEW k \in 0 .. n - 1, k \in S PROVE k + 1 \in S
  <2>1. PICK m \in 1 .. n : m = k + 1 /\ m - 1 = k /\ m \in 0 .. n
    OBVIOUS
  <2>2. PICK t \in Chars : PartOf(s, mark[m - 1], mark[m], t)
    BY <1>2
  <2>3. ReadAs(g, mark[k], mark[m], t)
    BY <1>5, <2>1, <2>2
  <2>4. g[mark[k]]["no"].next = g[mark[m]]["no"].next
    BY <2>3 DEF ReadAs
  <2> QED
    BY <1>14, <2>1, <2>4
<1> HIDE DEF S
<1>15. n \in 0 .. n /\ \A k \in 0 .. n : k \in S
  <2>1. n \in Nat
    OBVIOUS
  <2>2. \A k \in 0 .. n : k \in S
    BY <1>13, <1>14, <2>1, UpTo
  <2> QED
    BY <2>1, <2>2
<1>16. g[p]["no"].next = g[q]["no"].next
  BY <1>2, <1>15 DEF S
<1>17. EndsWord(s, q, "no")
  BY DEF AsWord
<1>18. g[q]["no"] = [token |-> << >>, next |-> q]
  <2>1. g[q]["no"] = WordAt(s, g, q, "no")
    BY <1>3, QuotesAre DEF Readings
  <2> QED
    BY <1>17, <2>1 DEF WordAt
<1>19. f[0] = g[p]["no"].token /\ f[n] = << >>
  <2>1. 0 \in 0 .. n /\ n \in 0 .. n
    OBVIOUS
  <2> QED
    BY <1>2, <1>8, <1>18, <2>1
<1>20. w \o << >> = w
  <2>1. w \in Seq(Alphabet)
    BY <1>2, <1>15 DEF Chars
  <2> QED
    BY <2>1, ConcatEmptySeq
<1>21. g[p]["no"].token = w
  BY <1>12, <1>19, <1>20
<1> QED
  BY <1>6, <1>16, <1>18, <1>21

\* Digits before the rest of a word are read as they are.
LEMMA DigitsRead ==
    ASSUME NEW C, NEW s \in Seq(C), NEW g, Readings(C, s, g),
           NEW p \in 1 .. Len(s) + 1, NEW j \in p .. Len(s) + 1,
           \A i \in p .. j - 1 : IsDigit(s[i])
    PROVE  ReadAs(g, p, j, SubSeq(s, p, j - 1))
<1>1. PICK L \in Nat, n \in Nat : L = Len(s) + 1 /\ p \in 1 .. L /\ j \in 1 .. L /\ j = p + n
  <2>1. Len(s) + 1 \in Nat /\ j - p \in Nat /\ j = p + (j - p)
    OBVIOUS
  <2> QED
    BY <2>1
<1>2. \A i \in 1 .. L : g[i]["no"].token \in Seq(C)
  <2>1. "no" \in Quoting
    BY QuotesAre
  <2> QED
    BY <1>1, <2>1 DEF Readings, Reading
<1>3. ASSUME NEW i \in p .. j - 1
      PROVE  /\ s[i] \in C
             /\ g[i]["no"].token = <<s[i]>> \o g[i + 1]["no"].token
             /\ g[i]["no"].next = g[i + 1]["no"].next
  <2>1. i \in 1 .. Len(s) /\ IsDigit(s[i]) /\ s[i] \in C
    BY <1>1
  <2>2. /\ ~IsShellSpace(s[i]) /\ ~IsShellSpecial(s[i]) /\ s[i] \notin Quotes
        /\ s[i] # "\\" /\ s[i] # "no"
    BY Zenon, <2>1 DEF IsDigit, IsShellSpace, IsShellSpecial, Quotes
  <2>3. ~EndsWord(s, i, "no") /\ ~Escapes(s, i, "no")
    BY <2>1, <2>2 DEF EndsWord, Escapes
  <2>4. "no" \in Quoting
    BY QuotesAre
  <2>5. Reads(g, i, "no", s[i], i + 1)
    BY <2>1, <2>2, <2>3, <2>4, CharacterStands
  <2> QED
    BY <2>1, <2>5 DEF Reads
<1>4. PICK f : f = [k \in 0 .. n |-> g[p + k]["no"].token]
  OBVIOUS
<1>5. PICK so : so = [k \in 0 .. n |-> SubSeq(s, p, p + k - 1)]
  OBVIOUS
<1>6. f \in [0 .. n -> Seq(C)]
  <2>1. \A k \in 0 .. n : p + k \in 1 .. L
    BY <1>1
  <2> QED
    BY <1>2, <1>4, <2>1
<1>7. ASSUME NEW k \in 0 .. n PROVE SubSeq(s, p, p + k - 1) \in Seq(C)
  <2>1. \A i \in p .. p + k - 1 : s[i] \in C
    BY <1>1, <1>3
  <2>2. p \in Int /\ p + k - 1 \in Int
    BY <1>1
  <2> QED
    BY <2>1, <2>2, SubSeqProperties
<1>8. so \in [0 .. n -> Seq(C)] /\ so[0] = << >> /\ so[n] = SubSeq(s, p, j - 1)
  <2>1. so \in [0 .. n -> Seq(C)]
    BY <1>5, <1>7
  <2>2. SubSeq(s, p, p + 0 - 1) = << >>
    <3>1. p \in Int /\ p + 0 - 1 \in Int /\ p + 0 - 1 < p
      BY <1>1
    <3> QED
      BY <3>1, SubSeqEmpty
  <2>3. 0 \in 0 .. n /\ n \in 0 .. n /\ p + n - 1 = j - 1
    BY <1>1
  <2> QED
    BY <1>5, <2>1, <2>2, <2>3
<1>9. ASSUME NEW k \in 1 .. n
      PROVE  \E t \in Seq(C) : so[k] = so[k - 1] \o t /\ f[k - 1] = t \o f[k]
  <2>1. PICK i \in p .. j - 1 : i = p + k - 1 /\ i = p + (k - 1) /\ i + 1 = p + k
    BY <1>1
  <2>2. k \in 0 .. n /\ k - 1 \in 0 .. n
    OBVIOUS
  <2>3. f[k] = g[i + 1]["no"].token /\ f[k - 1] = g[i]["no"].token
    BY <1>4, <2>1, <2>2
  <2>4. so[k] = SubSeq(s, p, i) /\ so[k - 1] = SubSeq(s, p, i - 1)
    BY <1>5, <2>1, <2>2
  <2>5. i \in p .. Len(s) /\ p \in 1 .. Len(s)
    BY <1>1, <2>1
  <2>6. SubSeq(s, p, i) = SubSeq(s, p, i - 1) \o <<s[i]>>
    BY <2>5, SubSeqRecursiveSecond
  <2>7. <<s[i]>> \in Seq(C)
    BY <1>3
  <2> QED
    BY <1>3, <2>3, <2>4, <2>6, <2>7
<1>10. f[0] = so[n] \o f[n]
  <2>1. Along(C, n, so, f)
    BY <1>6, <1>8, <1>9 DEF Along
  <2>2. ReadJoined(n, so, f)
    BY <2>1, ReadAlong
  <2> QED
    BY <2>2 DEF ReadJoined
<1>11. f[0] = g[p]["no"].token /\ f[n] = g[j]["no"].token
  <2>1. 0 \in 0 .. n /\ n \in 0 .. n /\ p + 0 = p /\ p + n = j
    BY <1>1
  <2> QED
    BY <1>4, <2>1
<1>12. g[p]["no"].next = g[j]["no"].next
  <2> DEFINE S == {k \in 0 .. n : g[p]["no"].next = g[p + k]["no"].next}
  <2>1. 0 \in S
    BY <1>1
  <2>2. ASSUME NEW k \in 0 .. n - 1, k \in S PROVE k + 1 \in S
    <3>1. PICK i \in p .. j - 1 : i = p + k /\ i + 1 = p + (k + 1)
      BY <1>1
    <3>2. g[i]["no"].next = g[i + 1]["no"].next
      BY <1>3
    <3> QED
      BY <2>2, <3>1, <3>2
  <2> HIDE DEF S
  <2>3. \A k \in 0 .. n : k \in S
    BY <2>1, <2>2, UpTo
  <2>4. n \in S
    BY <2>3
  <2> QED
    BY <1>1, <2>4 DEF S
<1> QED
  BY <1>8, <1>10, <1>11, <1>12 DEF ReadAs

\* The token that starts with a word is the word.
LEMMA WordIsToken ==
    ASSUME NEW s \in Chars, NEW p \in 1 .. Len(s), NEW q \in 1 .. Len(s) + 1, NEW w,
           AsWord(s, p, q, w)
    PROVE  /\ Token(s, p).token = w /\ Token(s, p).next = q
           /\ ~IsShellSpace(s[p]) /\ s[p] # "#"
<1>1. PICK L \in Nat : L = Len(s) + 1 /\ p \in 1 .. L /\ q \in 1 .. L
  BY DEF Chars
<1>2. s \in Seq(Alphabet)
  BY DEF Chars
<1>3. PICK g : Readings(Alphabet, s, g)
  BY <1>2, NormalWordIs
<1>4. /\ g[p]["no"].token = w /\ g[p]["no"].next = q
      /\ ~IsShellSpace(s[p]) /\ ~IsShellSpecial(s[p])
  BY <1>3, WordRead
<1>5. PICK j : j = FirstFailing(s, p, IsDigit)
  OBVIOUS
<1>6. /\ j \in p .. Len(s) + 1 /\ j \in 1 .. L
      /\ \A i \in p .. j - 1 : IsDigit(s[i])
  <2>1. j \in p .. Len(s) + 1 /\ \A i \in p .. j - 1 : IsDigit(s[i])
    BY <1>1, <1>2, <1>5, DigitsEnd
  <2> QED
    BY <1>1, <2>1
<1>7. ReadAs(g, p, j, SubSeq(s, p, j - 1))
  BY <1>1, <1>2, <1>3, <1>6, DigitsRead
<1>8. At(s, j) \notin {"<", ">"}
  <2>1. SUFFICES ASSUME At(s, j) \in {"<", ">"} PROVE FALSE
    OBVIOUS
  <2>2. j \in 1 .. Len(s) /\ s[j] = At(s, j)
    BY <1>1, <1>6, <2>1 DEF At
  <2>3. EndsWord(s, j, "no")
    BY <2>1, <2>2 DEF EndsWord, IsShellSpecial
  <2>4. g[j]["no"] = WordAt(s, g, j, "no")
    BY <1>1, <1>3, <1>6, QuotesAre DEF Readings
  <2>5. g[j]["no"].next = j
    BY <2>3, <2>4 DEF WordAt
  <2>6. j = q
    BY <1>4, <1>7, <2>5 DEF ReadAs
  <2>7. \E i \in p .. j - 1 : ~IsDigit(s[i])
    BY <2>1, <2>6 DEF AsWord
  <2> QED
    BY <1>6, <2>7
<1>9. s[p] \notin {"&", "|"} /\ s[p] # "#"
  BY <1>4 DEF IsShellSpecial
<1>10. PICK y : y = NormalWord(s, j) /\ y = g[j]["no"]
  BY <1>3 DEF Readings
<1>11. PICK z : z = SubSeq(s, p, j - 1) \o y.token
  OBVIOUS
<1>12. Token(s, p).token = w /\ Token(s, p).next = q
  <2>1. Token(s, p) = [token |-> z, next |-> y.next]
    BY <1>4, <1>5, <1>8, <1>9, <1>10, <1>11 DEF Token
  <2>2. w = z /\ q = y.next
    BY <1>4, <1>7, <1>10, <1>11 DEF ReadAs
  <2> QED
    BY <2>1, <2>2
<1> QED
  BY <1>4, <1>9, <1>12

\* So is an operator.
LEMMA OperatorIsToken ==
    ASSUME NEW s \in Chars, NEW p \in 1 .. Len(s), NEW q \in 1 .. Len(s) + 1,
           AsOperator(s, p, q)
    PROVE  /\ Token(s, p).token = SubSeq(s, p, q - 1) /\ Token(s, p).next = q
           /\ ~IsShellSpace(s[p]) /\ s[p] # "#"
<1>1. PICK L \in Nat : L = Len(s) + 1 /\ p \in 1 .. L /\ q \in 1 .. L
  BY DEF Chars
<1>2. s[p] \in {"&", "|", ";", "(", ")"}
  BY DEF AsOperator
<1>3. /\ ~IsShellSpace(s[p]) /\ IsShellSpecial(s[p]) /\ ~IsDigit(s[p])
      /\ s[p] \notin {"<", ">"} /\ s[p] # "#"
  BY Zenon, <1>2 DEF IsShellSpace, IsShellSpecial, IsDigit
<1>4. At(s, p) = s[p]
  BY DEF At
<1>5. FirstFailing(s, p, IsDigit) = p
  <2>1. s \in Seq(Alphabet) /\ p \in 1 .. Len(s) + 1 /\ p \in p .. Len(s) + 1
    BY <1>1 DEF Chars
  <2>2. \A i \in p .. p - 1 : IsDigit(s[i])
    BY <1>1
  <2> QED
    BY <1>3, <1>4, <2>1, <2>2, DigitsEnd
<1>6. CASE q = p + 2 /\ s[p] \in {"&", "|"} /\ At(s, p + 1) = s[p]
  <2>1. Token(s, p) = [token |-> SubSeq(s, p, (p + 2) - 1), next |-> p + 2]
    BY <1>3, <1>4, <1>5, <1>6 DEF Token
  <2> QED
    BY <1>3, <1>6, <2>1
<1>7. CASE q = p + 1 /\ ~(s[p] \in {"&", "|"} /\ At(s, p + 1) = s[p])
  <2>1. Token(s, p) = [token |-> SubSeq(s, p, (p + 1) - 1), next |-> p + 1]
    BY <1>3, <1>4, <1>5, <1>7 DEF Token
  <2> QED
    BY <1>3, <1>7, <2>1
<1> QED
  BY <1>6, <1>7 DEF AsOperator

\* So is a redirection, with its digits.
LEMMA RedirectionIsToken ==
    ASSUME NEW s \in Chars, NEW p \in 1 .. Len(s), NEW q \in 1 .. Len(s) + 1,
           AsRedirection(s, p, q)
    PROVE  /\ Token(s, p).token = SubSeq(s, p, q - 1) /\ Token(s, p).next = q
           /\ ~IsShellSpace(s[p]) /\ s[p] # "#"
<1>1. PICK L \in Nat : L = Len(s) + 1 /\ p \in 1 .. L /\ q \in 1 .. L
  BY DEF Chars
<1>2. s \in Seq(Alphabet)
  BY DEF Chars
<1>3. PICK j \in p .. q - 1 :
        /\ \A k \in p .. j - 1 : IsDigit(s[k])
        /\ s[j] \in {"<", ">"}
        /\ \/ /\ q = j + 1 /\ At(s, j + 1) # ">"
              /\ ~(At(s, j + 1) = "&" /\ IsDigit(At(s, j + 2)))
           \/ q = j + 2 /\ At(s, j + 1) = ">"
           \/ /\ q > j + 2 /\ At(s, j + 1) = "&" /\ ~IsDigit(At(s, q))
              /\ \A k \in j + 2 .. q - 1 : IsDigit(s[k])
  BY DEF AsRedirection
<1>4. j \in 1 .. Len(s) /\ j \in p .. Len(s) + 1 /\ p \in 1 .. Len(s) + 1 /\ At(s, j) = s[j]
  BY <1>1, <1>3 DEF At
<1>5. FirstFailing(s, p, IsDigit) = j
  <2>1. ~IsDigit(At(s, j))
    BY <1>3, <1>4 DEF IsDigit
  <2> QED
    BY <1>2, <1>3, <1>4, <2>1, DigitsEnd
<1>6. Redirection(s, j) = q
  <2>1. CASE /\ q = j + 1 /\ At(s, j + 1) # ">"
             /\ ~(At(s, j + 1) = "&" /\ IsDigit(At(s, j + 2)))
    BY <2>1 DEF Redirection
  <2>2. CASE q = j + 2 /\ At(s, j + 1) = ">"
    BY <2>2 DEF Redirection
  <2>3. CASE /\ q > j + 2 /\ At(s, j + 1) = "&" /\ ~IsDigit(At(s, q))
             /\ \A k \in j + 2 .. q - 1 : IsDigit(s[k])
    <3>1. j + 2 \in 1 .. Len(s) + 1 /\ q \in j + 2 .. Len(s) + 1 /\ j + 2 \in j + 2 .. q - 1
      BY <1>1, <1>4, <2>3
    <3>2. FirstFailing(s, j + 2, IsDigit) = q
      BY <1>2, <2>3, <3>1, DigitsEnd
    <3>3. IsDigit(At(s, j + 2))
      BY <1>1, <2>3, <3>1 DEF At
    <3> QED
      BY <2>3, <3>2, <3>3 DEF Redirection
  <2> QED
    BY <1>3, <2>1, <2>2, <2>3
<1>7. Token(s, p) = [token |-> SubSeq(s, p, q - 1), next |-> q]
  BY <1>3, <1>4, <1>5, <1>6 DEF Token
<1>8. ~IsShellSpace(s[p]) /\ s[p] # "#"
  <2>1. IsDigit(s[p]) \/ s[p] \in {"<", ">"}
    BY <1>1, <1>3
  <2> QED
    BY Zenon, <2>1 DEF IsDigit, IsShellSpace
<1> QED
  BY <1>7, <1>8

LEMMA TokenRead ==
    ASSUME NEW s \in Chars, NEW p \in 1 .. Len(s), NEW q \in 1 .. Len(s) + 1, NEW w,
           AsToken(s, p, q, w)
    PROVE  /\ Token(s, p).token = w /\ Token(s, p).next = q
           /\ ~IsShellSpace(s[p]) /\ s[p] # "#"
<1>1. CASE AsWord(s, p, q, w)
  BY <1>1, WordIsToken
<1>2. CASE AsOperator(s, p, q) /\ w = SubSeq(s, p, q - 1)
  BY <1>2, OperatorIsToken
<1>3. CASE AsRedirection(s, p, q) /\ w = SubSeq(s, p, q - 1)
  BY <1>3, RedirectionIsToken
<1> QED
  BY <1>1, <1>2, <1>3 DEF AsToken

\* parse_shell_token() and the loop around it find, in a line that is written with
\* certain words, operators and redirections, exactly these, whatever is protected by
\* quotes or backslashes and wherever the spaces are (helpers.cc:28-114, sh61.cc:95-106).
THEOREM TokensAreWords ==
    ASSUME NEW s \in Chars, NEW words \in Seq(Chars), LaidOut(s, words)
    PROVE  Tokens(s) = words
<1>1. PICK L \in Nat, n \in Nat : L = Len(s) + 1 /\ n = Len(words) /\ 1 \in 1 .. L
  BY DEF Chars
<1>2. PICK from \in [1 .. n + 1 -> 1 .. L], to \in [0 .. n -> 1 .. L] :
        /\ to[0] = 1
        /\ \A k \in 1 .. n + 1 :
              to[k - 1] <= from[k] /\ \A j \in to[k - 1] .. from[k] - 1 : IsShellSpace(s[j])
        /\ \A k \in 1 .. n : from[k] < to[k] /\ AsToken(s, from[k], to[k], words[k])
        /\ At(s, from[n + 1]) \in {"NUL", "#"}
  BY <1>1 DEF LaidOut
<1>3. s \in Seq(Alphabet)
  BY DEF Chars
<1>4. PICK t : /\ \A i \in 1 .. Len(s) + 1 :
                     t[i] \in Seq(Seq(Alphabet)) /\ t[i] = TokensAt(s, t, i)
               /\ Tokens(s) = t[1]
  BY <1>3, TokensAre
<1>5. ASSUME NEW k \in 1 .. n + 1, ~IsShellSpace(At(s, from[k]))
      PROVE  FirstFailing(s, to[k - 1], IsShellSpace) = from[k]
  <2>1. PICK a \in 1 .. L, b \in 1 .. L : a = to[k - 1] /\ b = from[k]
    <3>1. k - 1 \in 0 .. n
      OBVIOUS
    <3> QED
      BY <1>2, <3>1
  <2>2. a <= b /\ \A j \in a .. b - 1 : IsShellSpace(s[j])
    BY <1>2, <2>1
  <2>3. a \in 1 .. Len(s) + 1 /\ b \in a .. Len(s) + 1
    BY <1>1, <2>2
  <2> QED
    BY <1>3, <1>5, <2>1, <2>2, <2>3, SpacesEnd
<1>6. ASSUME NEW k \in 1 .. n
      PROVE  t[to[k - 1]] = <<words[k]>> \o t[to[k]]
  <2>1. k \in 1 .. n + 1 /\ k - 1 \in 0 .. n /\ k \in 0 .. n
    OBVIOUS
  <2>2. PICK p \in 1 .. Len(s), q \in 1 .. Len(s) + 1 : p = from[k] /\ q = to[k]
    <3>1. from[k] \in 1 .. L /\ to[k] \in 1 .. L /\ from[k] < to[k]
      BY <1>2, <2>1
    <3> QED
      BY SMTT(30), <1>1, <3>1
  <2>3. AsToken(s, p, q, words[k])
    BY <1>2, <2>2
  <2>4. Token(s, p).token = words[k] /\ Token(s, p).next = q /\ ~IsShellSpace(s[p]) /\ s[p] # "#"
    BY <2>3, TokenRead
  <2>5. At(s, p) = s[p] /\ s[p] # "NUL"
    <3>1. s[p] \in Alphabet
      BY <1>3
    <3> QED
      BY <3>1, AlphabetIs DEF At
  <2>6. FirstFailing(s, to[k - 1], IsShellSpace) = p
    BY <1>5, <2>1, <2>2, <2>4, <2>5
  <2>7. TokensAt(s, t, to[k - 1]) = <<words[k]>> \o t[q]
    BY <2>4, <2>5, <2>6 DEF TokensAt
  <2>8. to[k - 1] \in 1 .. Len(s) + 1
    BY <1>1, <1>2, <2>1
  <2> QED
    BY <1>4, <2>2, <2>7, <2>8
<1>7. t[to[n]] = << >>
  <2>1. n + 1 \in 1 .. n + 1 /\ (n + 1) - 1 = n /\ n \in 0 .. n
    OBVIOUS
  <2>2. ~IsShellSpace(At(s, from[n + 1]))
    BY Zenon, <1>2 DEF IsShellSpace
  <2>3. FirstFailing(s, to[n], IsShellSpace) = from[n + 1]
    BY <1>5, <2>1, <2>2
  <2>4. TokensAt(s, t, to[n]) = << >>
    BY <1>2, <2>3 DEF TokensAt
  <2>5. to[n] \in 1 .. Len(s) + 1
    BY <1>1, <1>2, <2>1
  <2> QED
    BY <1>4, <2>4, <2>5
<1>8. PICK f : f = [k \in 0 .. n |-> t[to[k]]]
  OBVIOUS
<1>9. PICK so : so = [k \in 0 .. n |-> SubSeq(words, 1, k)]
  OBVIOUS
<1>10. f \in [0 .. n -> Seq(Chars)]
  <2>1. \A k \in 0 .. n : to[k] \in 1 .. Len(s) + 1
    BY <1>1, <1>2
  <2> QED
    BY <1>4, <1>8, <2>1 DEF Chars
<1>11. so \in [0 .. n -> Seq(Chars)] /\ so[0] = << >> /\ so[n] = words
  BY <1>1, <1>9, Beginnings
<1>12. ASSUME NEW k \in 1 .. n
       PROVE  \E u \in Seq(Chars) : so[k] = so[k - 1] \o u /\ f[k - 1] = u \o f[k]
  <2>1. k \in 0 .. n /\ k - 1 \in 0 .. n
    OBVIOUS
  <2>2. so[k] = SubSeq(words, 1, k) /\ so[k - 1] = SubSeq(words, 1, k - 1)
    BY <1>9, <2>1
  <2>3. SubSeq(words, 1, k) = SubSeq(words, 1, k - 1) \o <<words[k]>>
    BY <1>1, Beginnings
  <2>4. f[k] = t[to[k]] /\ f[k - 1] = t[to[k - 1]]
    BY <1>8, <2>1
  <2>5. <<words[k]>> \in Seq(Chars)
    BY <1>1
  <2> QED
    BY <1>6, <2>2, <2>3, <2>4, <2>5
<1>13. f[0] = words \o f[n]
  <2>1. Along(Chars, n, so, f)
    BY <1>10, <1>11, <1>12 DEF Along
  <2>2. ReadJoined(n, so, f)
    BY <2>1, ReadAlong
  <2>3. so[n] = words
    BY <1>11
  <2> QED
    BY <2>2, <2>3 DEF ReadJoined
<1>14. f[0] = t[1] /\ f[n] = << >>
  <2>1. 0 \in 0 .. n /\ n \in 0 .. n
    OBVIOUS
  <2> QED
    BY <1>2, <1>7, <1>8, <2>1
<1>15. words \o << >> = words
  BY ConcatEmptySeq
<1> QED
  BY <1>4, <1>13, <1>14, <1>15

\* Single quotes protect everything but themselves: whatever is between them is one
\* word, and nothing of it is lost or changed.
THEOREM SingleQuotesProtect ==
    ASSUME NEW w \in Seq(Alphabet \ {"'"}), "'" \in Characters
    PROVE  Tokens((<<"'">> \o w) \o <<"'", "\n">>) = <<w>>
<1>1. PICK n \in Nat : n = Len(w)
  OBVIOUS
<1>2. w \in Chars /\ \A k \in 1 .. n : w[k] # "'"
  <2>1. Alphabet \ {"'"} \subseteq Alphabet
    OBVIOUS
  <2>2. w \in Seq(Alphabet)
    BY <2>1, SeqMonotonic
  <2> QED
    BY <1>1, <2>2 DEF Chars
<1>3. PICK s : s = (<<"'">> \o w) \o <<"'", "\n">>
  OBVIOUS
<1>4. /\ s \in Chars /\ Len(s) = n + 3
      /\ s[1] = "'" /\ s[n + 2] = "'" /\ s[n + 3] = "\n"
      /\ \A k \in 1 .. n : s[k + 1] = w[k]
  <2>1. <<"'">> \in Chars /\ <<"'", "\n">> \in Chars
    BY DEF Chars, Alphabet
  <2>2. PICK x \in Chars : x = <<"'">> \o w
    <3>1. PICK y \in Chars, z \in Chars : y = <<"'">> /\ z = w
      BY <1>2, <2>1
    <3>2. y \o z \in Chars
      BY ConcatProperties DEF Chars
    <3> QED
      BY <3>1, <3>2
  <2>3. Len(x) = n + 1 /\ x[1] = "'" /\ \A k \in 1 .. n : x[k + 1] = w[k]
    BY <1>1, <1>2, <2>1, <2>2 DEF Chars
  <2> QED
    BY <1>1, <1>3, <2>1, <2>2, <2>3 DEF Chars
<1>5. InQuotes(s, 1, n + 3, "'", w)
  <2>1. PICK mark : mark = [k \in 0 .. n |-> k + 2]
    OBVIOUS
  <2>2. mark \in [0 .. n -> 1 + 1 .. (n + 3) - 1] /\ mark[0] = 1 + 1 /\ mark[n] = (n + 3) - 1
    BY <2>1
  <2>3. ASSUME NEW k \in 1 .. n
        PROVE  s[mark[k - 1]] = w[k] /\ w[k] # "'" /\ mark[k] = mark[k - 1] + 1
    <3>1. k - 1 \in 0 .. n /\ k \in 0 .. n
      OBVIOUS
    <3>2. mark[k - 1] = k + 1 /\ mark[k] = (k + 1) + 1
      BY <2>1, <3>1
    <3> QED
      BY <1>2, <1>4, <3>2
  <2>4. s[1] = "'" /\ s[(n + 3) - 1] = "'"
    BY <1>4
  <2> QED
    BY <1>1, <2>2, <2>3, <2>4, DoubleQuoteIs DEF InQuotes
<1>6. AsWord(s, 1, n + 3, w)
  <2>1. PartOf(s, 1, n + 3, w)
    <3>1. "'" \in Quotes
      BY Zenon DEF Quotes
    <3> QED
      BY <1>5, <3>1 DEF PartOf
  <2>2. PICK mark : mark = [k \in 0 .. 1 |-> IF k = 0 THEN 1 ELSE n + 3]
    OBVIOUS
  <2>3. PICK so : so = [k \in 0 .. 1 |-> IF k = 0 THEN << >> ELSE w]
    OBVIOUS
  <2>4. /\ mark \in [0 .. 1 -> 1 .. n + 3] /\ mark[0] = 1 /\ mark[1] = n + 3
        /\ so \in [0 .. 1 -> Chars] /\ so[0] = << >> /\ so[1] = w
    <3>1. << >> \in Chars
      BY DEF Chars
    <3> QED
      BY <1>2, <2>2, <2>3, <3>1
  <2>5. so[1] = so[0] \o w
    BY <1>2, <2>4, NothingFirst DEF Chars
  <2>6. \A k \in 1 .. 1 :
           /\ mark[k - 1] < mark[k]
           /\ \E t \in Chars : PartOf(s, mark[k - 1], mark[k], t) /\ so[k] = so[k - 1] \o t
    BY <1>2, <2>1, <2>4, <2>5
  <2>7. EndsWord(s, n + 3, "no")
    BY <1>4 DEF EndsWord, IsShellSpace
  <2>8. At(s, n + 3) \notin {"<", ">"}
    BY <1>4 DEF At
  <2>9. 1 \in Nat \ {0}
    OBVIOUS
  <2> QED
    BY <2>4, <2>6, <2>7, <2>8, <2>9 DEF AsWord
<1>7. LaidOut(s, <<w>>)
  <2>1. PICK from : from = [k \in 1 .. 2 |-> IF k = 1 THEN 1 ELSE n + 4]
    OBVIOUS
  <2>2. PICK to : to = [k \in 0 .. 1 |-> IF k = 0 THEN 1 ELSE n + 3]
    OBVIOUS
  <2>3. PICK words : words = <<w>>
    OBVIOUS
  <2>4. Len(words) = 1 /\ words[1] = w
    BY <2>3
  <2>5. /\ from \in [1 .. 1 + 1 -> 1 .. Len(s) + 1] /\ from[1] = 1 /\ from[1 + 1] = n + 4
        /\ to \in [0 .. 1 -> 1 .. Len(s) + 1] /\ to[0] = 1 /\ to[1] = n + 3
    BY <1>4, <2>1, <2>2
  <2>6. ASSUME NEW k \in 1 .. 1 + 1
        PROVE  to[k - 1] <= from[k] /\ \A j \in to[k - 1] .. from[k] - 1 : IsShellSpace(s[j])
    <3>1. CASE k = 1
      BY <2>5, <3>1
    <3>2. CASE k = 2
      <4>1. to[k - 1] = n + 3 /\ from[k] = n + 4
        BY <2>5, <3>2
      <4>2. IsShellSpace(s[n + 3])
        BY <1>4 DEF IsShellSpace
      <4> QED
        BY <4>1, <4>2
    <3> QED
      BY <3>1, <3>2
  <2>7. \A k \in 1 .. 1 : from[k] < to[k] /\ AsToken(s, from[k], to[k], words[k])
    <3>1. AsToken(s, 1, n + 3, w)
      BY <1>6 DEF AsToken
    <3> QED
      BY <2>4, <2>5, <3>1
  <2>8. At(s, from[1 + 1]) = "NUL"
    BY <1>4, <2>5 DEF At
  <2> QED
    BY <2>3, <2>4, <2>5, <2>6, <2>7, <2>8 DEF LaidOut
<1>8. <<w>> \in Seq(Chars)
  BY <1>2
<1> QED
  BY <1>3, <1>4, <1>7, <1>8, TokensAreWords

\* Every line of the scripts is written with its words, one way or another.
WellWritten ==
    \A lines \in Scripts : \A i \in DOMAIN lines :
        LaidOut(lines[i].text \o <<"\n">>, lines[i].words)

\* The shell, for any well-written scripts and any buffer, with interrupts and errors
\* anywhere: what has run are complete lines, in order and at most once each, every one
\* that no interrupted read took a part of with its own words, and none of those that
\* fgets() has left behind is missing (sh61.cc:95-106, 141-173, helpers.cc:28-114).
THEOREM ShellRunsLines ==
    ASSUME WellWritten
    PROVE  ShellSpec => []RunsWhatWasWritten
<1>1. ASSUME NEW lines \in Scripts, NEW i \in DOMAIN lines
      PROVE  Tokens(lines[i].text \o <<"\n">>) = lines[i].words
  <2>1. lines \in Seq(Line)
    BY ShellAssumption DEF Line
  <2>2. lines[i] \in Line
    BY <2>1
  <2>3. lines[i].text \in Seq(Characters) /\ lines[i].words \in Seq(Seq(Characters))
    BY <2>2 DEF Line
  <2>4. lines[i].text \o <<"\n">> \in Chars
    <3>1. lines[i].text \in Chars /\ <<"\n">> \in Chars
      BY <2>3 DEF Chars, Alphabet
    <3> QED
      BY <3>1 DEF Chars
  <2>5. lines[i].words \in Seq(Chars)
    <3>1. Seq(Characters) \subseteq Chars
      BY SeqMonotonic DEF Chars, Alphabet
    <3> QED
      BY <2>3, <3>1, SeqMonotonic
  <2>6. LaidOut(lines[i].text \o <<"\n">>, lines[i].words)
    BY DEF WellWritten
  <2> QED
    BY <2>4, <2>5, <2>6, TokensAreWords
<1>2. WordsAreTokens
  BY <1>1 DEF WordsAreTokens
<1> QED
  BY <1>2, LoopRunsTokens

=============================================================================
