---------------------------- MODULE WeensyProofs ----------------------------
(***************************************************************************)
(* Proofs about the kernel for every number of processes and pages, every  *)
(* memory layout and any user code that leaves the kernel's own memory     *)
(* alone: KernelInv is inductive, so the safety properties it contains     *)
(* hold; pages keep their owners; and the scheduler is round robin.        *)
(*                                                                         *)
(* Then about the whole handout: its programs are user code of the kind    *)
(* module Kernel allows, so what is proved of the kernel holds while they  *)
(* run; process and kernel agree on the heap, and nobody else touches it;  *)
(* and the memory viewer shows each page a process owns as that process's. *)
(***************************************************************************)
EXTENDS MemViewer, WellFoundedInduction, TLAPS

USE DEF Procs, Pids, Pages, NoPage

-----------------------------------------------------------------------------
(* Arithmetic of the process ring.                                         *)

\* A non-empty set of numbers has a least element.
LEMMA LeastElement ==
    ASSUME NEW S \in SUBSET Nat, S # {}
    PROVE  \E x \in S : \A y \in S : x <= y
<1>1. IsWellFoundedOn(OpToRel(<, Nat), Nat)
  BY NatLessThanWellFounded
<1>2. PICK x \in S : \A y \in S : ~ (<<y, x>> \in OpToRel(<, Nat))
  BY <1>1, WFMin, Zenon
<1>3. \A y \in S : ~ (y < x)
  BY <1>2 DEF OpToRel
<1> QED
  BY <1>3

\* Dist and NextPid stay in range; the distance of a slot to itself is zero.
LEMMA DistRange ==
    ASSUME NEW a \in Procs, NEW b \in Procs
    PROVE  /\ Dist(a, b) \in Procs /\ NextPid(a) \in Procs
           /\ Dist(a, a) = 0
           /\ Dist(a, b) = IF a <= b THEN b - a ELSE b + NPROC - a
           /\ NextPid(a) = IF a + 1 = NPROC THEN 0 ELSE a + 1
<1>1. NPROC \in Nat /\ NPROC > 1
  BY ProcAssumption
<1>2. NextPid(a) = IF a + 1 = NPROC THEN 0 ELSE a + 1
  BY <1>1 DEF NextPid
<1>3. ASSUME NEW c \in Procs, NEW d \in Procs
      PROVE  Dist(c, d) = IF c <= d THEN d - c ELSE d + NPROC - c
  <2>1. CASE c <= d
    <3>1. (d - c) \in 0 .. NPROC - 1 /\ d + NPROC - c = NPROC + (d - c)
      BY <1>1, <2>1
    <3>2. (NPROC + (d - c)) % NPROC = d - c
      BY <3>1, <1>1
    <3> QED
      BY <3>1, <3>2, <2>1 DEF Dist
  <2>2. CASE ~ (c <= d)
    <3>1. (d + NPROC - c) \in 0 .. NPROC - 1
      BY <1>1, <2>2
    <3> QED
      BY <3>1, <1>1, <2>2 DEF Dist
  <2> QED
    BY <2>1, <2>2
<1> QED
  BY <1>1, <1>2, <1>3

\* Different slots are at different distances.
LEMMA DistInjective ==
    ASSUME NEW a \in Procs, NEW b \in Procs, NEW c \in Procs,
           Dist(a, b) = Dist(a, c)
    PROVE  b = c
<1> DEFINE x == Dist(a, b)
<1>1. x = IF a <= b THEN b - a ELSE b + NPROC - a
  BY DistRange
<1>2. x = IF a <= c THEN c - a ELSE c + NPROC - a
  BY DistRange
<1> HIDE DEF x
<1> QED
  BY <1>1, <1>2, ProcAssumption

\* One slot further is one step further away, or back at the start.
LEMMA DistNext ==
    ASSUME NEW a \in Procs, NEW b \in Procs
    PROVE  Dist(a, NextPid(b)) \in {0, Dist(a, b) + 1}
<1>1. NextPid(b) \in Procs /\ NextPid(b) = IF b + 1 = NPROC THEN 0 ELSE b + 1
  BY DistRange
<1>2. Dist(a, b) = IF a <= b THEN b - a ELSE b + NPROC - a
  BY DistRange
<1>3. Dist(a, NextPid(b))
        = IF a <= NextPid(b) THEN NextPid(b) - a ELSE NextPid(b) + NPROC - a
  BY <1>1, DistRange
<1> QED
  BY <1>1, <1>2, <1>3, ProcAssumption

\* The viewer's search ends on a displayable process whenever there is one.
LEMMA ShownFromLive ==
    ASSUME NEW s \in Procs
    PROVE  /\ ShownFrom(s) \in Procs
           /\ (\E p \in Procs : Live(p)) => Live(ShownFrom(s))
<1>1. CASE ~ \E p \in Procs : Displayable(p)
  BY <1>1 DEF ShownFrom, Displayable, Live
<1>2. CASE \E p \in Procs : Displayable(p)
  <2> DEFINE D == {Dist(s, p) : p \in {q \in Procs : Displayable(q)}}
  <2>1. D \in SUBSET Nat /\ D # {}
    <3>1. \A p \in Procs : Dist(s, p) \in Nat
      BY DistRange, ProcAssumption
    <3> QED
      BY <1>2, <3>1
  <2>2. PICK d \in D : \A e \in D : d <= e
    BY <2>1, LeastElement
  <2>3. PICK p \in Procs : Displayable(p) /\ d = Dist(s, p)
    BY <2>2
  <2>4. \A q \in Procs : Displayable(q) => Dist(s, p) <= Dist(s, q)
    BY <2>2, <2>3
  <2>5. /\ ShownFrom(s) \in Procs
        /\ Displayable(ShownFrom(s))
    BY <1>2, <2>3, <2>4 DEF ShownFrom
  <2> QED
    BY <2>5 DEF Displayable, Live
<1> QED
  BY <1>1, <1>2

\* kalloc() returns a claimable page at or after next_alloc_pa, and nothing
\* claimable lies between the two; or there is none.
LEMMA KallocFirst ==
    ASSUME TypeOK
    PROVE  \/ /\ Kalloc = NoPage
              /\ \A pa \in Pages : nextAlloc <= pa => ~ Claimable(pa)
           \/ /\ Kalloc \in Pages /\ Kalloc # NoPage
              /\ nextAlloc <= Kalloc /\ Claimable(Kalloc)
              /\ \A pa \in Pages : nextAlloc <= pa /\ pa < Kalloc => ~ Claimable(pa)
<1> DEFINE free == {pa \in Pages : nextAlloc <= pa /\ Claimable(pa)}
<1>1. CASE free = {}
  BY <1>1 DEF Kalloc
<1>2. CASE free # {}
  <2>1. \E x \in free : \A y \in free : x <= y
    <3>1. free \in SUBSET Nat
      BY PageAssumption
    <3> QED
      BY <3>1, <1>2, LeastElement
  <2>2. Kalloc \in free /\ \A y \in free : Kalloc <= y
    BY <1>2, <2>1 DEF Kalloc
  <2> QED
    BY <2>2, PageAssumption
<1> QED
  BY <1>1, <1>2

-----------------------------------------------------------------------------
(* memshow() and the page it allocates.                                    *)

\* Whatever the number of calls, the display moves within range and, if any
\* process is live, stops on one that is.
LEMMA MemshowView ==
    ASSUME TypeOK, NEW calls \in {1, 2}, Memshow(calls)
    PROVE  /\ lastTicks' \in 0 .. TickMod - 1
           /\ showing' \in Procs
           /\ (\E p \in Procs : Live(p)) => Live(showing')
<1> DEFINE typed(v) == /\ v.last \in 0 .. TickMod - 1 /\ v.show \in Procs
           live(v) == (\E p \in Procs : Live(p)) => Live(v.show)
<1>1. ASSUME NEW v, v.last \in 0 .. TickMod - 1, v.show \in Procs
      PROVE  typed(ViewNext(v)) /\ live(ViewNext(v))
  <2>1. (v.show + 1) % NPROC \in Procs
    BY <1>1, DistRange DEF NextPid
  <2>2. /\ ShownFrom(v.show) \in Procs
        /\ (\E p \in Procs : Live(p)) => Live(ShownFrom(v.show))
    BY <1>1, ShownFromLive
  <2>3. /\ ShownFrom((v.show + 1) % NPROC) \in Procs
        /\ (\E p \in Procs : Live(p)) => Live(ShownFrom((v.show + 1) % NPROC))
    BY <2>1, ShownFromLive
  <2>4. ticks \in 0 .. TickMod - 1
    BY DEF TypeOK
  <2> QED
    BY <1>1, <2>2, <2>3, <2>4 DEF ViewNext
<1> DEFINE now == [last |-> lastTicks, show |-> showing]
<1>2. now.last \in 0 .. TickMod - 1 /\ now.show \in Procs
  BY DEF TypeOK
<1>3. typed(ViewNext(now)) /\ live(ViewNext(now))
  BY <1>1, <1>2
<1>4. typed(ViewNext(ViewNext(now))) /\ live(ViewNext(ViewNext(now)))
  BY <1>1, <1>3
<1>5. \/ lastTicks' = ViewNext(now).last /\ showing' = ViewNext(now).show
      \/ /\ lastTicks' = ViewNext(ViewNext(now)).last
         /\ showing' = ViewNext(ViewNext(now)).show
  BY DEF Memshow
<1> HIDE DEF now
<1> QED
  BY <1>3, <1>4, <1>5

\* The part of the invariant about pages[], as a predicate of its three
\* variables.
PageInv(own, view, next) ==
    /\ own \in [Pages -> Procs \cup {KernelOwner}]
    /\ view \in Pages \cup {NoPage} /\ next \in 0 .. NPages
    /\ \A pa \in Pages : own[pa] # 0 =>
          Allocatable(pa) /\ (own[pa] = KernelOwner <=> pa = view)
    /\ view # NoPage => own[view] = KernelOwner
    /\ \A pa \in Pages : pa < next /\ Allocatable(pa) => own[pa] # 0

\* refresh() leaves pages[] sound: the page it takes was free, and becomes the
\* kernel's only page.
LEMMA MemshowPages ==
    ASSUME KernelInv, NEW calls \in {1, 2}, Memshow(calls)
    PROVE  /\ PageInv(PagesShown, viewer', nextAlloc')
           /\ ~ ViewerFails => viewer' # NoPage
           /\ \A pa \in Pages : pages[pa] # 0 => PagesShown[pa] = pages[pa]
           /\ \A pa \in Pages : PagesShown[pa] \in {pages[pa], KernelOwner}
<1>1. TypeOK /\ ViewerOwned /\ KallocComplete
  BY DEF KernelInv
<1>2. NPROC \in Nat /\ NPROC < 255 /\ NPages \in Nat
  BY ProcAssumption, PageAssumption DEF KernelOwner
<1>3. CASE viewer # NoPage
  <2>1. PagesShown = pages /\ UNCHANGED <<viewer, nextAlloc>>
    BY <1>3 DEF PagesShown, Memshow
  <2> QED
    BY <1>1, <1>3, <2>1 DEF PageInv, TypeOK, ViewerOwned, KallocComplete, ViewerFails
<1>4. CASE viewer = NoPage /\ Kalloc = NoPage
  <2>1. PagesShown = pages /\ viewer' = NoPage /\ nextAlloc' = NPages
    BY <1>4 DEF PagesShown, Memshow
  <2>2. \A pa \in Pages : nextAlloc <= pa => ~ Claimable(pa)
    BY <1>1, <1>4, KallocFirst
  <2>3. \A pa \in Pages : Allocatable(pa) => pages[pa] # 0
    BY <1>1, <1>2, <2>2 DEF Claimable, KallocComplete, TypeOK
  <2>4. ViewerFails
    BY <1>4 DEF ViewerFails
  <2> QED
    BY <1>1, <1>2, <1>4, <2>1, <2>3, <2>4 DEF PageInv, TypeOK, ViewerOwned
<1>5. CASE viewer = NoPage /\ Kalloc # NoPage
  <2>1. /\ PagesShown = [pages EXCEPT ![Kalloc] = KernelOwner]
        /\ viewer' = Kalloc /\ nextAlloc' = Kalloc + 1
    BY <1>5 DEF PagesShown, Memshow
  <2>2. /\ Kalloc \in Pages /\ Claimable(Kalloc)
        /\ \A pa \in Pages : nextAlloc <= pa /\ pa < Kalloc => ~ Claimable(pa)
    BY <1>1, <1>5, KallocFirst
  <2>3. Allocatable(Kalloc) /\ pages[Kalloc] = 0
    BY <2>2 DEF Claimable
  <2>4. \A pa \in Pages : pages[pa] # KernelOwner
    <3>1. \A pa \in Pages : pages[pa] = KernelOwner => pa = viewer
      BY <1>1 DEF ViewerOwned, KernelOwner
    <3> QED
      BY <3>1, <1>5, <1>2
  <2>5. \A pa \in Pages : pa < Kalloc /\ Allocatable(pa) => pages[pa] # 0
    BY <1>1, <1>2, <2>2 DEF Claimable, KallocComplete, TypeOK
  <2>6. /\ PagesShown \in [Pages -> Procs \cup {KernelOwner}]
        /\ PagesShown[Kalloc] = KernelOwner
        /\ \A pa \in Pages : pa # Kalloc => PagesShown[pa] = pages[pa]
    BY <1>1, <2>1, <2>2 DEF TypeOK
  <2>7. \A pa \in Pages : PagesShown[pa] # 0 =>
            Allocatable(pa) /\ (PagesShown[pa] = KernelOwner <=> pa = Kalloc)
    BY <1>1, <2>2, <2>3, <2>4, <2>6 DEF ViewerOwned
  <2>8. \A pa \in Pages : pa < Kalloc + 1 /\ Allocatable(pa) => PagesShown[pa] # 0
    BY <1>2, <2>2, <2>5, <2>6 DEF KernelOwner
  <2>9. PageInv(PagesShown, viewer', nextAlloc')
    BY <1>2, <2>1, <2>2, <2>6, <2>7, <2>8 DEF PageInv
  <2> QED
    BY <1>5, <2>1, <2>3, <2>6, <2>9
<1> QED
  BY <1>3, <1>4, <1>5

\* Page contents stay typed.
LEMMA MemshowMemory ==
    ASSUME TypeOK
    PROVE  /\ MemoryShown \in [Pages -> 0 .. NPROC]
           /\ \A pa \in Pages : Cleared(pa) \in [Pages -> 0 .. NPROC]
<1>1. 0 \in 0 .. NPROC /\ memory \in [Pages -> 0 .. NPROC]
  BY ProcAssumption DEF TypeOK
<1>2. MemoryShown \in [Pages -> 0 .. NPROC]
  <2>1. CASE viewer = NoPage /\ Kalloc # NoPage
    <3>1. MemoryShown = [memory EXCEPT ![Kalloc] = 0]
      BY <2>1 DEF MemoryShown
    <3> QED
      BY <1>1, <3>1
  <2>2. CASE ~ (viewer = NoPage /\ Kalloc # NoPage)
    BY <1>1, <2>2 DEF MemoryShown
  <2> QED
    BY <2>1, <2>2
<1>3. ASSUME NEW pa \in Pages
      PROVE  Cleared(pa) \in [Pages -> 0 .. NPROC]
  BY <1>1, <1>2 DEF Cleared
<1> QED
  BY <1>2, <1>3

-----------------------------------------------------------------------------
(* Ways to leave a handler. Each of the next three lemmas covers one.      *)

\* Cleared registers are registers.
LEMMA ZeroTyped ==
    ASSUME NEW n \in Programs
    PROVE  Zero(Entry[n]) \in Regs
<1>1. Entry[n] \in Labels /\ 0 \in Locals
  BY UserAssumption
<1>2. 0 \in Procs
  BY ProcAssumption
<1> QED
  BY <1>1, <1>2 DEF Zero, Regs

\* A soft reboot re-establishes the invariant from nothing.
LEMMA BootInv ==
    ASSUME KernelInv, NEW c \in Commands, Boot(c),
           memory' \in [Pages -> 0 .. NPROC],
           key' \in Keys \cup {NoKey}, keysLeft' \in 0 .. MaxKeys
    PROVE  KernelInv'
<1>1. Zero(Entry[0]) \in Regs
  BY ZeroTyped DEF Programs
<1>2. TypeOK'
  BY <1>1, ProcAssumption, PageAssumption, ClockAssumption
     DEF Boot, TypeOK, Modes, States, FreshPages
<1>3. SlotZeroFree' /\ LiveSetUp' /\ OwnersLive' /\ LiveOwned'
  BY ProcAssumption DEF Boot, SlotZeroFree, LiveSetUp, OwnersLive, LiveOwned, Live, FreshPages
<1>4. ViewerOwned' /\ KallocComplete'
  BY PageAssumption DEF Boot, ViewerOwned, KallocComplete, FreshPages
<1>5. UserRunsRunnable' /\ DisplayedLive' /\ Scanned'
  BY DEF Boot, UserRunsRunnable, DisplayedLive, Scanned
<1> QED
  BY <1>2, <1>3, <1>4, <1>5 DEF KernelInv

\* So does turning the machine off.
LEMMA PowerOffInv ==
    ASSUME KernelInv, PowerOff, key' = NoKey, UNCHANGED keysLeft
    PROVE  KernelInv'
<1>1. /\ TypeOK' /\ KallocComplete' /\ SlotZeroFree' /\ LiveSetUp'
      /\ ViewerOwned'
  BY DEF KernelInv, PowerOff, TypeOK, Modes, KallocComplete, SlotZeroFree,
         LiveSetUp, Live, LastSetup, ViewerOwned, bootVars, procVars, memVars, viewVars, schedVars, Allocatable
<1>2. /\ UserRunsRunnable' /\ DisplayedLive' /\ OwnersLive' /\ LiveOwned'
      /\ Scanned'
  BY DEF PowerOff, UserRunsRunnable, DisplayedLive, OwnersLive, LiveOwned,
         Scanned, UpAndRunning
<1> QED
  BY <1>1, <1>2 DEF KernelInv

\* What check_keyboard() does with a key, and that nothing else happens to the
\* invariant unless it lets the handler go on.
LEMMA KeyboardInv ==
    ASSUME KernelInv, NEW contents \in [Pages -> 0 .. NPROC], NEW ACTION Rest,
           CheckKeyboard(contents, Rest),
           key = NoKey /\ key' = NoKey /\ UNCHANGED keysLeft /\ Rest => KernelInv'
    PROVE  KernelInv'
<1>1. key' \in Keys \cup {NoKey} /\ keysLeft' \in 0 .. MaxKeys
  BY DEF CheckKeyboard, KernelInv, TypeOK
<1>2. CASE key \in {"a", "f", "e"} /\ Boot(RebootCommand(key)) /\ memory' = contents
  <2>1. RebootCommand(key) \in Commands
    BY <1>2 DEF RebootCommand, Commands
  <2> QED
    BY <1>1, <1>2, <2>1, BootInv
<1>3. CASE key = "q" /\ PowerOff
  BY <1>3, PowerOffInv DEF CheckKeyboard
<1>4. CASE key = NoKey /\ Rest
  BY <1>4 DEF CheckKeyboard
<1> QED
  BY <1>2, <1>3, <1>4 DEF CheckKeyboard

\* The pages of a live process's program are pages.
LEMMA ProgramPages ==
    ASSUME TypeOK, LiveSetUp, NEW p \in Pids, Live(p)
    PROVE  /\ ProgramOf(p) \in Programs
           /\ Image[ProgramOf(p)] \cup {StackPage[p]} \subseteq Pages
<1>1. p <= 4
  BY ProcAssumption DEF LiveSetUp, LastSetup
<1>2. ProgramOf(p) \in Programs
  BY <1>1, ProcAssumption DEF ProgramOf, Programs
<1> QED
  BY <1>2, PageAssumption

\* A handler's own work, once it has redrawn the viewer and found no key: it
\* keeps the invariant if it only grants free pages to the process that called,
\* breaks no process but that one, and does not go on running it if it did.
LEMMA HandlerKeeps ==
    ASSUME KernelInv, mode = "user", ~ ViewerFails,
           NEW calls \in {1, 2}, Memshow(calls),
           UNCHANGED <<bootVars, current>>,
           key' \in Keys \cup {NoKey}, keysLeft' \in 0 .. MaxKeys,
           ticks' \in 0 .. TickMod - 1,
           regs' \in [Procs -> Regs], cpu' \in Regs,
           memory' \in [Pages -> 0 .. NPROC],
           ptable' = ptable \/ ptable' = [ptable EXCEPT ![current] = "BROKEN"],
           \/ pages' = PagesShown
           \/ \E pa \in Pages : PageFree(pa) /\ pages' = [PagesShown EXCEPT ![pa] = current],
           \/ mode' = "panic" /\ UNCHANGED schedVars
           \/ mode' = "user" /\ ptable' = ptable /\ UNCHANGED schedVars
           \/ mode' = "sched" /\ schedPid' = current /\ spins' = 0
    PROVE  KernelInv'
<1>1. TypeOK /\ ptable[current] = "RUNNABLE" /\ ptable[0] = "FREE"
  BY DEF KernelInv, UserRunsRunnable, SlotZeroFree
<1>2. current \in Pids /\ KernelOwner \notin Procs
  BY <1>1, ProcAssumption DEF TypeOK, KernelOwner
<1>3. ASSUME NEW p \in Procs
      PROVE  /\ \/ ptable'[p] = ptable[p]
                \/ p = current /\ ptable'[p] = "BROKEN"
             /\ ptable'[p] # "FREE" <=> ptable[p] # "FREE"
  <2>1. CASE ptable' = ptable
    BY <2>1
  <2>2. CASE ptable' = [ptable EXCEPT ![current] = "BROKEN"]
    <3>1. ptable'[p] = IF p = current THEN "BROKEN" ELSE ptable[p]
      BY <1>1, <2>2 DEF TypeOK
    <3> QED
      BY <1>1, <3>1
  <2> QED
    BY <2>1, <2>2
<1>4. /\ lastTicks' \in 0 .. TickMod - 1 /\ showing' \in Procs
      /\ Live(current) /\ Live(showing')
  BY <1>1, <1>2, MemshowView DEF Live
<1>5. /\ PageInv(PagesShown, viewer', nextAlloc')
      /\ viewer' # NoPage
      /\ \A pa \in Pages : pages[pa] # 0 => PagesShown[pa] = pages[pa]
      /\ \A pa \in Pages : PagesShown[pa] \in {pages[pa], KernelOwner}
  BY MemshowPages
<1>6. /\ PageInv(pages', viewer', nextAlloc')
      /\ \A pa \in Pages : pages[pa] # 0 => pages'[pa] = pages[pa]
      /\ \A pa \in Pages : pages'[pa] \in {pages[pa], KernelOwner, current}
  <2>1. CASE pages' = PagesShown
    BY <1>5, <2>1
  <2>2. CASE \E pa \in Pages : PageFree(pa) /\ pages' = [PagesShown EXCEPT ![pa] = current]
    <3>1. PICK g \in Pages : PageFree(g) /\ pages' = [PagesShown EXCEPT ![g] = current]
      BY <2>2
    <3>2. Allocatable(g) /\ PagesShown[g] = 0
      BY <3>1 DEF PageFree
    <3>3. /\ pages' \in [Pages -> Procs \cup {KernelOwner}]
          /\ pages'[g] = current
          /\ \A pa \in Pages : pa # g => pages'[pa] = PagesShown[pa]
      BY <1>2, <1>5, <3>1 DEF PageInv
    <3>4. viewer' # g
      BY <1>5, <3>2 DEF PageInv, KernelOwner
    <3>5. current # 0 /\ current # KernelOwner
      BY <1>2
    <3>6. PageInv(pages', viewer', nextAlloc')
      BY <1>5, <3>2, <3>3, <3>4, <3>5 DEF PageInv
    <3>7. \A pa \in Pages : pages[pa] # 0 => pa # g
      BY <1>5, <3>2
    <3> QED
      BY <1>5, <3>3, <3>6, <3>7
  <2> QED
    BY <2>1, <2>2
<1>7. TypeOK'
  <2>1. ptable' \in [Procs -> States]
    BY <1>1 DEF TypeOK, States
  <2>2. schedPid' \in Procs /\ spins' \in 0 .. SpinPeriod - 1
    BY SMTT(30), <1>1, ClockAssumption DEF TypeOK, schedVars
  <2>3. mode' \in Modes /\ cmd' \in Commands /\ setup' \in 1 .. NPROC /\ current' \in Procs
    BY <1>1 DEF TypeOK, Modes, bootVars
  <2> QED
    BY <1>4, <1>6, <2>1, <2>2, <2>3 DEF TypeOK, PageInv
<1>8. UserRunsRunnable' /\ DisplayedLive' /\ SlotZeroFree' /\ LiveSetUp'
  <2>1. LiveSetUp'
    BY <1>3 DEF KernelInv, LiveSetUp, Live, LastSetup, bootVars
  <2> QED
    BY <1>1, <1>2, <1>3, <1>4, <2>1, ProcAssumption
       DEF UserRunsRunnable, DisplayedLive, SlotZeroFree, Live
<1>9. KallocComplete' /\ ViewerOwned'
  BY <1>6 DEF PageInv, KallocComplete, ViewerOwned, Allocatable
<1>10. OwnersLive'
  <2>1. \A pa \in Pages : pages[pa] \notin {0, KernelOwner} => Live(pages[pa])
    BY DEF KernelInv, OwnersLive, UpAndRunning
  <2> SUFFICES ASSUME NEW pa \in Pages, pages'[pa] \notin {0, KernelOwner}
               PROVE  Live(pages[pa])'
    BY DEF OwnersLive
  <2>2. pages'[pa] = pages[pa] \/ pages'[pa] = current
    BY <1>6
  <2>3. pages'[pa] \in Procs /\ Live(pages'[pa])
    BY <1>4, <1>6, <2>1, <2>2 DEF PageInv
  <2> QED
    BY <1>3, <2>3 DEF Live
<1>11. LiveOwned'
  <2>1. \A p \in Pids : Live(p) =>
            \A pa \in Image[ProgramOf(p)] \cup {StackPage[p]} : pages[pa] = p
    BY DEF KernelInv, LiveOwned, UpAndRunning
  <2> SUFFICES ASSUME NEW p \in Pids, Live(p)',
                      NEW pa \in (Image[ProgramOf(p)] \cup {StackPage[p]})'
               PROVE  pages'[pa] = p
    BY DEF LiveOwned
  <2>2. Live(p)
    BY <1>3 DEF Live
  <2>3. pa \in Image[ProgramOf(p)] \cup {StackPage[p]}
    BY DEF ProgramOf, bootVars
  <2>4. pages[pa] = p /\ p # 0
    BY <2>1, <2>2, <2>3
  <2>5. pa \in Pages
    BY <1>1, <2>2, <2>3, ProgramPages DEF KernelInv
  <2> QED
    BY <1>6, <2>4, <2>5
<1>12. Scanned'
  <2>1. NextPid(current) \in Procs /\ Dist(NextPid(current), NextPid(current)) = 0
    BY <1>2, DistRange
  <2>2. ASSUME NEW q \in Procs PROVE Dist(NextPid(current), q) \in Nat
    <3>1. Dist(NextPid(current), q) \in Procs
      BY <2>1, DistRange
    <3> DEFINE d == Dist(NextPid(current), q)
    <3> HIDE DEF d
    <3>2. d \in Procs => d \in Nat
      BY ProcAssumption
    <3> QED
      BY <3>1, <3>2 DEF d
  <2>3. CASE mode' = "sched"
    <3>1. schedPid' = current /\ current' = current
      BY <2>3
    <3>2. Live(current)'
      BY <1>2, <1>3, <1>4, <3>1 DEF Live
    <3>3. ASSUME NEW q \in Procs
          PROVE  Dist(NextPid(current), NextPid(schedPid))' <= Dist(NextPid(current), q)'
      <4>1. Dist(NextPid(current), NextPid(schedPid))'
              = Dist(NextPid(current), NextPid(current))
        BY <3>1 DEF Dist, NextPid
      <4>2. Dist(NextPid(current), q)' = Dist(NextPid(current), q)
        BY <3>1 DEF Dist, NextPid
      <4> QED
        BY <2>1, <2>2, <4>1, <4>2
    <3> QED
      BY <3>2, <3>3 DEF Scanned
  <2> QED
    BY <2>3 DEF Scanned
<1> QED
  BY <1>7, <1>8, <1>9, <1>10, <1>11, <1>12 DEF KernelInv

-----------------------------------------------------------------------------
(* The invariant is kept by every action.                                  *)

\* A panic keeps the invariant as long as pages[] is sound.
LEMMA PanicInv ==
    ASSUME KernelInv, mode' = "panic", TypeOK',
           PageInv(pages', viewer', nextAlloc'), UNCHANGED <<cmd, ptable>>
    PROVE  KernelInv'
<1>1. KallocComplete' /\ ViewerOwned'
  BY DEF PageInv, KallocComplete, ViewerOwned, Allocatable
<1>2. SlotZeroFree' /\ LiveSetUp'
  BY DEF KernelInv, SlotZeroFree, LiveSetUp, Live, LastSetup
<1>3. /\ UserRunsRunnable' /\ DisplayedLive' /\ OwnersLive' /\ LiveOwned'
      /\ Scanned'
  BY DEF UserRunsRunnable, DisplayedLive, OwnersLive, LiveOwned, Scanned,
         UpAndRunning
<1> QED
  BY <1>1, <1>2, <1>3 DEF KernelInv

\* A handler keeps the invariant if what it does after redrawing the viewer
\* and finding no key does.
LEMMA HandlerInv ==
    ASSUME KernelInv, NEW calls \in {1, 2}, NEW ACTION Rest, Handler(calls, Rest),
           /\ ~ ViewerFails /\ mode = "user" /\ Memshow(calls)
           /\ UNCHANGED bootVars /\ key' = NoKey /\ UNCHANGED keysLeft
           /\ Rest
           => KernelInv'
    PROVE  KernelInv'
<1>1. CASE ViewerFails
  <2>1. /\ Memshow(calls) /\ SaveRegs(cpu) /\ Halt
        /\ UNCHANGED <<bootVars, ptable, pages, memory, ticks, key, keysLeft>>
    BY <1>1 DEF Handler
  <2>2. PageInv(pages', viewer', nextAlloc')
    <3>1. PagesShown = pages
      BY <1>1 DEF PagesShown, ViewerFails
    <3> QED
      BY <2>1, <3>1, MemshowPages
  <2>3. lastTicks' \in 0 .. TickMod - 1 /\ showing' \in Procs
    BY <2>1, MemshowView DEF KernelInv
  <2>4. TypeOK'
    BY <2>1, <2>2, <2>3
       DEF KernelInv, TypeOK, PageInv, SaveRegs, Halt, Panic, Modes, bootVars, schedVars
  <2> QED
    BY <2>1, <2>2, <2>4, PanicInv DEF Halt, Panic, bootVars
<1>2. CASE ~ ViewerFails
  <2>1. MemoryShown \in [Pages -> 0 .. NPROC]
    BY MemshowMemory DEF KernelInv
  <2>2. /\ mode = "user"
        /\ CheckKeyboard(MemoryShown, Memshow(calls) /\ Rest /\ UNCHANGED bootVars)
    BY <1>2 DEF Handler
  <2> QED
    BY <1>2, <2>1, <2>2, KeyboardInv
<1> QED
  BY <1>1, <1>2

\* The registers a handler saves or returns with are registers.
LEMMA RegsTyped ==
    ASSUME TypeOK, NEW rax \in {-1} \cup Calls \cup Procs
    PROVE  /\ Trapped \in Regs /\ [Trapped EXCEPT !.rax = rax] \in Regs
           /\ [pc |-> After[cpu.pc], rax |-> rax, rbx |-> cpu.rbx] \in Regs
<1>1. cpu \in Regs /\ After[cpu.pc] \in Labels
  BY UserAssumption DEF TypeOK, Regs
<1> QED
  BY <1>1 DEF Trapped, Regs

\* The gates redraw the viewer once or twice.
LEMMA GateCalls == ASSUME NEW gate \in Gates PROVE MemshowCalls(gate) \in {1, 2}
BY DEF Gates, MemshowCalls

\* The timer interrupt keeps the invariant.
LEMMA TimerInv == ASSUME KernelInv, Timer PROVE KernelInv'
<1> DEFINE Rest ==
        /\ SaveRegs(cpu) /\ Schedule
        /\ ticks' = NextTick
        /\ pages' = PagesShown /\ memory' = MemoryShown
        /\ UNCHANGED ptable
<1>1. ASSUME ~ ViewerFails, mode = "user", Memshow(1), UNCHANGED bootVars,
             key' = NoKey, UNCHANGED keysLeft, Rest
      PROVE  KernelInv'
  <2>1. TypeOK /\ NextTick \in 0 .. TickMod - 1 /\ MemoryShown \in [Pages -> 0 .. NPROC]
    BY ClockAssumption, MemshowMemory DEF KernelInv, TypeOK, NextTick
  <2>2. /\ regs' \in [Procs -> Regs] /\ cpu' \in Regs
        /\ UNCHANGED <<bootVars, current, ptable>>
        /\ mode' = "sched" /\ schedPid' = current /\ spins' = 0
        /\ key' \in Keys \cup {NoKey} /\ keysLeft' \in 0 .. MaxKeys
    BY <1>1, <2>1 DEF TypeOK, SaveRegs, Schedule
  <2> QED
    BY <1>1, <2>1, <2>2, HandlerKeeps
<1> QED
  BY <1>1, HandlerInv DEF Timer

\* So does a page fault, which breaks the running process and leaves it.
LEMMA PageFaultInv == ASSUME KernelInv, PageFault PROVE KernelInv'
<1> DEFINE Rest ==
        /\ SaveRegs(cpu) /\ Schedule
        /\ ptable' = [ptable EXCEPT ![current] = "BROKEN"]
        /\ pages' = PagesShown /\ memory' = MemoryShown
        /\ UNCHANGED ticks
<1>1. ASSUME ~ ViewerFails, mode = "user", Memshow(1), UNCHANGED bootVars,
             key' = NoKey, UNCHANGED keysLeft, Rest
      PROVE  KernelInv'
  <2>1. TypeOK /\ MemoryShown \in [Pages -> 0 .. NPROC]
    BY MemshowMemory DEF KernelInv
  <2>2. /\ regs' \in [Procs -> Regs] /\ cpu' \in Regs
        /\ UNCHANGED <<bootVars, current>> /\ ticks' \in 0 .. TickMod - 1
        /\ mode' = "sched" /\ schedPid' = current /\ spins' = 0
        /\ key' \in Keys \cup {NoKey} /\ keysLeft' \in 0 .. MaxKeys
    BY <1>1, <2>1 DEF TypeOK, SaveRegs, Schedule
  <2> QED
    BY <1>1, <2>1, <2>2, HandlerKeeps
<1> QED
  BY <1>1, HandlerInv DEF PageFault

\* And any other exception, which panics.
LEMMA OtherExceptionInv == ASSUME KernelInv, OtherException PROVE KernelInv'
<1> DEFINE Rest ==
        /\ SaveRegs(cpu) /\ Halt
        /\ pages' = PagesShown /\ memory' = MemoryShown
        /\ UNCHANGED <<ptable, ticks>>
<1>1. ASSUME ~ ViewerFails, mode = "user", Memshow(1), UNCHANGED bootVars,
             key' = NoKey, UNCHANGED keysLeft, Rest
      PROVE  KernelInv'
  <2>1. TypeOK /\ MemoryShown \in [Pages -> 0 .. NPROC]
    BY MemshowMemory DEF KernelInv
  <2>2. /\ regs' \in [Procs -> Regs] /\ cpu' \in Regs
        /\ UNCHANGED <<bootVars, current>> /\ ticks' \in 0 .. TickMod - 1
        /\ mode' = "panic" /\ UNCHANGED schedVars
        /\ key' \in Keys \cup {NoKey} /\ keysLeft' \in 0 .. MaxKeys
    BY <1>1, <2>1 DEF TypeOK, SaveRegs, Halt, Panic
  <2> QED
    BY <1>1, <2>1, <2>2, HandlerKeeps
<1> QED
  BY <1>1, HandlerInv DEF OtherException

\* The system calls that do not touch pages[] keep the invariant, by either
\* gate.
LEMMA SysGetpidInv ==
    ASSUME KernelInv, NEW gate \in Gates, SysGetpid(gate) PROVE KernelInv'
<1> DEFINE calls == MemshowCalls(gate)
           Rest == /\ SaveResult(gate, current) /\ Back(current)
                   /\ pages' = PagesShown /\ memory' = MemoryShown
                   /\ UNCHANGED <<ptable, ticks>>
<1>1. ASSUME ~ ViewerFails, mode = "user", Memshow(calls), UNCHANGED bootVars,
             key' = NoKey, UNCHANGED keysLeft, Rest
      PROVE  KernelInv'
  <2>1. TypeOK /\ MemoryShown \in [Pages -> 0 .. NPROC] /\ calls \in {1, 2}
    BY MemshowMemory, GateCalls DEF KernelInv
  <2>2. /\ Trapped \in Regs /\ [Trapped EXCEPT !.rax = current] \in Regs
        /\ [pc |-> After[cpu.pc], rax |-> current, rbx |-> cpu.rbx] \in Regs
    BY <2>1, RegsTyped DEF TypeOK
  <2>3. regs' \in [Procs -> Regs] /\ cpu' \in Regs
    BY <1>1, <2>1, <2>2 DEF TypeOK, SaveResult, SaveRegs, Back
  <2>4. /\ UNCHANGED <<bootVars, current>> /\ ticks' \in 0 .. TickMod - 1
        /\ mode' = "user" /\ ptable' = ptable /\ UNCHANGED schedVars
        /\ key' \in Keys \cup {NoKey} /\ keysLeft' \in 0 .. MaxKeys
    BY <1>1, <2>1 DEF TypeOK, Back
  <2> HIDE DEF calls
  <2> QED
    BY <1>1, <2>1, <2>3, <2>4, HandlerKeeps
<1> QED
  BY <1>1, GateCalls, HandlerInv DEF SysGetpid

LEMMA SysYieldInv ==
    ASSUME KernelInv, NEW gate \in Gates, SysYield(gate) PROVE KernelInv'
<1> DEFINE calls == MemshowCalls(gate)
           Rest == /\ SaveRegs([Trapped EXCEPT !.rax = 0]) /\ Schedule
                   /\ pages' = PagesShown /\ memory' = MemoryShown
                   /\ UNCHANGED <<ptable, ticks>>
<1>1. ASSUME ~ ViewerFails, mode = "user", Memshow(calls), UNCHANGED bootVars,
             key' = NoKey, UNCHANGED keysLeft, Rest
      PROVE  KernelInv'
  <2>1. TypeOK /\ MemoryShown \in [Pages -> 0 .. NPROC] /\ calls \in {1, 2}
    BY MemshowMemory, GateCalls DEF KernelInv
  <2>2. [Trapped EXCEPT !.rax = 0] \in Regs
    <3>1. 0 \in {-1} \cup Calls \cup Procs
      BY ProcAssumption
    <3> QED
      BY <2>1, <3>1, RegsTyped
  <2>3. /\ regs' \in [Procs -> Regs] /\ cpu' \in Regs
        /\ UNCHANGED <<bootVars, current>> /\ ticks' \in 0 .. TickMod - 1
        /\ mode' = "sched" /\ schedPid' = current /\ spins' = 0
        /\ key' \in Keys \cup {NoKey} /\ keysLeft' \in 0 .. MaxKeys
    BY <1>1, <2>1, <2>2 DEF TypeOK, SaveRegs, Schedule
  <2> HIDE DEF calls
  <2> QED
    BY <1>1, <2>1, <2>3, HandlerKeeps
<1> QED
  BY <1>1, GateCalls, HandlerInv DEF SysYield

LEMMA SysPanicInv ==
    ASSUME KernelInv, NEW gate \in Gates, SysPanic(gate) PROVE KernelInv'
<1> DEFINE calls == MemshowCalls(gate)
           Rest == /\ SaveRegs(Trapped) /\ Halt
                   /\ pages' = PagesShown /\ memory' = MemoryShown
                   /\ UNCHANGED <<ptable, ticks>>
<1>1. ASSUME ~ ViewerFails, mode = "user", Memshow(calls), UNCHANGED bootVars,
             key' = NoKey, UNCHANGED keysLeft, Rest
      PROVE  KernelInv'
  <2>1. TypeOK /\ MemoryShown \in [Pages -> 0 .. NPROC] /\ calls \in {1, 2}
    BY MemshowMemory, GateCalls DEF KernelInv
  <2>2. Trapped \in Regs
    BY <2>1, RegsTyped
  <2>3. /\ regs' \in [Procs -> Regs] /\ cpu' \in Regs
        /\ UNCHANGED <<bootVars, current>> /\ ticks' \in 0 .. TickMod - 1
        /\ mode' = "panic" /\ UNCHANGED schedVars
        /\ key' \in Keys \cup {NoKey} /\ keysLeft' \in 0 .. MaxKeys
    BY <1>1, <2>1, <2>2 DEF TypeOK, SaveRegs, Halt, Panic
  <2> HIDE DEF calls
  <2> QED
    BY <1>1, <2>1, <2>3, HandlerKeeps
<1> QED
  BY <1>1, GateCalls, HandlerInv DEF SysPanic

\* sys_page_alloc() keeps the invariant: it grants a page only if nobody owns
\* it, the viewer included, and only to the process that called.
LEMMA SysPageAllocInv ==
    ASSUME KernelInv, NEW gate \in Gates, NEW pa \in Pages \cup {NPages},
           NEW aligned \in BOOLEAN, SysPageAlloc(gate, pa, aligned)
    PROVE  KernelInv'
<1> DEFINE calls == MemshowCalls(gate)
           granted == aligned /\ PageFree(pa)
           Rest ==
               /\ IF aligned
                  THEN LET rax == IF granted THEN 0 ELSE -1
                       IN  SaveResult(gate, rax) /\ Back(rax)
                  ELSE SaveRegs(Trapped) /\ Halt
               /\ pages' = IF granted THEN [PagesShown EXCEPT ![pa] = current]
                           ELSE PagesShown
               /\ memory' = IF granted THEN Cleared(pa) ELSE MemoryShown
               /\ UNCHANGED <<ptable, ticks>>
<1>1. ASSUME ~ ViewerFails, mode = "user", Memshow(calls), UNCHANGED bootVars,
             key' = NoKey, UNCHANGED keysLeft, Rest
      PROVE  KernelInv'
  <2>1. TypeOK /\ MemoryShown \in [Pages -> 0 .. NPROC] /\ calls \in {1, 2}
    BY MemshowMemory, GateCalls DEF KernelInv
  <2>2. granted => pa \in Pages
    BY DEF PageFree, Allocatable
  <2>3. memory' \in [Pages -> 0 .. NPROC]
    BY <1>1, <2>1, <2>2, MemshowMemory
  <2>4. \/ pages' = PagesShown
        \/ \E g \in Pages : PageFree(g) /\ pages' = [PagesShown EXCEPT ![g] = current]
    BY <1>1, <2>2
  <2>5. /\ regs' \in [Procs -> Regs] /\ cpu' \in Regs
        /\ UNCHANGED <<bootVars, current>>
        /\ mode' \in {"user", "panic"} /\ UNCHANGED schedVars
    <3>1. CASE ~ aligned
      <4>1. SaveRegs(Trapped) /\ Halt
        BY <1>1, <3>1
      <4> QED
        BY <1>1, <2>1, <4>1, RegsTyped, ProcAssumption DEF TypeOK, SaveRegs, Halt, Panic
    <3>2. CASE aligned
      <4>1. PICK rax \in {0, -1} : SaveResult(gate, rax) /\ Back(rax)
        BY <1>1, <3>2
      <4>2. rax \in {-1} \cup Calls \cup Procs
        BY ProcAssumption
      <4>3. /\ Trapped \in Regs /\ [Trapped EXCEPT !.rax = rax] \in Regs
            /\ [pc |-> After[cpu.pc], rax |-> rax, rbx |-> cpu.rbx] \in Regs
        BY <2>1, <4>2, RegsTyped
      <4> QED
        BY <1>1, <2>1, <4>1, <4>3 DEF TypeOK, SaveResult, SaveRegs, Back
    <3> QED
      BY <3>1, <3>2
  <2>6. /\ ticks' \in 0 .. TickMod - 1 /\ ptable' = ptable
        /\ key' \in Keys \cup {NoKey} /\ keysLeft' \in 0 .. MaxKeys
    BY <1>1, <2>1 DEF TypeOK
  <2> HIDE DEF calls, granted
  <2> QED
    BY <1>1, <2>1, <2>3, <2>4, <2>5, <2>6, HandlerKeeps
<1> QED
  BY <1>1, GateCalls, HandlerInv DEF SysPageAlloc

\* process_setup() keeps the invariant: the pages it claims had no owner.
LEMMA ProcessSetupInv == ASSUME KernelInv, ProcessSetup PROVE KernelInv'
<1> DEFINE image == Image[ProgramOf(setup)]
           stack == StackPage[setup]
           loaded == {pa \in image : \A q \in image : q <= pa => Claimable(q)}
           ok == loaded = image /\ Claimable(stack) /\ stack \notin image
           got == IF ok THEN image \cup {stack} ELSE loaded
<1>1. /\ TypeOK /\ mode = "boot" /\ setup \in Pids /\ setup <= 4
      /\ viewer = NoPage /\ nextAlloc = 0
  BY ProcAssumption DEF ProcessSetup, LastSetup, KernelInv, TypeOK, ViewerOwned
<1>2. ProgramOf(setup) \in Programs /\ image \subseteq Pages /\ stack \in Pages
  <2>1. ProgramOf(setup) \in Programs
    BY <1>1, ProcAssumption DEF ProgramOf, Programs
  <2> QED
    BY <1>1, <2>1, PageAssumption
<1>3. /\ pages' = [pa \in Pages |-> IF pa \in got THEN setup ELSE pages[pa]]
      /\ memory' = [pa \in Pages |->
                       IF pa \in image /\ loaded = image THEN Junk
                       ELSE IF pa \in got THEN 0 ELSE memory[pa]]
      /\ UNCHANGED <<cmd, cpu, current, nextAlloc, ticks, viewVars, schedVars,
                     key, keysLeft>>
  BY DEF ProcessSetup
<1>4. \A pa \in got : pa \in Pages /\ Claimable(pa)
  <2>1. CASE ok
    <3>1. \A pa \in image : Claimable(pa)
      <4> SUFFICES ASSUME NEW pa \in image PROVE Claimable(pa)
        OBVIOUS
      <4>1. pa \in loaded /\ pa <= pa
        BY <1>2, <2>1, PageAssumption
      <4> QED
        BY <4>1
    <3> QED
      BY <1>2, <2>1, <3>1
  <2>2. CASE ~ ok
    <3> SUFFICES ASSUME NEW pa \in loaded PROVE pa \in Pages /\ Claimable(pa)
      BY <2>2
    <3>1. pa \in Pages /\ pa <= pa
      BY <1>2, PageAssumption
    <3> QED
      BY <3>1
  <2> QED
    BY <2>1, <2>2
<1> HIDE DEF got
<1>5. /\ pages' \in [Pages -> Procs \cup {KernelOwner}]
      /\ \A pa \in Pages : pages[pa] # 0 => pages'[pa] = pages[pa]
      /\ \A pa \in Pages : pages'[pa] # 0 /\ pages'[pa] # pages[pa] =>
             Allocatable(pa) /\ pages'[pa] = setup
  BY <1>1, <1>3, <1>4 DEF TypeOK, Claimable
<1>6. PageInv(pages', viewer', nextAlloc')
  <2>1. setup # KernelOwner /\ setup # 0 /\ NoPage \notin Pages
    BY <1>1, ProcAssumption, PageAssumption DEF KernelOwner
  <2>2. \A pa \in Pages : pages'[pa] # 0 =>
            Allocatable(pa) /\ pages'[pa] # KernelOwner
    BY <1>1, <1>5, <2>1 DEF KernelInv, ViewerOwned
  <2> QED
    BY <1>1, <1>3, <1>5, <2>1, <2>2, PageAssumption DEF PageInv, TypeOK, viewVars
<1>7. memory' \in [Pages -> 0 .. NPROC]
  <2>1. 0 \in 0 .. NPROC /\ Junk \in 0 .. NPROC
    BY ProcAssumption DEF Junk
  <2> QED
    BY <1>1, <1>3, <2>1 DEF TypeOK
<1>8. CASE ok
  <2>1. /\ ptable' = [ptable EXCEPT ![setup] = "RUNNABLE"]
        /\ regs' = [regs EXCEPT ![setup] = Zero(Entry[ProgramOf(setup)])]
        /\ setup' = setup + 1 /\ mode' = "boot"
    BY <1>1, <1>8 DEF ProcessSetup
  <2>2. TypeOK'
    <3>1. Zero(Entry[ProgramOf(setup)]) \in Regs
      BY <1>2, ZeroTyped
    <3>2. /\ ptable' \in [Procs -> States] /\ regs' \in [Procs -> Regs]
          /\ setup' \in 1 .. NPROC /\ mode' \in Modes
      BY <1>1, <2>1, <3>1, ProcAssumption DEF TypeOK, States, Modes
    <3> QED
      BY <1>1, <1>3, <1>6, <1>7, <3>2 DEF TypeOK, PageInv, viewVars, schedVars
  <2>3. ASSUME NEW p \in Procs
        PROVE  ptable'[p] = IF p = setup THEN "RUNNABLE" ELSE ptable[p]
    BY <1>1, <2>1 DEF TypeOK
  <2>4. /\ UserRunsRunnable' /\ DisplayedLive' /\ Scanned' /\ ViewerOwned'
        /\ KallocComplete'
    BY <1>1, <1>3, <1>6, <2>1
       DEF UserRunsRunnable, DisplayedLive, Scanned, ViewerOwned, KallocComplete,
           PageInv, viewVars, Allocatable
  <2>5. SlotZeroFree' /\ LiveSetUp'
    <3>1. 0 \in Procs /\ setup # 0 /\ setup <= LastSetup /\ LastSetup' = LastSetup
      BY <1>1, <1>3, ProcAssumption DEF ProcessSetup, LastSetup
    <3> QED
      BY <2>3, <3>1 DEF KernelInv, SlotZeroFree, LiveSetUp, Live
  <2>6. OwnersLive'
    <3> SUFFICES ASSUME NEW pa \in Pages, pages'[pa] \notin {0, KernelOwner}
                 PROVE  ptable'[pages'[pa]] # "FREE"
      BY DEF OwnersLive, Live
    <3>1. pages'[pa] = setup \/ pages'[pa] = pages[pa]
      BY <1>5
    <3>2. pages[pa] \notin {0, KernelOwner} => ptable[pages[pa]] # "FREE"
      BY <1>1 DEF KernelInv, OwnersLive, UpAndRunning, Live
    <3>3. pages'[pa] \in Procs
      BY <1>5
    <3> QED
      BY <1>1, <2>3, <3>1, <3>2, <3>3
  <2>7. LiveOwned'
    <3> SUFFICES ASSUME NEW p \in Pids, Live(p)',
                        NEW pa \in (Image[ProgramOf(p)] \cup {StackPage[p]})'
                 PROVE  pages'[pa] = p
      BY DEF LiveOwned
    <3>1. pa \in Image[ProgramOf(p)] \cup {StackPage[p]}
      BY <1>3 DEF ProgramOf
    <3>2. CASE p = setup
      BY <1>2, <1>3, <1>8, <3>1, <3>2 DEF got
    <3>3. CASE p # setup
      <4>1. Live(p)
        BY <2>3, <3>3 DEF Live
      <4>2. pages[pa] = p
        BY <1>1, <3>1, <4>1 DEF KernelInv, LiveOwned, UpAndRunning
      <4>3. pa \in Pages
        BY <1>1, <3>1, <4>1, ProgramPages DEF KernelInv
      <4> QED
        BY <1>5, <4>2, <4>3
    <3> QED
      BY <3>2, <3>3
  <2> QED
    BY <2>2, <2>4, <2>5, <2>6, <2>7 DEF KernelInv
<1>9. CASE ~ ok
  <2>1. mode' = "panic" /\ UNCHANGED <<ptable, regs, setup>>
    BY <1>9 DEF ProcessSetup, Panic
  <2>2. TypeOK'
    BY <1>1, <1>3, <1>6, <1>7, <2>1
       DEF TypeOK, PageInv, Modes, viewVars, schedVars
  <2> QED
    BY <1>3, <1>6, <2>1, <2>2, PanicInv
<1> QED
  BY <1>8, <1>9

\* Outside boot, what pages[] and the process table say of each other survives
\* a step that breaks or adds no process and gives pages only to the kernel.
LEMMA OwnersKeep ==
    ASSUME KernelInv, mode \in {"boot", "user", "sched"}, mode' # "boot",
           UNCHANGED <<cmd, ptable>>,
           PageInv(pages', viewer', nextAlloc'),
           \A pa \in Pages : pages[pa] # 0 => pages'[pa] = pages[pa],
           \A pa \in Pages : pages'[pa] \in {pages[pa], KernelOwner}
    PROVE  /\ OwnersLive' /\ LiveOwned' /\ KallocComplete' /\ ViewerOwned'
           /\ SlotZeroFree' /\ LiveSetUp'
<1>1. KallocComplete' /\ ViewerOwned'
  BY DEF PageInv, KallocComplete, ViewerOwned, Allocatable
<1>2. SlotZeroFree' /\ LiveSetUp'
  BY DEF KernelInv, SlotZeroFree, LiveSetUp, Live, LastSetup
<1>3. OwnersLive'
  <2> SUFFICES ASSUME NEW pa \in Pages, pages'[pa] \notin {0, KernelOwner}
               PROVE  Live(pages[pa])'
    BY DEF OwnersLive
  <2>1. pages'[pa] = pages[pa]
    OBVIOUS
  <2> QED
    BY <2>1 DEF KernelInv, OwnersLive, UpAndRunning, Live
<1>4. LiveOwned'
  <2> SUFFICES ASSUME NEW p \in Pids, Live(p)',
                      NEW pa \in (Image[ProgramOf(p)] \cup {StackPage[p]})'
               PROVE  pages'[pa] = p
    BY DEF LiveOwned
  <2>1. Live(p) /\ pa \in Image[ProgramOf(p)] \cup {StackPage[p]}
    BY DEF Live, ProgramOf
  <2>2. pages[pa] = p
    BY <2>1 DEF KernelInv, LiveOwned, UpAndRunning
  <2>3. pa \in Pages /\ p # 0
    BY <2>1, ProgramPages DEF KernelInv
  <2> QED
    BY <2>2, <2>3
<1> QED
  BY <1>1, <1>2, <1>3, <1>4

\* In particular a step that leaves pages[] alone.
LEMMA PagesInv ==
    ASSUME KernelInv PROVE PageInv(pages, viewer, nextAlloc)
BY PageAssumption DEF KernelInv, TypeOK, ViewerOwned, KallocComplete, PageInv

\* Entering user code keeps the invariant if the process is runnable.
LEMMA EnterUserInv ==
    ASSUME KernelInv, mode \in {"boot", "user", "sched"}, mode' = "user", TypeOK',
           ptable[current'] = "RUNNABLE",
           UNCHANGED <<cmd, ptable, pages, nextAlloc, viewer, showing>>
    PROVE  KernelInv'
<1>1. /\ OwnersLive' /\ LiveOwned' /\ KallocComplete' /\ ViewerOwned'
      /\ SlotZeroFree' /\ LiveSetUp'
  <2>1. PageInv(pages', viewer', nextAlloc')
    BY PagesInv
  <2> QED
    BY <2>1, OwnersKeep
<1>2. UserRunsRunnable' /\ DisplayedLive' /\ Scanned'
  BY DEF KernelInv, UserRunsRunnable, DisplayedLive, Live, Scanned
<1> QED
  BY <1>1, <1>2 DEF KernelInv

\* The first process is entered only if boot made it runnable.
LEMMA RunFirstInv == ASSUME KernelInv, RunFirst PROVE KernelInv'
<1>1. TypeOK /\ 1 \in Procs
  BY ProcAssumption DEF KernelInv
<1>2. CASE ptable[1] = "RUNNABLE"
  <2>1. mode' = "user" /\ current' = 1 /\ cpu' = regs[1]
    BY <1>2 DEF RunFirst, Run
  <2>2. TypeOK'
    BY <1>1, <2>1
       DEF RunFirst, TypeOK, Modes, bootVars, memVars, viewVars, schedVars
  <2> QED
    BY <1>2, <2>1, <2>2, EnterUserInv DEF RunFirst, bootVars, memVars, viewVars
<1>3. CASE ptable[1] # "RUNNABLE"
  <2>1. mode' = "panic" /\ UNCHANGED <<current, cpu>>
    BY <1>3 DEF RunFirst, Run, Panic
  <2>2. TypeOK'
    BY <1>1, <2>1
       DEF RunFirst, TypeOK, Modes, bootVars, memVars, viewVars, schedVars
  <2> QED
    BY <2>1, <2>2, PagesInv, PanicInv DEF RunFirst, bootVars, memVars, viewVars
<1> QED
  BY <1>2, <1>3

\* schedule() runs a process it has just found runnable.
LEMMA SchedRunInv == ASSUME KernelInv, SchedRun PROVE KernelInv'
<1>1. TypeOK /\ NextPid(schedPid) \in Procs
  BY DistRange DEF KernelInv, TypeOK
<1>2. /\ mode' = "user" /\ current' = NextPid(schedPid)
      /\ cpu' = regs[NextPid(schedPid)]
      /\ ptable[NextPid(schedPid)] = "RUNNABLE"
  BY DEF SchedRun, Run
<1>3. TypeOK'
  BY <1>1, <1>2, ProcAssumption, ClockAssumption
     DEF SchedRun, TypeOK, Modes, bootVars, memVars, viewVars
<1> QED
  BY <1>2, <1>3, EnterUserInv DEF SchedRun, bootVars, memVars, viewVars

\* A spin of schedule() that finds a process not runnable keeps the invariant:
\* one more slot has been passed over, and it holds no runnable process.
LEMMA SchedIdleInv == ASSUME KernelInv, SchedIdle PROVE KernelInv'
<1> DEFINE Rest ==
        /\ schedPid' = NextPid(schedPid)
        /\ spins' = (spins + 1) % SpinPeriod
        /\ IF spins = 0
           THEN /\ Memshow(1)
                /\ pages' = PagesShown /\ memory' = MemoryShown
                /\ IF ViewerFails THEN Panic ELSE UNCHANGED mode
           ELSE UNCHANGED <<mode, memVars, viewVars>>
        /\ UNCHANGED <<bootVars, procVars, ticks>>
<1>1. ASSUME key = NoKey, key' = NoKey, UNCHANGED keysLeft, Rest
      PROVE  KernelInv'
  <2>1. /\ TypeOK /\ mode = "sched" /\ Live(current)
        /\ NextPid(schedPid) \in Procs /\ NextPid(current) \in Procs
        /\ ptable[NextPid(schedPid)] # "RUNNABLE"
    BY DistRange DEF SchedIdle, KernelInv, TypeOK, Scanned
  <2>2. /\ spins' \in 0 .. SpinPeriod - 1 /\ schedPid' = NextPid(schedPid)
        /\ UNCHANGED <<cmd, setup, ptable, regs, cpu, current, ticks>>
    BY <1>1, <2>1, ClockAssumption DEF TypeOK, bootVars, procVars
  <2>3. /\ PageInv(pages', viewer', nextAlloc')
        /\ \A pa \in Pages : pages[pa] # 0 => pages'[pa] = pages[pa]
        /\ \A pa \in Pages : pages'[pa] \in {pages[pa], KernelOwner}
        /\ memory' \in [Pages -> 0 .. NPROC]
        /\ lastTicks' \in 0 .. TickMod - 1 /\ showing' \in Procs
        /\ mode' \in {"sched", "panic"}
        /\ viewer' # NoPage /\ mode' = "sched" => Live(showing')
    <3>1. CASE spins = 0
      <4>1. Memshow(1) /\ pages' = PagesShown /\ memory' = MemoryShown
        BY <1>1, <3>1
      <4>2. mode' \in {"sched", "panic"}
        BY <1>1, <2>1, <3>1 DEF Panic
      <4>3. /\ lastTicks' \in 0 .. TickMod - 1 /\ showing' \in Procs
            /\ Live(showing')
        BY <2>1, <4>1, MemshowView DEF TypeOK
      <4>4. MemoryShown \in [Pages -> 0 .. NPROC]
        BY <2>1, MemshowMemory
      <4> QED
        BY <4>1, <4>2, <4>3, <4>4, MemshowPages
    <3>2. CASE spins # 0
      <4>1. UNCHANGED <<mode, pages, memory, nextAlloc, lastTicks, showing, viewer>>
        BY <1>1, <3>2 DEF memVars, viewVars
      <4> QED
        BY <2>1, <4>1, PagesInv DEF KernelInv, TypeOK, DisplayedLive
    <3> QED
      BY <3>1, <3>2
  <2>4. TypeOK'
    BY <1>1, <2>1, <2>2, <2>3 DEF TypeOK, PageInv, Modes
  <2>5. CASE mode' = "panic"
    BY <2>2, <2>3, <2>4, <2>5, PanicInv
  <2>6. CASE mode' = "sched"
    <3>1. /\ OwnersLive' /\ LiveOwned' /\ KallocComplete' /\ ViewerOwned'
          /\ SlotZeroFree' /\ LiveSetUp'
      BY <2>1, <2>2, <2>3, <2>6, OwnersKeep
    <3>2. UserRunsRunnable' /\ DisplayedLive'
      BY <2>2, <2>3, <2>6 DEF UserRunsRunnable, DisplayedLive, Live
    <3>3. Scanned'
      <4> DEFINE c == NextPid(current)
                 n == NextPid(schedPid)
      <4>1. ASSUME NEW q \in Procs, ptable[q] = "RUNNABLE"
            PROVE  Dist(c, NextPid(n)) <= Dist(c, q)
        <5>1. Dist(c, n) <= Dist(c, q)
          BY <2>1, <4>1 DEF KernelInv, Scanned
        <5>2. Dist(c, n) # Dist(c, q)
          BY <2>1, <4>1, DistInjective
        <5>3. Dist(c, NextPid(n)) \in {0, Dist(c, n) + 1}
          BY <2>1, DistNext
        <5>4. Dist(c, n) \in Procs /\ Dist(c, q) \in Procs
          BY <2>1, DistRange
        <5> DEFINE x == Dist(c, n)
                   y == Dist(c, q)
                   z == Dist(c, NextPid(n))
        <5> HIDE DEF x, y, z
        <5>5. x <= y /\ x # y /\ z \in {0, x + 1} /\ x \in Procs /\ y \in Procs => z <= y
          BY ProcAssumption
        <5> QED
          BY <5>1, <5>2, <5>3, <5>4, <5>5 DEF x, y, z
      <4>2. ASSUME NEW q \in Procs
            PROVE  /\ Dist(NextPid(current), NextPid(schedPid))' = Dist(c, NextPid(n))
                   /\ Dist(NextPid(current), q)' = Dist(c, q)
        BY <2>2 DEF Dist, NextPid
      <4>3. ASSUME NEW q \in Procs, ptable'[q] = "RUNNABLE"
            PROVE  Dist(NextPid(current), NextPid(schedPid))' <= Dist(NextPid(current), q)'
        BY <2>2, <4>1, <4>2, <4>3
      <4>4. Live(current)'
        BY <2>1, <2>2 DEF Live
      <4> QED
        BY <4>3, <4>4 DEF Scanned
    <3> QED
      BY <2>4, <3>1, <3>2, <3>3 DEF KernelInv
  <2> QED
    BY <2>3, <2>5, <2>6
<1>2. CheckKeyboard(memory, Rest) /\ memory \in [Pages -> 0 .. NPROC]
  BY DEF SchedIdle, KernelInv, TypeOK
<1> HIDE DEF Rest
<1> QED
  BY <1>1, <1>2, KeyboardInv

\* A step that touches neither processes nor pages keeps the invariant.
LEMMA FrameInv ==
    ASSUME KernelInv, TypeOK',
           UNCHANGED <<mode, cmd, ptable, current, pages, nextAlloc, showing,
                       viewer, schedPid>>
    PROVE  KernelInv'
<1>1. /\ UserRunsRunnable' /\ KallocComplete' /\ DisplayedLive' /\ SlotZeroFree'
      /\ ViewerOwned' /\ LiveSetUp'
  BY DEF KernelInv, UserRunsRunnable, KallocComplete, DisplayedLive, SlotZeroFree,
         ViewerOwned, LiveSetUp, Live, Allocatable, LastSetup
<1>2. OwnersLive' /\ LiveOwned'
  BY DEF KernelInv, OwnersLive, LiveOwned, Live, UpAndRunning, ProgramOf
<1>3. Scanned'
  BY DEF KernelInv, Scanned, Live, Dist, NextPid
<1> QED
  BY <1>1, <1>2, <1>3 DEF KernelInv

\* Polling in fail() keeps the invariant.
LEMMA FailSpinInv == ASSUME KernelInv, FailSpin PROVE KernelInv'
<1> DEFINE Rest == UNCHANGED <<mode, bootVars, procVars, memVars, ticks, viewVars,
                               schedVars>>
<1>1. ASSUME key = NoKey, key' = NoKey, UNCHANGED keysLeft, Rest
      PROVE  KernelInv'
  <2>1. TypeOK'
    BY <1>1 DEF KernelInv, TypeOK, bootVars, procVars, memVars, viewVars, schedVars
  <2> QED
    BY <1>1, <2>1, FrameInv DEF bootVars, procVars, memVars, viewVars, schedVars
<1>2. CheckKeyboard(memory, Rest) /\ memory \in [Pages -> 0 .. NPROC]
  BY DEF FailSpin, KernelInv, TypeOK
<1> HIDE DEF Rest
<1> QED
  BY <1>1, <1>2, KeyboardInv

\* The user at the keyboard and user code keep the invariant.
LEMMA EnvironmentInv ==
    ASSUME KernelInv,
           \/ PressKey
           \/ \E r \in Regs : UserStep(r)
           \/ \E pa \in UserPages, v \in Pids, r \in Regs : UserWrite(pa, v, r)
    PROVE  KernelInv'
<1>1. CASE PressKey
  <2>1. keysLeft' \in 0 .. MaxKeys
    BY <1>1, UserAssumption DEF PressKey, KernelInv, TypeOK
  <2>2. TypeOK'
    BY <1>1, <2>1 DEF PressKey, KernelInv, TypeOK, bootVars, procVars, memVars,
                      viewVars, schedVars
  <2> QED
    BY <1>1, <2>2, FrameInv
       DEF PressKey, bootVars, procVars, memVars, viewVars, schedVars
<1>2. CASE \E r \in Regs : UserStep(r)
  <2>1. PICK r \in Regs : UserStep(r)
    BY <1>2
  <2>2. TypeOK'
    BY <2>1 DEF UserStep, KernelInv, TypeOK, bootVars, memVars, viewVars, schedVars
  <2> QED
    BY <2>1, <2>2, FrameInv DEF UserStep, bootVars, memVars, viewVars, schedVars
<1>3. CASE \E pa \in UserPages, v \in Pids, r \in Regs : UserWrite(pa, v, r)
  <2>1. PICK pa \in UserPages, v \in Pids, r \in Regs : UserWrite(pa, v, r)
    BY <1>3
  <2>2. memory' \in [Pages -> 0 .. NPROC]
    <3>1. v \in 0 .. NPROC /\ memory \in [Pages -> 0 .. NPROC]
      BY ProcAssumption DEF KernelInv, TypeOK
    <3> QED
      BY <2>1, <3>1 DEF UserWrite
  <2>3. TypeOK'
    BY <2>1, <2>2 DEF UserWrite, KernelInv, TypeOK, bootVars, viewVars, schedVars
  <2> QED
    BY <2>1, <2>3, FrameInv DEF UserWrite, bootVars, viewVars, schedVars
<1> QED
  BY <1>1, <1>2, <1>3

\* Doing nothing keeps the invariant.
LEMMA StutterInv == ASSUME KernelInv, UNCHANGED vars PROVE KernelInv'
<1>1. TypeOK'
  BY DEF KernelInv, TypeOK, vars, bootVars, procVars, memVars, viewVars, schedVars
<1> QED
  BY <1>1, FrameInv DEF vars, bootVars, procVars, memVars, viewVars, schedVars

\* The machine as it is switched on satisfies the invariant.
LEMMA InitInv == ASSUME Init PROVE KernelInv
<1>1. Zero(Entry[0]) \in Regs
  BY ZeroTyped DEF Programs
<1>2. TypeOK
  <2>1. 0 \in Procs /\ 1 \in 1 .. NPROC /\ Junk \in 0 .. NPROC
    BY ProcAssumption DEF Junk
  <2>2. 0 \in 0 .. NPages /\ 0 \in 0 .. SpinPeriod - 1 /\ MaxKeys \in 0 .. MaxKeys
        /\ 0 \in 0 .. TickMod - 1 /\ 1 \in 0 .. TickMod - 1
    BY PageAssumption, ClockAssumption, UserAssumption
  <2> QED
    BY <1>1, <2>1, <2>2 DEF Init, TypeOK, Modes, States, Commands, Keys, NoKey
<1>3. /\ SlotZeroFree /\ LiveSetUp /\ OwnersLive /\ LiveOwned /\ ViewerOwned
      /\ KallocComplete /\ UserRunsRunnable /\ DisplayedLive /\ Scanned
  BY ProcAssumption, PageAssumption
     DEF Init, SlotZeroFree, LiveSetUp, OwnersLive, LiveOwned, ViewerOwned,
         KallocComplete, UserRunsRunnable, DisplayedLive, Scanned, Live
<1> QED
  BY <1>2, <1>3 DEF KernelInv

\* Every step of the kernel, the keyboard and user code keeps the invariant.
LEMMA NextInv == ASSUME KernelInv, [Next]_vars PROVE KernelInv'
<1>1. CASE KernelStep
  BY <1>1, ProcessSetupInv, RunFirstInv, SchedRunInv, SchedIdleInv, FailSpinInv
     DEF KernelStep
<1>2. CASE Timer \/ PageFault \/ OtherException
  BY <1>2, TimerInv, PageFaultInv, OtherExceptionInv
<1>3. CASE \E gate \in Gates :
              \/ SysGetpid(gate) \/ SysYield(gate) \/ SysPanic(gate)
              \/ \E pa \in Pages \cup {NPages}, aligned \in BOOLEAN :
                    SysPageAlloc(gate, pa, aligned)
  BY <1>3, SysGetpidInv, SysYieldInv, SysPanicInv, SysPageAllocInv
<1>4. CASE \/ PressKey
           \/ \E r \in Regs : UserStep(r)
           \/ \E pa \in UserPages, v \in Pids, r \in Regs : UserWrite(pa, v, r)
  BY <1>4, EnvironmentInv
<1>5. CASE PoweredOff \/ UNCHANGED vars
  BY <1>5, StutterInv DEF PoweredOff
<1> QED
  BY <1>1, <1>2, <1>3, <1>4, <1>5 DEF Next

-----------------------------------------------------------------------------
(* The theorems.                                                           *)

\* The inductive invariant holds in every reachable state of the kernel,
\* however many processes and pages there are and whatever user code does.
THEOREM KernelInvariant == Spec => []KernelInv
<1>1. Init => KernelInv
  BY InitInv
<1>2. KernelInv /\ [Next]_vars => KernelInv'
  BY NextInv
<1> QED
  BY <1>1, <1>2, PTL DEF Spec

\* Every variable keeps its type: ticks and next_alloc_pa stay in range.
THEOREM TypeCorrect == Spec => []TypeOK
<1>1. KernelInv => TypeOK
  BY DEF KernelInv
<1> QED
  BY <1>1, KernelInvariant, PTL

\* A broken process never executes user code again.
THEOREM OnlyRunnableRun == Spec => []UserRunsRunnable
<1>1. KernelInv => UserRunsRunnable
  BY DEF KernelInv
<1> QED
  BY <1>1, KernelInvariant, PTL

\* pages[] always tells the truth about the memory viewer and the processes.
THEOREM OwnersAreSound == Spec => []OwnersSound
<1>1. KernelInv => OwnersSound
  <2> SUFFICES ASSUME KernelInv, NEW pa \in Pages, pages[pa] # 0
               PROVE  /\ Allocatable(pa)
                      /\ pages[pa] = KernelOwner <=> pa = viewer
                      /\ pages[pa] # KernelOwner /\ Running => Live(pages[pa])
    BY DEF OwnersSound
  <2>1. Running => UpAndRunning
    BY DEF Running, UpAndRunning
  <2> QED
    BY <2>1 DEF KernelInv, ViewerOwned, OwnersLive
<1> QED
  BY <1>1, KernelInvariant, PTL

\* No allocation takes a live process's code, data or stack page away.
THEOREM ProgramsOwnTheirPages == Spec => []ProgramOwned
<1>1. KernelInv => ProgramOwned
  BY DEF KernelInv, ProgramOwned, LiveOwned, Running, UpAndRunning
<1> QED
  BY <1>1, KernelInvariant, PTL

\* kalloc() gives up only when memory is full.
THEOREM KallocIsComplete == Spec => []KallocComplete
<1>1. KernelInv => KallocComplete
  BY DEF KernelInv
<1> QED
  BY <1>1, KernelInvariant, PTL

\* The viewer always shows a live process: console_memviewer()'s assertion.
THEOREM DisplayIsLive == Spec => []DisplayedLive
<1>1. KernelInv => DisplayedLive
  BY DEF KernelInv
<1> QED
  BY <1>1, KernelInvariant, PTL

\* schedule() is round robin among the runnable processes.
THEOREM ScheduleIsRoundRobin == Spec => RoundRobin
<1> DEFINE Fair ==
        mode = "sched" /\ mode' = "user" =>
            \A q \in Procs : ptable[q] = "RUNNABLE" =>
                Dist(NextPid(current), current') <= Dist(NextPid(current), q)
<1>1. KernelInv /\ [Next]_vars => Fair
  <2> SUFFICES ASSUME KernelInv, [Next]_vars, mode = "sched", mode' = "user"
               PROVE  \A q \in Procs : ptable[q] = "RUNNABLE" =>
                          Dist(NextPid(current), current') <= Dist(NextPid(current), q)
    OBVIOUS
  <2>1. SchedRun
    <3>1. ~ (Timer \/ PageFault \/ OtherException \/ PressKey \/ PoweredOff)
      BY DEF Timer, PageFault, OtherException, Handler, PressKey, PoweredOff
    <3>2. ASSUME NEW gate \in Gates
          PROVE  /\ ~ SysGetpid(gate) /\ ~ SysYield(gate) /\ ~ SysPanic(gate)
                 /\ \A pa \in Pages \cup {NPages}, aligned \in BOOLEAN :
                        ~ SysPageAlloc(gate, pa, aligned)
      BY DEF SysGetpid, SysYield, SysPanic, SysPageAlloc, Handler
    <3>3. /\ \A r \in Regs : ~ UserStep(r)
          /\ \A pa \in UserPages, v \in Pids, r \in Regs : ~ UserWrite(pa, v, r)
      BY DEF UserStep, UserWrite
    <3>4. ~ ProcessSetup /\ ~ RunFirst /\ ~ FailSpin /\ ~ UNCHANGED vars
      BY DEF ProcessSetup, RunFirst, FailSpin, vars
    <3>5. ~ SchedIdle
      BY DEF SchedIdle, CheckKeyboard, Boot, PowerOff, Panic
    <3> QED
      BY <3>1, <3>2, <3>3, <3>4, <3>5 DEF Next, KernelStep
  <2>2. current' = NextPid(schedPid)
    BY <2>1 DEF SchedRun, Run
  <2> QED
    BY <2>2 DEF KernelInv, Scanned
<1> QED
  BY <1>1, KernelInvariant, PTL DEF Spec, RoundRobin

\* Owned pages keep their owners in a step.
Kept == \A pa \in Pages : pages[pa] # 0 => pages'[pa] = pages[pa]

\* Polling the keyboard takes no page from its owner, short of a reboot.
LEMMA KeyboardKept ==
    ASSUME NEW contents, NEW ACTION Rest, CheckKeyboard(contents, Rest),
           mode # "boot", ~ Rebooting, Rest => Kept
    PROVE  Kept
BY DEF CheckKeyboard, Boot, PowerOff, Rebooting, Kept, memVars

\* Nor does a handler whose own work does not.
LEMMA HandlerKept ==
    ASSUME NEW calls, NEW ACTION Rest, Handler(calls, Rest), ~ Rebooting,
           Memshow(calls) /\ Rest => Kept
    PROVE  Kept
<1>1. CASE ViewerFails
  BY <1>1 DEF Handler, Kept
<1>2. CASE ~ ViewerFails
  BY <1>2, KeyboardKept DEF Handler
<1> QED
  BY <1>1, <1>2

\* An allocated page keeps its owner until the next soft reboot.
THEOREM OwnersAreKept == Spec => OwnerKept
<1>1. KernelInv /\ [Next]_vars => (~ Rebooting => Kept)
  <2> SUFFICES ASSUME KernelInv, [Next]_vars, ~ Rebooting
               PROVE  Kept
    OBVIOUS
  <2>1. ASSUME NEW calls \in {1, 2}, Memshow(calls)
        PROVE  \A pa \in Pages : pages[pa] # 0 => PagesShown[pa] = pages[pa]
    BY <2>1, MemshowPages
  <2>2. CASE ProcessSetup
    <3>1. pages \in [Pages -> Procs \cup {KernelOwner}]
      BY DEF KernelInv, TypeOK
    <3> DEFINE image == Image[ProgramOf(setup)]
               stack == StackPage[setup]
               loaded == {pa \in image : \A q \in image : q <= pa => Claimable(q)}
               ok == loaded = image /\ Claimable(stack) /\ stack \notin image
               got == IF ok THEN image \cup {stack} ELSE loaded
    <3>2. pages' = [pa \in Pages |-> IF pa \in got THEN setup ELSE pages[pa]]
      BY <2>2 DEF ProcessSetup
    <3>3. ASSUME NEW pa \in Pages, pa \in got PROVE Claimable(pa)
      <4>1. pa <= pa
        BY PageAssumption
      <4> QED
        BY <3>3, <4>1
    <3> QED
      BY <3>2, <3>3 DEF Kept, Claimable
  <2>3. CASE RunFirst \/ SchedRun \/ PressKey \/ PoweredOff \/ UNCHANGED vars
    BY <2>3 DEF RunFirst, SchedRun, PressKey, PoweredOff, vars, memVars, Kept
  <2>4. CASE \/ \E r \in Regs : UserStep(r)
             \/ \E pa \in UserPages, v \in Pids, r \in Regs : UserWrite(pa, v, r)
    BY <2>4 DEF UserStep, UserWrite, memVars, Kept
  <2>5. CASE FailSpin
    <3> DEFINE Rest == UNCHANGED <<mode, bootVars, procVars, memVars, ticks, viewVars,
                                   schedVars>>
    <3>1. Rest => Kept
      BY DEF memVars, Kept
    <3>2. CheckKeyboard(memory, Rest) /\ mode # "boot"
      BY <2>5 DEF FailSpin
    <3> HIDE DEF Rest
    <3> QED
      BY <3>1, <3>2, KeyboardKept
  <2>6. CASE SchedIdle
    <3> DEFINE Rest ==
            /\ schedPid' = NextPid(schedPid)
            /\ spins' = (spins + 1) % SpinPeriod
            /\ IF spins = 0
               THEN /\ Memshow(1)
                    /\ pages' = PagesShown /\ memory' = MemoryShown
                    /\ IF ViewerFails THEN Panic ELSE UNCHANGED mode
               ELSE UNCHANGED <<mode, memVars, viewVars>>
            /\ UNCHANGED <<bootVars, procVars, ticks>>
    <3>1. Rest => Kept
      BY <2>1 DEF memVars, Kept
    <3>2. CheckKeyboard(memory, Rest) /\ mode # "boot"
      BY <2>6 DEF SchedIdle
    <3> HIDE DEF Rest
    <3> QED
      BY <3>1, <3>2, KeyboardKept
  <2>7. CASE Timer
    BY <2>1, <2>7, HandlerKept DEF Timer, Kept
  <2>8. CASE PageFault
    BY <2>1, <2>8, HandlerKept DEF PageFault, Kept
  <2>9. CASE OtherException
    BY <2>1, <2>9, HandlerKept DEF OtherException, Kept
  <2>10. ASSUME NEW gate \in Gates, SysGetpid(gate) PROVE Kept
    BY <2>1, <2>10, GateCalls, HandlerKept DEF SysGetpid, Kept
  <2>11. ASSUME NEW gate \in Gates, SysYield(gate) PROVE Kept
    BY <2>1, <2>11, GateCalls, HandlerKept DEF SysYield, Kept
  <2>12. ASSUME NEW gate \in Gates, SysPanic(gate) PROVE Kept
    BY <2>1, <2>12, GateCalls, HandlerKept DEF SysPanic, Kept
  <2>13. ASSUME NEW gate \in Gates, NEW pa \in Pages \cup {NPages},
                NEW aligned \in BOOLEAN, SysPageAlloc(gate, pa, aligned)
         PROVE  Kept
    <3> DEFINE calls == MemshowCalls(gate)
               granted == aligned /\ PageFree(pa)
               Rest ==
                   /\ IF aligned
                      THEN LET rax == IF granted THEN 0 ELSE -1
                           IN  SaveResult(gate, rax) /\ Back(rax)
                      ELSE SaveRegs(Trapped) /\ Halt
                   /\ pages' = IF granted THEN [PagesShown EXCEPT ![pa] = current]
                               ELSE PagesShown
                   /\ memory' = IF granted THEN Cleared(pa) ELSE MemoryShown
                   /\ UNCHANGED <<ptable, ticks>>
    <3>1. ASSUME Memshow(calls), Rest, NEW q \in Pages, pages[q] # 0
          PROVE  pages'[q] = pages[q]
      <4>1. PagesShown[q] = pages[q]
        BY <2>1, <3>1, GateCalls
      <4>2. granted => q # pa
        BY <3>1, <4>1 DEF PageFree
      <4>3. pages' = PagesShown \/ (granted /\ pages' = [PagesShown EXCEPT ![pa] = current])
        BY <3>1
      <4>4. PagesShown \in [Pages -> Procs \cup {KernelOwner}]
        BY <3>1, GateCalls, MemshowPages DEF PageInv
      <4> QED
        BY <4>1, <4>2, <4>3, <4>4
    <3>2. Memshow(calls) /\ Rest => Kept
      BY <3>1 DEF Kept
    <3>3. Handler(calls, Rest)
      BY <2>13 DEF SysPageAlloc
    <3> HIDE DEF Rest
    <3> QED
      BY <3>2, <3>3, HandlerKept
  <2> QED
    BY <2>2, <2>3, <2>4, <2>5, <2>6, <2>7, <2>8, <2>9, <2>10, <2>11, <2>12, <2>13
       DEF Next, KernelStep
<1>2. (~ Rebooting => Kept)
        <=> (~ Rebooting => \A pa \in Pages : pages[pa] # 0 => pages'[pa] = pages[pa])
  BY DEF Kept
<1> QED
  BY <1>1, <1>2, KernelInvariant, PTL DEF Spec, OwnerKept

-----------------------------------------------------------------------------
(* The display's clock: ticks is compared modulo TickMod.                  *)

\* The age of a tick count, as a case distinction instead of a remainder.
LEMMA AgeValue ==
    ASSUME NEW t \in 0 .. TickMod - 1, NEW l \in 0 .. TickMod - 1
    PROVE  (t - l) % TickMod = IF l <= t THEN t - l ELSE t - l + TickMod
<1>1. TickMod \in Nat /\ TickMod > 2
  BY ClockAssumption
<1>2. CASE l <= t
  BY <1>1, <1>2
<1>3. CASE ~ (l <= t)
  <2>1. (t - l + TickMod) \in 0 .. TickMod - 1
    BY <1>1, <1>3
  <2>2. (t - l + TickMod) % TickMod = t - l + TickMod
    BY <1>1, <2>1
  <2>3. (t - l) % TickMod = (t - l + TickMod) % TickMod
    BY <1>1
  <2> QED
    BY <1>3, <2>2, <2>3
<1> QED
  BY <1>2, <1>3

\* One more tick makes a switch that is not yet due one tick older, even when
\* the counter wraps.
LEMMA AgeNext ==
    ASSUME TypeOK, NEW l \in 0 .. TickMod - 1,
           (ticks - l) % TickMod < HZ \div 2
    PROVE  (NextTick - l) % TickMod <= HZ \div 2
<1>1. TickMod \in Nat /\ HZ \in Nat /\ 2 <= HZ /\ HZ < TickMod
  BY ClockAssumption
<1>2. ticks \in 0 .. TickMod - 1
  BY DEF TypeOK
<1>3. NextTick = IF ticks + 1 = TickMod THEN 0 ELSE ticks + 1
  BY <1>1, <1>2 DEF NextTick
<1>4. NextTick \in 0 .. TickMod - 1
  BY <1>1, <1>2, <1>3
<1> DEFINE d == (ticks - l) % TickMod
           e == (NextTick - l) % TickMod
           h == HZ \div 2
           n == NextTick
<1>5. d = IF l <= ticks THEN ticks - l ELSE ticks - l + TickMod
  BY <1>2, AgeValue
<1>6. e = IF l <= n THEN n - l ELSE n - l + TickMod
  BY <1>4, AgeValue
<1>7. d < h /\ h \in Nat /\ h < TickMod
  BY <1>1
<1>8. n = IF ticks + 1 = TickMod THEN 0 ELSE ticks + 1
  BY <1>3
<1>9. e <= h
  <2> HIDE DEF d, e, h, n
  <2> QED
    BY <1>1, <1>2, <1>5, <1>6, <1>7, <1>8
<1> QED
  BY <1>9

\* After memshow() no switch is due.
LEMMA MemshowOnTime ==
    ASSUME TypeOK, NEW calls \in {1, 2}, Memshow(calls)
    PROVE  (ticks - lastTicks') % TickMod < HZ \div 2
<1> DEFINE typed(v) == v.last \in 0 .. TickMod - 1
           onTime(v) == (ticks - v.last) % TickMod < HZ \div 2
<1>1. ASSUME NEW v, typed(v) PROVE typed(ViewNext(v)) /\ onTime(ViewNext(v))
  <2>1. /\ 0 < HZ \div 2 /\ HZ \div 2 \in Nat /\ ticks \in 0 .. TickMod - 1
        /\ (ticks - ticks) % TickMod = 0
    BY ClockAssumption DEF TypeOK
  <2>2. CASE SwitchDue(v.last)
    <3>1. ViewNext(v).last = ticks
      BY <2>2 DEF ViewNext
    <3> QED
      BY <2>1, <3>1
  <2>3. CASE ~ SwitchDue(v.last)
    <3>1. ViewNext(v).last = v.last
      BY <2>3 DEF ViewNext
    <3>2. ~ ((ticks - v.last) % TickMod >= HZ \div 2)
      BY <2>3 DEF SwitchDue
    <3> DEFINE d == (ticks - v.last) % TickMod
    <3>3. d \in Int
      BY <1>1, <2>1, ClockAssumption
    <3>4. d < HZ \div 2
      <4>1. ~ (d >= HZ \div 2)
        BY <3>2
      <4> HIDE DEF d
      <4> QED
        BY <2>1, <3>3, <4>1
    <3> QED
      BY <1>1, <3>1, <3>4
  <2> QED
    BY <2>2, <2>3
<1> DEFINE now == [last |-> lastTicks, show |-> showing]
<1>2. lastTicks' \in {ViewNext(now).last, ViewNext(ViewNext(now)).last}
  BY DEF Memshow
<1>3. typed(now)
  BY DEF TypeOK
<1>4. typed(ViewNext(now)) /\ onTime(ViewNext(now)) /\ onTime(ViewNext(ViewNext(now)))
  BY <1>1, <1>3
<1> HIDE DEF now
<1> QED
  BY <1>2, <1>4

\* So neither a handler that redraws, nor the timer tick it may count, makes the
\* display late.
LEMMA RedrawnInTime ==
    ASSUME TypeOK, NEW calls \in {1, 2}, Memshow(calls), ticks' \in {ticks, NextTick}
    PROVE  SwitchesInTime'
<1>1. lastTicks' \in 0 .. TickMod - 1
  BY MemshowView
<1>2. (ticks - lastTicks') % TickMod < HZ \div 2
  BY MemshowOnTime
<1>3. (NextTick - lastTicks') % TickMod <= HZ \div 2
  BY <1>1, <1>2, AgeNext
<1>4. (ticks - lastTicks') % TickMod <= HZ \div 2
  <2>1. (ticks - lastTicks') % TickMod \in Int /\ HZ \div 2 \in Int
    BY <1>1, ClockAssumption DEF TypeOK
  <2> DEFINE d == (ticks - lastTicks') % TickMod
  <2> HIDE DEF d
  <2>2. d < HZ \div 2 /\ d \in Int /\ HZ \div 2 \in Int => d <= HZ \div 2
    OBVIOUS
  <2> QED
    BY <1>2, <2>1, <2>2 DEF d
<1> QED
  BY <1>3, <1>4 DEF SwitchesInTime

\* Polling the keyboard does not make it late: a reboot forgets the viewer.
LEMMA KeyboardInTime ==
    ASSUME SwitchesInTime, NEW contents, NEW ACTION Rest,
           CheckKeyboard(contents, Rest), Rest => SwitchesInTime'
    PROVE  SwitchesInTime'
BY DEF CheckKeyboard, Boot, PowerOff, SwitchesInTime, viewVars

\* A handler redraws, unless refresh() finds no page and no viewer is left.
LEMMA HandlerInTime ==
    ASSUME TypeOK, SwitchesInTime, NEW calls \in {1, 2}, NEW ACTION Rest,
           Handler(calls, Rest), Rest => ticks' \in {ticks, NextTick}
    PROVE  SwitchesInTime'
<1>1. CASE ViewerFails
  BY <1>1 DEF Handler, ViewerFails, Memshow, SwitchesInTime
<1>2. CASE ~ ViewerFails
  <2>1. CheckKeyboard(MemoryShown, Memshow(calls) /\ Rest /\ UNCHANGED bootVars)
    BY <1>2 DEF Handler
  <2>2. Memshow(calls) /\ Rest /\ UNCHANGED bootVars => SwitchesInTime'
    BY RedrawnInTime
  <2> QED
    BY <2>1, <2>2, KeyboardInTime
<1> QED
  BY <1>1, <1>2

\* The display moves on within HZ/2 timer ticks, wherever ticks wraps.
THEOREM DisplaySwitchesInTime == Spec => []SwitchesInTime
<1>1. Init => SwitchesInTime
  BY DEF Init, SwitchesInTime
<1>2. KernelInv /\ SwitchesInTime /\ [Next]_vars => SwitchesInTime'
  <2> SUFFICES ASSUME KernelInv, SwitchesInTime, [Next]_vars
               PROVE  SwitchesInTime'
    OBVIOUS
  <2>1. TypeOK
    BY DEF KernelInv
  <2>2. CASE ProcessSetup \/ RunFirst \/ SchedRun \/ PressKey \/ PoweredOff \/ UNCHANGED vars
    BY <2>2 DEF ProcessSetup, RunFirst, SchedRun, PressKey, PoweredOff, vars,
                viewVars, SwitchesInTime
  <2>3. CASE \/ \E r \in Regs : UserStep(r)
             \/ \E pa \in UserPages, v \in Pids, r \in Regs : UserWrite(pa, v, r)
    BY <2>3 DEF UserStep, UserWrite, viewVars, SwitchesInTime
  <2>4. CASE FailSpin
    <3> DEFINE Rest == UNCHANGED <<mode, bootVars, procVars, memVars, ticks, viewVars,
                                   schedVars>>
    <3>1. Rest => SwitchesInTime'
      BY DEF viewVars, SwitchesInTime
    <3>2. CheckKeyboard(memory, Rest)
      BY <2>4 DEF FailSpin
    <3> HIDE DEF Rest
    <3> QED
      BY <3>1, <3>2, KeyboardInTime
  <2>5. CASE SchedIdle
    <3> DEFINE Rest ==
            /\ schedPid' = NextPid(schedPid)
            /\ spins' = (spins + 1) % SpinPeriod
            /\ IF spins = 0
               THEN /\ Memshow(1)
                    /\ pages' = PagesShown /\ memory' = MemoryShown
                    /\ IF ViewerFails THEN Panic ELSE UNCHANGED mode
               ELSE UNCHANGED <<mode, memVars, viewVars>>
            /\ UNCHANGED <<bootVars, procVars, ticks>>
    <3>1. Rest => SwitchesInTime'
      <4>1. CASE spins = 0
        BY <2>1, <4>1, RedrawnInTime
      <4>2. CASE spins # 0
        BY <4>2 DEF viewVars, SwitchesInTime
      <4> QED
        BY <4>1, <4>2
    <3>2. CheckKeyboard(memory, Rest)
      BY <2>5 DEF SchedIdle
    <3> HIDE DEF Rest
    <3> QED
      BY <3>1, <3>2, KeyboardInTime
  <2>6. CASE Timer \/ PageFault \/ OtherException
    BY <2>1, <2>6, HandlerInTime DEF Timer, PageFault, OtherException
  <2>7. ASSUME NEW gate \in Gates, SysGetpid(gate) \/ SysYield(gate) \/ SysPanic(gate)
        PROVE  SwitchesInTime'
    BY <2>1, <2>7, GateCalls, HandlerInTime DEF SysGetpid, SysYield, SysPanic
  <2>8. ASSUME NEW gate \in Gates, NEW pa \in Pages \cup {NPages},
               NEW aligned \in BOOLEAN, SysPageAlloc(gate, pa, aligned)
        PROVE  SwitchesInTime'
    BY <2>1, <2>8, GateCalls, HandlerInTime DEF SysPageAlloc
  <2> QED
    BY <2>2, <2>3, <2>4, <2>5, <2>6, <2>7, <2>8 DEF Next, KernelStep
<1> QED
  BY <1>1, <1>2, KernelInvariant, PTL DEF Spec


-----------------------------------------------------------------------------
(* The programs of the handout, and the memory viewer.                     *)

\* Labels of p-allocator.cc at which it has a heap.
HeapLabels == {"loop", "alloc", "got", "write", "yield", "done", "idle"}

\* The registers of process p, as far as what it does next depends on them.
GoodRegs(p) ==
    /\ Context(p) \in Regs
    /\ Context(p).pc = "init" => Context(p).rax = p
    /\ Context(p).pc = "got" => Context(p).rax \in {0, -1}
    /\ Context(p).pc \in HeapLabels =>
          Context(p).rbx = p /\ HeapStart[ProgramOf(p)] <= heapTop[p]

\* What p owns: its program, its stack and its heap, nothing else.
OwnedBy(p) == {pa \in Pages : pages[pa] = p}
Owns(p) == OwnedBy(p) = Image[ProgramOf(p)] \cup {StackPage[p]} \cup HeapOf(p)

\* Its heap holds what it wrote to the pages below heap_top, and zeroes above.
Intact(p) == \A pa \in HeapOf(p) : memory[pa] = IF pa < heapTop[p] THEN p ELSE 0

\* A process in order, in all three ways; while the machine is up all are.
Good(p) == GoodRegs(p) /\ Owns(p) /\ Intact(p)

\* While booting, the processes that exist are those set up so far.
SetUpSoFar == mode = "boot" => \A p \in Pids : Live(p) => p < setup

ProcessesGood == UpAndRunning => \A p \in Pids : Live(p) => Good(p)

\* The strengthening of OwnedExactly and HeapIntact that every step preserves.
WInv ==
    /\ KernelInv /\ heapTop \in [Procs -> 0 .. NPages] /\ SetUpSoFar /\ ProcessesGood

-----------------------------------------------------------------------------
(* The programs are user code that the kernel's specification allows.      *)

\* The process that runs is live and its registers are in the processor.
LEMMA UserGood ==
    ASSUME WInv, mode = "user"
    PROVE  current \in Pids /\ Live(current) /\ Good(current) /\ Context(current) = cpu
<1>1. current \in Pids /\ Live(current)
  BY DEF WInv, KernelInv, UserRunsRunnable, SlotZeroFree, TypeOK, Live
<1> QED
  BY <1>1 DEF WInv, ProcessesGood, UpAndRunning, Context

\* Registers with the program counter at a label and a call number loaded.
LEMMA LoadTyped ==
    ASSUME WInv, NEW l \in ProgramLabels,
           NEW call \in {SYSCALL_GETPID, SYSCALL_YIELD, SYSCALL_PAGE_ALLOC, SYSCALL_FORK}
    PROVE  /\ [cpu EXCEPT !.pc = l] \in Regs
           /\ [cpu EXCEPT !.pc = l, !.rax = call] \in Regs
BY ProgramAssumption DEF WInv, KernelInv, TypeOK, Regs

\* The page a program is about to write was granted to it.
LEMMA WriteTarget ==
    ASSUME WInv, mode = "user", cpu.pc = "write"
    PROVE  /\ heapTop[current] \in Pages
           /\ pages[heapTop[current]] = current
           /\ Allocatable(heapTop[current])
<1>1. /\ current \in Pids /\ Good(current) /\ GoodRegs(current)
      /\ Context(current).pc = "write"
      /\ HeapStart[ProgramOf(current)] <= heapTop[current]
  BY UserGood DEF Good, GoodRegs, HeapLabels
<1>2. /\ HeapStart[ProgramOf(current)] \in Pages
      /\ current \in Procs /\ heapTop[current] \in 0 .. NPages
  BY <1>1, UserGood, ProgramPages, HeapAssumption DEF WInv, KernelInv, TypeOK
<1>3. HeapOf(current) = HeapStart[ProgramOf(current)] .. heapTop[current]
  BY <1>1 DEF HeapOf
<1>4. heapTop[current] \in HeapOf(current)
  BY <1>1, <1>2, <1>3, PageAssumption DEF Pages
<1>5. heapTop[current] \in Pages /\ pages[heapTop[current]] = current
  BY <1>1, <1>4 DEF Good, Owns, OwnedBy
<1>6. Allocatable(heapTop[current])
  BY <1>1, <1>5 DEF WInv, KernelInv, ViewerOwned
<1> QED
  BY <1>5, <1>6

\* A step of a program is one that Kernel allows user code; the only memory a
\* program writes is a page it was granted.
LEMMA ProgramAllowed == ASSUME WInv, Program PROVE Next
<1> USE DEF At, Goto, Load, Gates
<1>1. /\ "getpid" \in ProgramLabels /\ "loop" \in ProgramLabels /\ "yield" \in ProgramLabels
      /\ "done" \in ProgramLabels /\ "alloc" \in ProgramLabels /\ "write" \in ProgramLabels
      /\ "idle" \in ProgramLabels /\ "forking" \in ProgramLabels /\ "fyield" \in ProgramLabels
  BY DEF ProgramLabels
<1>2. CASE Start \/ SkipTurn \/ TakeTurn \/ CheckResult \/ Idle \/ LoadFork \/ LoadYield
  <2>1. \E r \in Regs : UserStep(r)
    BY <1>1, <1>2, LoadTyped DEF Start, SkipTurn, TakeTurn, CheckResult, Idle, LoadFork, LoadYield
  <2> QED
    BY <2>1 DEF Next
<1>3. CASE GetPid \/ Yield \/ Fork
  BY <1>3 DEF GetPid, Yield, Fork, Next
<1>4. CASE InitHeap
  <2>1. mode = "user" /\ cpu.pc = "init" /\ UserStep([cpu EXCEPT !.pc = "loop", !.rbx = cpu.rax])
    BY <1>4 DEF InitHeap
  <2>2. cpu \in Regs /\ cpu.rax = current /\ current \in Pids
    BY <2>1, UserGood DEF Good, GoodRegs
  <2>3. current \in Locals
    BY <2>2, ProcAssumption, ProgramAssumption
  <2>4. [cpu EXCEPT !.pc = "loop", !.rbx = cpu.rax] \in Regs
    BY <1>1, <2>2, <2>3, ProgramAssumption DEF Regs
  <2> QED
    BY <2>1, <2>4 DEF Next
<1>5. CASE PageAlloc
  <2>1. mode = "user" /\ SysPageAlloc("syscall", heapTop[current], TRUE)
    BY <1>5 DEF PageAlloc
  <2>2. heapTop[current] \in Pages \cup {NPages}
    BY <2>1, UserGood, PageAssumption DEF WInv
  <2> QED
    BY <2>1, <2>2 DEF Next
<1>6. CASE WriteHeap
  <2>1. /\ mode = "user" /\ cpu.pc = "write"
        /\ UserWrite(heapTop[current], cpu.rbx,
                     [cpu EXCEPT !.pc = "yield", !.rax = SYSCALL_YIELD])
    BY <1>6 DEF WriteHeap, UserWrite
  <2>2. cpu.rbx = current /\ current \in Pids
    BY <2>1, UserGood DEF Good, GoodRegs, HeapLabels
  <2>3. heapTop[current] \in UserPages
    BY <2>1, WriteTarget, ProgramAssumption
  <2> QED
    BY <1>1, <2>1, <2>2, <2>3, LoadTyped DEF Next
<1> QED
  BY <1>2, <1>3, <1>4, <1>5, <1>6 DEF Program

\* So is every step of the whole system, which keeps the kernel's invariant.
LEMMA StepAllowed ==
    ASSUME WInv, [WNext]_wvars
    PROVE  [Next]_vars /\ KernelInv'
<1>1. [Next]_vars
  BY ProgramAllowed DEF WNext, Next, wvars
<1> QED
  BY <1>1, NextInv DEF WInv

-----------------------------------------------------------------------------
(* Process and kernel agree on the heap.                                   *)

\* The initial state: nobody lives.
LEMMA WInitInv == WInit => WInv
<1> SUFFICES ASSUME WInit PROVE WInv
  OBVIOUS
<1>1. KernelInv
  BY InitInv DEF WInit
<1>2. heapTop \in [Procs -> 0 .. NPages]
  BY PageAssumption DEF WInit
<1>3. \A p \in Pids : ~Live(p)
  BY ProcAssumption DEF WInit, Init, Live
<1> QED
  BY <1>1, <1>2, <1>3 DEF WInv, SetUpSoFar, ProcessesGood

\* Redrawing the memory viewer takes no page from a process and writes to none
\* that a process owns.
LEMMA RedrawHarmless ==
    ASSUME KernelInv
    PROVE  \A pa \in Pages : /\ \A q \in Pids : PagesShown[pa] = q <=> pages[pa] = q
                             /\ pages[pa] # 0 => MemoryShown[pa] = memory[pa]
<1>1. CASE viewer = NoPage /\ Kalloc # NoPage
  <2>1. Kalloc \in Pages /\ pages[Kalloc] = 0
    BY <1>1, KallocFirst DEF KernelInv, Claimable
  <2>2. /\ PagesShown = [pages EXCEPT ![Kalloc] = KernelOwner]
        /\ MemoryShown = [memory EXCEPT ![Kalloc] = 0]
    BY <1>1 DEF PagesShown, MemoryShown
  <2>3. KernelOwner \notin Pids /\ 0 \notin Pids
    BY ProcAssumption DEF KernelOwner
  <2> QED
    BY <2>1, <2>2, <2>3 DEF KernelInv, TypeOK
<1>2. CASE ~(viewer = NoPage /\ Kalloc # NoPage)
  BY <1>2 DEF PagesShown, MemoryShown
<1> QED
  BY <1>1, <1>2

\* A process stays as it is if its registers go on well, its heap stays the
\* same, and no page of its changes hands or is written to.
LEMMA StaysGood ==
    ASSUME NEW q \in Pids, Good(q), GoodRegs(q)', HeapOf(q)' = HeapOf(q), cmd' = cmd,
           \A pa \in HeapOf(q) : pa < heapTop'[q] <=> pa < heapTop[q],
           \A pa \in Pages : pages'[pa] = q <=> pages[pa] = q,
           \A pa \in Pages : pages[pa] = q => memory'[pa] = memory[pa]
    PROVE  Good(q)'
<1>1. OwnedBy(q)' = OwnedBy(q) /\ ProgramOf(q)' = ProgramOf(q)
  BY DEF OwnedBy, ProgramOf
<1>2. Owns(q)'
  BY <1>1 DEF Good, Owns
<1>3. \A pa \in HeapOf(q) : pa \in Pages /\ pages[pa] = q
  BY DEF Good, Owns, OwnedBy
<1>4. Intact(q)'
  <2>1. \A pa \in HeapOf(q) : memory'[pa] = IF pa < heapTop'[q] THEN q ELSE 0
    BY <1>3 DEF Good, Intact
  <2> QED
    BY <2>1 DEF Intact
<1> QED
  BY <1>2, <1>4 DEF Good

\* In particular one that nothing is done to.
LEMMA BystanderGood ==
    ASSUME NEW q \in Pids, Good(q), Context(q)' = Context(q), cmd' = cmd,
           heapTop'[q] = heapTop[q],
           \A pa \in Pages : pages'[pa] = q <=> pages[pa] = q,
           \A pa \in Pages : pages[pa] = q => memory'[pa] = memory[pa]
    PROVE  Good(q)'
<1>1. ProgramOf(q)' = ProgramOf(q)
  BY DEF ProgramOf
<1>2. GoodRegs(q)' /\ HeapOf(q)' = HeapOf(q)
  BY <1>1 DEF Good, GoodRegs, HeapOf
<1> QED
  BY <1>2, StaysGood

\* A state with nobody to account for: after a reboot, a panic or power off.
LEMMA NobodyGood ==
    ASSUME KernelInv', heapTop' \in [Procs -> 0 .. NPages],
           \/ mode' \in {"panic", "off"}
           \/ \E c \in Commands : Boot(c)
    PROVE  WInv'
<1>1. CASE mode' \in {"panic", "off"}
  BY <1>1 DEF WInv, SetUpSoFar, ProcessesGood, UpAndRunning
<1>2. ASSUME NEW c \in Commands, Boot(c) PROVE WInv'
  <2>1. \A p \in Pids : ~Live(p)'
    BY <1>2, ProcAssumption DEF Boot, Live
  <2> QED
    BY <2>1 DEF WInv, SetUpSoFar, ProcessesGood
<1> QED
  BY <1>1, <1>2

\* So a handler is left with what it does when it finds no key.
LEMMA KeyboardGood ==
    ASSUME KernelInv', NEW STATE contents, NEW ACTION Rest, CheckKeyboard(contents, Rest),
           heapTop' \in [Procs -> 0 .. NPages], Rest => WInv'
    PROVE  WInv'
<1>1. CASE key \in {"a", "f", "e"} /\ Boot(RebootCommand(key))
  <2>1. RebootCommand(key) \in Commands
    BY <1>1 DEF RebootCommand, Commands
  <2> QED
    BY <1>1, <2>1, NobodyGood
<1>2. CASE PowerOff
  BY <1>2, NobodyGood DEF PowerOff
<1> QED
  BY <1>1, <1>2 DEF CheckKeyboard

\* The same of the common entry of a handler.
LEMMA HandlerGood ==
    ASSUME KernelInv', NEW calls \in {1, 2}, NEW ACTION Rest, Handler(calls, Rest),
           heapTop' \in [Procs -> 0 .. NPages],
           mode = "user" /\ Rest /\ UNCHANGED bootVars => WInv'
    PROVE  WInv'
<1>1. CASE ViewerFails
  BY <1>1, NobodyGood DEF Handler, Halt, Panic
<1>2. CASE ~ViewerFails
  BY <1>2, KeyboardGood DEF Handler
<1> QED
  BY <1>1, <1>2

\* A step of the running process, or of a handler on its behalf, that leaves its
\* heap alone and hands out no page.
LEMMA RunningGood ==
    ASSUME WInv, KernelInv', mode = "user", mode' \in {"user", "sched"},
           UNCHANGED <<bootVars, current, ptable>>,
           \A q \in Procs : q # current => regs'[q] = regs[q] /\ heapTop'[q] = heapTop[q],
           heapTop' \in [Procs -> 0 .. NPages],
           GoodRegs(current)', HeapOf(current)' = HeapOf(current),
           \A pa \in HeapOf(current) : pa < heapTop'[current] <=> pa < heapTop[current],
           \A pa \in Pages, q \in Pids : pages'[pa] = q <=> pages[pa] = q,
           \A pa \in Pages : pages[pa] # 0 => memory'[pa] = memory[pa]
    PROVE  WInv'
<1>1. current \in Pids /\ Live(current) /\ Good(current)
  BY UserGood
<1>2. cmd' = cmd /\ setup' = setup
  BY DEF bootVars
<1>3. ASSUME NEW q \in Pids, Live(q)' PROVE Good(q)'
  <2>1. Live(q) /\ Good(q)
    BY <1>3 DEF Live, WInv, ProcessesGood, UpAndRunning
  <2>2. CASE q # current
    <3>1. Context(q)' = Context(q) /\ heapTop'[q] = heapTop[q]
      BY <2>2 DEF Context
    <3> QED
      BY <1>2, <2>1, <3>1, BystanderGood
  <2>3. CASE q = current
    <3>1. /\ GoodRegs(q)' /\ HeapOf(q)' = HeapOf(q)
          /\ \A pa \in HeapOf(q) : pa < heapTop'[q] <=> pa < heapTop[q]
      BY <2>3
    <3> QED
      BY <1>2, <2>1, <3>1, StaysGood
  <2> QED
    BY <2>2, <2>3
<1> QED
  BY <1>3 DEF WInv, SetUpSoFar, ProcessesGood

\* Statements of the programs other than the write to the heap.
LEMMA StatementGood ==
    ASSUME WInv, KernelInv',
           \/ Start \/ InitHeap \/ SkipTurn \/ TakeTurn \/ CheckResult \/ Idle
           \/ LoadFork \/ LoadYield
    PROVE  WInv'
<1>1. /\ mode = "user" /\ mode' = mode /\ UNCHANGED <<bootVars, current, ptable, regs, pages, memory>>
  BY DEF Start, InitHeap, SkipTurn, TakeTurn, CheckResult, Idle, LoadFork, LoadYield, At, Goto,
         Load, UserStep, memVars
<1>2. /\ current \in Pids /\ current \in Procs /\ GoodRegs(current) /\ Context(current) = cpu
      /\ cpu \in Regs /\ Context(current)' = cpu'
  BY <1>1, UserGood DEF Good, GoodRegs, Context
<1>3. heapTop \in [Procs -> 0 .. NPages] /\ cpu' \in Regs
  BY DEF WInv, KernelInv, TypeOK
<1>4. ProgramOf(current)' = ProgramOf(current) /\ ProgramOf(current) \in Programs
  BY <1>1, UserGood, ProgramPages DEF ProgramOf, bootVars, WInv, KernelInv
<1>5. HeapStart[ProgramOf(current)] \in 0 .. NPages
  BY <1>4, HeapAssumption, PageAssumption
<1>6. CASE InitHeap
  <2>1. /\ cpu.pc = "init" /\ cpu' = [cpu EXCEPT !.pc = "loop", !.rbx = cpu.rax]
        /\ heapTop' = [heapTop EXCEPT ![current] = HeapStart[ProgramOf(current)]]
    BY <1>6 DEF InitHeap, At, UserStep
  <2>2. cpu'.pc = "loop" /\ cpu'.rbx = current
    BY <1>2, <2>1 DEF GoodRegs, Regs
  <2>3. heapTop'[current] = HeapStart[ProgramOf(current)] /\ heapTop' \in [Procs -> 0 .. NPages]
    BY <1>2, <1>3, <1>5, <2>1
  <2>4. GoodRegs(current)'
    BY <1>1, <1>2, <1>3, <1>4, <1>5, <2>2, <2>3 DEF GoodRegs
  <2>5. HeapOf(current) = {}
    BY <1>2, <2>1 DEF HeapOf
  <2>6. HeapOf(current)' = {}
    BY <1>1, <1>2, <1>4, <1>5, <2>2, <2>3 DEF HeapOf
  <2> QED
    BY <1>1, <2>1, <2>3, <2>4, <2>5, <2>6, <1>3, RunningGood
<1>7. CASE Start \/ SkipTurn \/ TakeTurn \/ CheckResult \/ Idle \/ LoadFork \/ LoadYield
  <2>1. heapTop' = heapTop
    BY <1>7 DEF Start, SkipTurn, TakeTurn, CheckResult, Idle, LoadFork, LoadYield
  <2>2. /\ cpu'.rbx = cpu.rbx
        /\ \/ cpu.pc \notin HeapLabels /\ cpu'.pc \notin HeapLabels \cup {"init"}
           \/ /\ cpu.pc \in {"loop", "done"}
              /\ cpu'.pc \in {"yield", "done", "alloc", "idle"}
           \/ cpu.pc = "got" /\ cpu.rax = -1 /\ cpu'.pc = "done"
           \/ cpu.pc = "got" /\ cpu.rax # -1 /\ cpu'.pc = "write"
    <3> USE DEF At, Goto, Load, UserStep, HeapLabels
    <3>1. CASE Start \/ LoadFork \/ LoadYield
      BY <1>2, <3>1 DEF Start, LoadFork, LoadYield, Regs
    <3>2. CASE SkipTurn \/ TakeTurn \/ Idle
      BY <1>2, <3>2 DEF SkipTurn, TakeTurn, Idle, Regs
    <3>3. CASE CheckResult
      BY <1>2, <3>3 DEF CheckResult, Regs
    <3> QED
      BY <1>7, <3>1, <3>2, <3>3
  <2>3. GoodRegs(current)'
    BY <1>1, <1>2, <1>3, <1>4, <2>1, <2>2 DEF GoodRegs, HeapLabels
  <2>4. HeapOf(current)' = HeapOf(current)
    BY <1>1, <1>2, <1>4, <2>1, <2>2 DEF HeapOf, HeapLabels, GoodRegs
  <2> QED
    BY <1>1, <1>3, <2>1, <2>3, <2>4, RunningGood
<1> QED
  BY <1>6, <1>7

\* Where a system call returns to.
LEMMA AfterCall ==
    /\ After["getpid"] = "init" /\ After["alloc"] = "got" /\ After["yield"] = "loop"
    /\ After["idle"] = "done" /\ After["fyield"] = "forkexit"
BY ProgramAssumption DEF ProgramAfter, ProgramLabels

\* System calls that hand out no page, and the timer interrupt.
LEMMA CallGood ==
    ASSUME WInv, KernelInv', UNCHANGED heapTop, GetPid \/ Yield \/ Fork \/ Timer
    PROVE  WInv'
<1>1. mode = "user" /\ heapTop' \in [Procs -> 0 .. NPages]
  BY DEF GetPid, Yield, Fork, At, Timer, Handler, WInv
<1>2. /\ current \in Pids /\ current \in Procs /\ GoodRegs(current) /\ Context(current) = cpu
      /\ cpu \in Regs /\ regs \in [Procs -> Regs]
  BY <1>1, UserGood DEF Good, GoodRegs, WInv, KernelInv, TypeOK
\* What remains to show of one that returns or is left for another process.
<1>3. ASSUME mode' \in {"user", "sched"}, UNCHANGED <<bootVars, current, ptable>>,
             \A q \in Procs : q # current => regs'[q] = regs[q],
             pages' = PagesShown, memory' = MemoryShown,
             GoodRegs(current)', HeapOf(current)' = HeapOf(current)
      PROVE  WInv'
  <2>1. \A pa \in Pages : /\ \A q \in Pids : pages'[pa] = q <=> pages[pa] = q
                          /\ pages[pa] # 0 => memory'[pa] = memory[pa]
    BY <1>3, RedrawHarmless DEF WInv
  <2> QED
    BY <1>1, <1>3, <2>1, RunningGood
<1>4. CASE GetPid
  <2>1. cpu.pc = "getpid" /\ SysGetpid("syscall")
    BY <1>4 DEF GetPid, At
  <2> DEFINE Rest == /\ SaveResult("syscall", current) /\ Back(current)
                     /\ pages' = PagesShown /\ memory' = MemoryShown
                     /\ UNCHANGED <<ptable, ticks>>
  <2>2. ASSUME Rest, UNCHANGED bootVars
        PROVE  WInv'
    <3>1. /\ cpu'.pc = "init" /\ cpu'.rax = current /\ UNCHANGED <<mode, current, ptable>>
          /\ \A q \in Procs : q # current => regs'[q] = regs[q]
      <4>1. /\ cpu' = [pc |-> After[cpu.pc], rax |-> current, rbx |-> cpu.rbx]
            /\ UNCHANGED <<mode, current, ptable>>
        BY <2>2 DEF Back
      <4>2. \E r : regs' = [regs EXCEPT ![current] = r]
        BY <2>2 DEF SaveResult, SaveRegs
      <4> QED
        BY <1>2, <2>1, <4>1, <4>2, AfterCall
    <3>2. ProgramOf(current)' = ProgramOf(current) /\ Context(current)' = cpu' /\ cpu' \in Regs
      <4>1. cpu' \in Regs
        BY DEF KernelInv, TypeOK
      <4> QED
        BY <1>1, <2>2, <3>1, <4>1 DEF ProgramOf, bootVars, Context
    <3>3. GoodRegs(current)'
      BY <3>1, <3>2 DEF GoodRegs, HeapLabels
    <3>4. HeapOf(current)' = HeapOf(current)
      BY <1>2, <2>1, <3>1, <3>2 DEF HeapOf
    <3> QED
      BY <1>1, <1>3, <2>2, <3>1, <3>3, <3>4
  <2>3. Handler(1, Rest)
    BY <2>1 DEF SysGetpid, MemshowCalls
  <2> QED
    BY <1>1, <2>2, <2>3, HandlerGood
<1>5. CASE Yield
  <2>1. cpu.pc \in {"yield", "idle", "fyield"} /\ SysYield("syscall")
    BY <1>5 DEF Yield, At
  <2> DEFINE Rest == /\ SaveRegs([Trapped EXCEPT !.rax = 0]) /\ Schedule
                     /\ pages' = PagesShown /\ memory' = MemoryShown
                     /\ UNCHANGED <<ptable, ticks>>
  <2>2. ASSUME Rest, UNCHANGED bootVars
        PROVE  WInv'
    <3>1. /\ mode' = "sched" /\ UNCHANGED <<current, ptable>>
          /\ regs' = [regs EXCEPT ![current] = [Trapped EXCEPT !.rax = 0]]
      BY <2>2 DEF SaveRegs, Schedule
    <3>2. /\ \A q \in Procs : q # current => regs'[q] = regs[q]
          /\ regs'[current].pc = After[cpu.pc] /\ regs'[current].rbx = cpu.rbx
      BY <1>2, <3>1 DEF Trapped, Regs
    <3>3. ProgramOf(current)' = ProgramOf(current) /\ Context(current)' = regs'[current]
          /\ regs'[current] \in Regs
      <4>1. regs' \in [Procs -> Regs]
        BY DEF KernelInv, TypeOK
      <4> QED
        BY <1>2, <2>2, <3>1, <4>1 DEF ProgramOf, bootVars, Context
    <3>4. GoodRegs(current)'
      BY <1>2, <2>1, <3>1, <3>2, <3>3, AfterCall DEF GoodRegs, HeapLabels
    <3>5. HeapOf(current)' = HeapOf(current)
      BY <1>2, <2>1, <3>1, <3>2, <3>3, AfterCall DEF HeapOf
    <3> QED
      BY <1>1, <1>3, <2>2, <3>1, <3>2, <3>4, <3>5
  <2>3. Handler(1, Rest)
    BY <2>1 DEF SysYield, MemshowCalls
  <2> QED
    BY <1>1, <2>2, <2>3, HandlerGood
<1>6. CASE Fork
  <2> DEFINE Rest == /\ SaveRegs(Trapped) /\ Halt
                     /\ pages' = PagesShown /\ memory' = MemoryShown
                     /\ UNCHANGED <<ptable, ticks>>
  <2>1. Handler(1, Rest)
    BY <1>6 DEF Fork, SysPanic, MemshowCalls
  <2>2. Rest => WInv'
    BY <1>1, NobodyGood DEF Halt, Panic
  <2> QED
    BY <1>1, <2>1, <2>2, HandlerGood
<1>7. CASE Timer
  <2> DEFINE Rest == /\ SaveRegs(cpu) /\ Schedule
                     /\ ticks' = NextTick
                     /\ pages' = PagesShown /\ memory' = MemoryShown
                     /\ UNCHANGED ptable
  <2>1. Handler(1, Rest)
    BY <1>7 DEF Timer
  <2>2. ASSUME Rest, UNCHANGED bootVars
        PROVE  WInv'
    <3>1. /\ mode' = "sched" /\ UNCHANGED <<current, ptable>>
          /\ regs' = [regs EXCEPT ![current] = cpu]
      BY <2>2 DEF SaveRegs, Schedule
    <3>2. /\ \A q \in Procs : q # current => regs'[q] = regs[q]
          /\ Context(current)' = Context(current) /\ ProgramOf(current)' = ProgramOf(current)
      BY <1>2, <2>2, <3>1 DEF ProgramOf, bootVars, Context
    <3>3. GoodRegs(current)' /\ HeapOf(current)' = HeapOf(current)
      BY <1>2, <3>1, <3>2 DEF GoodRegs, HeapOf
    <3> QED
      BY <1>1, <1>3, <2>2, <3>1, <3>2, <3>3
  <2> QED
    BY <1>1, <2>1, <2>2, HandlerGood
<1> QED
  BY <1>4, <1>5, <1>6, <1>7

\* sys_page_alloc() hands the page at heap_top to the process that calls it, if
\* nobody owns that page, and clears it.
LEMMA PageAllocGood == ASSUME WInv, KernelInv', PageAlloc PROVE WInv'
<1> DEFINE top == heapTop[current]
           granted == PageFree(top)
           rax == IF granted THEN 0 ELSE -1
           Rest ==
               /\ SaveResult("syscall", rax) /\ Back(rax)
               /\ pages' = IF granted THEN [PagesShown EXCEPT ![top] = current] ELSE PagesShown
               /\ memory' = IF granted THEN Cleared(top) ELSE MemoryShown
               /\ UNCHANGED <<ptable, ticks>>
<1>1. /\ mode = "user" /\ cpu.pc = "alloc" /\ SysPageAlloc("syscall", top, TRUE)
      /\ heapTop' = heapTop /\ heapTop \in [Procs -> 0 .. NPages]
  BY DEF PageAlloc, At, WInv
<1>2. Handler(1, Rest)
  BY <1>1 DEF SysPageAlloc, MemshowCalls
<1>3. /\ current \in Pids /\ current \in Procs /\ Good(current) /\ GoodRegs(current)
      /\ Context(current) = cpu /\ cpu \in Regs
  BY <1>1, UserGood DEF Good, GoodRegs
<1> HIDE DEF granted, rax
<1>4. ASSUME Rest, UNCHANGED bootVars PROVE WInv'
  <2>1. cpu' = [pc |-> After[cpu.pc], rax |-> rax, rbx |-> cpu.rbx]
        /\ UNCHANGED <<mode, current, ptable>>
    BY <1>4 DEF Back
  <2>2. \A q \in Procs : q # current => regs'[q] = regs[q]
    <3>1. \E r : regs' = [regs EXCEPT ![current] = r]
      BY <1>4 DEF SaveResult, SaveRegs
    <3> QED
      BY <3>1 DEF WInv, KernelInv, TypeOK
  <2>3. cpu'.pc = "got" /\ cpu'.rax = rax /\ cpu'.rbx = cpu.rbx
    BY <1>1, <2>1, AfterCall
  <2>4. /\ ProgramOf(current)' = ProgramOf(current) /\ ProgramOf(current) \in Programs
        /\ Context(current)' = cpu' /\ cpu' \in Regs
    <3>1. cpu' \in Regs
      BY DEF KernelInv, TypeOK
    <3>2. ProgramOf(current) \in Programs
      BY <1>1, UserGood, ProgramPages DEF WInv, KernelInv
    <3> QED
      BY <1>1, <1>3, <1>4, <2>1, <3>1, <3>2 DEF ProgramOf, bootVars, Context
  <2>5. /\ HeapStart[ProgramOf(current)] <= top /\ HeapStart[ProgramOf(current)] \in Pages
        /\ cpu.rbx = current /\ top \in 0 .. NPages
    BY <1>1, <1>3, <2>4, HeapAssumption DEF GoodRegs, HeapLabels
  <2>6. GoodRegs(current)'
    BY <1>1, <1>3, <2>1, <2>3, <2>4, <2>5 DEF GoodRegs, HeapLabels, rax
  <2>7. /\ pages \in [Pages -> Procs \cup {KernelOwner}]
        /\ MemoryShown \in [Pages -> 0 .. NPROC]
    BY MemshowMemory DEF WInv, KernelInv, TypeOK
  <2>8. \A pa \in Pages : /\ \A q \in Pids : PagesShown[pa] = q <=> pages[pa] = q
                          /\ pages[pa] # 0 => MemoryShown[pa] = memory[pa]
    BY RedrawHarmless DEF WInv
  <2>9. CASE ~granted
    <3>1. HeapOf(current)' = HeapOf(current)
      BY <1>1, <1>3, <2>1, <2>3, <2>4, <2>9 DEF HeapOf, rax
    <3>2. pages' = PagesShown /\ memory' = MemoryShown
      BY <1>4, <2>9
    <3> QED
      BY <1>1, <1>4, <2>1, <2>2, <2>6, <2>8, <3>1, <3>2, RunningGood
  <2>10. CASE granted
    <3>1. top \in Pages /\ PagesShown[top] = 0
      BY <2>10 DEF granted, PageFree, Allocatable
    <3>2. \A q \in Pids : pages[top] # q
      BY <2>8, <3>1
    <3>3. /\ \A pa \in Pages : pages'[pa] = IF pa = top THEN current ELSE PagesShown[pa]
          /\ \A pa \in Pages : memory'[pa] = IF pa = top THEN 0 ELSE MemoryShown[pa]
      <4>1. PagesShown \in [Pages -> Procs \cup {KernelOwner}]
        BY <2>7, KallocFirst DEF PagesShown, WInv, KernelInv
      <4> QED
        BY <1>4, <2>7, <2>10, <3>1, <4>1 DEF Cleared
    <3>4. ASSUME NEW q \in Pids, Live(q)' PROVE Good(q)'
      <4>1. Live(q) /\ Good(q)
        BY <1>1, <2>1, <3>4 DEF Live, WInv, ProcessesGood, UpAndRunning
      <4>2. CASE q # current
        <5>1. Context(q)' = Context(q) /\ cmd' = cmd /\ heapTop'[q] = heapTop[q]
          BY <1>1, <1>4, <2>1, <2>2, <4>2 DEF Context, bootVars
        <5>2. /\ \A pa \in Pages : pages'[pa] = q <=> pages[pa] = q
              /\ \A pa \in Pages : pages[pa] = q => memory'[pa] = memory[pa]
          BY <2>8, <3>2, <3>3, <4>2
        <5> QED
          BY <4>1, <5>1, <5>2, BystanderGood
      <4>3. CASE q = current
        <5>1. HeapOf(q)' = HeapOf(q) \cup {top}
          <6>1. HeapOf(current) = HeapStart[ProgramOf(current)] .. top - 1
            BY <1>1, <1>3 DEF HeapOf
          <6>2. HeapOf(current)' = HeapStart[ProgramOf(current)] .. top
            BY <1>1, <2>1, <2>3, <2>4, <2>10 DEF HeapOf, rax
          <6> QED
            BY <2>1, <2>5, <4>3, <6>1, <6>2
        <5>2. OwnedBy(q)' = OwnedBy(q) \cup {top}
          BY <2>8, <3>1, <3>2, <3>3, <4>3 DEF OwnedBy
        <5>3. ProgramOf(q)' = ProgramOf(q) /\ heapTop'[q] = top
          BY <1>1, <2>1, <2>4, <4>3
        <5>4. Owns(q)'
          BY <4>1, <5>1, <5>2, <5>3 DEF Good, Owns
        <5>5. \A pa \in HeapOf(q) : pa \in Pages /\ pages[pa] = q
          BY <4>1 DEF Good, Owns, OwnedBy
        <5>6. Intact(q)'
          <6>1. \A pa \in HeapOf(q) : pa # top /\ memory'[pa] = memory[pa]
            BY <2>8, <3>2, <3>3, <5>5
          <6>2. memory'[top] = 0
            BY <3>1, <3>3
          <6>3. \A pa \in HeapOf(q) \cup {top} :
                   memory'[pa] = IF pa < heapTop'[q] THEN q ELSE 0
            BY <2>5, <4>1, <4>3, <5>3, <6>1, <6>2 DEF Good, Intact
          <6> QED
            BY <5>1, <6>3 DEF Intact
        <5> QED
          BY <2>1, <2>6, <4>3, <5>4, <5>6 DEF Good
      <4> QED
        BY <4>2, <4>3
    <3> QED
      BY <1>1, <1>4, <2>1, <3>4 DEF WInv, SetUpSoFar, ProcessesGood
  <2> QED
    BY <2>9, <2>10
<1> QED
  BY <1>1, <1>2, <1>4, HandlerGood

\* The write to a page just granted, *heap_top = p, is to the process's own heap.
LEMMA WriteHeapGood == ASSUME WInv, KernelInv', WriteHeap PROVE WInv'
<1> DEFINE top == heapTop[current]
<1>1. /\ mode = "user" /\ cpu.pc = "write" /\ mode' = mode
      /\ UNCHANGED <<bootVars, current, ptable, regs, pages>>
      /\ cpu' = [cpu EXCEPT !.pc = "yield", !.rax = SYSCALL_YIELD]
      /\ memory' = [memory EXCEPT ![top] = cpu.rbx]
      /\ heapTop' = [heapTop EXCEPT ![current] = top + 1]
      /\ Allocatable(top)
  BY WriteTarget DEF WriteHeap, At, UserWrite
<1>2. /\ current \in Pids /\ current \in Procs /\ Good(current) /\ GoodRegs(current)
      /\ Context(current) = cpu /\ cpu \in Regs /\ cpu.rbx = current
      /\ HeapStart[ProgramOf(current)] <= top
  BY <1>1, UserGood DEF Good, GoodRegs, HeapLabels
<1>3. heapTop \in [Procs -> 0 .. NPages] /\ memory \in [Pages -> 0 .. NPROC] /\ cpu' \in Regs
  BY DEF WInv, KernelInv, TypeOK
<1>4. /\ ProgramOf(current)' = ProgramOf(current) /\ ProgramOf(current) \in Programs
      /\ Context(current)' = cpu' /\ cpu'.pc = "yield" /\ cpu'.rbx = current
  BY <1>1, <1>2, UserGood, ProgramPages DEF ProgramOf, bootVars, Context, Regs, WInv, KernelInv
<1>5. /\ HeapStart[ProgramOf(current)] \in Pages /\ top \in Pages /\ top + 1 \in 0 .. NPages
      /\ heapTop' \in [Procs -> 0 .. NPages] /\ heapTop'[current] = top + 1
  BY <1>1, <1>2, <1>3, <1>4, HeapAssumption, PageAssumption DEF Allocatable
<1>6. HeapOf(current)' = HeapOf(current) /\ top \in HeapOf(current)
      /\ \A pa \in HeapOf(current) : pa < top + 1 /\ pa \in Int
  <2>1. HeapOf(current) = HeapStart[ProgramOf(current)] .. top
    BY <1>1, <1>2 DEF HeapOf
  <2>2. HeapOf(current)' = HeapStart[ProgramOf(current)] .. (top + 1) - 1
    BY <1>1, <1>4, <1>5 DEF HeapOf
  <2> QED
    BY <1>2, <1>5, <2>1, <2>2
<1>7. GoodRegs(current)'
  BY <1>1, <1>2, <1>3, <1>4, <1>5 DEF GoodRegs, HeapLabels
<1>8. pages[top] = current
  BY <1>1, WriteTarget
<1>9. \A pa \in Pages : memory'[pa] = IF pa = top THEN current ELSE memory[pa]
  BY <1>1, <1>2, <1>3, <1>5
<1>10. ASSUME NEW q \in Pids, Live(q)' PROVE Good(q)'
  <2>1. Live(q) /\ Good(q)
    BY <1>1, <1>10 DEF Live, WInv, ProcessesGood, UpAndRunning
  <2>2. CASE q # current
    <3>1. Context(q)' = Context(q) /\ cmd' = cmd /\ heapTop'[q] = heapTop[q]
      BY <1>1, <1>2, <1>3, <2>2 DEF Context, bootVars
    <3>2. \A pa \in Pages : pages[pa] = q => memory'[pa] = memory[pa]
      BY <1>8, <1>9, <2>2
    <3> QED
      BY <1>1, <2>1, <3>1, <3>2, BystanderGood
  <2>3. CASE q = current
    <3>1. Owns(q)'
      BY <1>1, <1>4, <1>6, <2>1, <2>3 DEF Good, Owns, OwnedBy
    <3>2. Intact(q)'
      <4>1. \A pa \in HeapOf(current) :
               /\ pa \in Pages /\ pa < heapTop'[current]
               /\ memory[pa] = IF pa < top THEN current ELSE 0
        BY <1>2, <1>5, <1>6 DEF Good, Intact, Owns, OwnedBy
      <4>2. \A pa \in HeapOf(current) : pa # top => pa < top
        BY <1>5, <1>6
      <4>3. \A pa \in HeapOf(current) : memory'[pa] = current
        BY <1>9, <4>1, <4>2
      <4> QED
        BY <1>1, <1>6, <2>3, <4>1, <4>3 DEF Intact
    <3> QED
      BY <1>1, <1>7, <2>3, <3>1, <3>2 DEF Good
  <2> QED
    BY <2>2, <2>3
<1> QED
  BY <1>1, <1>5, <1>10 DEF WInv, SetUpSoFar, ProcessesGood

\* process_setup(): the new process owns what it has just claimed, and nobody
\* owned that before.
LEMMA SetupGood == ASSUME WInv, KernelInv', ProcessSetup, UNCHANGED heapTop PROVE WInv'
<1> DEFINE pid == setup
           image == Image[ProgramOf(pid)]
           stack == StackPage[pid]
           loaded == {pa \in image : \A q \in image : q <= pa => Claimable(q)}
           ok == loaded = image /\ Claimable(stack) /\ stack \notin image
           got == IF ok THEN image \cup {stack} ELSE loaded
<1>1. /\ mode = "boot" /\ setup <= LastSetup
      /\ pages' = [pa \in Pages |-> IF pa \in got THEN pid ELSE pages[pa]]
      /\ memory' = [pa \in Pages |-> IF pa \in image /\ loaded = image THEN Junk
                                     ELSE IF pa \in got THEN 0 ELSE memory[pa]]
      /\ IF ok
         THEN /\ ptable' = [ptable EXCEPT ![pid] = "RUNNABLE"]
              /\ regs' = [regs EXCEPT ![pid] = Zero(Entry[ProgramOf(pid)])]
              /\ setup' = pid + 1
              /\ UNCHANGED mode
         ELSE Panic /\ UNCHANGED <<ptable, regs, setup>>
      /\ UNCHANGED <<cmd, cpu, current>>
  BY DEF ProcessSetup
<1>2. heapTop' \in [Procs -> 0 .. NPages]
  BY DEF WInv
<1>3. CASE ~ok
  BY <1>1, <1>2, <1>3, NobodyGood DEF Panic
<1>4. CASE ok
  <2>1. /\ pid \in Pids /\ pid <= 4 /\ LastSetup' = LastSetup
        /\ pages \in [Pages -> Procs \cup {KernelOwner}]
        /\ ptable \in [Procs -> States] /\ regs \in [Procs -> Regs]
        /\ regs' \in [Procs -> Regs]
    <3>1. TypeOK /\ TypeOK'
      BY DEF WInv, KernelInv
    <3>2. /\ pages \in [Pages -> Procs \cup {KernelOwner}]
          /\ ptable \in [Procs -> States] /\ regs \in [Procs -> Regs]
          /\ regs' \in [Procs -> Regs] /\ setup \in 1 .. NPROC
      BY <3>1 DEF TypeOK
    <3>3. LastSetup' = LastSetup /\ LastSetup \in {NALLOC, 1} /\ setup <= LastSetup
      BY <1>1 DEF LastSetup
    <3>4. pid \in Pids /\ pid <= 4
      BY <3>2, <3>3, ProcAssumption
    <3> QED
      BY <3>2, <3>3, <3>4
  <2>2. ProgramOf(pid) \in Programs
    BY <2>1, ProcAssumption DEF ProgramOf, Programs
  <2>3. image \in SUBSET Pages /\ stack \in Pages
    BY <2>1, <2>2, PageAssumption
  <2>4. got = image \cup {stack} /\ \A pa \in got : pa \in Pages /\ pages[pa] = 0
    BY <1>4, <2>3 DEF Claimable
  <2>5. ~Live(pid) /\ 0 \notin Pids /\ KernelOwner \notin Pids
    BY <1>1, <2>1, ProcAssumption DEF WInv, SetUpSoFar, KernelOwner
  <2>6. \A pa \in Pages : pages[pa] # pid
    <3>1. \A pa \in Pages : pages[pa] \notin {0, KernelOwner} => Live(pages[pa])
      BY <1>1 DEF WInv, KernelInv, OwnersLive, UpAndRunning
    <3>2. pid \notin {0, KernelOwner}
      BY <2>1, <2>5
    <3> QED
      BY <2>5, <3>1, <3>2 DEF Live
  <2> HIDE DEF image, stack, loaded, ok, got
  <2>7. \A pa \in Pages : /\ pages'[pa] = IF pa \in got THEN pid ELSE pages[pa]
                          /\ pa \notin got => memory'[pa] = memory[pa]
    BY <1>1, <2>4
  <2>8. /\ mode' = "boot" /\ setup' = pid + 1 /\ cmd' = cmd
        /\ \A q \in Procs : /\ ptable'[q] = IF q = pid THEN "RUNNABLE" ELSE ptable[q]
                            /\ q # pid => regs'[q] = regs[q]
        /\ regs'[pid] = Zero(Entry[ProgramOf(pid)])
    BY <1>1, <1>4, <2>1
  <2>9. ASSUME NEW q \in Pids, Live(q)' PROVE Good(q)'
    <3>1. CASE q # pid
      <4>1. Live(q) /\ Good(q)
        BY <1>1, <2>8, <2>9, <3>1 DEF Live, WInv, ProcessesGood, UpAndRunning
      <4>2. Context(q)' = Context(q) /\ heapTop'[q] = heapTop[q]
        BY <1>1, <2>8, <3>1 DEF Context
      <4>3. /\ \A pa \in Pages : pages'[pa] = q <=> pages[pa] = q
            /\ \A pa \in Pages : pages[pa] = q => memory'[pa] = memory[pa]
        BY <2>4, <2>5, <2>7, <3>1
      <4> QED
        BY <2>8, <4>1, <4>2, <4>3, BystanderGood
    <3>2. CASE q = pid
      <4>1. /\ Context(q)' = regs'[q] /\ regs'[q] \in Regs
            /\ ProgramOf(q)' = ProgramOf(q) /\ ProgramOf(q) \in Programs
        BY <2>1, <2>2, <2>8, <3>2 DEF Context, ProgramOf
      <4>2. Context(q)'.pc \in {"start", "fork", "forkexit"}
        BY <2>8, <3>2, <4>1, ProgramAssumption DEF Zero, ProgramEntry
      <4>3. GoodRegs(q)' /\ HeapOf(q)' = {}
        BY <4>1, <4>2 DEF GoodRegs, HeapLabels, HeapOf
      <4>4. OwnedBy(q)' = got
        BY <2>4, <2>6, <2>7, <3>2 DEF OwnedBy
      <4>5. Owns(q)' /\ Intact(q)'
        BY <2>4, <3>2, <4>1, <4>3, <4>4 DEF Owns, Intact, image, stack
      <4> QED
        BY <4>3, <4>5 DEF Good
    <3> QED
      BY <3>1, <3>2
  <2>10. SetUpSoFar'
    BY <1>1, <2>1, <2>8 DEF WInv, SetUpSoFar, Live
  <2> QED
    BY <1>2, <2>9, <2>10 DEF WInv, ProcessesGood
<1> QED
  BY <1>3, <1>4

\* Steps that change neither owners nor contents nor anybody's registers.
LEMMA QuietGood ==
    ASSUME WInv, KernelInv', UNCHANGED <<ptable, cmd, heapTop>>,
           mode' = "boot" => mode = "boot" /\ setup' = setup, 
           UpAndRunning' => UpAndRunning,
           \A q \in Pids : Live(q) => Context(q)' = Context(q),
           \A pa \in Pages, q \in Pids : pages'[pa] = q <=> pages[pa] = q,
           \A pa \in Pages : pages[pa] # 0 => memory'[pa] = memory[pa]
    PROVE  WInv'
<1>1. ASSUME NEW q \in Pids, Live(q)', UpAndRunning' PROVE Good(q)'
  <2>1. Live(q) /\ Good(q)
    BY <1>1 DEF Live, WInv, ProcessesGood
  <2> QED
    BY <2>1, BystanderGood
<1> QED
  BY <1>1 DEF WInv, SetUpSoFar, ProcessesGood, Live

\* The rest of the kernel's steps: run() and the loops that poll the keyboard.
LEMMA LoopGood ==
    ASSUME WInv, KernelInv', UNCHANGED heapTop, RunFirst \/ SchedRun \/ SchedIdle \/ FailSpin
    PROVE  WInv'
<1>1. heapTop' \in [Procs -> 0 .. NPages]
  BY DEF WInv
<1>2. CASE RunFirst \/ SchedRun
  <2>1. CASE mode' = "panic"
    BY <1>1, <2>1, NobodyGood
  <2>2. CASE mode' # "panic"
    <3>1. /\ mode \in {"boot", "sched"} /\ mode' = "user" /\ cpu' = regs[current']
          /\ UNCHANGED <<ptable, regs, cmd, pages, memory>>
      BY <1>2, <2>2 DEF RunFirst, SchedRun, Run, Panic, bootVars, memVars
    <3>2. \A q \in Pids : Context(q)' = Context(q)
      BY <3>1 DEF Context
    <3> QED
      BY <3>1, <3>2, QuietGood DEF UpAndRunning
  <2> QED
    BY <2>1, <2>2
<1>3. CASE SchedIdle
  <2> DEFINE Rest ==
           /\ schedPid' = NextPid(schedPid)
           /\ spins' = (spins + 1) % SpinPeriod
           /\ IF spins = 0
              THEN /\ Memshow(1)
                   /\ pages' = PagesShown /\ memory' = MemoryShown
                   /\ IF ViewerFails THEN Panic ELSE UNCHANGED mode
              ELSE UNCHANGED <<mode, memVars, viewVars>>
           /\ UNCHANGED <<bootVars, procVars, ticks>>
  <2>1. mode = "sched" /\ CheckKeyboard(memory, Rest)
    BY <1>3 DEF SchedIdle
  <2>2. ASSUME Rest PROVE WInv'
    <3>1. CASE mode' = "panic"
      BY <1>1, <3>1, NobodyGood
    <3>2. CASE mode' # "panic"
      <4>1. /\ mode' = "sched" /\ UNCHANGED <<ptable, cmd, regs>>
            /\ pages' \in {pages, PagesShown} /\ memory' \in {memory, MemoryShown}
        BY <2>1, <2>2, <3>2 DEF Panic, bootVars, procVars, memVars
      <4>2. \A pa \in Pages : /\ \A q \in Pids : pages'[pa] = q <=> pages[pa] = q
                              /\ pages[pa] # 0 => memory'[pa] = memory[pa]
        BY <4>1, RedrawHarmless DEF WInv
      <4>3. \A q \in Pids : Context(q)' = Context(q)
        BY <2>1, <4>1 DEF Context
      <4> QED
        BY <2>1, <4>1, <4>2, <4>3, QuietGood DEF UpAndRunning
    <3> QED
      BY <3>1, <3>2
  <2> QED
    BY <1>1, <2>1, <2>2, KeyboardGood
<1>4. CASE FailSpin
  <2> DEFINE Rest == UNCHANGED <<mode, bootVars, procVars, memVars, ticks, viewVars, schedVars>>
  <2>1. mode = "panic" /\ CheckKeyboard(memory, Rest)
    BY <1>4 DEF FailSpin
  <2>2. Rest => WInv'
    BY <1>1, <2>1, NobodyGood
  <2> QED
    BY <1>1, <2>1, <2>2, KeyboardGood
<1> QED
  BY <1>2, <1>3, <1>4

\* Every step of the system keeps the invariant.
LEMMA WNextInv == WInv /\ [WNext]_wvars => WInv'
<1> SUFFICES ASSUME WInv, [WNext]_wvars PROVE WInv'
  OBVIOUS
<1>1. KernelInv'
  BY StepAllowed
<1>2. CASE Program
  BY <1>1, <1>2, StatementGood, CallGood, PageAllocGood, WriteHeapGood
     DEF Program, GetPid, Yield, Fork
<1>3. CASE KernelStep /\ UNCHANGED heapTop
  BY <1>1, <1>3, SetupGood, LoopGood DEF KernelStep
<1>4. CASE Timer /\ UNCHANGED heapTop
  BY <1>1, <1>4, CallGood
<1>5. CASE ((PressKey \/ PoweredOff) /\ UNCHANGED heapTop) \/ UNCHANGED wvars
  <2>1. UNCHANGED <<mode, bootVars, procVars, memVars, heapTop>>
    BY <1>5 DEF PressKey, PoweredOff, wvars, vars
  <2>2. \A q \in Pids : Context(q)' = Context(q)
    BY <2>1 DEF Context, procVars
  <2> QED
    BY <1>1, <2>1, <2>2, QuietGood DEF UpAndRunning, bootVars, procVars, memVars
<1> QED
  BY <1>2, <1>3, <1>4, <1>5 DEF WNext

\* The invariant holds in every reachable state of the handout.
LEMMA WInvHolds == WSpec => []WInv
BY WInitInv, WNextInv, PTL DEF WSpec

\* The handout's programs do nothing that module Kernel does not let user code
\* do, and they leave the kernel's own memory alone, which Kernel supposes of user
\* code: whatever is proved of Kernel holds while these programs run.
THEOREM ProgramsAreUserCode == WSpec => Spec
<1>1. WInit => Init
  BY DEF WInit
<1>2. WInv /\ [WNext]_wvars => [Next]_vars
  BY StepAllowed
<1> QED
  BY <1>1, <1>2, WInvHolds, PTL DEF WSpec, Spec

\* Process and kernel agree on the heap for any number of processes and pages:
\* across preemption, yields, the viewer's own allocation and soft reboots the
\* pages recorded for a process are its program, its stack and its heap.
THEOREM HeapIsOwned == WSpec => []OwnedExactly
<1>1. WInv => OwnedExactly
  BY DEF WInv, OwnedExactly, ProcessesGood, Good, Owns, OwnedBy, Running, UpAndRunning
<1> QED
  BY <1>1, WInvHolds, PTL

\* Nobody writes to a process's heap but itself, and a page it is granted has
\* been cleared, whatever was on it before.
THEOREM HeapIsIntact == WSpec => []HeapIntact
<1>1. WInv => HeapIntact
  BY DEF WInv, HeapIntact, ProcessesGood, Good, Intact, Running, UpAndRunning
<1> QED
  BY <1>1, WInvHolds, PTL
-----------------------------------------------------------------------------
(* The memory viewer shows what processes own. Only up to four processes   *)
(* are ever set up, so a flag word has a bit for each of them.             *)

\* Pages are owned by the kernel and the first four processes only, even after
\* a boot that panicked half way.
OwnersFew == \A pa \in Pages : pages[pa] \notin {0, KernelOwner} => pages[pa] \in 1 .. 4

\* Polling the keyboard on the way to a stop hands out no page.
LEMMA KeyboardStops ==
    ASSUME NEW STATE contents, NEW ACTION Rest, CheckKeyboard(contents, Rest),
           mode' \in {"panic", "off"}, Rest => pages' \in {pages, PagesShown}
    PROVE  pages' \in {pages, PagesShown}
BY DEF CheckKeyboard, Boot, PowerOff, memVars

\* Nor does a handler that ends in a panic or with the power off.
LEMMA HandlerStops ==
    ASSUME NEW calls, NEW ACTION Rest, Handler(calls, Rest),
           mode' \in {"panic", "off"}, mode = "user" /\ Rest => pages' \in {pages, PagesShown}
    PROVE  pages' \in {pages, PagesShown}
<1>1. CASE ViewerFails
  BY <1>1 DEF Handler
<1>2. CASE ~ViewerFails
  BY <1>2, KeyboardStops DEF Handler
<1> QED
  BY <1>1, <1>2

\* Of the steps that stop the machine only process_setup() can hand out a page
\* to a process.
LEMMA StopsGrantNothing ==
    ASSUME [Next]_vars, mode' \in {"panic", "off"}, ~ProcessSetup
    PROVE  pages' \in {pages, PagesShown}
<1>1. CASE RunFirst \/ SchedRun \/ PressKey \/ PoweredOff \/ UNCHANGED vars
  BY <1>1 DEF RunFirst, SchedRun, PressKey, PoweredOff, vars, memVars
<1>2. CASE \/ \E r \in Regs : UserStep(r)
           \/ \E pa \in UserPages, v \in Pids, r \in Regs : UserWrite(pa, v, r)
  BY <1>2 DEF UserStep, UserWrite, memVars
<1>3. CASE FailSpin
  <2> DEFINE Rest == UNCHANGED <<mode, bootVars, procVars, memVars, ticks, viewVars, schedVars>>
  <2>1. Rest => pages' = pages
    BY DEF memVars
  <2>2. CheckKeyboard(memory, Rest)
    BY <1>3 DEF FailSpin
  <2> HIDE DEF Rest
  <2> QED
    BY <2>1, <2>2, KeyboardStops
<1>4. CASE SchedIdle
  <2> DEFINE Rest ==
          /\ schedPid' = NextPid(schedPid)
          /\ spins' = (spins + 1) % SpinPeriod
          /\ IF spins = 0
             THEN /\ Memshow(1)
                  /\ pages' = PagesShown /\ memory' = MemoryShown
                  /\ IF ViewerFails THEN Panic ELSE UNCHANGED mode
             ELSE UNCHANGED <<mode, memVars, viewVars>>
          /\ UNCHANGED <<bootVars, procVars, ticks>>
  <2>1. Rest => pages' \in {pages, PagesShown}
    BY DEF memVars
  <2>2. CheckKeyboard(memory, Rest)
    BY <1>4 DEF SchedIdle
  <2> HIDE DEF Rest
  <2> QED
    BY <2>1, <2>2, KeyboardStops
<1>5. CASE Timer
  BY <1>5, HandlerStops DEF Timer
<1>6. CASE PageFault
  BY <1>6, HandlerStops DEF PageFault
<1>7. CASE OtherException
  BY <1>7, HandlerStops DEF OtherException
<1>8. ASSUME NEW gate \in Gates, SysGetpid(gate) PROVE pages' \in {pages, PagesShown}
  BY <1>8, HandlerStops DEF SysGetpid
<1>9. ASSUME NEW gate \in Gates, SysYield(gate) PROVE pages' \in {pages, PagesShown}
  BY <1>9, HandlerStops DEF SysYield
<1>10. ASSUME NEW gate \in Gates, SysPanic(gate) PROVE pages' \in {pages, PagesShown}
  BY <1>10, HandlerStops DEF SysPanic
<1>11. ASSUME NEW gate \in Gates, NEW pa \in Pages \cup {NPages}, NEW aligned \in BOOLEAN,
              SysPageAlloc(gate, pa, aligned)
       PROVE  pages' \in {pages, PagesShown}
  <2> DEFINE granted == aligned /\ PageFree(pa)
             Rest ==
               /\ IF aligned
                  THEN LET rax == IF granted THEN 0 ELSE -1
                       IN  SaveResult(gate, rax) /\ Back(rax)
                  ELSE SaveRegs(Trapped) /\ Halt
               /\ pages' = IF granted THEN [PagesShown EXCEPT ![pa] = current]
                           ELSE PagesShown
               /\ memory' = IF granted THEN Cleared(pa) ELSE MemoryShown
               /\ UNCHANGED <<ptable, ticks>>
  <2>1. Handler(MemshowCalls(gate), Rest)
    BY <1>11 DEF SysPageAlloc
  <2>2. ASSUME mode = "user", Rest PROVE pages' = PagesShown
    <3>1. ~aligned
      BY <2>2 DEF Back
    <3> QED
      BY <2>2, <3>1
  <2> HIDE DEF Rest
  <2> QED
    BY <2>1, <2>2, HandlerStops
<1> QED
  BY <1>1, <1>2, <1>3, <1>4, <1>5, <1>6, <1>7, <1>8, <1>9, <1>10, <1>11 DEF Next, KernelStep

\* The owners stay few.
LEMMA FewNext == ASSUME KernelInv, OwnersFew, [Next]_vars PROVE OwnersFew'
<1>1. KernelInv'
  BY NextInv
<1>2. CASE UpAndRunning'
  <2> SUFFICES ASSUME NEW pa \in Pages, pages'[pa] \notin {0, KernelOwner}
               PROVE  pages'[pa] \in 1 .. 4
    BY DEF OwnersFew
  <2>1. pages'[pa] \in Pids
    <3>1. pages' \in [Pages -> Procs \cup {KernelOwner}]
      BY <1>1 DEF KernelInv, TypeOK
    <3> QED
      BY <3>1, ProcAssumption
  <2>2. pages'[pa] <= LastSetup'
    BY <1>1, <1>2, <2>1 DEF KernelInv, OwnersLive, LiveSetUp
  <2>3. LastSetup' \in 1 .. 4
    BY ProcAssumption DEF LastSetup
  <2> QED
    BY <2>1, <2>2, <2>3, ProcAssumption
<1>3. CASE ~UpAndRunning'
  <2>1. mode' \in {"panic", "off"}
    BY <1>1, <1>3 DEF KernelInv, TypeOK, Modes, UpAndRunning
  <2>2. \A pa \in Pages : PagesShown[pa] \in {pages[pa], KernelOwner}
    BY KallocFirst DEF PagesShown, KernelInv, TypeOK
  <2>3. CASE pages' \in {pages, PagesShown}
    BY <2>2, <2>3 DEF OwnersFew
  <2>4. CASE ProcessSetup
    <3>1. setup \in 1 .. 4
      <4>1. setup <= LastSetup /\ LastSetup \in {NALLOC, 1}
        BY <2>4 DEF ProcessSetup, LastSetup
      <4>2. setup \in 1 .. NPROC
        BY DEF KernelInv, TypeOK
      <4> QED
        BY <4>1, <4>2, ProcAssumption
    <3>2. \A pa \in Pages : pages'[pa] \in {pages[pa], setup}
      BY <2>4 DEF ProcessSetup
    <3> QED
      BY <3>1, <3>2 DEF OwnersFew
  <2> QED
    BY <2>1, <2>3, <2>4, StopsGrantNothing
<1> QED
  BY <1>2, <1>3

\* One bit of the flag word stands for each of the first four processes.
LEMMA OneBit ==
    ASSUME NEW p \in 1 .. 4
    PROVE  FProcess(p) = {p + 1}
BY DEF FProcess, TwoShifted

\* With owners that few, the viewer's drawing is right.
LEMMA ShownOwners == ASSUME KernelInv, OwnersFew PROVE ProcessPagesShown
<1> SUFFICES ASSUME NEW pa \in Pages
             PROVE  /\ Symbol(pa) # "error"
                    /\ pages[pa] \in Pids =>
                          Symbol(pa) = "process" /\ MarkedPid(Mark(pa)) = pages[pa]
  BY DEF ProcessPagesShown
<1>1. /\ pages[pa] # 0 => Allocatable(pa)
      /\ ConsolePage \in Reserved /\ PageTablePages \subseteq KernelImage
      /\ pages[pa] \in Procs \cup {KernelOwner}
      /\ KernelOwner \notin Pids /\ 0 \notin Pids
  BY ViewerAssumption, ProcAssumption DEF KernelInv, ViewerOwned, TypeOK, KernelOwner
<1>2. FProcess(0) = {} /\ FProcess(KernelOwner) = {}
  BY DEF FProcess, TwoShifted, KernelOwner
<1>3. CASE pages[pa] \in {0, KernelOwner}
  <2>1. ProcessBits(Mark(pa)) = {}
    BY <1>2, <1>3 DEF ProcessBits, Mark
  <2>2. Allocatable(pa) => ~(F_KERNEL \subseteq Mark(pa))
    BY <1>1, <1>2, <1>3 DEF Mark, F_KERNEL, F_USER, Allocatable
  <2>3. \/ pa = ConsolePage \/ pa \in Reserved \/ pa \in KernelImage \/ Allocatable(pa)
    BY DEF Allocatable
  <2> QED
    BY <1>1, <1>3, <2>1, <2>2, <2>3 DEF Symbol, Allocatable
<1>4. CASE pages[pa] \notin {0, KernelOwner}
  <2>1. PICK p \in 1 .. 4 : p = pages[pa]
    BY <1>4 DEF OwnersFew
  <2>2. Allocatable(pa) /\ pa \notin Reserved /\ pa \notin KernelImage /\ pa # ConsolePage
    BY <1>1, <1>4 DEF Allocatable
  <2>3. Mark(pa) = {1, p + 1} /\ p + 1 \notin {0, 1}
    BY <1>1, <2>1, <2>2, OneBit DEF Mark, F_USER
  <2>4. ProcessBits(Mark(pa)) = {p + 1}
    BY <2>3 DEF ProcessBits, F_KERNEL, F_USER
  <2>5. MarkedPid(Mark(pa)) = p
    <3>1. (CHOOSE b \in {p + 1} : \A c \in {p + 1} : b <= c) = p + 1
      OBVIOUS
    <3> QED
      BY <2>4, <3>1 DEF MarkedPid
  <2>6. ~(F_KERNEL \subseteq Mark(pa))
    BY <2>3 DEF F_KERNEL
  <2>7. Symbol(pa) = "process"
    BY <2>2, <2>4, <2>5, <2>6, OneBit DEF Symbol
  <2> QED
    BY <2>1, <2>5, <2>7
<1> QED
  BY <1>3, <1>4

\* Under any user code that leaves the kernel's own memory alone (pages[] is part
\* of it) the memory viewer never reports a page table error, and every page a
\* process owns is drawn as that process's.
THEOREM ViewerShowsProcesses == Spec => []ProcessPagesShown
<1>1. Init => KernelInv /\ OwnersFew
  BY InitInv DEF Init, OwnersFew
<1>2. KernelInv /\ OwnersFew /\ [Next]_vars => (KernelInv /\ OwnersFew)'
  BY NextInv, FewNext
<1>3. KernelInv /\ OwnersFew => ProcessPagesShown
  BY ShownOwners
<1> QED
  BY <1>1, <1>2, <1>3, PTL DEF Spec

\* The same while the handout's programs run: an instance of what
\* ProgramsAreUserCode carries over from the kernel.
THEOREM ViewerShowsPrograms == WSpec => []ProcessPagesShown
BY ProgramsAreUserCode, ViewerShowsProcesses, PTL
=============================================================================
