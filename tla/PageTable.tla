----------------------------- MODULE PageTable ------------------------------
(***************************************************************************)
(* The page table iterators of pset4/k-vmiter.hh and k-vmiter.cc on a       *)
(* narrow machine: tables of Fan entries, Top + 1 levels, addresses counted *)
(* in pages.  Several vmiters work on one table, each with its cached place *)
(* (pep_, level_, perm_); then a ptiter frees it, as the comment at         *)
(* k-vmiter.hh:74-84 shows.                                                 *)
(*                                                                         *)
(* vmiter's operations are one step each.  ptiter::down() is a step per     *)
(* turn of its loop, because what must not happen, reading a table that has *)
(* been freed, would happen inside it.                                      *)
(***************************************************************************)
EXTENDS Integers, FiniteSets

CONSTANTS Fan,         \* entries of a table (512)
          Top,         \* the level of the root (3)
          NTables,     \* pages kalloc() can hand out, the root included
          Iterators,   \* vmiters at work on the table
          Frames,      \* physical pages that get mapped
          Perms        \* permissions map() is called with

ASSUME PageTableAssumption ==
  /\ Fan \in Nat \ {0, 1} /\ Top \in Nat \ {0} /\ NTables \in Nat \ {0}
  /\ Frames \subseteq Nat
  /\ \A p \in Perms : p \subseteq {"P", "W", "U"}

VARIABLES
  memory,      \* memory[t][i] : entry i of table t
  used,        \* kalloc(): tables 1..used have been handed out
  it,          \* it[i] : a vmiter
  pt,          \* the ptiter
  freed,       \* the tables given back
  space,       \* page by page, what the last map() to return 0 for it asked for
  ignored      \* the pages that call was to unmap, and left mapped
asked == <<space, ignored>>
tvars == <<memory, used, it, pt, freed, asked>>

Tables == 1..NTables
Indexes == 0..Fan - 1
Root == 1
Full == {"P", "W", "U"}      \* initial_perm

\* `to` is a table below, or a frame; `big` is PTE_PS.
Entry(to, perm, big) == [to |-> to, perm |-> perm, big |-> big]
Empty == Entry(0, {}, FALSE)
EmptyTable == [i \in Indexes |-> Empty]
Stale == [i \in Indexes |-> Entry(0, {"P"}, TRUE)]   \* what an unused page may hold

\* pageoffmask(level) + 1, in pages
Spans[level \in 0..Top + 2] == IF level = 0 THEN 1 ELSE Fan * Spans[level - 1]
Span(level) == Spans[level]
PageIndex(va, level) == (va \div Span(level)) % Fan
Last == Span(Top + 1)                   \* VA_NONCANONMAX + 1
LastVa(x) == (x.va \div Span(x.level) + 1) * Span(x.level)

At(m, x) == m[x.page][x.idx]            \* *pep_
IsTable(e) == "P" \in e.perm /\ ~e.big

-----------------------------------------------------------------------------
(* vmiter.                                                                 *)

\* One turn of the loop of vmiter::down().
Descend(m, x) ==
  LET e == At(m, x)
  IN IF x.level > 0 /\ IsTable(e)
     THEN [x EXCEPT !.perm = @ \cap e.perm, !.level = @ - 1, !.page = e.to,
                    !.idx = PageIndex(x.va, x.level - 1)]
     ELSE x

Down(m, x) == LET after[n \in 0..Top] == IF n = 0 THEN x ELSE Descend(m, after[n - 1])
              IN after[Top]

AtRoot(va) ==
  [va |-> va, page |-> Root, idx |-> PageIndex(va, Top), level |-> Top, perm |-> Full]

\* A mutant: the place is kept when the address leaves the table it is in.
SameTable_TooWide(x, va) == x.va \div Span(x.level + 2) = va \div Span(x.level + 2)

\* pep_ stays in its table when va differs only below level_ + 1.
SameTable(x, va) == x.va \div Span(x.level + 1) = va \div Span(x.level + 1)

RealFind(m, x, va) ==
  Down(m, IF SameTable(x, va) THEN [x EXCEPT !.va = va, !.idx = PageIndex(va, x.level)]
                              ELSE AtRoot(va))

PermAt(m, x) == IF "P" \in At(m, x).perm THEN At(m, x).perm \cap x.perm ELSE {}
PaAt(m, x) == IF "P" \in At(m, x).perm THEN At(m, x).to + (x.va % Span(x.level)) ELSE 0
Report(m, x) == [pa |-> PaAt(m, x), perm |-> PermAt(m, x)]

\* A mutant: next() skips all that the entry covers, present or not.
SkipLevel_Always(m, x) == x.level

\* next() skips a whole region only when nothing is present in it.
SkipLevel(m, x) == IF x.level > 0 /\ PermAt(m, x) = {} THEN x.level ELSE 0

NextVa(m, x) == (x.va \div Span(SkipLevel(m, x)) + 1) * Span(SkipLevel(m, x))

Alive == pt.pc = "off"

Find(i) ==
  /\ Alive
  /\ \E va \in 0..Last : it' = [it EXCEPT ![i] = RealFind(memory, @, va)]
  /\ UNCHANGED <<memory, used, pt, freed, asked>>

Next(i) ==
  /\ Alive /\ it[i].va < Last
  /\ it' = [it EXCEPT ![i] = RealFind(memory, @, NextVa(memory, @))]
  /\ UNCHANGED <<memory, used, pt, freed, asked>>

Step(i) ==
  /\ Alive /\ it[i].va < Last
  /\ it' = [it EXCEPT ![i] = RealFind(memory, @, LastVa(@))]
  /\ UNCHANGED <<memory, used, pt, freed, asked>>

-----------------------------------------------------------------------------
(* vmiter::map().                                                          *)

\* The assertions at k-vmiter.cc:34-43: the caller's duty.  An iterator at an
\* entry that is present cannot make a table there.
MayMap(x, perm) ==
  /\ x.va < Last
  /\ perm \subseteq x.perm
  /\ x.level > 0 /\ perm # {} => "P" \notin At(memory, x).perm

\* A mutant: the new table is entered into the page table but not cleared.
Extend_NotCleared(s) ==
  IF s.x.level > 0 /\ s.used < NTables
  THEN LET t == s.used + 1
           m == [s.m EXCEPT ![s.x.page][s.x.idx] = Entry(t, Full, FALSE)]
       IN [m |-> m, used |-> t, x |-> Down(m, s.x)]
  ELSE s

\* One turn of the loop at k-vmiter.cc:42-51: a new table under pep_, and down.
Extend(s) ==
  IF s.x.level > 0 /\ s.used < NTables
  THEN LET t == s.used + 1
           m == [s.m EXCEPT ![s.x.page][s.x.idx] = Entry(t, Full, FALSE), ![t] = EmptyTable]
       IN [m |-> m, used |-> t, x |-> Down(m, s.x)]
  ELSE s

Extended(x, perm) ==
  LET now == [m |-> memory, used |-> used, x |-> x]
      turn[n \in 0..Top] == IF n = 0 THEN now ELSE Extend(turn[n - 1])
  IN IF perm = {} THEN now ELSE turn[Top]

Unmapped == [pa |-> 0, perm |-> {}]
Mapping(pa, perm) == IF "P" \in perm THEN [pa |-> pa, perm |-> perm] ELSE Unmapped

\* What a walk from the root finds.
Fresh(va) == Down(memory, AtRoot(va))
Mapped(va) == Report(memory, Fresh(va))

\* The leaf is set at level 0 only.  Above it the call has failed (-1, no memory for a
\* table), or there were no permissions to give and it returns 0 all the same.
Map(i, pa, perm) ==
  /\ Alive /\ MayMap(it[i], perm)
  /\ LET s == Extended(it[i], perm)
         va == it[i].va
         set == s.x.level = 0
     IN /\ used' = s.used
        /\ it' = [it EXCEPT ![i] = s.x]
        /\ memory' = IF set THEN [s.m EXCEPT ![s.x.page][s.x.idx] = Entry(pa, perm, FALSE)]
                     ELSE s.m
        /\ IF set \/ perm = {}
           THEN /\ space' = [space EXCEPT ![va] = Mapping(pa, perm)]
                /\ ignored' = IF set \/ Mapped(va) = Unmapped THEN ignored \ {va}
                              ELSE ignored \cup {va}
           ELSE UNCHANGED asked
  /\ UNCHANGED <<pt, freed>>

-----------------------------------------------------------------------------
(* ptiter, in the loop that frees a page table.                            *)

\* go(0), when no vmiter is in use any more: each is back where it started.
Begin ==
  /\ pt.pc = "off" /\ \A i \in Iterators : it[i] = Down(memory, AtRoot(0))
  /\ pt' = [pc |-> "down", va |-> 0, page |-> Root, idx |-> 0, level |-> Top,
            skip |-> FALSE, stop |-> 1]
  /\ UNCHANGED <<memory, used, it, freed, asked>>

Enters == IsTable(At(memory, pt)) /\ ~pt.skip

DownATable ==
  /\ pt.pc = "down" /\ Enters /\ pt.level # pt.stop
  /\ pt' = [pt EXCEPT !.level = @ - 1, !.page = At(memory, pt).to,
                      !.idx = PageIndex(pt.va, pt.level - 1)]
  /\ UNCHANGED <<memory, used, it, freed, asked>>

Arrive ==
  /\ pt.pc = "down" /\ Enters /\ pt.level = pt.stop
  /\ pt' = [pt EXCEPT !.pc = "visit"]
  /\ UNCHANGED <<memory, used, it, freed, asked>>

\* The entry after this one is in this table.
Along ==
  /\ pt.pc = "down" /\ ~Enters
  /\ SameTable(pt, LastVa(pt))
  /\ pt' = [pt EXCEPT !.idx = @ + 1, !.va = LastVa(pt), !.skip = FALSE]
  /\ UNCHANGED <<memory, used, it, freed, asked>>

\* A mutant: from the root down again to the lowest level.
StopAbove_Lowest(level) == 1

\* The table has been walked: its own entry is the next to visit.
StopAbove(level) == level + 1

Up ==
  /\ pt.pc = "down" /\ ~Enters
  /\ ~SameTable(pt, LastVa(pt))
  /\ pt' = IF pt.level = Top
           THEN [pt EXCEPT !.va = Last, !.pc = "end"]
           ELSE [pt EXCEPT !.stop = StopAbove(pt.level), !.level = Top, !.page = Root,
                           !.idx = PageIndex(pt.va, Top), !.skip = FALSE]
  /\ UNCHANGED <<memory, used, it, freed, asked>>

\* freepage(it.ptp()); it.next()
Visit ==
  /\ pt.pc = "visit"
  /\ freed' = freed \cup {At(memory, pt).to}
  /\ pt' = [pt EXCEPT !.pc = "down", !.skip = TRUE, !.stop = 1]
  /\ UNCHANGED <<memory, used, it, asked>>

\* A mutant: the caller relies on ptiter to visit the root.
FreeRoot_Forgotten ==
  pt.pc = "end" /\ pt' = [pt EXCEPT !.pc = "done"] /\ UNCHANGED <<memory, used, it, freed, asked>>

\* freepage(pt), after the loop
FreeRoot ==
  /\ pt.pc = "end"
  /\ freed' = freed \cup {Root}
  /\ pt' = [pt EXCEPT !.pc = "done"]
  /\ UNCHANGED <<memory, used, it, asked>>

-----------------------------------------------------------------------------
\* A process's table is empty, or has a large page in it, as the kernel's.
Off == [pc |-> "off", va |-> 0, page |-> Root, idx |-> 0, level |-> Top,
        skip |-> FALSE, stop |-> 1]
Large == Entry(Span(Top), {"P", "W"}, TRUE)

TInit ==
  /\ \E last \in {Empty, Large} :
       memory = [t \in Tables |-> IF t = Root THEN [EmptyTable EXCEPT ![Fan - 1] = last]
                                  ELSE Stale]
  /\ space = [va \in 0..Last - 1 |-> Report(memory, AtRoot(va))]
  /\ ignored = {} /\ used = 1
  /\ it = [i \in Iterators |-> AtRoot(0)]
  /\ pt = Off /\ freed = {}

Vmiter(i) == \/ Find(i) \/ Next(i) \/ Step(i)
             \/ \E pa \in Frames, perm \in Perms : Map(i, pa, perm)
Ptiter == Begin \/ DownATable \/ Arrive \/ Along \/ Up \/ Visit \/ FreeRoot

TNext == Ptiter \/ \E i \in Iterators : Vmiter(i)

TSpec == TInit /\ [][TNext]_tvars
TFairness == WF_tvars(pt.pc # "off" /\ Ptiter)
TFairSpec == TSpec /\ TFairness
-----------------------------------------------------------------------------
(* Properties.                                                             *)

\* Through the tables, with the places the iterators have cached, each page is mapped
\* to what the last map() that returned 0 for it asked for: making a table, or failing
\* to, and the calls for other pages change nothing.  The exception is a call with no
\* permissions made above level 0, over a large page or below a table that another
\* iterator has made since: it says 0 and leaves the page mapped (k-vmiter.cc:31-59).
TablesHoldSpace ==
  Alive => \A va \in 0..Last - 1 : va \notin ignored <=> Mapped(va) = space[va]

\* "map current va to `pa` with permissions `perm` ... Returns 0 on success": whatever
\* the permissions, a page is mapped as it was last asked for (k-vmiter.hh:40-43).
MapsAsAsked == Alive => \A va \in 0..Last - 1 : Mapped(va) = space[va]

\* However find(), next() and step() take the shortcut from the place they are at,
\* they land where a walk from the root would, with the same permissions, although
\* the other iterator has made tables in between (k-vmiter.cc:13-31).
LandsFresh ==
  Alive => \A va \in 0..Last : LET there == Fresh(va)
                               IN \A i \in Iterators : RealFind(memory, it[i], va) = there

\* next() "Never skips present pages"; step() goes on to the next page with another
\* mapping.  An iterator under whose entry the other one has made a table since may
\* step over what is new there, but next() may not (k-vmiter.hh:37-42).
SkipsNothing ==
  Alive => \A i \in Iterators : it[i].va < Last =>
    LET va == it[i].va
        here == Mapped(va)
    IN /\ \A p \in va + 1..NextVa(memory, it[i]) - 1 : Mapped(p) = Unmapped
       /\ it[i] = Fresh(va) =>
            \A p \in va + 1..LastVa(it[i]) - 1 :
              Mapped(p) = IF here = Unmapped THEN here ELSE [here EXCEPT !.pa = @ + p - va]

\* The loop that frees a page table never reads a table it has freed, and frees none
\* twice: children come before parents (k-vmiter.hh:74-84).
NoUseAfterFree ==
  pt.pc \in {"down", "visit"} =>
    /\ pt.page \notin freed
    /\ pt.pc = "visit" => At(memory, pt).to \notin freed

\* The walk ends, and by then every table that was ever made is free.
DestroyFreesAll == pt.pc # "off" ~> pt.pc = "done" /\ freed = 1..used
=============================================================================
