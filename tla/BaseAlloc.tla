------------------------------ MODULE BaseAlloc ------------------------------
(***************************************************************************)
(* The debugging allocator of pset1: base_malloc() and base_free()          *)
(* (basealloc.cc), the m61 functions and operators new and delete over them *)
(* (m61.cc), a program that calls them, and the exit handler.               *)
(*                                                                         *)
(* The system's allocator is external: it returns any address whose bytes   *)
(* belong to no block it has given out, or null.  The program frees any     *)
(* address while the allocator is enabled, also one it does not hold; once  *)
(* base_allocate_disable(1) has been called, as hhtest.cc does, only what   *)
(* it holds, because a wrong address then reaches the system's free().      *)
(***************************************************************************)
EXTENDS Integers, Sequences, Functions

CONSTANTS Memory,    \* number of bytes the system has
          Word,      \* size_t is a number below Word
          Sizes,     \* sizes malloc() is called with, and of calloc()'s elements
          Counts     \* numbers of elements calloc() is called with

ASSUME AllocAssumption ==
  Memory \in Nat /\ Word \in Nat \ {0} /\ Sizes \subseteq 0..Word - 1 /\ Counts \subseteq 0..Word - 1

VARIABLES
  system,      \* the system's blocks: address -> bytes
  allocs,      \* active address -> size
  frees,       \* freed allocations, in the order of the vector
  disabled,
  held,        \* what the program holds: address -> bytes it asked for
  exited
avars == <<system, allocs, frees, disabled, held, exited>>

Addresses == 1..Memory
NoBlocks == [p \in {} |-> 0]
With(f, p, n) == [q \in DOMAIN f \cup {p} |-> IF q = p THEN n ELSE f[q]]
Without(f, ps) == Restrict(f, DOMAIN f \ ps)

Bytes(blocks, p) == p..p + blocks[p] - 1
Disjoint(blocks) ==
  \A p, q \in DOMAIN blocks : p # q => Bytes(blocks, p) \cap Bytes(blocks, q) = {}

AInit == /\ system = NoBlocks /\ allocs = NoBlocks /\ frees = <<>>
         /\ disabled = FALSE /\ held = NoBlocks /\ exited = FALSE

\* malloc(n) of the system.
SystemMalloc(p, n) ==
  /\ p + n - 1 \in Addresses
  /\ Disjoint(With(system, p, n)) /\ p \notin DOMAIN system
  /\ system' = With(system, p, n)

-----------------------------------------------------------------------------
Fits(f, sz) == f.size >= sz

\* A mutant: the entry is overwritten by the last one, which is not popped.
TakeOut_NotPopped(s, i) == [s EXCEPT ![i] = s[Len(s)]]

\* f = frees.back(); frees.pop_back();
TakeOut(s, i) == [j \in 1..Len(s) - 1 |-> IF j = i THEN s[Len(s)] ELSE s[j]]

\* Some of the tries at a random freed block finds one that is large enough; the
\* entry keeps the size it was allocated with.
Reuse(p, sz) ==
  \E i \in DOMAIN frees :
    /\ Fits(frees[i], sz) /\ frees[i].ptr = p
    /\ allocs' = IF p \in DOMAIN allocs THEN allocs ELSE With(allocs, p, frees[i].size)
    /\ frees' = TakeOut(frees, i)
    /\ UNCHANGED system

\* No try at all, or none that found one.
NewBlock(p, sz) ==
  /\ SystemMalloc(p, IF sz = 0 THEN 1 ELSE sz)
  /\ allocs' = With(allocs, p, sz)
  /\ UNCHANGED frees

\* base_malloc(sz) returns p; the system's malloc(0) returns an address of its own.
BaseMalloc(p, sz) ==
  IF disabled
  THEN SystemMalloc(p, IF sz = 0 THEN 1 ELSE sz) /\ UNCHANGED <<allocs, frees>>
  ELSE Reuse(p, sz) \/ NewBlock(p, sz)

\* A mutant: the block stays among the active ones.
BaseFree_NotErased(p) ==
  IF disabled
  THEN system' = Without(system, {p}) /\ UNCHANGED <<allocs, frees>>
  ELSE /\ IF p \in DOMAIN allocs THEN frees' = Append(frees, [ptr |-> p, size |-> allocs[p]])
                                 ELSE UNCHANGED frees
       /\ UNCHANGED <<system, allocs>>

BaseFree(p) ==
  IF disabled
  THEN system' = Without(system, {p}) /\ UNCHANGED <<allocs, frees>>
  ELSE /\ IF p \in DOMAIN allocs
          THEN /\ frees' = Append(frees, [ptr |-> p, size |-> allocs[p]])
               /\ allocs' = Without(allocs, {p})
          ELSE UNCHANGED <<allocs, frees>>
       /\ UNCHANGED system

-----------------------------------------------------------------------------
(* The program.                                                            *)

\* m61_malloc(), operators new
Malloc(sz) ==
  \E p \in Addresses : /\ BaseMalloc(p, sz)
                       /\ held' = With(held, p, sz)
                       /\ UNCHANGED <<disabled, exited>>

\* nmemb * sz is computed in a size_t; the program counts on the true product.
Calloc(nmemb, sz) ==
  \E p \in Addresses : /\ BaseMalloc(p, (nmemb * sz) % Word)
                       /\ held' = With(held, p, nmemb * sz)
                       /\ UNCHANGED <<disabled, exited>>

\* m61_free(), operators delete; a null pointer is free()'s business.
Free(p) ==
  /\ disabled => p \in DOMAIN held
  /\ BaseFree(p)
  /\ held' = Without(held, {p})
  /\ UNCHANGED <<disabled, exited>>

Disable ==
  /\ ~disabled /\ disabled' = TRUE
  /\ UNCHANGED <<system, allocs, frees, held, exited>>

FreedPtrs == {frees[i].ptr : i \in DOMAIN frees}

\* base_allocate_atexit()
Exit == /\ system' = Without(system, FreedPtrs)
        /\ exited' = TRUE
        /\ UNCHANGED <<allocs, frees, disabled, held>>

ANext == /\ ~exited
         /\ \/ \E sz \in Sizes : Malloc(sz)
            \/ \E n \in Counts, sz \in Sizes : Calloc(n, sz)
            \/ \E p \in Addresses : Free(p)
            \/ Disable \/ Exit

ASpec == AInit /\ [][ANext]_avars

-----------------------------------------------------------------------------
(* Properties.                                                             *)

\* Every block the program holds is one the system has not taken back, is as large as
\* what was asked for, short of an overflow in calloc(), and shares no byte with
\* another: also after double and wild frees, and when the allocator is disabled in
\* the middle (basealloc.cc:30-75).
HandedOutSound ==
  ~exited => /\ \A p \in DOMAIN held : /\ p \in DOMAIN system
                                       /\ held[p] < Word => held[p] <= system[p]
             /\ Disjoint(Restrict(system, DOMAIN held))
             /\ DOMAIN held \cap FreedPtrs = {}

\* "clean up freed memory to shut up leak detector": after the exit handler the system
\* still has exactly the blocks that the program never freed (basealloc.cc:81-86).
OnlyLeaksAreLeft == exited => DOMAIN system = DOMAIN held
=============================================================================
