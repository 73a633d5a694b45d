------------------------------ MODULE MemViewer ------------------------------
(***************************************************************************)
(* The memory viewer (pset4/k-memviewer.cc): the flags memusage::refresh() *)
(* computes for each physical page and the symbol symbol_at() draws. Every *)
(* process of the handout runs on kernel_pagetable, an identity map of all *)
(* of memory for user code, so refresh() takes its `pages' branch.         *)
(*                                                                         *)
(* A flag word is the set of its bits that are on.                         *)
(***************************************************************************)
EXTENDS WeensyOS

CONSTANTS
    ConsolePage,        \* page of the CGA console
    PageTablePages      \* pages of kernel_pagetable

ASSUME ViewerAssumption ==
    ConsolePage \in Reserved /\ PageTablePages \subseteq KernelImage

F_KERNEL == {0}
F_USER == {1}

\* 2U << n in 32 bits: bit n + 1, or nothing when it falls off the end.
TwoShifted(n) == {b \in 0 .. 31 : b = n + 1}

FProcess(pid) ==
    IF pid >= 30 THEN TwoShifted(31)
    ELSE IF pid >= 1 THEN TwoShifted(pid) ELSE {}

\* refresh(): kernel page tables are kernel pages, and every page, mapped for
\* user code, is associated with its owner.
Mark(pa) ==
    (IF pa \in PageTablePages THEN F_KERNEL ELSE {})
        \cup F_USER \cup FProcess(pages[pa])

ProcessBits(v) == v \ (F_KERNEL \cup F_USER)

\* Mutant: the flag words are shifted by one place only.
MarkedPid_OneBitOff(v) == CHOOSE b \in ProcessBits(v) : \A c \in ProcessBits(v) : b <= c

\* lsb(v >> 2): the lowest process of a flag word.
MarkedPid(v) == (CHOOSE b \in ProcessBits(v) : \A c \in ProcessBits(v) : b <= c) - 1

\* What symbol_at() draws: a letter, a process, or the report of an error.
Symbol(pa) ==
    LET v == Mark(pa)
    IN  CASE pa = ConsolePage -> "C"
          [] pa # ConsolePage /\ pa \in Reserved ->
                IF ProcessBits(v) # {} THEN "error" ELSE "R"
          [] pa \in KernelImage ->
                IF ProcessBits(v) # {} THEN "error" ELSE "K"
          [] Allocatable(pa) /\ ProcessBits(v) = {} ->
                IF F_KERNEL \subseteq v
                THEN IF F_USER \subseteq v THEN "error" ELSE "K"
                ELSE "."
          [] Allocatable(pa) /\ ProcessBits(v) # {} ->
                IF F_KERNEL \cup F_USER \subseteq v THEN "error"
                ELSE IF ProcessBits(v) # FProcess(MarkedPid(v)) THEN "shared"
                ELSE "process"

-----------------------------------------------------------------------------
\* The picture never reports a page table error and shows each page a process
\* owns under that process's name.
ProcessPagesShown ==
    \A pa \in Pages :
        /\ Symbol(pa) # "error"
        /\ pages[pa] \in Pids =>
              Symbol(pa) = "process" /\ MarkedPid(Mark(pa)) = pages[pa]

\* kernel.cc says that an owner "is 0 for free pages and non-zero for allocated
\* pages", and the viewer draws `.' for a free page: an allocated page is
\* drawn as something else.
AllocatedPagesShown ==
    \A pa \in Pages : pages[pa] # 0 => Symbol(pa) # "."
=============================================================================
