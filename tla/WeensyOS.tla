------------------------------ MODULE WeensyOS ------------------------------
(***************************************************************************)
(* The whole WeensyOS handout: the kernel of module Kernel running the     *)
(* programs p-allocator.cc, p-fork.cc and p-forkexit.cc. A program's       *)
(* registers are Kernel's cpu (while it runs) and regs (while it does not);*)
(* its heap_top lives on its data page. Each user step below is one        *)
(* stretch of user code between two points the timer may interrupt.        *)
(***************************************************************************)
EXTENDS Kernel

CONSTANT HeapStart      \* HeapStart[n]: round_up(end) of program n

ASSUME HeapAssumption == HeapStart \in [Programs -> Pages]

\* heap_top of each process, as a page number.
VARIABLE heapTop

wvars == <<vars, heapTop>>

ProgramLabels == {"start", "getpid", "init", "loop", "alloc", "got", "write",
                  "yield", "done", "idle", "fork", "forking", "forkexit", "fyield"}
ProgramEntry == [n \in Programs |->
    CASE n = 4 -> "fork" [] n = 5 -> "forkexit" [] OTHER -> "start"]
\* A system call returns to the code behind it.
ProgramAfter == [l \in ProgramLabels |->
    CASE l = "getpid" -> "init" [] l = "alloc" -> "got" [] l = "yield" -> "loop"
      [] l = "idle" -> "done" [] l = "fyield" -> "forkexit" [] OTHER -> l]

\* The user code of this module is the programs' own: the parameters that stand
\* for user code in Kernel have room for what they do.
ASSUME ProgramAssumption ==
    /\ Labels = ProgramLabels /\ Entry = ProgramEntry /\ After = ProgramAfter
    /\ Procs \subseteq Locals /\ UserPages = Pages
    /\ {SYSCALL_GETPID, SYSCALL_YIELD, SYSCALL_PAGE_ALLOC, SYSCALL_FORK} \subseteq Calls

-----------------------------------------------------------------------------
(* process.hh: a sys_ wrapper first loads the call number into %rax, then  *)
(* executes the syscall instruction at label `at'.                         *)

At(l) == mode = "user" /\ cpu.pc = l
Goto(l) == UserStep([cpu EXCEPT !.pc = l])
Load(at, call) == UserStep([cpu EXCEPT !.pc = at, !.rax = call])

(* p-allocator.cc *)

Start == At("start") /\ Load("getpid", SYSCALL_GETPID) /\ UNCHANGED heapTop

GetPid == At("getpid") /\ SysGetpid("syscall") /\ UNCHANGED heapTop

\* p = sys_getpid() goes to a callee-saved register; heap_top = round_up(end).
InitHeap ==
    /\ At("init")
    /\ UserStep([cpu EXCEPT !.pc = "loop", !.rbx = cpu.rax])
    /\ heapTop' = [heapTop EXCEPT ![current] = HeapStart[ProgramOf(current)]]

\* One turn of the loop: rand() decides whether it allocates. stack_bottom is
\* the process's one stack page.
SkipTurn == At("loop") /\ Load("yield", SYSCALL_YIELD) /\ UNCHANGED heapTop

TakeTurn ==
    /\ At("loop")
    /\ IF heapTop[current] = StackPage[current]
       THEN Goto("done")
       ELSE Load("alloc", SYSCALL_PAGE_ALLOC)
    /\ UNCHANGED heapTop

PageAlloc ==
    /\ At("alloc")
    /\ SysPageAlloc("syscall", heapTop[current], TRUE)
    /\ UNCHANGED heapTop

\* Mutant: the result of sys_page_alloc() is not looked at.
CheckResult_Ignored ==
    /\ At("got")
    /\ Goto("write")
    /\ UNCHANGED heapTop

\* Mutant: try again after a failure.
CheckResult_Retries ==
    /\ At("got")
    /\ Goto(IF cpu.rax = -1 THEN "loop" ELSE "write")
    /\ UNCHANGED heapTop

CheckResult ==
    /\ At("got")
    /\ Goto(IF cpu.rax = -1 THEN "done" ELSE "write")
    /\ UNCHANGED heapTop

\* *heap_top = p; heap_top += PAGESIZE.
WriteHeap ==
    /\ At("write")
    /\ UserWrite(heapTop[current], cpu.rbx,
                 [cpu EXCEPT !.pc = "yield", !.rax = SYSCALL_YIELD])
    /\ heapTop' = [heapTop EXCEPT ![current] = heapTop[current] + 1]

\* sys_yield(), in the loop, in the final loop and in p-forkexit.
Yield ==
    /\ At("yield") \/ At("idle") \/ At("fyield")
    /\ SysYield("syscall")
    /\ UNCHANGED heapTop

\* After running out of memory, do nothing for ever.
Idle == At("done") /\ Load("idle", SYSCALL_YIELD) /\ UNCHANGED heapTop

(* p-fork.cc and p-forkexit.cc, as far as this kernel lets them run: it      *)
(* implements neither sys_fork() nor sys_exit().                             *)

LoadFork ==
    /\ At("fork") \/ At("forkexit")
    /\ Load("forking", SYSCALL_FORK)
    /\ UNCHANGED heapTop

LoadYield == At("forkexit") /\ Load("fyield", SYSCALL_YIELD) /\ UNCHANGED heapTop

Fork == At("forking") /\ SysPanic("syscall") /\ UNCHANGED heapTop

-----------------------------------------------------------------------------
WInit == Init /\ heapTop = [p \in Procs |-> 0]

Program ==
    \/ Start \/ GetPid \/ InitHeap \/ SkipTurn \/ TakeTurn \/ PageAlloc
    \/ CheckResult \/ WriteHeap \/ Yield \/ Idle \/ LoadFork \/ LoadYield \/ Fork

WNext ==
    \/ Program
    \/ (KernelStep \/ Timer \/ PressKey) /\ UNCHANGED heapTop
    \/ PoweredOff /\ UNCHANGED heapTop

WSpec == WInit /\ [][WNext]_wvars

\* A process that gets the processor again and again executes instructions (the
\* time slice of 1/HZ s is longer than an instruction), and rand(), a generator
\* of full period, takes the allocating branch again and again.
WFairSpec ==
    /\ WSpec
    /\ WF_wvars(KernelStep /\ UNCHANGED heapTop)
    /\ WF_wvars(Timer /\ UNCHANGED heapTop)
    /\ \A p \in Pids : /\ SF_wvars(current = p /\ Program)
                       /\ SF_wvars(current = p /\ TakeTurn)

-----------------------------------------------------------------------------
(* Properties.                                                             *)

\* The registers of process p: in the processor while it runs.
Context(p) == IF mode = "user" /\ current = p THEN cpu ELSE regs[p]

\* Pages p-allocator believes it has: from the end of its program to heap_top,
\* plus the one it has just been granted and not yet written to.
HeapOf(p) ==
    IF Context(p).pc \in {"loop", "alloc", "got", "write", "yield", "done", "idle"}
    THEN LET granted == \/ Context(p).pc = "write"
                        \/ Context(p).pc = "got" /\ Context(p).rax = 0
         IN  HeapStart[ProgramOf(p)] .. (IF granted THEN heapTop[p] ELSE heapTop[p] - 1)
    ELSE {}

\* Process and kernel agree on the heap across preemption, yields and soft
\* reboots: the pages the kernel has recorded for a process are exactly its
\* program, its stack and the heap its own heap_top accounts for.
OwnedExactly ==
    Running => \A p \in Pids : Live(p) =>
        {pa \in Pages : pages[pa] = p}
            = Image[ProgramOf(p)] \cup {StackPage[p]} \cup HeapOf(p)

\* What a heap page holds is the process's own doing, whoever runs, allocates or
\* writes in between: a page just granted is zeroed, even if a run of the system
\* before a soft reboot left data on it, and one below heap_top holds the pid
\* that the process wrote there.
HeapIntact ==
    Running => \A p \in Pids : Live(p) =>
        \A pa \in HeapOf(p) : memory[pa] = IF pa < heapTop[p] THEN p ELSE 0

\* Every allocator comes to the end of its address space or of memory: no
\* schedule starves it of the turns it needs.
AllocatorsFinish ==
    \A p \in Pids :
        cmd = "allocator" /\ ptable[p] = "RUNNABLE"
            ~> (Context(p).pc \in {"done", "idle"} \/ mode \in {"off", "boot"})
=============================================================================
