------------------------------- MODULE Kernel -------------------------------
(***************************************************************************)
(* The WeensyOS kernel (pset4/kernel.cc with the parts of k-hardware.cc    *)
(* and k-memviewer.cc it calls): boot and soft reboot, process set-up,     *)
(* physical page ownership, exceptions, system calls, the scheduler, the   *)
(* memory viewer's own state and the keyboard.                             *)
(*                                                                         *)
(* The kernel runs with interrupts disabled, so a handler is one step.     *)
(* The exceptions are the three loops that poll the keyboard: booting (one *)
(* step per process_setup), schedule() (one step per spin) and fail().     *)
(* User code is arbitrary here, but for one hypothesis: it leaves the      *)
(* kernel's own memory alone (see UserWrite). Module WeensyOS runs the     *)
(* real programs, which do.                                                *)
(***************************************************************************)
EXTENDS Integers, FiniteSets

CONSTANTS
    NPROC,          \* size of ptable
    NALLOC,         \* allocators set up by a plain boot (4 in kernel())
    NPages,         \* MEMSIZE_PHYSICAL / PAGESIZE
    Reserved,       \* pages reserved_physical_address() holds of
    KernelImage,    \* pages of the kernel's code, data and stack
    Image,          \* Image[n]: pages of the loadable segments of program n
    StackPage,      \* StackPage[pid]: top page of pid's PROC_SIZE region
    HZ,             \* timer interrupts per second
    TickMod,        \* ticks is an unsigned int: it wraps at TickMod
    SpinPeriod,     \* schedule() redraws every SpinPeriod spins
    Labels,         \* program counters of user code
    Entry,          \* Entry[n]: first program counter of program n
    After,          \* After[l]: where a system call made at l returns to
    Locals,         \* values user code keeps in a callee-saved register
    Calls,          \* bound: call numbers user code loads into %rax
    UserPages,      \* bound: pages user code writes to
    MaxKeys         \* bound: control keys typed in a behaviour

Procs == 0 .. NPROC - 1
Pids == 1 .. NPROC - 1                      \* ptable[0] is never used
Pages == 0 .. NPages - 1
NoPage == NPages                            \* nullptr
KernelOwner == 255                          \* owner = -1 in a uint8_t
Programs == 0 .. 5                          \* ramimages[]
Commands == {"allocator", "fork", "forkexit"}
Keys == {"a", "f", "e", "q"}                \* 'q' stands for Control-C too
NoKey == "none"
Modes == {"boot", "user", "sched", "panic", "off"}
States == {"FREE", "RUNNABLE", "BROKEN"}    \* nothing sets P_BLOCKED
Junk == NPROC                               \* page contents nobody wrote for us

SYSCALL_GETPID == 1
SYSCALL_YIELD == 2
SYSCALL_PANIC == 3
SYSCALL_PAGE_ALLOC == 4
SYSCALL_FORK == 5                           \* not implemented by this kernel

Regs == [pc: Labels, rax: {-1} \cup Calls \cup Procs, rbx: Locals]
Zero(l) == [pc |-> l, rax |-> 0, rbx |-> 0]

ASSUME ProcAssumption ==
    /\ NPROC \in Nat /\ NALLOC \in Nat
    /\ 1 <= NALLOC /\ NALLOC < NPROC /\ NALLOC <= 4 /\ NPROC < KernelOwner
ASSUME PageAssumption ==
    /\ NPages \in Nat
    /\ Reserved \subseteq Pages /\ KernelImage \subseteq Pages
    /\ Image \in [Programs -> SUBSET Pages]
    /\ StackPage \in [Pids -> Pages]
ASSUME ClockAssumption ==
    /\ HZ \in Nat /\ TickMod \in Nat /\ SpinPeriod \in Nat
    /\ 2 <= HZ /\ HZ < TickMod /\ 1 <= SpinPeriod
ASSUME UserAssumption ==
    /\ Entry \in [Programs -> Labels] /\ After \in [Labels -> Labels]
    /\ 0 \in Locals /\ Calls \subseteq Int
    /\ UserPages \subseteq Pages
    /\ MaxKeys \in Nat

VARIABLES
    mode,       \* who runs: boot code, user code, schedule(), fail(), nobody
    cmd,        \* boot command
    setup,      \* next pid process_setup is called for while booting
    ptable,     \* ptable[p].state
    regs,       \* ptable[p].regs, the saved registers
    cpu,        \* registers of the running process
    current,    \* pid of *current (0: null)
    pages,      \* pages[pa].owner
    memory,     \* contents of each page: 0 after memset, else the last write
    nextAlloc,  \* next_alloc_pa
    ticks,      \* timer interrupts so far
    lastTicks,  \* memshow()'s last_ticks
    showing,    \* memshow()'s showing
    viewer,     \* memusage::v_
    schedPid,   \* schedule()'s pid
    spins,      \* schedule()'s spins, modulo SpinPeriod
    key,        \* key waiting in the keyboard controller
    keysLeft    \* control keys that may still be typed

bootVars == <<cmd, setup>>
procVars == <<ptable, regs, cpu, current>>
memVars == <<pages, memory, nextAlloc>>
viewVars == <<lastTicks, showing, viewer>>
schedVars == <<schedPid, spins>>
vars == <<mode, bootVars, procVars, memVars, ticks, viewVars, schedVars,
          key, keysLeft>>

-----------------------------------------------------------------------------
(* Physical pages.                                                         *)

Allocatable(pa) == pa \in Pages \ (Reserved \cup KernelImage)
Claimable(pa) == Allocatable(pa) /\ pages[pa] = 0

\* Mutant: scan from the top of memory.
Kalloc_FromTop ==
    LET free == {pa \in Pages : nextAlloc <= pa /\ Claimable(pa)}
    IN  IF free = {} THEN NoPage
        ELSE CHOOSE pa \in free : \A q \in free : q <= pa

\* kalloc(): the first claimable page at or after next_alloc_pa.
Kalloc ==
    LET free == {pa \in Pages : nextAlloc <= pa /\ Claimable(pa)}
    IN  IF free = {} THEN NoPage
        ELSE CHOOSE pa \in free : \A q \in free : pa <= q

-----------------------------------------------------------------------------
(* memshow(): choose the address space to draw, then console_memviewer()   *)
(* and memusage::refresh(), which kallocs its page on the first call.      *)

Displayable(p) == ptable[p] # "FREE"
Dist(from, to) == (to + NPROC - from) % NPROC

\* The search loop: the nearest displayable process from s on, wrapping; all
\* NPROC increments (back to s) when there is none.
ShownFrom(s) ==
    IF \E p \in Procs : Displayable(p)
    THEN CHOOSE p \in Procs :
            /\ Displayable(p)
            /\ \A q \in Procs : Displayable(q) => Dist(s, p) <= Dist(s, q)
    ELSE s

\* Mutant: one tick late.
SwitchDue_Late(last) == last = 0 \/ (ticks - last) % TickMod > HZ \div 2

SwitchDue(last) == last = 0 \/ (ticks - last) % TickMod >= HZ \div 2

ViewNext(v) ==
    IF SwitchDue(v.last)
    THEN [last |-> ticks, show |-> ShownFrom((v.show + 1) % NPROC)]
    ELSE [last |-> v.last, show |-> ShownFrom(v.show)]

\* refresh() asserts that kalloc gave it a page.
ViewerFails == viewer = NoPage /\ Kalloc = NoPage

\* pages[] once refresh() has run: its page belongs to the kernel.
PagesShown ==
    IF viewer = NoPage /\ Kalloc # NoPage
    THEN [pages EXCEPT ![Kalloc] = KernelOwner] ELSE pages

\* State of the viewer after `calls' memshow() calls in a row (one handler
\* makes one or two). `memory' and `pages' are left to the caller.
Memshow(calls) ==
    LET once == ViewNext([last |-> lastTicks, show |-> showing])
        v == IF calls = 1 THEN once ELSE ViewNext(once)
    IN  /\ lastTicks' = v.last
        /\ showing' = v.show
        /\ IF viewer = NoPage
           THEN /\ viewer' = Kalloc
                /\ nextAlloc' = IF Kalloc = NoPage THEN NPages ELSE Kalloc + 1
           ELSE UNCHANGED <<viewer, nextAlloc>>

MemoryShown ==
    IF viewer = NoPage /\ Kalloc # NoPage
    THEN [memory EXCEPT ![Kalloc] = 0] ELSE memory

\* kalloc_physical_page()'s test, in a handler that has already redrawn.
PageFree(pa) == Allocatable(pa) /\ PagesShown[pa] = 0

\* kalloc_physical_page() clears what it grants.
Cleared(pa) == [MemoryShown EXCEPT ![pa] = 0]

-----------------------------------------------------------------------------
(* Boot, soft reboot, power off.                                           *)

\* Mutant: pages[] survives a soft reboot.
FreshPages_Stale == pages

FreshPages == [pa \in Pages |-> 0]

\* kernel(command) up to the first process_setup: the bss is cleared, the
\* hardware and the process table are initialised. Page contents survive.
Boot(c) ==
    /\ mode' = "boot" /\ cmd' = c /\ setup' = 1
    /\ ptable' = [p \in Procs |-> "FREE"]
    /\ regs' = [p \in Procs |-> Zero(Entry[0])]
    /\ cpu' = Zero(Entry[0]) /\ current' = 0
    /\ pages' = FreshPages /\ nextAlloc' = 0
    /\ ticks' = 1 /\ lastTicks' = 0 /\ showing' = 0 /\ viewer' = NoPage
    /\ schedPid' = 0 /\ spins' = 0

PowerOff ==
    /\ mode' = "off"
    /\ UNCHANGED <<bootVars, procVars, memVars, ticks, viewVars, schedVars>>

RebootCommand(k) ==
    CASE k = "a" -> "allocator" [] k = "f" -> "fork" [] k = "e" -> "forkexit"

\* check_keyboard() followed by Rest, which runs only if the key (if any) did
\* not take the machine away; `contents' is what memory holds by then.
CheckKeyboard(contents, Rest) ==
    /\ key' = NoKey
    /\ UNCHANGED keysLeft
    /\ \/ key \in {"a", "f", "e"} /\ Boot(RebootCommand(key)) /\ memory' = contents
       \/ key = "q" /\ PowerOff
       \/ key = NoKey /\ Rest

\* panic() or assert_fail(): fail() polls the keyboard for ever.
Panic == mode' = "panic"

LastSetup == IF cmd = "allocator" THEN NALLOC ELSE 1
ProgramOf(pid) ==
    IF cmd = "fork" THEN 4 ELSE IF cmd = "forkexit" THEN 5 ELSE pid - 1

\* process_setup(pid, program): claim and fill the image's pages from the
\* lowest on, then the stack page; the first page refused is a panic.
ProcessSetup ==
    /\ mode = "boot" /\ setup <= LastSetup
    /\ LET pid == setup
           image == Image[ProgramOf(pid)]
           stack == StackPage[pid]
           loaded == {pa \in image :
                        \A q \in image : q <= pa => Claimable(q)}
           ok == loaded = image /\ Claimable(stack) /\ stack \notin image
           got == IF ok THEN image \cup {stack} ELSE loaded
       IN  /\ pages' = [pa \in Pages |-> IF pa \in got THEN pid ELSE pages[pa]]
           /\ memory' = [pa \in Pages |->
                            IF pa \in image /\ loaded = image THEN Junk
                            ELSE IF pa \in got THEN 0 ELSE memory[pa]]
           /\ IF ok
              THEN /\ ptable' = [ptable EXCEPT ![pid] = "RUNNABLE"]
                   /\ regs' = [regs EXCEPT ![pid] = Zero(Entry[ProgramOf(pid)])]
                   /\ setup' = pid + 1
                   /\ UNCHANGED mode
              ELSE Panic /\ UNCHANGED <<ptable, regs, setup>>
    /\ UNCHANGED <<cmd, cpu, current, nextAlloc, ticks, viewVars, schedVars,
                   key, keysLeft>>

\* run(p): asserts that p is runnable, restores its registers, enters it.
\* `saved' are the registers in ptable[p] at that point.
Run(p, saved) ==
    IF ptable[p] = "RUNNABLE"
    THEN mode' = "user" /\ current' = p /\ cpu' = saved
    ELSE Panic /\ UNCHANGED <<current, cpu>>

RunFirst ==
    /\ mode = "boot" /\ setup > LastSetup
    /\ Run(1, regs[1])
    /\ UNCHANGED <<bootVars, ptable, regs, memVars, ticks, viewVars, schedVars,
                   key, keysLeft>>

-----------------------------------------------------------------------------
(* Exceptions and system calls. Every handler saves the registers, redraws *)
(* the viewer and polls the keyboard before it handles anything.           *)

\* Mutant: the saved registers are those of the last system call.
SaveRegs_SyscallsOnly(r) ==
    regs' = IF r = cpu THEN regs ELSE [regs EXCEPT ![current] = r]

SaveRegs(r) == regs' = [regs EXCEPT ![current] = r]

\* Mutant: the search always starts at ptable[0].
Schedule_FromZero ==
    /\ mode' = "sched" /\ schedPid' = 0 /\ spins' = 0
    /\ UNCHANGED <<cpu, current>>

\* schedule() starts from `current'.
Schedule ==
    /\ mode' = "sched" /\ schedPid' = current /\ spins' = 0
    /\ UNCHANGED <<cpu, current>>

Back(rax) ==                        \* return to the caller with %rax set
    /\ cpu' = [pc |-> After[cpu.pc], rax |-> rax, rbx |-> cpu.rbx]
    /\ UNCHANGED <<mode, current, schedVars>>

Halt == Panic /\ UNCHANGED <<cpu, current, schedVars>>

\* The common entry of a handler that calls memshow() `calls' times.
Handler(calls, Rest) ==
    /\ mode = "user"
    /\ IF ViewerFails
       THEN /\ Memshow(calls) /\ SaveRegs(cpu) /\ Halt
            /\ UNCHANGED <<bootVars, ptable, pages, memory, ticks, key, keysLeft>>
       ELSE CheckKeyboard(MemoryShown, Memshow(calls) /\ Rest /\ UNCHANGED bootVars)

\* How a system call was made: the syscall instruction, or the INT_SYSCALL
\* gate, whose handler goes through exception() and then syscall().
Gates == {"syscall", "int"}
MemshowCalls(gate) == IF gate = "int" THEN 2 ELSE 1

\* The registers a system call is entered with: the processor has already
\* advanced the program counter.
Trapped == [cpu EXCEPT !.pc = After[cpu.pc]]

\* exception() also stores the result in the saved registers.
SaveResult(gate, rax) ==
    SaveRegs(IF gate = "int" THEN [Trapped EXCEPT !.rax = rax] ELSE Trapped)

SysGetpid(gate) ==
    /\ cpu.rax = SYSCALL_GETPID
    /\ Handler(MemshowCalls(gate),
           /\ SaveResult(gate, current) /\ Back(current)
           /\ pages' = PagesShown /\ memory' = MemoryShown
           /\ UNCHANGED <<ptable, ticks>>)

SysYield(gate) ==
    /\ cpu.rax = SYSCALL_YIELD
    /\ Handler(MemshowCalls(gate),
           /\ SaveRegs([Trapped EXCEPT !.rax = 0]) /\ Schedule
           /\ pages' = PagesShown /\ memory' = MemoryShown
           /\ UNCHANGED <<ptable, ticks>>)

\* SYSCALL_PAGE_ALLOC with the address of page pa (NPages: beyond memory):
\* kalloc_physical_page(addr, current->pid).
SysPageAlloc(gate, pa, aligned) ==
    /\ cpu.rax = SYSCALL_PAGE_ALLOC
    /\ Handler(MemshowCalls(gate),
           LET granted == aligned /\ PageFree(pa)
           IN  /\ IF aligned
                  THEN LET rax == IF granted THEN 0 ELSE -1
                       IN  SaveResult(gate, rax) /\ Back(rax)
                  ELSE SaveRegs(Trapped) /\ Halt
               /\ pages' = IF granted THEN [PagesShown EXCEPT ![pa] = current]
                           ELSE PagesShown
               /\ memory' = IF granted THEN Cleared(pa) ELSE MemoryShown
               /\ UNCHANGED <<ptable, ticks>>)

\* SYSCALL_PANIC, and every call number the handout does not implement.
SysPanic(gate) ==
    /\ cpu.rax \notin {SYSCALL_GETPID, SYSCALL_YIELD, SYSCALL_PAGE_ALLOC}
    /\ Handler(MemshowCalls(gate),
           /\ SaveRegs(Trapped) /\ Halt
           /\ pages' = PagesShown /\ memory' = MemoryShown
           /\ UNCHANGED <<ptable, ticks>>)

NextTick == (ticks + 1) % TickMod

\* Mutant: the timer handler returns to the interrupted process.
Timer_NoSchedule ==
    Handler(1,
        /\ SaveRegs(cpu) /\ UNCHANGED <<mode, cpu, current, schedVars>>
        /\ ticks' = NextTick
        /\ pages' = PagesShown /\ memory' = MemoryShown
        /\ UNCHANGED ptable)

Timer ==
    Handler(1,
        /\ SaveRegs(cpu) /\ Schedule
        /\ ticks' = NextTick
        /\ pages' = PagesShown /\ memory' = MemoryShown
        /\ UNCHANGED ptable)

\* A user page fault breaks the process.
PageFault ==
    Handler(1,
        /\ SaveRegs(cpu) /\ Schedule
        /\ ptable' = [ptable EXCEPT ![current] = "BROKEN"]
        /\ pages' = PagesShown /\ memory' = MemoryShown
        /\ UNCHANGED ticks)

\* Any other exception user code can raise (division, invalid opcode, ...).
OtherException ==
    Handler(1,
        /\ SaveRegs(cpu) /\ Halt
        /\ pages' = PagesShown /\ memory' = MemoryShown
        /\ UNCHANGED <<ptable, ticks>>)

-----------------------------------------------------------------------------
(* The kernel's polling loops.                                             *)

NextPid(p) == (p + 1) % NPROC

\* One spin of schedule(): run the next process if it is runnable (its locals
\* are then dead), else poll the keyboard and, every SpinPeriod spins, redraw
\* the viewer.
SchedRun ==
    /\ mode = "sched"
    /\ ptable[NextPid(schedPid)] = "RUNNABLE"
    /\ Run(NextPid(schedPid), regs[NextPid(schedPid)])
    /\ schedPid' = 0 /\ spins' = 0
    /\ UNCHANGED <<bootVars, ptable, regs, memVars, ticks, viewVars, key, keysLeft>>

SchedIdle ==
    /\ mode = "sched"
    /\ ptable[NextPid(schedPid)] # "RUNNABLE"
    /\ CheckKeyboard(memory,
           /\ schedPid' = NextPid(schedPid)
           /\ spins' = (spins + 1) % SpinPeriod
           /\ IF spins = 0
              THEN /\ Memshow(1)
                   /\ pages' = PagesShown /\ memory' = MemoryShown
                   /\ IF ViewerFails THEN Panic ELSE UNCHANGED mode
              ELSE UNCHANGED <<mode, memVars, viewVars>>
           /\ UNCHANGED <<bootVars, procVars, ticks>>)

\* Mutant: fail() spins without polling.
FailSpin_Deaf == mode = "panic" /\ UNCHANGED vars

\* One turn of fail()'s loop.
FailSpin ==
    /\ mode = "panic"
    /\ CheckKeyboard(memory, UNCHANGED <<mode, bootVars, procVars, memVars, ticks,
                                        viewVars, schedVars>>)

-----------------------------------------------------------------------------
(* The environment: the keyboard, and user code.                           *)

PressKey ==
    /\ mode # "off" /\ key = NoKey /\ keysLeft > 0
    /\ key' \in Keys
    /\ keysLeft' = keysLeft - 1
    /\ UNCHANGED <<mode, bootVars, procVars, memVars, ticks, viewVars, schedVars>>

\* User instructions: load any registers, and perhaps write to memory. A
\* hypothesis about user code: it leaves the kernel's code, data and stack
\* alone. Nothing makes it do so (k-hardware.cc maps all of memory PTE_W and
\* PTE_U), and of a kernel whose pages[] or ptable[] a program has overwritten
\* nothing at all could be said.
UserStep(r) ==
    /\ mode = "user"
    /\ cpu' = r
    /\ UNCHANGED <<mode, bootVars, ptable, regs, current, memVars, ticks,
                   viewVars, schedVars, key, keysLeft>>

UserWrite(pa, v, r) ==
    /\ mode = "user" /\ pa \notin KernelImage
    /\ memory' = [memory EXCEPT ![pa] = v]
    /\ cpu' = r
    /\ UNCHANGED <<mode, bootVars, ptable, regs, current, pages, nextAlloc, ticks,
                   viewVars, schedVars, key, keysLeft>>

PoweredOff == mode = "off" /\ UNCHANGED vars

-----------------------------------------------------------------------------
Init ==
    /\ mode = "boot" /\ cmd = "allocator" /\ setup = 1
    /\ ptable = [p \in Procs |-> "FREE"]
    /\ regs = [p \in Procs |-> Zero(Entry[0])]
    /\ cpu = Zero(Entry[0]) /\ current = 0
    /\ pages = [pa \in Pages |-> 0] /\ nextAlloc = 0
    /\ memory = [pa \in Pages |-> Junk]
    /\ ticks = 1 /\ lastTicks = 0 /\ showing = 0 /\ viewer = NoPage
    /\ schedPid = 0 /\ spins = 0
    /\ key = NoKey /\ keysLeft = MaxKeys

KernelStep == ProcessSetup \/ RunFirst \/ SchedRun \/ SchedIdle \/ FailSpin

Next ==
    \/ KernelStep
    \/ Timer \/ PageFault \/ OtherException
    \/ \E gate \in Gates :
          \/ SysGetpid(gate) \/ SysYield(gate) \/ SysPanic(gate)
          \/ \E pa \in Pages \cup {NPages}, aligned \in BOOLEAN :
                SysPageAlloc(gate, pa, aligned)
    \/ \E r \in Regs : UserStep(r)
    \/ \E pa \in UserPages, v \in Pids, r \in Regs : UserWrite(pa, v, r)
    \/ PressKey
    \/ PoweredOff

Spec == Init /\ [][Next]_vars

\* The CPU keeps executing kernel code, and the timer keeps firing while
\* interrupts are enabled (only user code runs with them enabled).
Fairness == WF_vars(KernelStep) /\ WF_vars(Timer)
FairSpec == Spec /\ Fairness

-----------------------------------------------------------------------------
(* Properties.                                                             *)

Live(p) == ptable[p] # "FREE"
Running == mode \in {"user", "sched"}
Rebooting == mode # "boot" /\ mode' = "boot"

\* Every variable has its type; ticks and next_alloc_pa stay in range.
TypeOK ==
    /\ mode \in Modes
    /\ cmd \in Commands /\ setup \in 1 .. NPROC
    /\ ptable \in [Procs -> States]
    /\ regs \in [Procs -> Regs] /\ cpu \in Regs
    /\ current \in Procs
    /\ pages \in [Pages -> Procs \cup {KernelOwner}]
    /\ memory \in [Pages -> 0 .. NPROC]
    /\ nextAlloc \in 0 .. NPages
    /\ ticks \in 0 .. TickMod - 1 /\ lastTicks \in 0 .. TickMod - 1
    /\ showing \in Procs
    /\ viewer \in Pages \cup {NoPage}
    /\ schedPid \in Procs /\ spins \in 0 .. SpinPeriod - 1
    /\ key \in Keys \cup {NoKey} /\ keysLeft \in 0 .. MaxKeys

\* User code only ever runs as a process that run() found runnable, so a
\* process broken by a page fault has executed its last instruction, whatever
\* handler, spin of schedule() or reboot comes in between.
UserRunsRunnable == mode = "user" => ptable[current] = "RUNNABLE"

\* pages[] tells the truth: only allocatable pages have an owner, the viewer's
\* page is the kernel's only one, and a page owned by a process belongs to one
\* that exists (nothing is left over from before a soft reboot).
OwnersSound ==
    \A pa \in Pages : pages[pa] # 0 =>
        /\ Allocatable(pa)
        /\ pages[pa] = KernelOwner <=> pa = viewer
        /\ pages[pa] # KernelOwner /\ Running => Live(pages[pa])

\* A live process owns its stack page and every page of its program, for as
\* long as it lives: no other allocation, by anyone, takes one of them.
ProgramOwned ==
    Running => \A p \in Pids : Live(p) =>
        \A pa \in Image[ProgramOf(p)] \cup {StackPage[p]} : pages[pa] = p

\* kalloc() never skips a page it could return: every allocatable page behind
\* next_alloc_pa has an owner, so a null result means that memory is full.
KallocComplete ==
    \A pa \in Pages : pa < nextAlloc /\ Allocatable(pa) => pages[pa] # 0

\* Once memshow() has run, the address space on display is a live process's:
\* memshow() never hands console_memviewer() a free slot or none.
DisplayedLive ==
    viewer # NoPage /\ mode \notin {"panic", "off"} => Live(showing)

\* The display moves on within HZ/2 timer ticks of the last switch (half a second;
\* the comments on memshow() say 0.25 s).
SwitchesInTime ==
    viewer # NoPage => (ticks - lastTicks) % TickMod <= HZ \div 2

\* An allocated page keeps its owner until the next soft reboot: neither
\* kalloc() nor sys_page_alloc() nor process_setup() ever takes it away.
OwnerKept ==
    [][~Rebooting => \A pa \in Pages : pages[pa] # 0 => pages'[pa] = pages[pa]]_vars

\* schedule() is round robin: it runs the first runnable process after the one
\* that was running, and so returns to that one only when no other is runnable
\* ("The kernel will pick another process to run, if possible").
RoundRobin ==
    [][mode = "sched" /\ mode' = "user" =>
        \A q \in Procs : ptable[q] = "RUNNABLE" =>
            Dist(NextPid(current), current') <= Dist(NextPid(current), q)]_vars

\* Time slicing: a runnable process gets the CPU again, whatever the others
\* do with theirs, unless the machine panics, reboots or goes off.
EveryoneRuns ==
    \A p \in Pids : ptable[p] = "RUNNABLE" ~>
        \/ mode = "user" /\ current = p
        \/ mode \in {"panic", "off", "boot"}

\* "If Control-C was typed, exit the virtual machine": the key is heard from
\* user code, from a scheduler with nothing to run and from a panic alike.
ControlCHeard == key = "q" ~> mode = "off"

-----------------------------------------------------------------------------
(* The inductive invariant behind the safety properties above.             *)

\* What console_memviewer() asserts: ptable[0] is never used.
SlotZeroFree == ptable[0] = "FREE"

\* The boot command bounds the processes there are.
LiveSetUp == \A p \in Pids : Live(p) => p <= LastSetup

\* Owners and live processes while the process table is complete or being set
\* up; a boot that panicked half way is left out.
UpAndRunning == mode \in {"boot", "user", "sched"}
OwnersLive ==
    UpAndRunning => \A pa \in Pages :
        pages[pa] \notin {0, KernelOwner} => Live(pages[pa])
LiveOwned ==
    UpAndRunning => \A p \in Pids : Live(p) =>
        \A pa \in Image[ProgramOf(p)] \cup {StackPage[p]} : pages[pa] = p

\* The viewer's page: the only page of the kernel, none while booting.
ViewerOwned ==
    /\ \A pa \in Pages : pages[pa] # 0 =>
            /\ Allocatable(pa)
            /\ pages[pa] = KernelOwner <=> pa = viewer
    /\ viewer # NoPage => pages[viewer] = KernelOwner
    /\ mode = "boot" => viewer = NoPage /\ nextAlloc = 0

\* Whoever schedule() has passed over since `current' is not runnable.
Scanned ==
    mode = "sched" =>
        /\ Live(current)
        /\ \A q \in Procs : ptable[q] = "RUNNABLE" =>
              Dist(NextPid(current), NextPid(schedPid)) <= Dist(NextPid(current), q)

\* The strengthening of the safety invariants that every step preserves.
KernelInv ==
    /\ TypeOK /\ UserRunsRunnable /\ KallocComplete /\ DisplayedLive
    /\ SlotZeroFree /\ LiveSetUp /\ OwnersLive /\ LiveOwned /\ ViewerOwned /\ Scanned
=============================================================================
