# A verification project for the CS61 problem sets

TLA+ modules, TLC configurations and TLAPS proofs kept beside the code of the
CS61 (fall 2018) problem sets. The repository holds five independent C++
programs. The largest, and the one with the most state, is **WeensyOS**
(`src/pset4`), an operating system kernel with its user programs; the one with
the most concurrency is the **pong** game (`src/pset6`), a threaded simulator and
a network client. They are modelled in the greatest detail; the memory allocator
(`pset1`), the file programs (`pset3`), the shell (`pset5`) and WeensyOS's page
tables, keyboard, console and library have modules of their own.

## 1. Inventory

| Part | Source | State it keeps | Operations | Here |
|---|---|---|---|---|
| WeensyOS kernel | `pset4/kernel.cc`, parts of `k-hardware.cc`, `k-exception.S` | process table, `pages[]`, `next_alloc_pa`, `ticks`, `memshow()`'s statics, saved registers | boot, `process_setup`, `kalloc`, exceptions, system calls, `schedule`, `run`, `memshow`, `check_keyboard`, `fail` | modelled, proved |
| WeensyOS programs | `p-allocator.cc`, `p-fork.cc`, `p-forkexit.cc`, `process.hh` | registers, `heap_top`, heap pages | the allocator loop, system call wrappers | modelled, proved |
| Memory viewer | `k-memviewer.cc` | `memusage::v_` | `refresh`, `mark`, `symbol_at` | modelled in part, proved |
| Page table iterators | `k-vmiter.hh/.cc`, `x86-64.h` | four-level page tables, each iterator's cached place | `find`, `next`, `+=`, `map`, `ptiter` | modelled, proved |
| Keyboard decoder | `k-hardware.cc:451-560`, `659-698` | `modifiers`, `last_escape` | `keyboard_readc`, `check_keyboard` | modelled, proved |
| Library | `lib.cc`, `k-hardware.cc:575-603` | the random seed, the console and its cursor | string, number, print functions, `rand`, `lookup_symbol` | modelled in part, proved |
| Static guards | `k-hardware.cc:884-908` | one atomic byte per static variable | `__cxa_guard_acquire`, `__cxa_guard_release` | modelled, proved |
| Boot loader, image tools | `boot.cc`, `bootentry.S`, `build/*.cc` | none after boot | straight-line I/O | not modelled |
| Debugging allocator | `pset1/m61.cc`, `basealloc.cc` | `allocs`, `frees`, `disabled` | `base_malloc`, `base_free`, the `m61_` wrappers, the exit handler | modelled in part, proved |
| Buffered I/O | `pset3/io61.cc`, `slow-io61.cc`, `profile61.cc`, cat programs | a file descriptor and its position; each program's locals | argument parsing, read, write, seek, the eight programs | modelled in part, proved |
| pipeexchange61 | `pset3/pipeexchange61.cc` | two pipes, three processes | batches of requests and replies, `fork`, `waitpid`, `kill` | modelled, proved |
| Shell | `pset5/sh61.cc`, `helpers.cc` | the line buffer | the lexer, the main loop (execution is left to the student) | modelled in part, proved |
| Pong client | `pset6/pong61.cc` | connection state, `move_done`, the ball | HTTP exchange, one thread per move | modelled, proved |
| Pong simulator | `pset6/simpong61.cc`, `pongboard.hh` | the board, the balls | set-up, `move()`, one thread per ball | modelled, proved |
| Harnesses | `check.pl`, `hhtest.cc` | none | drive the programs | not modelled |

### How the parts of WeensyOS interact

* **Programs → kernel.** A program reaches the kernel by the `syscall`
  instruction or through the `INT_SYSCALL` gate, by a fault, or because the timer
  interrupted it. Registers are the message: the call number and the argument
  go in, the result comes back in `%rax`.
* **Kernel → programs.** `run()` restores saved registers; a page granted by
  `sys_page_alloc` is memory both sides keep a record of (`pages[]` in the
  kernel, `heap_top` in the program).
* **Kernel → viewer.** Every handler and the scheduler's loop call `memshow()`,
  which calls into the viewer, which in turn calls back into `kalloc()` once.
* **Keyboard → kernel.** Every handler, the scheduler's loop and `fail()` poll
  it; a control key throws the whole kernel state away (soft reboot) but not the
  contents of memory.

### How the parts of pong interact

* **Balls and board.** Each ball stores its position, and the board stores a
  pointer to the ball in that position's cell; `move()` keeps the two in step.
  A collision writes another ball's direction.
* **Threads and board** (`simpong61`). By default one thread per ball calls
  `move()` on the shared board, with no lock. With `-1` one thread moves all
  balls in turn. A signal handler prints the board between any two instructions.
* **main() and pong threads** (`pong61`). `main()` creates a detached thread per
  move, polls the flag `move_done` that the thread sets as its last act, lowers
  it, and moves the ball. Any thread may end the program with `exit(1)`.
* **Client and server.** One HTTP request per connection; the response arrives
  in pieces of any size, with or without a `Content-Length`, and may break off.

### How the other parts interact

* **vmiters, ptiter and page tables.** Several iterators cache a pointer into one
  table; `map()` on one of them makes tables under the others. A `ptiter` hands
  out tables to be freed while it still walks above them.
* **pipeexchange61.** A requester writes a whole batch before it reads a reply, a
  responder answers one request at a time, through two pipes of bounded capacity;
  `main()` polls for their deaths and kills what is left after five seconds.
* **m61 and the system's allocator.** `base_malloc()` takes a new block from the
  system or recycles one that was freed; the exit handler gives the freed ones
  back.
* **Shell and signals.** `fgets()` may fill the buffer without a newline, or be
  interrupted in the middle of a line: what it had stored by then is gone from the
  file, and the main loop throws it away.
* **Callers of a static variable** meet in its guard, an exchange and a spin loop. This
  kernel runs on one processor with interrupts disabled, so that no two callers meet yet;
  the functions are written for several, and modelled with several.

### Behaviours that are hard

* The timer interrupts user code between any two instructions, in particular
  between a system call and the use of its result.
* Two allocators (`kalloc` with its moving cursor, `kalloc_physical_page` with an
  address chosen by user code) share one array.
* A soft reboot in the middle of a handler: the bss is cleared, memory is not.
* `process_setup` fails half way; `kalloc` runs out; `schedule()` finds nobody.
* `ticks` and the ages computed from it wrap; `last_ticks == 0` is a sentinel.
* In user space: threads moving balls on one board without a lock, a hand-over
  flag polled by one thread and set by another, two processes writing to each
  other through pipes of bounded capacity, a signal in the middle of
  a line that is being read.
* Boundaries: the least and the greatest long, a range of `RAND_MAX + 1` numbers,
  the last cell of the console, the last row of a stride, a full buffer.

`PROJECT.json` lists each as a hazard, at its line, with the properties that
would catch it going wrong.

## 2. Modules

| Module | Models | State and actions ↔ code |
|---|---|---|
| `Kernel` | the kernel under any user code that leaves the kernel's own memory alone | `ptable`, `regs`, `current`, `pages`, `nextAlloc`, `ticks`, `lastTicks`, `showing`, `viewer` are the variables of the same names in `kernel.cc` and `k-memviewer.cc`; `cpu` is the register file; `mode` says which code has the processor: boot code, user code, `schedule()`, `fail()`, or nobody |
| `WeensyOS` | the whole handout: `Kernel` running the real programs | adds `heapTop`; a program counter is a label of the source; each user step is the code between two points where the timer can tell the difference |
| `MemViewer` | the picture the viewer draws of physical memory | pure operators over the state of `WeensyOS`; a flag word is the set of its bits, so the shift that falls off a 32-bit word is visible |
| `PongBoard` | `pongboard.hh`: what the board and its balls promise a caller that makes one call at a time | `ballAt` is `cells_[].ball_`, `sticky` the cells of type `cell_sticky`; `MakeSticky`, `NewBall`, `Move` are the board's operations, and `Move` splits into `Collide`, `Reverse` and `Advance` as the code does |
| `SimPong` | `simpong61.cc`: the set-up loops and the ball threads | extends the board's state; `phase` is how far `main()` is, `pc`, `turn`, `from`, `to` are each thread's place and locals in `move()`; one action per statement of `move()` that touches shared data |
| `HttpConnection` | `http_connection` of `pong61.cc` and its three calls | `cstate`, `status`, `contentLength`, `hasLength`, `eof` are its members; `buf` is the part of the buffer that is not parsed yet, `stream` the units (lines, line ends, bytes) of the response that have not been read |
| `Pong61` | `main()` and `pong_thread()` of `pong61.cc` | `main` is the next statement of `main()`, `thr` that of each thread, `moveDone` the flag; `served` is the position the server was last asked for, and `requests` how many it was asked for, modulo 2 |
| `PageTable` | `vmiter`, `ptiter` over tables of `Fan` entries and `Top + 1` levels | `memory` is the tables, `it` each vmiter's `pep_`, `level_`, `perm_`, `va_`, `pt` the ptiter, turn by turn of its loop; `space` is what the last successful `map()` asked for each page, `ignored` the pages of which such a call left an old mapping |
| `PipeExchange` | `pipeexchange61.cc` over `io61.cc` | `requester`, `responder` and `parent` are the places of three processes, `pipe` and `room` the bytes and capacities of the pipes, `reaped` the deaths `waitpid()` has told of; a step moves one byte |
| `CatFiles` | the eight copying programs of `pset3`, and `io61_arguments` | `args` is what the parser made of `command`, `inf` and `outf` the files with their positions, `local` a program's variables; a step is a turn of a program's loop |
| `BaseAlloc` | `basealloc.cc` and the `m61_` functions | `allocs`, `frees`, `disabled` as in the code; `system` the blocks malloc has given, `held` what the program believes it has |
| `Shell` | `sh61.cc` and `helpers.cc` as handed out | `buf` and `bufpos` are main()'s buffer, `file` what `fgets()` has not given out, `ran` the words of the commands run, in order; `lineno` is the line `fgets()` is in, `torn` the lines an interrupted read took a part of |
| `Strings` | memmove, strncmp, strtol, snprintf's numbers, rand, lookup_symbol | functions over a word of `WordBits` bits; `call` records one call and its result |
| `Console` | the console printer of `lib.cc` | `console` is the cells, `cursorpos` the cursor that prints at a negative position share |
| `Keyboard` | `keyboard_readc()`, `check_keyboard()` | `modifiers` and `last_escape` are the statics; `down` and `buffer` are the keyboard's side |
| `CxaGuard` | the guard functions, called by several threads | `guard` is the byte, `at` each thread's place; load, exchange, restore and release are steps of their own |
| `MCKernel`, `MCWeensyOS`, `MCSimPong`, `MCPong61`, `MCStrings` | small instances for TLC | values of the constants only |
| `MCStructures`, `MCSmallParts` | `PageTable` and `PongBoard`; the eight parts that stand alone | values of the constants, and a variable that says which part runs in a behaviour while the others stay in their initial states: the state space is the sum of the parts', and each property is about one of them |
| `WeensyProofs` | theorems about `Kernel`; about `WeensyOS` and `MemViewer`, on top of them | |
| `SimPongProofs` | theorems about `SimPong` and how it implements the board | |
| `Pong61Proofs` | theorems about `HttpConnection` and `PongBoard`; about `Pong61` on top of both | |
| `PageTableProofs` | theorems about `PageTable` | |
| `Io61Proofs` | theorems about `PipeExchange` and `CatFiles`, the clients of io61 | |
| `SmallPartsProofs` | theorems about `CxaGuard`, `BaseAlloc`, `Keyboard`, `Console` and `Shell` | |
| `StringsProofs` | theorems about `Strings` | |
| `Iteration` | lemmas on recursive functions and on quotients and remainders, for the three modules before | |

`WeensyOS` is built on `Kernel`; `SimPong` and `Pong61` are built on `PongBoard`.
`Pong61` runs each exchange, the reset and every thread's, over the connection of
`HttpConnection`: its `Work` and `Fails` steps are steps of the thread that owns
the connection, and what the thread does next is read off `status` and `buf` as
in the code. `SimPong` refines `PongBoard`: run
single-threaded, the state after each completed call of `move()` (the history
variable `done`) takes `PongBoard`'s steps, which is property `ImplementsBoard`.

**Atomicity.** The kernel runs with interrupts disabled, so a handler is one
action. Where the code itself loops, waiting for something from outside, each
turn of the loop is an action: `ProcessSetup` (one per call while booting),
`SchedIdle`/`SchedRun` (one spin of `schedule()`), `FailSpin` (one turn of
`fail()`). `Handler(calls, Rest)` is the common entry of `exception()` and
`syscall()`: save the registers, redraw the viewer, poll the keyboard, and only
then the code of the particular vector. A call through `INT_SYSCALL` enters
`exception()` and then `syscall()`, so it redraws twice (`MemshowCalls`); its
second keyboard poll is merged into the first.

**User code.** `UserStep` loads any registers and `UserWrite` writes to any page but
those of the kernel's code, data and stack. The handout does not make user code leave
these alone: every process runs on `kernel_pagetable`, where all of physical memory, the
kernel included, is mapped `PTE_P|PTE_W|PTE_U` (`k-hardware.cc:160-166`). It is a
hypothesis of `Kernel`, and of every property and theorem about it, because nothing
could be said of a kernel whose `pages[]` or `ptable[]` a program has overwritten. Other
processes' pages, and the pages reserved for devices, may be written. In `WeensyOS` user
code is the three programs, which meet the hypothesis: what they write is their own
heap. Every action of `WeensyOS` is an action of `Kernel` with the user's choices fixed,
so `WSpec` implements `Spec`: theorem `ProgramsAreUserCode`.

**Races.** The ball threads' accesses to the board are data races, which C++ leaves
undefined. `SimPong` gives them the mildest meaning, sequentially consistent
interleaving of the statements; the assertion already fails there. Where a race
sends a ball off the board or makes the code follow a null pointer, the model
ends (`aborted`, `crashed`) or, for the coordinates alone, goes on with them.

**What a soft reboot keeps.** `Boot(c)` resets everything the bss holds and
leaves `memory` alone: the first half of `HeapIntact`, that a granted page is
zero until it is written, is about a page that held data in an earlier life of
the system.

## 3. Runs

| Run | Question | Properties |
|---|---|---|
| `kernel` | Does the kernel stay sound whatever the timer and the keyboard do, and user code that leaves the kernel's own memory alone? Is anyone starved, and does Control-C always work? | `OwnersSound`, `KallocComplete`, `SwitchesInTime`, `RoundRobin`, `EveryoneRuns`, `ControlCHeard` |
| `weensyos` | Do program and kernel agree about the heap, across preemption and reboots? Does the viewer show it? Does every allocator come to its end? | `OwnedExactly`, `HeapIntact`, `ProcessPagesShown`, `AllocatorsFinish` |
| `viewer_owners` | Is every allocated page drawn as something other than free? | `AllocatedPagesShown`: **violated**, the viewer's own page (owner `-1`, 255 in a byte) is given the flag `2U << 31`, which is 0 |
| `structures` | Do page tables agree with a flat address space while two iterators walk and extend them, and exactly where do they not? Is each table freed once and never read after? Do board and balls agree after any calls, and what can stop a ball? | `TablesHoldSpace`, `LandsFresh`, `SkipsNothing`, `NoUseAfterFree`, `DestroyFreesAll`; `Stored`, `MotionKept` |
| `unmap_large` | Is a page mapped as the last successful `map()` asked? | `MapsAsAsked`: **violated**, an unmapping under a large page returns 0 and changes nothing |
| `simpong` | Does the simulator, statement by statement, implement the board? With threads, can a ball be stored twice? | `ImplementsBoard`, `NoDoubles` |
| `simpong_race` | Does `move()`'s assertion hold with one thread per ball? | `AssertionHolds`: **violated** |
| `simpong_setup` | Do the size checks of `main()` leave room for the set-up? | `SetupEnds`: **violated** on a board higher than wide, because sticky rows are drawn from the range of the columns |
| `pong61` | Do main thread and pong threads stay in step through a polled flag, over real connections? Is a body delivered exactly, however the response is cut, and is a broken connection told from a short answer? Does each request tell the server of a next position, and is no position left out? Does the game go on? | `InStep`, `BodyExact`, `BrokenMeansCut`, `ServerSeesPath`, `GameGoesOn` |
| `http_premature` | Is the status -1 after a premature end, as the comment on `receive_response_headers()` says? | `PrematureIsMinusOne`: **violated**, the status of a parsed first line stays |
| `small_parts` | Do the parts that stand alone keep their promises? Console: the screen is the end of an endless roll, and the cursor is where it ends. Strings: numbers printed come back, calls meet a reference. Keyboard: no modifier sticks, no key is mistaken. Guard: one initialisation, every call ends. Shell: what runs is what was written, but for lines an interrupted read has torn. Allocator: blocks are large enough and disjoint, only leaks are left. Cat programs: each output is what the name says. Exchange: replies in order, a deadlock only for a batch beyond the pipes, nobody left behind. | `PrintsAsRoll`; `NumbersComeBack`, `CallsMeetReference`; `NothingSticks`, `TypesWhatWasPressed`; `InitializedOnce`, `EveryCallEnds`; `RunsWhatWasWritten`; `HandedOutSound`, `OnlyLeaksAreLeft`; `OutputsAsNamed`, `GathersAll`; `AssertionsHold`, `StuckOnlyWhenTooLarge`, `ZeroMeansComplete`, `NobodyLeftBehind` |
| `rand` | Does `rand(min, max)` stay in its range for every range its comment allows? | `RandInRange`: **violated** for `max - min == RAND_MAX`, where `max - min + 1` overflows an `int` |

What modelling and some runs found on the way:

* `memshow()`'s comments say that the display moves on every 0.25 s
  (`kernel.cc:386`, `393`); the code waits `HZ / 2` ticks, half a second
  (`kernel.cc:394`), and this is what `SwitchesInTime` states.
* `fgets()` interrupted in the middle of a line has stored characters that `sh61`
  throws away (`buf[bufpos] = 0`, `sh61.cc:154`): the rest of the line runs as another
  command than was written. "ignore EINTR errors" (`sh61.cc:152`) is true only of reads
  that had taken nothing, and `RunsWhatWasWritten` excepts the torn lines, and only
  these. The handout installs no signal handler yet, so it takes the student's.
* With the sizes in the source (batches of 20 requests of 10000 bytes among them)
  and pipes of 64 KB, `pipeexchange61` always deadlocks, and `main()` ends it after
  five seconds with status 1: `StuckOnlyWhenTooLarge` says exactly which batches do.
* `strtoul` in base 16 takes `:` to `?` for digits, and `strtoul("-999...")` returns 1
  on overflow, the negative of the clamped value; `strtol` is not affected.
* The shell reads a last line without a newline and never runs it.
* `m61_calloc` does not look for overflow; `HandedOutSound` leaves such calls out,
  although `test014.cc` expects a null pointer of one.
* `map()` without permissions also leaves a page mapped when the iterator stands above
  a table that another iterator has made since: its cached place is no leaf.

The properties of the violated runs state what comments or assertions of the
code say; the findings in `PROJECT.json` quote them.

### Bounds

* `NPROC` 3, `NALLOC` 2: two processes compete; with the boot commands that start
  one program, the search loops of `memshow()` and `schedule()` also pass over a
  free slot.
* `NPages` 7 to 10: a reserved page, a kernel page, a program, a heap and a
  stack for each process, and in `kernel` a page left for the arbitrary user
  code to fight the viewer for. In `weensyos` each heap has one page and is
  followed by a reserved or foreign one, so that the next allocation fails.
* `TickMod` 3 with `HZ` 2: the clock wraps after three ticks, and the age that
  makes the display move on is one tick.
* `SpinPeriod` 2 stands for `1 << 12`: some spins redraw, some do not.
* `MaxKeys` 1: one soft reboot, at any point, a boot included. Each state after a
  reboot is one a second reboot starts from, so more keys add no new kind of
  state.
* `Calls` holds the implemented call numbers and one that is not.
* `UserPages` is one contested page in `kernel`; `weensyos` allows all.
* `structures`: tables of two entries in three levels, four pages for up to seven
  tables, so that `map()` runs out of memory half way; two iterators; a large page,
  beside which up to three tables are made (`MCTablesBesideLarge`).
  Three balls and at most one sticky cell on a 3 x 2 board (the third ball meets a
  collision of the other two) and on a 1 x 3 board, where `Reverse` is taken.
* `simpong`: two balls; single-threaded on 3 x 3, 2 x 3 and on a 2 x 2 board with
  three sticky cells, which leaves one plain cell for two balls; threads on 3 x 2
  without and on 2 x 2 with a sticky cell. A race needs two balls only.
* `simpong_setup`: 2 x 3 with five sticky cells, one more than can be drawn.
* `pong61`: responses of every shape the parser tells apart (no length, one, two that
  differ; a body that is empty, short, exact, too long, or holds line ends; no
  status line, no empty line), each cut into reads at every place, from a server
  that closes the connection and from one that keeps it open. `Slots` 2 bounds the
  threads that exist at once; `InStep` shows that more than one never does. Boards
  3 x 2 and 1 x 2.
* `small_parts`: a console of 2 x 3 cells, and texts that end on, before and behind
  its end; words of six bits with every directive, flag, width and precision, and
  numerals on both sides of each limit; all keys of each kind with two held down;
  three threads with two calls each; scripts of every pair of tokens, quoted in each
  way, and an interruption
  after any number of the characters a read may take; a memory of three bytes, sizes 0 to 3 and a
  `size_t` of three bits; files of up to eight bytes with every block and stride
  around them, files without a size, right and wrong arguments; pipes of one to
  five bytes and batches of one to four messages, that fit or do not.
* `rand`: the same words; its `RAND_MAX` is the greatest `int` of three bits.


### Fairness

* `WF(KernelStep)`: the processor keeps executing kernel code; no handler waits.
* `WF(Timer)`: the timer fires while interrupts are enabled, and only user code
  runs with them enabled (`init_timer(HZ)`, `reg_rflags`).
* In `WeensyOS`, `SF(current = p /\ Program)`: a process that has the processor
  again and again executes instructions, because a time slice of 1/HZ s is
  longer than an instruction. `SF(current = p /\ TakeTurn)`: `rand()` is a linear
  congruential generator of full period, so it takes each branch again and
  again.
* No fairness is assumed of the keyboard or, in `Kernel`, of user code.
* `SimPong`: `WF(SetUp)`: a draw that can succeed does in the end, since the
  generator names every position of its range again and again; `WF` of each
  thread's steps: the system schedules every thread.
* `Pong61`: `WF` of `main()` and of each thread, the steps of the connection they
  hold included: `usleep()` returns, and a server either sends the rest of its
  response or ends the connection. A server that stops half way without closing
  would make `read()` wait for ever: the code has no timeout.
* `PageTable`: `WF` of the ptiter's turns once it has begun: its loop is straight code.
* `PipeExchange`: `WF` of `main()`'s forks and polls and of each child's steps: the
  system schedules every process, and `time()` reaches the five seconds.
* `CxaGuard`: `WF` of each thread: the spin loop pauses, and the holder is scheduled.
  The spinning thread itself takes a step each turn, so nothing stronger is needed.

## 4. Theorems

`WeensyProofs` proves, for every number of processes and pages, every memory layout,
every wrap-around of the clock and any user code that leaves the kernel's own memory
alone (section 2), all the safety properties of `Kernel`: `TypeCorrect`,
`OnlyRunnableRun`, `OwnersAreSound`, `ProgramsOwnTheirPages`, `KallocIsComplete`,
`DisplayIsLive`, `DisplaySwitchesInTime`, `OwnersAreKept`, `ScheduleIsRoundRobin`. Four
of these properties are checked by run `kernel` on its instance too; `TypeOK`,
`UserRunsRunnable`, `ProgramOwned`, `DisplayedLive` and `OwnerKept` are stated by the
theorems alone, which cover every instance.

They rest on one inductive invariant, `KernelInv` (theorem `KernelInvariant`).
None of the properties is inductive alone:

* `UserRunsRunnable` needs `Scanned`/`TypeOK` only for the run loop, but
  `DisplayedLive` needs `SlotZeroFree` and `LiveSetUp` (who can be live at all
  under the boot command), because `memshow()` searches the whole table;
* `OwnersSound` talks about a running system, and holds there because
  `OwnersLive` and `LiveOwned` hold already *while* it is being set up. A boot
  that panicked half way is exempt: it owns pages for a process that never
  became live, and it never runs;
* `KallocComplete` needs `ViewerOwned`: the cursor moves past a page only when
  that page is taken, and only the viewer takes pages that way;
* `RoundRobin` needs `Scanned`: whoever `schedule()` has passed over since
  `current` is not runnable. Its arithmetic is the distance around the table
  (`Dist`), with lemmas of its own;
* `SwitchesInTime` needs the lemma that an age modulo `TickMod` grows by one
  with each tick, also over the wrap.

The proof follows the code: a lemma for each piece shared between handlers
(`memshow`, `kalloc`, the keyboard poll, the panic, the frame), one
(`HandlerKeeps`) for the common entry, then one step per action of `Next`.

It goes on from there to the programs and the viewer. `WSpec => Spec`
(`ProgramsAreUserCode`) is shown step by step: each statement of a program is a
`UserStep`, a `UserWrite` or a call that `Kernel` allows, and the kernel's own steps
are the kernel's. `HeapIsOwned` (`OwnedExactly`) and `HeapIsIntact` (`HeapIntact`) rest on
the invariant `WInv`: `KernelInv`, and, once the machine is up, that each live process
is in order (`Good`) in its registers, its pages and its heap together. The two
properties are not inductive without `GoodRegs`: between the system call and the use
of its result, which pages are in the heap is read off `%rax` and the label, and
`sys_page_alloc` grants the page at the `%rdi` the program loaded before. `SetUpSoFar`
is needed while booting, where the processes not set up yet are in no order at all.
`WInv` is proved on top of `KernelInv` and of the refinement, so the kernel's lemmas are
used for every handler a program can be interrupted by. The viewer's
`ProcessPagesShown` is proved of `Kernel`, hence of other user code too
(`ViewerShowsProcesses`), and by the refinement of the programs
(`ViewerShowsPrograms`). It needs `OwnersFew`: `sys_page_alloc` and `process_setup` never
record an owner beyond the four processes the handout's commands start, so
no process's flag is shifted out of its 32-bit word.

`Pong61Proofs` proves first, for boards of every size, any number of balls and sticky
cells and calls in any order, all the properties of `PongBoard`: `BallsAreStored`,
`RestsOnSticky`, `NextCellExists`, `NarrowBoardsAreStuck`, `ColoursAreKept`,
`MotionIsKept`; run `structures` checks `Stored` and `MotionKept`. The inductive
invariant is `BoardInv` (theorem `BoardInvariant`): types, places and motions need each
other. `Stored` is kept by a move because two balls cannot have the same position (each
position's cell names one ball), and because the ball hit in a collision is not the ball
that moves, which needs `StoppedOnSticky`: a moving ball moves along both axes. There is
a lemma for each way a call can end (`CollideKeeps`, `ReverseKeeps`, `AdvanceKeeps`),
and `MoveOrStay` sums up what a call does to the places for the action properties.

`SimPongProofs` proves `NeverStoredTwice` (`NoDoubles`): for every board and every
interleaving of the threads. `NoDoubles` is inductive only with `AtMostFrom`: from the
first statement of a call to the one that clears the old cell, the ball is stored in no
cell but that one, and afterwards in none until the call stores it again. `OwnTurn` says
that two threads never move the same ball; without it one thread's store could repeat
another's. That another thread may overwrite the cell or empty it does no harm to
this property: the theorem says exactly what survives the race that breaks the
assertion in `simpong_race`. The second theorem, `SimulatorImplementsBoard`, is the
refinement: run with `-1`, the simulator implements `PongBoard`. `MidCall` says what a
call has written by each of its statements in terms of the board it began on (whose
collision has been taken, whose coordinates have moved, which cell is empty), so that
the statement that ends a call makes `done` change by exactly one `Move`;
`CallGoesOn` and `CallReturns` follow a call statement by statement.

`SmallPartsProofs` proves `BlocksAreSound` (`HandedOutSound`) and `LeaksAloneAreLeft`
(`OnlyLeaksAreLeft`), for every memory and every sequence of calls, wild and double
frees and `m61_` switching itself off included. The invariant `AllocInv` adds what
neither statement mentions. `Accounted`: each block of the system is held by the
program or waits in the vector `frees`, once, which makes a recycled block nobody's.
`LargeEnough`: the size in the vector, or the size asked for, is at most the block's.
`TableKept`: while the allocator is enabled the hash table lists exactly what the
program holds, which is why a free of anything else changes nothing. The vector's
swap-with-the-last and pop are lemmas of their own (`Renumbered`, `TakenOut`).

The same module proves `GuardSafe`: whatever the number of threads and of calls,
`InitializedOnce` holds. The invariant `GuardInv` says that one thread at most is
between the exchange that returned 0 and the release (`OneHolder`), that the guard
is 1 for as long, that a thread putting back the 2 it overwrote never meets a
holder, and what is known of the initialization at each place (`Progress`). Only
the last restates the property; without `OneHolder` it is not inductive, because a
late caller's exchange makes a guard of 2 look like one that is being initialized.

Of the keyboard it proves `ModifiersDoNotStick` (`NothingSticks`) and
`KeysTypeTheirLegend` (`TypesWhatWasPressed`), for any of the keys, any capacity of the
controller and any order of presses, repetitions, releases and calls. `KeyInv` looks at
the bytes that wait in the controller. `Aligned`: a byte has a prefix of its key before it
exactly if the key has one, where the byte before the first is the one remembered in
`last_escape`. `ReleasesCome`: a press whose key is up by now has its release behind it.
`ModifiersAccounted`: a modifier that is set is of a key that is down or that has a
release waiting. The first is what makes a byte the right key's, and it survives a reboot
only because no prefix ever causes one.

Of the console, the module proves `ConsolePrints` (`PrintsAsRoll`), for every size of
the screen, any texts and any positions. The invariant `ConsoleOK` is only that the
cells and the cursor are in range; the work is in one print. `PutAll` writes, scrolls
and starts again at the top character by character, while the property looks at the
whole text at once, on a roll of paper. It also says that a call returns the place
behind the last character and, printing at the cursor, leaves the cursor there, row and
column. By induction over the text, for each part of it written so far the screen is the
end of the roll, and `RowsUp` grows by one exactly where the code scrolls: when a
character is due and the cursor is behind the last cell, not when it gets there. Without
scrolling, the induction is over the laps around the screen: the last place of the paper
that falls on a cell is the one that is left there.

Of the shell, it proves `ShellRunsLines` (`RunsWhatWasWritten`), for scripts and buffers of
every size, with errors anywhere and reads interrupted after any number of characters,
in two parts. The lexer comes first.
`LaidOut` says how a line may be written with given words: each is made of
plain characters, characters after a backslash and quoted parts, in which a backslash
protects another character only between double quotes; operators and redirections are
as long as they can be, with the digits before a redirection and behind `>&` its own;
spaces and a comment are between and behind. It describes the text, and says nothing of
places where a lexer stops or of the modes it is in. `TokensAreWords`: `Tokens()` of such a
line are the words. Quoting is the hard part: a word is read by a
function that looks ahead from the end of the line and in each of three modes, and
`QuotesRead` shows that a quoted part read from its opening quote comes out as its
text followed by what the rest of the line is read as after the closing one.
`SingleQuotesProtect` is an instance that needs no description: any text without a single
quote, between two of them, is one word. The second part, `LoopRunsTokens`, is main()'s loop:
the invariant `LoopOK` says that what has run is the commands of the lines before
`lineno`, each with its own words unless it is in `torn`, and that what is still to be read
(`Unread`) is the rest of that line, whole unless it is torn, and the other lines, with
nothing kept in the buffer. It holds only because an interrupted read leaves nothing to
be taken twice and takes no newline, and because the last line, when it has no newline,
ends the loop. The theorem's hypothesis, `WellWritten`, is
that every line of the scripts is `LaidOut` with its words; that says what "meant" means.
TLC checks the property of scripts whose lines are given with their words one by one.

`Io61Proofs` also proves both properties of `CatFiles`, for every length of the inputs,
every block, stride and size, any options right or wrong and any choices of `random()`:
`CatKeepsItsNames` (`OutputsAsNamed`) and `GatherKeepsAll` (`GathersAll`). What
`OutputsAsNamed` leaves open is `stridecat61` with `-s`, whose output has no name to be
held to, blocks larger than the stride, and `reordercat61` with `-s` beyond the end of
the file. The invariant `CatOK` has a part for each kind of program. `Usable` is what
the argument parser guarantees, the numbers a division or a loop needs among them.
`ForwardOK`: what has been written is the beginning of the input. `BackwardOK`: it is
what is behind a place of the input, backwards, an end-of-file character for each place
beyond the end, and the place of the next byte is the number of bytes left; with `-s` it
begins at that size. `ReorderOK`: each block that is no longer in the vector `blockpos`
is in its place of the output, and the vector, whose picked element is overwritten by
its last one, holds every other block once. `StridedOK` says that the positions visited
so far are the beginning of a *tour* of the file, in which the strides' blocks come in
order and every position once; the turn that ends a row, where the block is cut at the
stride, at the end of the file or both, is where the tour must not leave a place out.
`GatherOK` counts, for each input, what has been read of it (`HaveRead`), and says that
the outputs hold this and nothing else, each byte once and in order (`Written`); `Turns`
is the fairness of the rounds, with the place `ini` of the last turn in it: the inputs
before it have had one turn more. An input erased from the vector moves its successors
one place down, and `AfterErase` keeps `Turns` true: it is the subtraction without which
the successor loses a turn.

`StringsProofs` proves both properties of `Strings`, for words of every even width, any
memory, strings, numerals and symbols and every directive: `StringCallsAreRight`
(`CallsMeetReference`) and `NumbersReadBack` (`NumbersComeBack`). Each loop of the library is a
recursive function, and each proof an induction along its loop: after k copies of
`memmove()` the first k places of its order hold what they should and the others are
untouched (`MovesAll`), which is where the direction matters; a symbol that covers the
address lies in the window of `lookup_symbol()`'s search (`SearchIs`); the digits read so
far have the value of their numeral, or have overflowed, and then the true value is beyond
every word (`SumIs`). `NumbersReadBack` joins printing and reading: the digits `fill_numbuf()`
leaves have the number as their value (`FillIs`); spaces, prefix, zeros and digits are laid
out (`PrintedIs`) so that `strtoul()` gets past what is before the digits and stops behind
the last one (`LaidReads`); and the negation of the least long, which is itself, is what
`Bound` lets through.

Recursive functions are reasoned about in `Iteration`. `NumbersOf` is induction over a
set of numbers (a set with 0 and with each number the next one has them all), and `UpTo`
and `DownFrom` are the same for an interval. With it, `FoldExists` shows that there is a
function with `f[0] = b` and `f[n] = h[n][f[n - 1]]`, and `BackwardExists` that there is one
whose value at a place depends on values at later places (`LooksAhead`). That the
function a recursive definition chooses is this one follows because it exists; what it
computes is then shown by induction over the set of places where it does.

`Pong61Proofs` also proves, for every set of responses and every way of cutting them into
reads, `BodiesAreExact` (`BodyExact`) and `OnlyCutsBreak` (`BrokenMeansCut`). The two
properties compare the incremental parser with operators that read the response as
a whole (`HeaderEnd`, `LengthOf`, `BodyOf`). The invariant `HttpInv` connects them:
`Pieces` says the response is what was consumed, the buffer and what is still to come,
in this order; `Content` says, for each state of the connection, what the consumed
part says about the status and the length and that the empty line which ends the headers
is not in it yet, or was its last unit; `Control` says which of the connection's states
each place of the caller can meet. Two lemmas need a least element, that a buffer with
a line end has a first one and that the first empty line is the one found
(`FirstEndIs`, `HeaderEndAt`); the first comes from the well-foundedness of the naturals.

`Io61Proofs` proves all the safety properties of `PipeExchange`, for every table of
phases and any capacities of the pipes: `RepliesComeInOrder` (`AssertionsHold`),
`OnlyTooLargeDeadlocks` (`StuckOnlyWhenTooLarge`) and `ZeroIsComplete`
(`ZeroMeansComplete`). The invariant `PipeInv` describes both children and both pipes
together (`Agree`): a child is at a place of the batch, a message and a byte of it, and
a pipe holds exactly the bytes from the place one child has read up to to the place the
other has written up to (`Holds`, with a lemma for a byte more and a byte less). Without
the partial messages it is not inductive, and without `Through`, which says that the
responder may be a phase ahead while the last replies are in the pipe, it is false.
That both pipes are full in a deadlock is then an equation between two
places; `Fitting` and `NotFitting` turn it into the limit of `FitsPipes`, which they show to
be exact: `ZeroMeansComplete` says the same limit from the other side. `Lifetimes` says who
may have died at each place of `main()`; `BatchesFitted` that a batch written completely
did fit.

Of the client, `Pong61Proofs` proves, for every board, every set of responses and any
number of threads the system may allow, `ThreadsInStep` (`InStep`) and
`ServerIsToldThePath` (`ServerSeesPath`). The invariant `PongInv` (theorem
`PongInvariant`) has three parts. `HandOver` is `InStep` thread by thread, with the fact
that makes it inductive: the flag is up only between the end of a thread and `main()`'s
answer to it. `Journey` says what the server knows at each place of `main()` and of a
thread: the ball's position once the request is sent (`Told`), and until then the
position one move before it (`Fresh`). `requests` counts the requests, so that one which
names the same position again is seen by the property, which forbids it. The board's
`BoardInv` is the third, because a successful `move()` changes the position along both
axes only if the ball is moving, which the absence of sticky cells and the board's own
invariant give. Of the connection the proof uses where it can go from sending
(`WorkMoves`). That the program uses the connection as `HttpConnection` allows is a
theorem of its own, the refinement `ProgramUsesConnection` (`PSpec => HSpec`); with it
the properties of the connection hold in the whole program (`ProgramReadsExactBodies`).

`PageTableProofs` proves, for tables of every width and depth, any number of iterators
and any memory for tables, all the safety properties of `PageTable`: `ShortcutsLandFresh`
(`LandsFresh`), `MapsHoldSpace` (`TablesHoldSpace`), `NextSkipsNothing` (`SkipsNothing`) and
`FreesOnce` (`NoUseAfterFree`). The invariant is `TableInvariant` (theorem
`TablesAreTrees`): the tables form a tree, that is, each table has a level and a part of
the address space such that an entry which is a table leads to the level below and to
the part the entry stands for (`Tree`, `Hangs`). No variable of the code holds `level` and
`part`; the invariant says that they exist. An iterator's place is the entry for its address in
the table that covers it (`PlacesIn`), and a walk within that table lands where one from
the root does (`Lands`). The hard step is `map()`: a table made under one iterator
must not spoil the shortcut of another. `WalksFurther` and `StillLands` show why it
cannot. The new table is hung where an entry was absent, so walks that came to this entry
ended there; now each goes on into the new, empty table, whether it began at the root or
at a cached place. That the new leaf is at one address only (`LeafAddress`) is what keeps
the other mappings as they were. `TablesHoldSpace` is exact: a page's mapping is what
`space` says if and only if the page is not in `ignored`, to which only a call adds that was
to unmap a page above level 0 and returned 0 (the finding of `unmap_large`). While the
ptiter frees (`Walking`), each freed table is one whose part it is `Past`, or whose part it
is in, but `Above` its level and not to come down below its `Floor` before it has left
the part: the reason why children come before parents.

The arithmetic of addresses is that of division by `Span(level)`, which is a product of
`Fan`s. `Spans` is a recursive function so that `SpansAre` can be shown of it, by
induction over a set of numbers (`NumbersOf`: a set with 0 and with each number the next
one has them all), and so is the walk `Down` (`IterationExists`, `DownIs`). The rest
follows from a few lemmas about quotients and remainders (`Blocks`, `SameAbove`,
`SpanDivides`).

What is assumed: the named assumptions of `Kernel` on its constants
(`ProcAssumption`, `PageAssumption`, `ClockAssumption`, `UserAssumption`) and of
`PongBoard` (`BoardAssumption`: sizes are positive, there is a ball), of
`CxaGuard` (`GuardAssumption`: calls are a positive number) and of `Pong61` and
its connection (`PongAssumption`: one ball, no sticky cell; `ConnectionAssumption`;
`TextAssumption`: a header line begins where a line has ended, which is what makes it a
line), and of `WeensyOS` (`ProgramAssumption`: `Kernel`'s labels are the
programs' and its user code may at least do what they do), of `PipeExchange`
(`PhasesAssumption`: the table `messages[]` has an entry, and sizes are positive;
`CapacityAssumption`: a pipe has room for a byte), of `Keyboard` (`KeyboardAssumption`:
the keys are keys of the table `Scan`) and of `PageTable` (`PageTableAssumption`: a table has
two entries or more, there is a level below the root, a page for the root; frames are
numbers and permissions are of the three bits), of `BaseAlloc` (`AllocAssumption`:
sizes and counts fit in a word), of `Console` (`ConsoleAssumption`: there is a
cell, texts are sequences of codes), of `Strings` (`StringsAssumption`: an `int` has half
the bits of a word, strings hold no NUL, numerals are a sign and digits, symbols are sorted
and do not overlap), of `CatFiles` (`CatAssumption`: options have names
and numbers, files have lengths, lines are not empty) and of `Shell` (`ShellAssumption`: the
buffer has room for a character and the NUL; the newline and the NUL are no characters
of a line). TLC evaluates them in each run. What stays with TLC:

* the liveness properties (`EveryoneRuns`, `ControlCHeard`, `AllocatorsFinish`,
  `DestroyFreesAll`, `GameGoesOn`, `EveryCallEnds`, `NobodyLeftBehind`): they need fairness and
  ENABLED, outside the prover's reach.

## 5. Not modelled, and why

* `kfree()` does nothing in this handout. `sys_fork()` and `sys_exit()` are not
  implemented by this kernel: a program that makes these calls panics the
  machine (`SysPanic`), and so the model ends there too.
* Exceptions raised by kernel code: none of the handout's kernel code does, apart
  from assertions, which are modelled as `Panic`.
* The pages at `0x8000`–`0x9FFF` the boot loader's temporary page table occupies,
  which a soft reboot would overwrite: they are reserved and nobody looks at them.
* The viewer's branch for processes with page tables of their own: the handout
  never creates any.
* In pong: option parsing, delays, the print timer and what the signal handler prints
  (it looks at the cells one after the other while threads move, so it may show a ball
  twice or miss it, whatever `NoDoubles` says of the board at one time), colours; the
  `Phase` and `Score` parts of the server's answers; a failed `socket()` or DNS lookup
  (`ThreadFails`, `CreateFails` and `ResetFails` stand for every `exit(1)`). The
  response buffer is not bounded in `HttpConnection`: the game's responses are much
  shorter than the buffer. `-b 0`, which makes `simpong61` use `balls[0]` of an empty
  vector, is excluded by an assumption.
* `CatFiles`: writes do not fail and outputs are regular files, which no program checks
  either; blocks larger than the stride, `-s` for `stridecat61`, and `-s` beyond the end
  for `reordercat61`, run, but their outputs have no name to be held to; the time and
  memory that `profile61.cc` reports; `stdio-io61.cc`, which passes calls on to stdio.
* `io61.cc` and `slow-io61.cc` are the same code, and modelled once.
* `BaseAlloc`: the statistics and heavy hitters, which the handout leaves to the
  student, and guards against bad frees, of which it has none.
* `Shell`: running commands, pipes and redirections, left to the student.
* `Strings`: `memset`, `memcmp`, `strlen`, `strcpy`, `strcmp`, `strchr` and their like;
  `%s`, `%c` and `%p`; the mapping of the symbol table that `lookup_symbol()` makes first.
* `Console`: colours and `console_show_cursor()`.
* `Keyboard`: the keymap's other keys, which are decoded as one of the kinds modelled.
* The boot loader and the image tools: straight-line I/O without concurrent state.
* Colours, text, the log, disk I/O: no state the kernel reads.

## 6. Plan

What is left, in this order:

1. The functions of `Strings` that are not modelled; `%s`, `%c` and colours of the printer;
   the viewer's layout.
2. `stdio-io61.cc` and what `profile61.cc` measures.
