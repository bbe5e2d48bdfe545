# A verification project for the G21 TP2 kernel

The repository is a small x86_64 teaching kernel: one CPU, up to 64 processes with
priorities, named semaphores, pipes, a keyboard with blocking reads, two memory
managers and a shell with test programs, a game and the dining philosophers.
This directory holds TLA+ models of its core logic, the TLC configurations that check
them on small instances, and proofs checked by TLAPS that hold for every instance.

## Inventory

| part | source | state | operations | what makes it hard |
|---|---|---|---|---|
| process table | `process.c`, `scheduler.c` | slots, a record per process | create, destroy, adopt, block, unblock, terminate | a pid is a slot and slots are reused |
| scheduler | `scheduler.c`, `time.c`, `interrupts.asm` | current, size, force_reschedule, saved stacks | tick, yield, the process system calls, init's reaper | exit and reap code that runs with interrupts on; wake-ups by several paths |
| semaphores | `synchro.c` | value, ring of waiting pids, use count | open, close, wait, post, removal of a dead process | closes and kills among waits; a ring with holes |
| pipes | `pipes.c` | byte ring, two semaphores | create, read, write, EOF, destroy | EOF in band, blocking in the killer's context |
| keyboard | `keyboard.c` | key ring, EOF flag, semaphore | key interrupt, getchar | tokens without keys, a reader killed with a token, a full ring |
| screen | `videoDriver.c` | the text cursor | print, newline, wrap, scroll, delete, clear | coordinates at the margins |
| heaps | `memoryManager.c`, `buddyMemoryManager.c` | block list, free lists, counters | init, malloc, free | splitting and merging over long sequences |
| philosophers | `phylo.c` | states, ring size, semaphores | add, remove, take, put | a ring that changes size while others eat |
| shell | `shellFunctions.c`, `stdLib.c` | a line being edited, parsed commands | read, cut, start, pipe, wait; ps, block, time, mem, filters | a line that fails half-way; a static array in the kernel |
| library | `strLib.c`, `stdLib.c` | none | numbers to texts and back | the smallest int, empty texts, buffers |
| user tests | `5_tests` | the tests' own records | tsem, ts, tp, testMM | records that must agree with the kernel |
| applications | `snake.c`, `piano.c`, `spotify.c` | the board | a round of the game | a snake that eats moves twice |

What makes each part correct:

* process table and scheduler: one RUNNING process and the CPU executes it; `size` counts
  the slots; nobody READY waits for ever; a `waitPid` returns, for the child it was
  called for; a terminated process never runs again.
* semaphores: no more processes past `semWait` than tokens; a queue is who waits, in
  order; a post reaches a waiter; nobody's semaphore is freed.
* pipes: bytes arrive once and in order, EOF after them; the ring never overflows; the
  pipe is freed when nobody is in it; a pipeline ends.
* keyboard and screen: keys arrive once and in order; nobody sleeps while there is a key
  for him; the line the shell holds is the line it shows; nothing is drawn outside the margins.
* heaps: used blocks are disjoint and inside the heap; the free rest is accounted for
  and merged; a request fails only when no block is large enough.
* philosophers: neighbours never eat together, and the hungry eat, except in the moments
  when the main program, which takes no lock, upsets them.
* shell and library: a line is cut into its words; nothing of a line is left behind when
  it is over; what is written is what is read back.
* tests and game: what the test believes is what the kernel has; the board stays a board.

System calls enter through an interrupt gate, so they run with interrupts off and
are atomic until they give the CPU away with `int 20h` (`yield`). Interrupts are on
in user code, in `initMain`, in the busy loop of `sys_sleep`, and in `myExit` when a
process reaches it by returning from its main function (`processCaller`). The
components meet in the process table: semaphores block and unblock pids, the
keyboard interrupt kills the foreground process, a dying process cleans up its
semaphore queues, its pipe and its claim on stdin. User programs meet the kernel only
in system calls, and each other in semaphores, pipes, the screen and the keyboard.

PROJECT.json lists every component with its status and every hazard at its line.

## Modules

* `ProcessTable` - the table as a value: every C helper of `process.c` and
  `scheduler.c` that works on slots is an operator from table to table. A saved stack
  pointer is a *context*, a label that says where the process continues.
* `ProcessLife` - the abstract promise: which status may follow which, at most one
  process RUNNING, and whoever gives the CPU up hands it to somebody.
* `Scheduler` - the state of `scheduler.c` plus `cpu`, the context the CPU executes.
  One action per system call (the context switch it ends with included), one per
  interrupt, and one per access to the shared state in the code that runs with interrupts
  on: `InitMain`, `LoadCount`, `StoreCount`, `InitSetPriority`, `ReapFind`, `ReapRemove` for
  init; `ReturnFromMain`, `ExitWakeParent`, `ExitRemove`, `ExitYield` for a `myExit` that can
  be preempted; and for the removal that both reach, its test of the slot (`RemoveBegins`), the
  store of NULL (`EmptySlot`) and `size--` in two halves (`LoadSize`, `StoreSize`). `harm`
  records what a race in these steps has done: "lost", an update of `size` was overwritten;
  "crossed", the slot was removed a second time, or its freed record given to somebody else
  (`MemoryTaken`), before it was emptied. After that nothing more is said (`NotFollowed`).
  `Schedule` is `schedule()` with `getNextProcess()`, its quantum, its circular scan
  and its fall-through when nobody is READY.
* `MCScheduler` - the programs the slots run in the instances below.
* `SchedulerProofs` - the inductive invariant of `Scheduler` and its proof, what no step
  of `Scheduler` may do, `size`, who has the CPU, and that `Scheduler` implements
  `ProcessLife`.
* `WaitRing` - `circular_buffer_t` of `synchro.c`: cells, two indices and a size, the
  stale contents of free cells included. `Without` is `remove_process_from_queue` with
  the very cells its loop copies.
* `FifoSemaphores` - the abstract promise: tokens and sequences of waiters by name.
* `Semaphores` - `synchro.c` and its clients. System calls are atomic, so an action is a
  whole call; `semWait` that blocks has a second action, `WaitResumes`, for the return
  when its caller runs again, whoever made it READY. `Killed` takes a process out of
  every queue, `Exits` does not, as in `myExit`. Of the process table only the status is
  kept; the clients follow `my_process_inc` of `testSynchro.c`.
* `Pipe` - `pipes.c` between the writer and the reader of one shell pipeline. A system call
  is a sequence of `Wait` and `Copy` steps that nobody interrupts (`kernel`) unless it
  blocks; the exit of a writer that returned from main takes and releases the spinlocks
  in steps (`EofSem` to `EofFinish`) between which others run. `KillForeground` is Ctrl-C
  in the context of whoever runs: the interrupted process sends the writer's EOF. The keys
  with Ctrl are echoed with a `sys_write` in that context, which is two bytes into the pipe
  when it is the writer's (`EchoKey`), and the kill comes after them (`EchoedKill`). The
  shell creates the pipe, waits for both commands as `waitPid` does, and destroys it.
* `Allocator` - the abstract promise of both heaps: who owns which bytes.
* `FreeListHeap` - `memoryManager.c`: the block list as a sequence of blocks with their
  addresses, `Taken` for the split of a block, `MergedInto` for one step of the merging
  pass of `my_free` and `Merged` for the pass.
* `BuddyHeap` - `buddyMemoryManager.c`: a sequence per free list, `AfterSplits` and
  `AfterMerges` for what its loops do to all lists together.
* `WaitQueue` - what `remove_process_from_queue` does where the ring does not matter: the pipes and
  the keyboard keep a queue as the sequence of its waiters.
* `MemoryManager` - either heap, chosen in the initial state as the build chooses it,
  with the properties both must have. A `my_free` that `destroyProcess` makes with interrupts
  on (in `myExit` after a return from main, in init's reaper) begins (`FreeBegins`) and ends,
  and others run in between; `disturbed` records that one of them called the memory manager
  there (`Disturb`), which is where a behaviour is left.
* `MemoryManagerProofs` - that both builds keep them, and implement `Allocator`.
* `Keyboard` - the ring of keys, the EOF flag and the semaphore `os_kb_sem`. A read is one
  step (`ReadNow`), or two when it finds no token (`ReadWaits`, `ReadResumes`);
  `StdinCleanup` is what a dying reader does to them (`release_stdin`,
  `remove_process_from_all_semaphore_queues`).
* `Screen` - the cursor of `videoDriver.c` in pixels: `Wrapped` and `Scrolled` are the two
  corrections `printChar` makes before it draws, `Place` where it then draws, `Deleted` where
  a backspace goes.
* `Console` - keyboard and screen with the two programs that use both: the shell inside
  `gets`, and a command that copies its input to the screen, in the foreground or as the
  first of a pipe in the background, where its stdin is still the keyboard. `Caret`, the echo
  of a key with Ctrl, is drawn, or goes into the pipe of the process interrupted. `misplaced`
  remembers that a backspace has gone back over the start of a line, after which `NextToErase`
  need not hold.
* `Philosophers` - `phylo.c` at the grain of one access to a shared variable or one system
  call; `main` and each philosopher are processes preempted anywhere. `upset` remembers
  which moment of the philosophers the main program has hit: "section" (a removal while
  somebody is inside the mutex), "eater" (of one who eats), "joined" (it makes two eaters
  neighbours), "parted" (a new philosopher sits down between one who waits and the one it
  waits for), "newcomer" (a new philosopher goes for its forks before it is counted).
* `Userland` - the programs of `4_Userland` that need nothing from the kernel but what the
  modules above have: a behaviour runs one of `Snake` (`snake.c`), `CommandLine`
  (`getCmdInput`, `fillCommandAndArgs`), `Numbers` (conversions of `strLib.c` and
  `stdLib.c`, `time`, `mem`, `convert`), `TestSync` (`testSynchro.c`), `ProcessList`
  (`ps` and `block` over the array of `processStatus`, which has no cell for the end mark of a
  full table), `KernelTests` (`testProcess.c`, `testPriority.c` and a user who meddles) and
  `Filters` (`cat`, `wc`, and `filter` with its array of `BUFFER_SIZE`).

Each of these modules has its own initial predicate and next-state relation; none shares a
variable with another, so that a run of one program at a time loses nothing.

## Runs

| run | instance | shows |
|---|---|---|
| `scheduler_races` | 4 slots, one priority, Ctrl-C, ticks between any two accesses to the table or to `size` | types; init and the shell are never removed; a terminated process is final; the CPU runs the one RUNNING process; `size` covers the table; refinement of `ProcessLife` |
| `scheduler_turns` | 4 slots, one priority, both kinds of exit | no starvation |
| `scheduler_live` | 4 slots, 2 priorities, a shell session | every `waitPid` returns |
| `scheduler_reuse` | a creator in the background | **violated**: `waitPid` may remove a live process in a reused slot |
| `semaphores` | 3 pids, kills and reuse, a mutex or a semaphore posted by anybody | mutual exclusion; an opened semaphore exists; refinement of `FifoSemaphores`; waiters get in |
| `memory_manager` | both builds, heap of 144 bytes, requests of 0, 24, 25, 57 | blocks tile the heap; `used_mem` is right; a request fails only when nothing fits; refinement of `Allocator`; up to the first call in the middle of a `my_free` |
| `pipe_pipeline` | a ring of 3 cells, up to 6 bytes, both kinds of exit, Ctrl-C, Ctrl-D and Ctrl-S echoed into the pipe, at any moment but inside the writer's preemptible exit | bytes and EOF in order, tokens fill the ring, no lost wake-up inside a system call, the pipe is freed unused, the shell gets its prompt back, the pipeline ends |
| `pipe_return` | a writer that returns from main | **violated**: preempted with a spinlock taken, it leaves the reader spinning with interrupts off |
| `philosophers` | up to 4 philosophers, added and removed at any moment | neighbours do not eat together, forks are not counted twice, no lost wake-up, the hungry eat |
| `philosophers_table` | the same, every moment of a removal | **violated**: a removal seats two eaters side by side, and phylo prints its alarm |
| `console` | a ring of 2 keys, lines of 2 characters, 2 by 2 glyphs of text, scale 1 | keys are read once and in order, nobody sleeps on a key, the line shown is the line held, text stays inside, EOF ends the command |
| `userland` | one program per behaviour | the board is sound; lines are parsed; nothing is left behind; numbers survive a round trip; the local time is right; tsem ends with 0; ps finds the end of its list and block its process; ts and tp agree with the kernel; the filters tell the text |

Four slots are init, the shell and two user processes: enough for a slot to be
reused while its old pid is still awaited, for an orphan, for a process between two
others in the scan, and for a Ctrl-C that hits a third process. With one priority
the quantum is 1 or 0, so both branches of `getNextProcess()` occur; two priorities
distinguish processes by their quantum. In `scheduler_races` a removal under way in a saved
context, a second one of the same slot, and a loaded value of `size` that is out of date all
occur, so that `harm` takes each of its values.

For the semaphores, three pids let one be killed in the middle of a queue, and a ring of
four cells has indices that wrap but, as in the kernel where init never waits, never
fills up. `MaxValue` and `MaxUsing` cap the value of a signal and the use count, which
grows with every process that is killed before it closes what it opened. `BlocksWaiters`
is FALSE: the shell's `block` is not used on a process in `semWait`. With it `semWait`
returns without a token (`synchro.c:178`), and mutual exclusion is lost; the hazard is
listed without a property.

In a heap of 144 bytes the list splits into up to seven blocks; the buddy heap uses 128 of
them, so its `max_order` is the rounded-down one, and has three orders. 24 and 57 fill a
buddy block exactly and by one byte too much, 0 is refused by one heap and served by the
other. `WORD` stands for 2^32: requests near it, for which the sums of `my_malloc` wrap,
are excluded (`RequestAssumption`). One `my_free` at a time is under way with interrupts on: a
second one would be a call in the middle of the first.

In a pipe, six bytes make a ring of three wrap and fill up, so that a write blocks in its
middle, and let EOF meet a full ring; pids are not reused, and the reader is a program
like `cat` or `wc`, which reads until EOF. Init's context can only kill the reader then:
the Ctrl-C that makes init overwrite an unread byte needs a reader that neither reads
nor exits, and is not reached. The bytes echoed into the pipe count among those the writer
has stored; once there are more than `MaxBytes`, no further key is echoed into it. Keys that
interrupt the writer inside its preemptible exit are followed only where they hang the machine:
the echo then spins, with interrupts off, on a spinlock its own process holds (`EchoSpins`,
`pipe_return` shows the same without a key).

Four philosophers are the first table with two who are not neighbours, so the first in which
a removal can make them so. `Followed` cuts a behaviour off after the main program has upset
the philosophers in a way that the run does not follow: the properties name, for each kind
of harm, which of them may fail after it. `HungryEat` is stated for at most three: in a
ring of four, the two neighbours of one philosopher may eat by turns for ever.

In the console, two keys fill the ring (it reads as empty then, and is dead for good: the
property says so), two characters per line make every second one wrap, and a text area of two
lines scrolls. `MaxFeeds` caps how far newlines push the cursor below the last line; no key is
pressed while there are more than `MaxTokens` tokens; and in the top line, where the code's
unsigned `currentY` wraps around, the model's cursor stays. Where the code reads memory it
has not written - a `char` in an `int` that `sys_read` fills in part - every outcome is allowed.
What the second command of a pipe prints is printed with what the first reads. The echo of a
key with Ctrl is drawn or not, as the process interrupted writes to the screen or to a pipe.
`LineIsWhatIsShown` leaves out lines in which something else was printed or a character that is
not drawn was put (`smudged`). A backspace over the start of a line is not left out: the property
says that it clears a place in the right line, less than a column from the glyph, and from then on
(`misplaced`) only that there are as many glyphs as the line has characters, since every later
backspace of that line is off too.

In `userland` the board is 4 by 4 and `MaxScore` is beyond its last free cell, so every game is
played to its end; food appears in any free cell, since `random.c` takes it from the tick. Lines
have up to six characters, each one that matters to the shell or a letter, and may be cut into
`MAX_ARGS` arguments and more. An int has 8 bits and every one of them is converted; a unit
of memory is 4 instead of 1024; texts of a number have leading spaces. Five slots let `ts` run
out of them, a `ps` be several rows behind a list that shrinks and grows, and the table be full,
when the end mark goes behind the array; `block` is asked for a pid that may be there (3) and for
one that cannot (5). Texts of the filters have up to five characters, and `filter` has an array
of four cells, which nothing keeps it inside.

Fairness: the timer goes on interrupting (`WF_vars(TimerTick)`) and the CPU goes on
executing the kernel code it is in (`WF_vars(KernelStep)`), which `NoStarvation` rests on. `WaitReturns` also
assumes that a child that gets the CPU again and again does exit in the end
(`ProgramsExit`, strong fairness because it loses the CPU in between). It is stated for
children that leave through `sys_exit`: one that returns from main may be preempted in
`myExit` before it wakes its parent (`scheduler.c:274`), and the parent then sleeps for ever.
No starvation is checked for programs that do not call `nice`: `setPriority` refills the
quantum of its target (`scheduler.c:224`), so a process that renices itself in time is never
preempted.

`WaitersGetIn` assumes that a process made READY runs (`NoStarvation`) and that the
holder of a mutex posts it while it is not blocked from outside. A holder that is killed
takes the token with it: `synchro.c` does not know who holds a semaphore, so the property
excludes that case explicitly (`lost`).

`PipelineEnds` assumes that READY processes run and that programs go on: the writer
writes or exits, the reader reads, and an interrupt handler goes on after its echo
(`EchoedKill`). It is stated for a writer that calls `exit`: one that
returns from main may hang the machine (`pipe_return`) or lose its wake-up. It excludes
Ctrl-C, because a Ctrl-C in the reader's context of a full pipe blocks the reader, which
alone could make room; `ShellWaitsForSomebody` shows that a second Ctrl-C helps.

`HungryEat` assumes that each philosopher and a main program that is not at its menu go on
(`NoStarvation`); the user need not type. `EofEndsCommand` assumes that a command that can go
on does, and nothing of the user.

`size++` and `size--` load, compute and store at -O0. A store that overwrites an update made
since its load leaves `size` wrong for good; two of them bring it to 0 with live processes, and
`schedule()` stops switching. That is `harm = "lost"`, and `CpuRunsItsProcess`, `SizeCoversTable`,
`ImplementsLife`, `NoStarvation` and `WaitReturns` are stated until it happens; `TypeOK`,
`UnkillableStay` and `TerminatedIsFinal` survive it.

Deadlock is not checked where a system may really stop: after the shell's prompt has come
back (`Pipe`), after a philosopher has divided by an empty table's zero or phylo has left
(`Philosophers`), and after a program of `Userland` is over.

## Proofs

`SchedulerProofs` proves `Spec => []TypeOK` for every number of slots, priority
range and program. `TypeOK` is not inductive: a removal in progress (`cpu.arg`, or the
same in a saved context) could name init, whose slot `schedule()` must find. `IInv`
adds what is on every saved stack, that init and the shell are the only unkillable
processes and keep their slots, and the two phases before and after `initMain`. It
is a predicate of a table, a current pid and a context (`GoodState`), because a
handler builds a table and a context and then gives both to `schedule()`:
`ScheduleGood` is proved once and used by every action. The assumptions are those of
the modules: 2 to 254 slots (`size` is a `uint8_t`), a positive number of
priorities, and programs in which init makes no system call and the shell does not
exit.

It also proves `UnkillableStay` and `TerminatedIsFinal`. The second needs
a second invariant, `FInv`: a process is TERMINATED exactly while the CPU or its saved
stack is inside `myExit`, hence no call of its own can be under way.

The proofs of `SizeCoversTable`, `CpuRunsItsProcess` and the refinement `ImplementsLife` come in
that order, because each rests on the one before. `Counted` is the bookkeeping of
`size`, until a race does harm: it covers the slots in use and the decrements that somebody who
still runs has to make for a slot already empty (`Owes`; a process preempted in its `myExit` never
makes its own), but for a shell that `initMain` has stored and is still to count (`Owing`). `Held`
says that a removal under way names a slot in use, and init's one that no other names. So a
handler never gives `schedule()` a count of 0 once there is somebody to choose (`NeverZero`), and
since init is READY or RUNNING the circular scan finds somebody (`SomebodyNext`). `OneCpu` then
says that outside the tail of a `myExit` or of a removal (`Off`) the current process is the one
that is RUNNING. It is inductive only with
`NoSelf`: nobody is his own parent or waits for himself, so the tail of `waitPid`, which
removes a slot without looking at it, cannot remove its caller. `Slight` and `Changed` name
what a handler may do to a slot before it calls `schedule()`; `Arrows` shows that the two
together make one arrow of `ProcessLife`. `CInv` and `LInv` are the two invariants.

`SemaphoresProofs` first proves what the operators of `WaitRing` do to what is in a ring,
wherever its indices are: `AddedAtEnd`, `PoppedFirst`, and `WithoutCloses`, in which the loop of
`remove_process_from_queue` is shown to move exactly the later entries (`ShiftsTheRest`).
It uses them for `MutualExclusion` and `OpenersKeepIt`. The invariant `IInv`
adds to the types that a process holds and waits for what it has opened (`ClientsOK`),
that whoever is in a ring is blocked in `semWait` of that name (`RingsOK`), and the
conservation of tokens (`OneToken`): a mutex of value 1 has no carrier, one of value 0 at
most one, a carrier being a process that holds it or has been woken with it. Each needs the
others: a post gives the token to a process that is in the ring, which must not carry one
already; a reopened name has value 1, so nobody may carry the token of its predecessor, which
`OpenersKeepIt` says. The theorems assume `RoomInRings`, fewer processes than cells (64
slots, of which init never waits), and `~BlocksWaiters`. `NullIsNoSemaphore` only says that
NULL is not one.

It also proves, under the same assumptions, that `Semaphores` implements
`FifoSemaphores`: `ContentsAre` to `WithoutIsDropped` carry the operators of a ring over to
`Append`, `Tail` and `Dropped` on what it holds, and each call is then one abstract action or
none. It needs `IInv` twice: `semWait` queues a process that is in no ring already, and the
user whose `semClose` frees a semaphore is the only one, so nobody waits (`NobodyWaits`).

`ConsoleProofs` proves `TextStaysInside` for every geometry of the screen whose width takes
one glyph between the margins (`ColumnAssumption`), every scale and every `MaxFeeds`: that
the cursor has coordinates is inductive, and the rest is arithmetic of one `printChar`. The
right margin is kept at every scale; the bottom one is kept at scale 1, and at a larger one
passed by at most `CHAR_HEIGHT * (fontScale - 1)`, because the test before the scroll has no
`fontScale` (`videoDriver.c:55`). The newlines below the last line that the code does not scroll
away are left out beyond the first.
It proves `StdinIsFifo` for every size of the ring: `KeysOK` says that the indices are as far
apart as the ring has keys, modulo its size, so that the key pushed goes behind the others and
the key popped is the first.
It proves `LineIsWhatIsShown`: the glyphs of the line form a chain in which a backspace goes from
each to the one before (`LineOK`), which a wrap begins anew and a scroll moves as a whole; over
a wrap, the place `deleteChar` computes is compared with the last column. And it
proves `NoReaderSleepsOnKeys`: until the ring has been full, keys and EOF together are at most the
tokens in the semaphore and those that woken readers hold (`TokensOK`); a killed reader posts a
token, its own or one too many, never one too few (`TokensCleanup`).

`UserlandProofs` proves `WalksEnd` for any number of slots and of walkers: what has been
filled since a walker's listing is a prefix of the array, and its last end mark is not before
the entry the walker looks at (`WalkersEnd`, as long as no end mark has gone behind the array);
`block` finds its process because every process has an entry in a listing that nobody has
overwritten (`EveryoneIsListed`, `BlockEnds`). It proves `FinalIsZero` for any number of workers and rounds:
with the semaphore one worker at most is inside (`SectionOK`), so what it has read is still the
number when it writes, and the number is the updates of the adders less those of the takers
(`NumberOK`), each update being a pair of a worker and a number. That the semaphore is destroyed
and made again in the middle does no harm, because `users` is the number of those who have it
open. It proves `BoardIsSound` on a grid of any size: `SnakeInv` follows a key through the two
moves it makes, after each of which the head is where nobody has looked yet (`Checked`), and
shows that `checkCollisions` finds whatever the head has run into (`CheckFinds`). It proves
`TestsAgreeWithKernel` for any size of the table and any number of processes: the slots of init,
the shell and the test are never given away (`TableSound`), so `killProcess` takes one slot and
nothing else (`KillSound`); two processes that `ts` has on record as alive have different pids,
and every process of the test is on its record (`RecordOK`); those `tp` has not killed are at its
index or behind it (`LeftOK`).

It proves `NothingLeftBehind` for lines of any length: the programs that run are those started
before the current one, and while the shell waits, those from it on (`LineInv`).

It proves `LineIsParsed` for lines of any length. The reference counts the words before each word
to put them in order; `WordsByBegin` replaces the count by any increasing list of the places where
words begin. `ParseInv` says of the command that is scanned what was found before the current
place (`Found`, `Complete`): its arguments in their order, blanks that are '\0' now, no '&' that
ends a word; of the other command that nothing was cut yet (`Skipped`) or that it is over
(`Ended`), at the first '&' that ends a word or at the end of the text. A step on one command
changes no cell of the other (`OtherIsKept`). `PartsAreWords` then shows that the strings that
begin at the command and its arguments are the words, and `OverflownIsLong` that a command with
too many arguments is one of those the property leaves out.

The proofs about `Filters` and `Numbers` are about recursive functions. Each recursion has the
value of its body only if some function does, so it is shown that one exists, that two of them
agree, and then what
the operator is for a text with one more character (`EditedBy`, `VowelsBy`, `ValueBy`) or a number
with one more digit (`DigitsBy`, `PowerBy`). With these, `FiltersTellTheText` holds because what
`filter` has kept is at each moment what the reference keeps of the text as corrected
(`FilterGrows`), which needs that a space would be kept next just when the last thing kept is a
vowel (`OpenEnds`), until the array of `filter` is full. `NumbersRoundTrip` holds for ints of any width: `Written` says that the digits of a number,
turned round, have the value of the number in any base; `IntIsSigned` and `SignedIsRead` follow,
with `IntStays`, that the ints are a range on which `Int32` changes nothing, and `MemClose`.
`stringToInt` skips leading spaces and `satoi` does not, so they agree on texts without them
(`Unspaced`). For
formats, `CharacterPrints` follows the buffer, the next argument and whether a character has been
taken, against `Specifiers`, which says by the parity of the run of '%' in front of a character
whether it is one. `LocalTimeIsUtcMinus3` comes from a table of the days before each month
(`CalendarIs`); `ThreeHoursBack` says the same of every clock, and not only of those in `Calls`.

`PipeProofs` proves the five safety properties of `Pipe` for rings and writes of any size,
either kind of exit, and Ctrl-C at any moment but inside the writer's preemptible exit, with the
echo before it. One invariant, `IInv`, has a part per question,
and each part needs the others. `JobInv` and `ShellInv` say what a process can be doing while
the shell is where it is. `QueueInv`: nobody is twice in a queue, who is in one sleeps there or
is about to, and a queue is empty while its semaphore has tokens. `RoomInv`: the tokens, with
those that runnable processes hold (`Held`) and the one that `send_pipe_eof` still owes the
reader (`Owed`), never exceed the free cells or the bytes; this is an inequality because a
kill loses tokens. `TokenInv` is the equality that holds until then. `StreamInv` says what byte
is in which cell, counted from the oldest (`CellAt`), and that EOF is in the pipe only when the
writer has stored it (`EofStored`). `SleepInv` follows the sleepers. A post is treated once, in
`PostQueues`, `PostHeld`, `PostTokens` and `PostSleep`, for the four places that end in one.
The only assumption added to those on sizes is that NULL is not the name of a process.

`PhilosophersProofs` proves `NeighboursNeverEat`, `EatersWereServed` and `WaitsForAnEater` for a
table of any capacity. The invariant `TableInv` is the part that the first two share: who is in
the mutex, how far the main program is with a seat, that a token of a fork semaphore belongs to
a philosopher who was served (`ServeInv`), and that a served one was fit to eat when it was
tested. Each of the harms in `upset` breaks some of it, so the parts are stated under the harms
they survive (`Spared`). `HungryInv` adds, for `WaitsForAnEater`, the tests that are still to
come: a hungry philosopher without forks has a neighbour that eats, or one that is on its way
to test it. The ring is modular arithmetic with a size that changes; `left` and `right` are
shown to be inverse to each other, and to change only at the seats beside the last one.

`MemoryManagerProofs` proves, for both builds and for heaps, headers and requests of any size,
`BlocksTileHeap`, `UsedIsCounted`, `RoomIsFound` and that the build implements `Allocator`, with
any `my_free` interrupted and until a call comes in the middle of one. In the
default build the invariant `Sound` says that the blocks follow each other through the heap
(`Tiles`), that no two free ones touch (`Coalesced`), which `RoomIsFound` rests on, and that the
blocks in use hold what their clients asked for. The pass of `my_free` is a recursive function
over the list; that there is one is shown by its least counterexample (`Least`, `UpTo`,
`PassExists`), and `PassMerges` carries along it that a prefix of the list, merged, covers the
same bytes, leaves the used blocks alone and has no two free blocks side by side. The sum in
`UsedIsCounted` is a recursive function over a set: `TotalTakesAny` shows that the order of its
members does not matter, so that a member more or less counts for its weight (`TotalAdds`).

With `USE_BUDDY` blocks are 2^order bytes and begin at a multiple of that, so the proof starts
with powers of two (`PowIs`, `PowDivides`, `Log2CeilIs`), again a recursion whose solution is
shown to exist. `Exchange` replaces blocks by others for the same bytes; `Halves` and `BuddiesAre`
say that a block and its buddy are the halves of the next larger one, whence `SplitCovers` and
`MergeCovers` for any number of splits and merges. The invariant `BuddySound` says that free
blocks and those in use tile the heap (`Covers`), that each list has a block once, that no free
block has a free buddy (`NoBuddies`), and that a block in use holds its header and what was asked
for. `RoomIsFound` needs `NoBuddies`: if all bytes of an aligned block are free but no free block
is as large, the smallest free block that meets it would have a free buddy (`RoomThere`). The
assumptions are the sizes: a header smaller than half the range of `uint32_t`, and requests whose
sums do not leave it (`RequestAssumption`).

`WaitQueueProofs` has what four of these need of a queue kept as a sequence: what it holds after an
`Append`, a `Tail` and `Without`; and the least number and the bounded induction that `Least` and
`UpTo` state for sets.

Left to TLC: liveness and what it needs of fairness. A `SelectSeq` with a `LAMBDA` is out of the
provers' reach, so what is taken out of a queue or a free list is taken out by a function of its
place (`Without`, `Unqueued`, `Unlinked`).

## Abstractions

* A system call with invalid arguments changes nothing and is not a step; nor is
  `addProcess` when memory runs out.
* Within a step of the code that runs with interrupts on, the reaper's and the wake-up's tests
  of one slot are taken together, and so are `setPriority`'s two stores.
* Tick counters, names, arguments and the sleeping list (which is never filled) are
  left out. The cleanup of semaphores, pipes and stdin belongs to those modules.
* User processes are created killable: every caller in `4_Userland` passes 0.
* The programs take any branch that depends on what the model does not keep: which character
  a letter is, what is drawn, which random number comes.

## Where behaviours are left

The code has races and boundaries after which what happens depends on the instruction, on the
heap or on what lies behind an array. The models contain the step that gets there and record it;
the properties are stated up to it:

* a slot removed a second time, or its freed record reused, before it is emptied
  (`scheduler.c:422-423`; `harm = "crossed"`), and a lost update of `size`
  (`scheduler.c:124`, `424`; `harm = "lost"`);
* a call of the memory manager in the middle of a `my_free` that runs with interrupts on
  (`memoryManager.c:76-85`, `buddyMemoryManager.c:206-222`; `disturbed`). A block freed twice,
  by a process preempted in its own `destroyProcess` and by whoever reaps it, comes after such
  a call or is one;
* a key with Ctrl that interrupts the writer of a pipe in its preemptible exit, beyond the hang;
* the cursor after a backspace over the start of a line (`videoDriver.c:96-104`; `misplaced`), and
  a second newline below the last line, which one `printChar` does not scroll away;
* the end mark of a full table, which is written behind `processInfo` (`scheduler.c:257`;
  `overrun`), and `block` for a pid in no entry, whose loop has no other end
  (`shellFunctions.c:480`): past the array a walk may read anything;
* what `filter` keeps beyond `vocales` (`shellFunctions.c:559`; `spilled`);
* the table of philosophers after a harm that the run does not follow (`upset`), and a `ts` that
  ends because no slot was left, with its children still running (`testProcess.c:38-40`).

## Not modelled

* Boot, the loader and the image tools: straight-line initialisation, or vendored.
* Exceptions, which dump the registers and restart the shell's code at a fixed address: what
  is left of the interrupted process is not defined by the code.
* The clock, the sound, pixels and fonts: input and output without control of interest.
  The sleeping list of `time.c` is never filled.
* `testMM.c` and the memory manager's unit test: their requests are among those of
  `MemoryManager`.
* The shell's commands that only print, the string helpers that scan or copy, `piano.c`,
  `spotify.c`.
* phylo killed from the shell, which leaves its philosophers alone at the table.
* The table of 64 pipes with a `createPipe` that fails half-way, and pipes with more than one
  writer or reader, which the shell never makes.

## Plan

A `Console` with a pipe between its two commands instead of one that stands for both, and the
table of pipes with a `createPipe` that fails.
