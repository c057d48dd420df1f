# BobOS in TLA+

BobOS is a teaching kernel for x86 machines with several cores. The repository
holds six stages of it, each a complete kernel: `p1_critical_section`,
`p2_heap`, `p3_heap`, `p4_cooperative_multithreads`,
`p5_preemptive_multithreads_and_synchronization` and `p6_file_system` (`p7` and
`p8` are empty at this commit). This directory models the parts of these
kernels in which several cores, an interrupt, a device, a crash or a long series
of calls can go wrong, checks the models with TLC on small instances, and proves
the most important facts about them with TLAPS for every number of cores and
threads and every disk.

`PROJECT.json` is the index: the components, the runs, for every definition the
lines it stands for, for every property a mutation of the code that breaks it,
the hazards, the findings and the theorems.

    tlc -workers 2 -config Threads.cfg MCThreads    # a run
    tlapm KThreadsProofs.tla                        # a proof module

## 1. The system

### Parts, their state and operations

| part | state | operations |
|---|---|---|
| boot sector, all (`mbr.S`) | the sector it reads, the segment it reads to | loads the kernel, asks for the memory, goes into protected mode |
| boot, all (`mbr.S`, `init.cc`, `smp.cc`, `idt.cc`) | `onHypervisor`, `SMP::started`, `smpInitDone`, `all_here`, `howManyAreHere`, the interrupt table | one core sets up, starts the others, and each comes to `kernelMain` |
| machine tables, all (`config.cc`) | `Config`: APIC ids, the I/O APICs | search for the root pointer and the MADT, the walk over its entries |
| critical sections, p1 (`critical.cc`) | one spin lock, a counter per core | `critical_begin`, `critical_end` |
| first-fit heap, p2 and p3 (`heap.cc`) | tagged blocks, a free list | `malloc`, `free`, `merge` |
| best-fit heap, p4 to p6 (`heap.cc`) | an array of ints, the list of available blocks, `heapLock` | `malloc`, `free` |
| threads, p4 | `readyQ`, `zombieQ`, `active`; a flag in the save area | `thread`, `yield`, `stop` |
| threads and semaphores, p5 | the same, `blockQ` per semaphore, interrupts | the same, `apitHandler`, `Semaphore::up`, `down`, `block` |
| threads, p6 (`threads.cc`, `threads.h`, `context.s`, `queue.h`) | `readyQ`, `zombieQ`, `activeThreads`; per thread a stack, a save area and the flag `leaveMeAlone` | `thread`, `yield`, `stop`, `block`, `reaper`, `contextSwitch` |
| timer, p5 and p6 (`pit.cc`) | interrupt flag of each core | `apitHandler`: `yield()` for whoever runs, every millisecond |
| semaphores, p6 (`semaphore.cc`) | `count`, `waiting`, a lock | `up`, `down` |
| bounded buffer, future, barrier, p4 to p6 (`bb.h`, `future.h`, `barrier.h`) | a ring; a value; a count; semaphores | `put`, `get`; `set`, `get`; `sync` |
| BobFS, p6 (`bobfs.cc`) | on disk: superblock, two bitmaps, i-nodes, blocks; in memory: the root's i-number, `Node` objects | `mkfs`, `mount`, `newFile`, `newDirectory`, `linkNode`, `findNode`, `read`, `write`, `writeAll` |
| IDE driver, p6 (`ide.cc`) | the registers of the controller, two drives | `readSector`, `writeSector`, and `readAll`, `writeAll` built on them |
| console, all (`debug.cc`, `snprintf.cc`, `u8250.cc`) | the serial line, a lock | `printf`, `debug`, `panic`, `shutdown` |
| test programs, all (`t0.cc`, ... and their `.ok` files) | their own | `kernelMain` and the threads it makes |

### How they interact

Cores share memory; there are no messages. A thread is not bound to a core: it
gives its core away in `contextSwitch`, which saves it, loads the next one, and
clears the flag of both, and any core that takes it from `readyQ` later goes on
with it. A timer interrupt runs `yield()` on the stack of the thread it
interrupts. Semaphores call `block()` and `schedule()`; buffers, futures and
barriers call semaphores only. `thread()` and `delete` call the heap; in p4 and p5
`yield()` itself does. BobFS calls the driver, which calls `yield()` while it
polls. Everybody prints, under a lock that a timer may interrupt.

### What is hard about it

* *Interleavings.* `yield()` tests and sets `leaveMeAlone` with interrupts on and
  without a lock; a thread is in `readyQ` before it is saved; `up()` may find a
  waiter that has not left its stack; a thread can meet itself in `readyQ`.
* *Stale reads.* `activeThreads[SMP::me()]` is written before the switch, and a
  core number is out of date once interrupts are on.
* *Memory.* A stopped thread's stack is deleted by another thread.
* *Order.* What the boot sets up must be there before the next part of it, another
  core or an interrupt uses it. The firmware's tables come in any order.
* *Devices.* The driver polls a drive that is in no hurry.
* *Crashes.* One `write()` to a file is up to eleven writes to the disk.
* *Limits.* A full disk, a hole in a file, a block too small to split, a kernel
  too long for the memory, the last of the threads at a barrier.
* *Progress.* Whether each ready thread runs depends on who is in `readyQ`, in
  which order, and whose flag is up; whether a lock comes free, on who may be
  interrupted under it.

`PROJECT.json` lists the hazards one by one with the line where each bites and
the properties that would catch it, or a note that says why none does.

### What makes each part correct

* threads: no stack has two cores on it; only a saved thread is loaded; a thread
  is in one queue or one pair of hands; none is lost; a stopped one never runs
  and is deleted after its core has left; each thread runs again and again
* semaphores: a count or waiters, never both; waiters are served in their order
* buffer: items come out once, in order, whatever the producers and consumers do
* future and barrier: nobody passes early, everybody passes
* heaps: blocks tile the memory, the free ones are exactly those in the list,
  live ones are apart and keep their contents, malloc fails only for lack of room
* BobFS: a block has one owner and is marked; entries lead to nodes and are found;
  directories are a tree; links are counted; files hold what was written; crashes spare
  this, but for what stands in a directory behind an entry they tore
* driver: a call moves the bytes it was asked to, touches no others, and returns
* critical sections: one core at a time
* boot: each core on a stack of its own; nothing is used before it is set up; no
  tick comes without a handler; every core arrives
* console: lines come out whole, as C formats them, and nobody waits for ever
* tests: in every order of their steps they print what their `.ok` file says

## 2. The modules

| module | what it is | stands for |
|---|---|---|
| `KThreads` | threads, timer, reaper, semaphores; two levels of context per stack | p6 `threads.cc`, `context.s`, `semaphore.cc`, `queue.h`, end of `init.cc` |
| `PreemptThreads` | the design before it: `yield` and `stop` with interrupts off, who deletes whom | p5 `threads.cc`, `context.S`, `queue.h`, end of `init.cc` |
| `PreemptSems` | semaphores and `block()` on `PreemptThreads` | p5 `semaphore.cc` |
| `CoopThreads` | cooperative threads | p4 `threads.cc`, `context.S` |
| `Threads` | abstract: cores that run threads which wait, wake and stop | what `KThreads` and `PreemptThreads` implement |
| `KThreadsInv` | the inductive invariant of `KThreads`, in named parts | - |
| `KThreadsProofs` | its proof, and that of the refinement of `Threads`; what `PreemptProofs` gives for the run `threads` | - |
| `PreemptProofs` | the invariant of `PreemptThreads` and its refinement of `Threads`, proved | - |
| `Semaphores` | `up` and `down` as a caller sees them, waiters in order | p6 `semaphore.cc` |
| `BoundedBuffer` | the ring, step by step, over `Semaphores` | p6 `bb.h` |
| `Channel` | abstract: a bounded queue of items | what `BoundedBuffer` implements |
| `Rendezvous` | a future and a barrier over `Semaphores` | p6 `future.h`, `barrier.h` |
| `SyncProofs` | the ring's invariant and its refinement of `Channel`, and both properties of `Rendezvous`, proved | - |
| `Heap` | `malloc` and `free` on the array of ints | `heap.cc` of p4 to p6 |
| `FirstFit` | `malloc`, `free` and `merge` on tagged words | `heap.cc` of p2 and p3 |
| `BestFitSteps`, `FirstFitSteps` | the same a write at a time, several callers under the lock | `heap.cc` of p5 (p4, p6) and of p3 (p2) |
| `Allocator` | abstract: disjoint live blocks; `GiveUp` only when no gap would do | what `Heap` and `FirstFit` implement |
| `HeapProofs` | the invariants of `Heap` and `FirstFit`, that they implement `Allocator`, and that the calls of `BestFitSteps` and `FirstFitSteps` are theirs, proved | - |
| `BobFS` | the disk write by write, crashes | p6 `bobfs.cc` |
| `BobFSProofs` | its blocks, contents, directories and superblock, and that it implements `Files`, proved | - |
| `Files` | abstract: files and directories as their users see them | what `BobFS` implements |
| `Layout` | where BobFS puts each byte, with proofs; the search's generator | p6 `bobfs.cc`, `bobfs.h`, `random.h` |
| `Ide` | the driver, register by register, and the drive as a process | p6 `ide.cc` |
| `Disk` | abstract: ranges of bytes, moved sector by sector | what `Ide` implements |
| `Loader` | the boot sector, 16-bit segments, the way into protected mode | `mbr.S` |
| `Startup` | `kernelInit` of p2 to p6 on several cores, the tables, the vectors, the timer | `init.cc`, `config.cc`, `smp.cc`, `idt.cc`, `pit.cc` |
| `Kernel` | `Loader`, `Startup` and then `Ide`, composed | p6 from the reset to a `kernelMain` that uses a drive |
| `KernelProofs` | the invariants of the boot and of the driver, what they give, and that `Ide` implements `Disk`, proved | - |
| `Critical` | boot of p1 and the nested sections | p1 `mbr.S`, `init.cc`, `critical.cc` |
| `CriticalProofs` | mutual exclusion in `Critical`, and that the locks of both heaps keep calls apart, proved | - |
| `Printf` | `vsnprintf` as an operator, and what C says of the same format | `snprintf.cc` |
| `Console` | print, heap, timer and switch under the locks of p4, p5 and p6 | `debug.cc`, `u8250.cc`, `atomic.h`, `heap.cc` |
| `Programs`, `TestPrograms` | an interpreter of small texts, and the tests as texts | tests of p1, p4, p5; `bb.h`, `barrier.h`, `future.h` of p4 and p5 |
| `HeapTests` | the tests of the heap on `FirstFit` | tests of p2, p3 |
| `FileTests` | the tests of the file system, a call in one step, to the byte | tests of p6 |

`MCThreads`, `MCKThreads`, `MCKThreadsFair`, `MCHeaps`, `MCBobFS`, `MCSync`,
`MCKernel` and `MCPrograms` give
them their constants (the runs of `CoopThreads` and `PreemptSems` need none). Where one of them holds several specifications (threads
of p6 and p5; the two heaps, each as whole calls and as steps; buffer, rendezvous
and console; sections and tests), a behaviour is one of them, chosen at the start,
and the others stand
still: the states of the run are the sum of theirs, not the product.

### How state and steps correspond to the code

A step is one access to memory that another core, or an interrupt, can see
between its neighbours, or one section under a lock that keeps both out. So
`Queue::add` and `remove` are one step (their lock is taken with interrupts
off), and so are `up()` and `down()` up to their unlock; the test of
`leaveMeAlone`, its assignment, and the two assignments at the end of
`contextSwitch` are steps of their own.

**`KThreads`.** `pc`, `me` and `nxt` are per *context* `<<thread, level>>`: level
0 is the thread, level 1 the frame of a timer interrupt on its stack.
`Interrupt` is enabled whenever the core's flag is set, so it falls between any
two steps. `sp[c]` is the thread whose stack core `c` is on, `active` is
`activeThreads`, `context[t]` is the save area (with interrupts on, off, or
`"stale"` when the thread is not saved), `prev[t]` is the register that holds
the old thread until its flag is cleared. `stopped` is a history variable. A user
thread may do anything at any time: yield, stop, make a thread, `up` or `down`.
From `cli` to `popf` `contextSwitch` is one step.

**`PreemptThreads`.** In p5 `yield` and `stop` turn interrupts off first and stay
on their core, so what they do next is the core's (`pc[c]`); what a thread does
when it is back is the thread's (`at[t]`). `Work` is a thread's own time:
anything a user may call. `PreemptSems` adds `block()`, in which the thread lets
interrupts in and may go on on another core: there the step belongs to the thread.

**`CoopThreads`.** `flag` is `save_area[5]`. `Save` and `Load` are the halves of
`contextSwitch`; the last point at which the old stack is used is `Save`.

**`Semaphores`.** `Down` puts a thread in `waiting`; it is blocked while it is in
the list. That this is what the kernel's semaphores do is what
`ImplementsThreads` checks of `KThreads`.

**`Heap`, `FirstFit`.** The words with their headers, footers, links and
sentinels are as in the code, and so is the order of the search; `live` and
`failed` are history. A call is one step. In `FirstFit` a null pointer is
word 0, which the code does write.

**`BestFitSteps`, `FirstFitSteps`.** Why a call may be one step: here it is the
exchange on the lock, a look at a time along the list, and every write in the order of
the code (`todo` holds those up to the next look, `Store` makes one). Callers
interleave as they like, so a thread that is preempted with the lock is covered; a
caller that waits is one that takes no step, and what becomes of it with interrupts
on or off is in `Console`. `before` is the heap when the lock was last given back, and
`Whole` maps it to `Heap` and `FirstFit`. A way out of `malloc` or `free` that
forgot the lock would be a deadlock. A panic of the best-fit heap would be one
too: its guards (`isAvail` in `Find`, `isTaken` in `Measure`) are never false there.

**`BobFS`.** Sizes count words of 32 bits; `BlockWords` is also the number of
pointers in an indirect block. One action per write to the disk: the bitmap,
zeroing a block, a pointer, data, the size. That such a write is one step is
proved in `Layout` for the fields and pointers, which never span two sectors; a
data block is two sectors, so for `ZeroBlock` and `WriteData` the model is
stronger than the drive. The five fields of a new i-node are one step, because nothing
leads to it before its entry does. A block is chosen as the first free one in the
order of the i-node's own generator (`Order`), as `Random` restarts from the
i-number at each search. `CrashAndMount` may fall between any two writes.

`Visits` is the walk of `findNode` and `dump` through a directory, which adds to its
offset whatever word stands where a length should (`AsLength`: how many words of a name
an i-number, a name or a length announces when it is taken for one). Behind an entry
that a crash tore the walk goes on out of step, and a length behind the end is not read
at all, so that any offset may be next (`MayFollow`). `torn` is history: where the
first such entry of each directory begins. What the properties say of entries is said of
those in front of it (`Entries`), and of all if no crash fell into one. Users have
objects of the nodes that `root`, `newNode` and `findNode` gave them (`Held`): of
a misread word too, when it is an i-number. `mkfs` marks bits 0 to 2 of a bitmap whose bit 0 is block 131: three
blocks are never used, which hurts nobody.

**`Ide`.** Each `outb` and `inl` of the driver is a step, and so is each move of
the drive: it takes a command when its register is written, is busy for as long
as it likes, and offers or takes a sector unit by unit. `waitForDrive` is a loop
over the status. A drive keeps its ready bit up: the code looks at it before it
has seen the busy bit go down. Panics need a drive that reports an error and are left out.

**`Loader`, `Startup`, `Kernel`.** Memory is counted in sectors and segments have
16 bits, scaled down; a register that is only joined with another by `|` is the
set of its bits. Each core has a list of steps, those of its stage's
`kernelInit`; what they need and give is what `NothingUsedTooEarly` compares.
The tables are any of those a firmware may leave: `FirmwareAssumption` says what that
is, `McMemories` has some of each kind.

**`Critical`.** `at` is where a core is; `stack` shows the stack it is on, with
`tempStack` of `mbr.S`. There are no interrupts in p1. Calls are balanced, as in
the tests of p1.

**`Printf`.** The conversions are the branches of `snprintf.cc`, on lists of
characters; `Text` is the C standard's reading of the same format. An int has
`Width` bits. A float is a fraction.

**`Console`.** A thread's `frames` are what it is in, the innermost first: a call
under a lock, a `yield` of the timer in it, a `delete` in that `yield`. `yield()`
here always finds a thread to switch to; those that find none are the subject of
`PreemptThreads`. `due` is the history of who got the lock.

**`Programs`.** A test is one text per thread, and an instruction is a step that
others can see. Loops are shorter than in the tests; what a test prints of
cores, and how it shares work among them, is the scheduler's affair and not
compared. In `FileTests` and `HeapTests` sizes and offsets are the tests' own where
they matter (`HeapTests` scales the large ones).

## 3. What is checked

Passing runs, with the bounds that matter:

| run | instance | distinct states | shows |
|---|---|---|---|
| `threads` | 2 cores, the reaper, 2 user threads, 1 semaphore with count up to 1 (p6); 2 cores, 2 user threads, from the boot (p5) | 728 561 | the inductive invariant and the safety of both designs, and that both implement `Threads` |
| `threads_live` | p6, 1 core, 2 user threads behind the boot, 1 from the boot on, fairness | 101 458 | `kernelMain` runs, every thread runs again and again, every zombie is deleted |
| `heaps` | 28 ints for the best-fit heap, 22 words for the first-fit one, requests of 1, 12 and 21 bytes, `CountDown` 2; the same with every write a step, 2 callers | 1 580 692 | the tiling, the lists, the payloads, that both heaps implement `Allocator`, and that calls that overlap are as calls one after the other |
| `bobfs` | 6 blocks, 3 i-nodes, blocks of 2 words, files of 3 blocks, 1 link, 1 crash | 337 142 | ownership, entries, tree, links, what is found, and that `BobFS` implements `Files` |
| `sync` | buffer: 2 producers, 2 consumers, 2 slots; future and barrier: 4 threads; console: 3 threads on 2 cores of p4, p5, p6, a shutdown, a panic with a debug line, some 150 conversions on their own | 181 185 | exclusion in the ring, `Channel`, who passes, that lines come out whole and as in C, that everyone gets through |
| `kernel` | 3 cores, each stage, tables in any order, images of 5 to 16 sectors in a memory of 6; then 24 calls on two drives of two sectors | 341 744 | the order of the boot, its arrival, and that `Ide` implements `Disk` and returns |
| `programs` | p1: 3 cores, nesting of 2; the tests with 2 workers or 3 cores, loops of 2 rounds, 22 words of heap; the sizes of p6's tests as they are | 47 000 | exclusion, stacks, the `.ok` files in every order, that all but one test end |

The properties, by run:

* `threads`: `IInv` (section 4), `OneCorePerStack`, `LoadsOnlySaved`, `OnePlace`,
  `NoLostThread` (who is neither stopped nor on a core is in `readyQ`, with a
  semaphore or in somebody's hands), `NoUseAfterDelete`, `StoppedForGood`, `ImplementsThreads`; for p5
  `OnePlace5`, `NothingDangles`, `ImplementsThreads5`.
* `threads_live`: `EveryThreadRuns`, `EveryZombieIsDeleted`, `KernelMainRuns`.
* `heaps`: `BlocksAndLists`, `PayloadKept`, `ImplementsAllocator`, `CallsAreOneStep`.
* `bobfs`: `BlocksOwned`, `EntriesLeadToNodes`, `DirectoriesAreATree`,
  `LinksCounted`, `SuperblockKept`, `ImplementsFiles`, `EntriesAreFound`.
* `sync`: `RingExclusive`, `NobodyPassesEarly` (neither `get()` nor the barrier), `LinesWhole`,
  `ImplementsChannel`, `EverybodyGetsThrough`.
* `kernel`: `NothingUsedTooEarly`, `TicksAreHandled`, `MainRunsLast`,
  `KernelArrives`, `ImplementsDisk`, `EveryCallReturns`.
* `programs`: `MutualExclusion`, `StacksExclusive`, `PrintsWhatIsExpected`,
  `EverybodyGetsThrough`.

Why these bounds are enough for the interesting cases to happen:

* Two cores and three threads are what every race in `threads.cc` needs: the
  core that gives a thread away, the core that takes it, and the thread that is
  there to be met in between. With two levels of context per stack an interrupt
  may come at every step of every one of them. The start states of `threads` for
  p6 are all those after the boot in which one core runs the reaper; the boot
  itself is in `threads_live`, and the proofs start from `Init`. Cores and user
  threads are symmetric.
* 28 ints make up to six blocks, so a free may join left, right, both or
  neither, and a request may split, fill or fail. `CountDown` is 20 in the code
  and 2 here, so that the early exit happens. 24 words are the least in which a
  block that is merged lies between two others in the list. Two callers are as many as
  any: a third would wait (`CriticalProofs` in section 4).
* Blocks of two words make each directory entry cross a block and each file of
  three blocks use its indirect block. A root, a directory and a file may want more
  than the six blocks, so the disk fills up too. The length of the name is the i-number
  of a node, so a word may be taken for a length and make sense. One crash is enough:
  what it leaves is a state like any other, from which users go on.
* On a ring of two slots producers and consumers wait for slots, for items and for
  the lock. A future and a barrier with four threads have chains of three wakings.
* The console needs one thread with the lock, one that wants it, and one that is
  switched to: three threads on two cores. The conversions are those in which the
  code does what C says, with every flag, width and precision that its branches
  tell apart.
* Three cores let one wait for the other two, and be counted before or after them.
  Of the images one just fits, one is too long for the memory, one wraps around
  the segments, and one has a number of sectors that is 0 in 16 bits. The calls on the drives are a part of a sector, parts of
  two, and two whole ones.

Deadlock is checked in `threads`, `threads_live`, `heaps` and `zombie_dropped`,
and not where the program does stop: in `bobfs*` all files are as long as the
bound allows, in `sync` the meeting is over and the console's calls are made, in
`kernel` the cores are in `kernelMain` or the loader is lost, in `programs` the
tests end, in `coop_zombie`, `starved` and `stale_core` every thread may stop.

### Fairness

* `KThreads` (`threads_live`): a core takes its next step, the timer goes off
  again and again, and a thread that again and again is on a core outside the
  handler takes a step in the end. The last is strong fairness: the tick is a
  millisecond (`init.cc:63`), the handler takes far less, so code between two
  ticks does get on. Nothing is assumed of `readyQ`'s order or of the choice
  between threads: that is the code's own.
* `PreemptThreads` (`starved`): the same, but a thread's own time is its own: it
  need not call anything.
* `BoundedBuffer`, `Rendezvous` (`sync`): a thread that can go on does, and
  threads keep calling. That threads do get on is `EveryThreadRuns`.
* `Console` (`sync`): a core's timer and switch go on, and a thread that is on a
  core again and again takes a step in the end (as above, against the timer). No
  fairness between those who want a lock is assumed.
* `Kernel`: the loader, each core, the driver and the drive go on.
* `Programs` and the like: some thread of the test goes on; which one is left to
  the scheduler. `Critical`: cores run on; the spin lock is not assumed to be fair,
  so only its boot is shown live.
* The heaps and `BobFS`: none is assumed and no liveness is shown.

### What does not hold

Five runs find that the code does not do what a text in the repository says:

| run | what happens |
|---|---|
| `zombie_dropped` | p6: `reaper()` takes a zombie out of `zombieQ`, sees that it met it before with its flag up, and returns: nobody has the thread any more and it is never deleted (`threads.cc:27`) |
| `bobfs_holes` | a write to a block that an earlier write skipped finds pointer 0 and overwrites the superblock (`bobfs.cc:134`) |
| `coop_zombie` | p4: a stopping thread is in `zombieQ` while its core is still on its stack, and another core's `yield()` deletes it (`threads.cc:42`) |
| `starved` | p5: a `yield()` that finds nobody to switch to returns with interrupts off, and the threads its caller makes never run (`threads.cc:103`) |
| `stale_core` | p5: `block()` writes `active[]` of the core it was called on after it has let interrupts in and moved to another (`semaphore.cc:12`) |

The constant `Holes` keeps the second one out of the run `bobfs`, and
`EntriesAreFound` speaks of directories without a torn entry. The first one
cannot happen in `threads_live`: on one core a stopped thread's flag is down
again before anybody else runs, so the reaper never meets it flagged. The runs
`threads` (p5) and `sync` are of threads that do not call `block()` of p5.

What else came up while the models were written, where no text of the repository
says otherwise or a run would show no more than the line does:

* `bobfs.cc:286` and `327`: a crash inside an entry leaves a directory that ends in the
  middle of one. The next entry is written right behind it, its i-number is read as a
  length, and `findNode()` does not come to it: without `torn[node] = Never`
  `EntriesAreFound` is false. No text says what a crash may do.
* `bobfs.cc:425`: a write that needs a block of a full disk searches for ever.
* `Loader` takes the memory above 1 MB as a number without a limit; the code's
  32 bits differ from it from 4 GB on.
* `mbr.S:38` puts the limit of the kernel at 32 MB. The loader's segments
  reach the end of low memory (0xA000) after about 609 KB, and wrap after 1985
  sectors; such a kernel does not arrive, which is why `KernelArrives` asks that
  it fit.
* `mbr.S`: the limit of a TSS is 104 and should be 103 (harmless).
* `config.cc:156`: the walk over the MADT skips the first entry and looks behind
  the last one. Firmware puts processor 0 first, and it is not counted, so the
  number comes out right in every table of `McMemories`.
* Tests: `qxwang` of p5 waits for ever if its feeder puts six more numbers before
  `kernelMain` adds the last one it got, and is left out of `EverybodyGetsThrough`; `qxwang` of p4 prints a
  number of yields that depends on the schedule, and its `.ok` file is of another
  number of threads, so that line is not compared; while `t1` of p2 and p3 has filled the heap, another core's `malloc` fails
  and its complaint is in no `.ok` file; `qxwang`
  of p2 writes before a block of no bytes, which nobody notices; what `yiyang.cc:73` prints
  has no `***`, so the comparison with its `.ok` file never sees it.
* `snprintf.cc` differs from C: `-` together with `0`; `0` together with a
  precision; precision 0 of the number 0; the width of `%c`; width and precision
  of `%s`; `#`; `%h`; `%e` and `%g` print nothing; `%f` loses the zeros after the
  point (1.05 comes out as 1.500000) and counts a sign twice among zeros; `%p` is
  signed; a `%` with flags at the end reads past the format; the limit is not looked at
  inside an item, which line 15 claims. The kernels use only `%d`, `%p`, `%s`, `%u` and
  `%x` without such combinations. `LinesWhole` is about the others (`Conforms`).
* A debug line is printed in three locked pieces and a panic in two, so lines of
  others may come between: `Pieces` has them apart.

## 4. What is proved

All proofs are checked by TLAPS from the assumption named in the module; no
bound of the runs is used.

**`KThreadsProofs`**, from `KThreadsAssumption`, for any
finite number of cores and any user threads and semaphores: `InvariantHolds`
(`Spec => []IInv`) and, from it, `TypeCorrect`, `StacksExclusive`, `LoadsSaved`,
`PlacesExclusive`, `NobodyLost`, `MeCorrect`, `ActiveCorrect`,
`InterruptsCorrect`, `NoDangling`, the action property `StoppedStays`, and the
refinement `DoesWhatThreadsDo`.

`OneCorePerStack` is not inductive. A core loads the thread it has chosen, so one must know
that nobody is on that thread's stack, which holds because its flag was down
when it was tested, because the flag of a thread in `readyQ` goes down only at the
end of the `contextSwitch` away from it, and because the chooser alone holds the
thread. `IInv` says this in parts:

* `LevelsAt`: a handler that is past the test of the flag has interrupted only
  code in which the flag is down; this is why the unlocked test and set of
  `yield()` is no race.
* `StackAt`: a live thread that no core is on is saved, with the interrupt flag
  that its top context needs.
* `FlagAt`: from the moment a thread is queued to the end of its switch its
  flag is up.
* `HeldAt`, `HandsInv`, `QueuesInv`: a thread is once in one queue or once in
  somebody's hands, and then it is alive.
* `ChosenInv`, `PrevInv`: the thread chosen is on no core and nobody is about to
  clear its flag.
* `ZombieInv`: only reapers hold stopped threads, and one that is being deleted
  has its flag down.
* `MeAt`, `CoreInv`: what `me` is in each context and what `activeThreads` says,
  the window between its assignment and the switch included.

* `NoneLost`: a thread that has not stopped is in a queue or in somebody's hands
  from the moment it has queued itself until it is out of `block()` again. Only
  this part keeps a thread from being forgotten; the others would hold if
  `yield()` dropped it.

Most actions change one context only; it is proved once what a step that stays
on its stack preserves, and once what the steps preserve that move a thread
between a queue and a hand, and then come the four that do more: `Claim`,
`Load`, `Delete` and `Spawn`. The run `threads` checks `IInv` itself.

`DoesWhatThreadsDo` says that every step of p6's kernel is one of `Threads` or is not
seen by a user. The mapping reads off who runs, who is alive and who waits; a thread
that is on its way into a semaphore's queue already waits there. So `Load` is a
`Dispatch`, which needs of `IInv` that the thread loaded is alive, not stopped and
on no core (`ChosenInv`, `StackAt`); `Bury` is a `Stop`; `Delete` is a `Free`, which
needs that the zombie has stopped and is left by its core (`ZombieInv`); an `Up` that
finds a waiter wakes the first one, which needs that he waits nowhere else
(`QueuesInv`). All the other steps, the timer's and the reaper's among them, leave
what is mapped as it is.

**`PreemptProofs`** assumes nothing of the constants, not even that there are
finitely many cores: `InvariantHolds`, and from it `StacksExclusive`, `PlacesExclusive`,
`NoDangling`, `ActiveCorrect` and the refinement `DoesWhatThreadsDo`.
At the end of `KThreadsProofs` three of them are carried over to the specification that the
run `threads` checks: `PlacesOfP5`, `DanglingOfP5` and `DoneByP5`. In p5 a core has interrupts off from the
first line of `yield()` or `stop()` to the last, so the invariant is about cores and
not, as that of p6, about contexts:

* `StacksInv`: each core is on a stack of its own, and between `active[me] = next`
  and the switch nobody is on the stack of the next thread.
* `FlagsInv`: the flags that are down are exactly those of the threads that are
  being switched from and to, and no two cores switch from or to the same thread. This is what
  the test of `save_area[5]` of a thread found in a queue relies on: a thread whose flag
  is up has been saved and is on no stack.
* `SavedInv`: what is saved of a thread is fit to be loaded exactly while no core is
  on it.
* `PlacesInv`, `QueuesInv`: a thread is once in one queue or in one core's hand; on a
  core at the same time only while that core is about to leave it.
* `NoneLost`: and it is in one of these places as long as it exists; like its
  counterpart of p6 it is what breaks when `yield()` drops a thread whose flag is down.
* `LivesInv`: what a core is on or goes to has not been deleted; only a thread that has
  called `stop()` is in `zombieQ`.

In the refinement a `Switch` is a `Dispatch`, because the thread switched to is alive
and on no core; `Delete` is a `Free`, because a zombie whose flag is up has been
left by its core (`FlagsInv`). Everything else `yield()` does is not seen.

**`SyncProofs`** (buffer), from `BoundedBufferAssumption` (the ring has a slot, each thread
puts or gets and there are finitely many of them), for a ring of any size:
`OneInTheRing` and `DoesWhatChannelsDo`, a refinement of a bounded queue. The invariant counts.
`SlotsInv` says that `nEmpty`, `n`, the producers that have taken a unit and not
used it, and the consumers that have freed a slot and not announced it, add up
to `N`; and the same of `nFull` and `n`. So a producer finds `n < N` when it has the
lock and a consumer `n > 0`, which is what a step of `Channel` asks for.
`WaitersInv` says that a thread that waits for a semaphore is at the label behind its
`down()`, so that being woken is the same as not having waited. `MovedInv`
bridges the two steps of a `put` or a `get`, between which the ring and `n` disagree.
The cardinalities change by one or not at all, for which a step of each kind has one
lemma; the indices wrap modulo `N`, so the refinement rests on what the ring's tail and head
are before and after.

**`SyncProofs`** (future and barrier) assumes in each theorem what a meeting is
(`Meeting`): finitely many threads, as many as the barrier was constructed for, of
which one sets the future. `FutureKeepsItsWord`: `get()` returns what was set, whoever comes first;
the invariant says that nobody has been told before the value is there.
`BarrierHolds`: nobody is through before the last has come; the invariant says that `left`
is the number of those who have still to come, and that no unit of `sem` exists before
it is 0. Nobody goes through the barrier twice, in the model as in the code's use of it.

**`CriticalProofs`**, from `CriticalAssumption`, for any number of cores and any
nesting: `BootAndLockInvariant`, `CriticalExclusive` (two cores are never
inside at once) and `BootStacksExclusive` (no two cores are on one stack, the
shared boot stack included). The invariant says that at most one core is between
its reset and its count (`BootInv`), that each core past its choice is on its own
stack (`StackInv`), and that the lock is taken exactly while one core's
counter is above zero or is about to be (`LockInv`). The run `programs` checks
both properties.

**`BobFSProofs`**, from `BobFSAssumption`, for any number of i-nodes, blocks, names and
crashes and blocks of any size. Every theorem supposes `~Holes`: nobody writes to a block
that an earlier write skipped, because such a write overwrites the superblock
(`bobfs_holes`). There are three invariants.

`BlockInv` (`BlocksHold`) gives `SuperblockIsKept` and `EveryBlockIsOwned`.
`BlocksOwned` is not inductive: one must know that the block just found is reached by
nothing until `SetPointer` (`FreshOK`); that the pointer `writeBlock` lacks is the one
it sets, so none is lost (`Lacking`, with the arithmetic of a block's number); and that
what `WriteData` overwrites is a block of its node and no block of pointers. For that
the block must be there, which `writeBlock` takes for granted below the last one: the
last block of a node is no hole (`LastBlock`), and the call touches none (`CallOK`).
A crash needs no argument of its own: no part but those about the call
that is being served speaks of anything in memory.

`FileInv` (`ContentsHold`) says what is in the files, with the call in the middle. The page
that waits to be written has the words of the call and around them those that were there
(`PageIs`); what was written is still there when the size is set (`WrittenIs`); a node never
made is empty (`BlankNodes`); and without a crash the words of a block behind the end of its
node are zero (`ClearBehind`): that is why a skipped part reads as zeros once the file grows
over it, and a crash between `WriteData` and `SetSize` is what breaks it. The arithmetic of words,
blocks and slots is in `Position`, `WordOf` and `DataWords`, which gives every word of every
node after a write. On it stands the refinement, `DoesWhatFilesDo`, which states
`ImplementsFiles`. What is left of the call is `FlattenSeq(todo)`. `InitNewNode` is `NewNode` of
`Files`, `WriteData` is `Overwrite` of what is below the end, `SetSize` is `Advance`, and the
steps that get a block stutter: no word a user can read changes in them (`SteadyAt`).

`DirInv` (`DirectoriesHold`) gives `EntriesLead`, `DirectoriesFormATree`,
`LinksAreCounted` and `NamedAreFound`. A directory is made of whole entries and of what
is left of the one being written, up to its first torn entry (`Aligned`, from `torn`), and
every entry has its length in place and leads to a node that is there (`Leads`). `Leads`
adds the node that is being named, `Counted` the entry that is promised: `NewNode` and
`LinkNode` promise one, the write of the length fulfils it, a crash forgets it and tears the
directory. That a directory reads as before under every other write is `Steady`, which the
lemmas behind `FileInv` give. `EntriesAreEntered` turns this into what the walk of `findNode`
comes to: a set that holds the beginning of every entry, and everything from the torn one on,
is closed under the walk. `WholeIsVisited` is the other half, by induction over the offsets
of a directory with no torn entry. No word is supposed to differ from another:
i-numbers, names and lengths may be the same.

**`Layout`** has no assumption: it is about the disk as an array of bytes, of any
length and any content.

* `NodesApart`: a field of an i-node is read back as it was written, and no other
  field of any node changes. The offsets and widths are those of `bobfs.h`; the proof
  shows that the bytes of two fields are apart, from the linear form of their addresses.
* `InitNewNodeMakesOne`, `AddLinkCounts` follow from it (a count wraps at 65536).
* `WrittenWhole`: no field and no pointer spans two sectors: one disk write each,
  as `BobFS` has it.
* `AreasApart`: superblock, bitmaps, i-nodes and blocks share no byte, for all
  numbers that the search may come to.
* `PointersInside`: the pointers to blocks 1 to 256 are in the indirect block, and
  that to block 257, which nothing refuses, is in the next one.
* `SearchGoesOn`: the generator behind the search is injective and has no fixed
  point, so a search does not hang on one place. That it comes to every place
  is not proved.

**`HeapProofs`**, from `HeapAssumption` (there are 8 ints, room for the guards and one block;
`malloc` looks at one block at least) and `WordsAssumption` (4 words, room for a block), which
TLC evaluates in the run `heaps`; for memory of any length, any sizes asked for and any order
of calls: `HeapsAreSound`, `HeapsKeepPayload`, `HeapsAllocate` and, for any number of callers,
`HeapsCallsAreOneStep`. What the run checks walks
from header to header and from link to link; the invariant does not. `BestInv` and `FirstInv`
say that *there is* a set of blocks and a number for each available one such that

* `Tagged`: each block but the last leads by its size to the next one, has its size at both
  ends, and no block begins inside another;
* `Joined`: no two available blocks touch;
* `Linked`: the two links of each available block agree with each other's, and the number
  grows along the list, so it does not run in a circle and ends. Nothing is counted, which is
  what makes it easy to keep when a block enters or leaves the list;
* `Owned`: what users hold are the other blocks, each with room for what was asked.

`malloc` replaces one block of the set by the pieces it cuts it into (`Cut`), `free` replaces
two or three by the one it makes of them, and in between the list is one block
shorter (`Unlinked`) or longer (`LinkedIn`). What each writes is stated once, word by word
(`MakeAvailIs`, `RemoveIs`, `SetSizeIs`, `UnlinkIs`, `Written`); the links of different blocks
are apart from each other and from the headers, so all other blocks stay
as they are. That the two walks come to exactly the blocks and exactly the available ones is
an induction along them. The library's induction theorem takes a predicate as its parameter, which
the prover cannot instantiate, but a *set* it can: `Induction` and `Least` are proved from the
pigeonhole theorem for finite sets. That the walks are long enough, a quarter of the memory, is
because each block has four ints. In the refinement a `malloc` that finds nothing is
`GiveUp`: a gap that is long enough and holds no block in use would be one available block,
because available ones are joined, and it would be in the list (`Fitting` and its counterpart
of `FirstFit`). The two heaps differ enough that each has its own lemmas.

`HeapsCallsAreOneStep` carries all this over to the heap a write at a time. Its invariants,
`BestStepsInv` and `FirstStepsInv`, say that at most one caller is inside (`OneInside`), that
what was there when the lock was last given back (`before`) is a sound heap, and of the
caller inside three things: what it has read is still so; where it is in the list no earlier
block fits, or none better among those it may look at (`SearchAt`, `FirstSearchAt`); and the
writes it still has to make, one after the other, lead from the heap as it is to the
heap that the call is to leave at that point (`Leads`, and `BestTarget` or `FirstTarget`: for
example, the heap with the block off the list). So each write brings it nearer (`LeadsLess`),
each decision adds writes that amount to the operator of `Heap` or `FirstFit` with
the same name (`RemoveWrites`, `AvailWrites`, `TakenOffWrites`, `PushWritten`), and when the
lock is given back nothing is left to write, so the heap is that of the whole call.
Where the order of the writes in `heap.cc` is not that of the operator, they are shown to
commute, because links, headers and footers are different words (`LinksSwap`,
`SizeUnlinked`); and the writes that `merge` leaves out if a block is the only one of the list
are not missed, because its neighbour is in the list too (`NotAlone`).

**The heaps' locks** (`CriticalProofs`) need no assumption either: `BestFitCallsAreApart` and
`FirstFitCallsAreApart` say of any number of callers that one at most is past the lock, that it has
the lock until its last write is made, and that the heap is as the last call left
it whenever nobody is inside. `OneInside` is inductive as it stands, because every
way out of a call goes through `Unlock` with nothing left to write. That a call
then does what `Heap` and `FirstFit` say is `HeapsCallsAreOneStep`.

**`KernelProofs`** is about any number of cores, any firmware, and sectors and drives of
any size. Its assumptions, which TLC evaluates in the run `kernel`:

* `StartupAssumption`: there is a core. `ReportsAssumption`: `int 15` reports the memory
  there is, in one pair of registers or the same in both.
* `FirmwareAssumption`: one root pointer, in one of the two areas that are searched, to
  one table `APIC`, which has each processor once, begins with the one that boots
  as number 0, and has one IOAPIC; what lies in memory behind it looks neither like an IOAPIC
  nor like another processor. The first and the last of these are what `configInit`
  counts on without saying so: its walk skips the first entry and looks at the bytes
  behind the last (`Examined`). `NoneAssumption` keeps the model value apart from configurations.
* `IdeAssumption`, `CallsAssumption`: a drive is a whole number of sectors, and a call
  asks for a range inside it that is not empty.

`BootInv` (`TheBootIsInOrder`) says where every core is. The properties are about what has
been set and `todo` only about what is to come, so the invariant ties the two: core 0 is
at one place of its stage's plan, and what the steps before that place set is there
(`FirstCore`); a core it has not started is off, the one it waits for is between its
reset and counting itself, and those before are on the plan of the others
(`OtherCores`). `id` and `started` must agree but for the core on its way: that is
why `pickKernelStack` and the choice between the two plans in `CountIn` come out right
though both read what another core writes. `Mains` counts: `howManyAreHere` is the
number of cores that have come, so the sum is N only when all have. The count that this
is compared with comes out of the walk over the tables (`WalkCounts`, `TablesAreFound`): `totalProcs`
is N for every table described. From there:

* `KernelMainRunsLast` states `MainRunsLast`.
* `EveryTickIsHandled` and `NothingIsUsedTooEarly` state `TicksAreHandled` and
  `NothingUsedTooEarly` for `Served` machines: `threadsInit` of p4 and p5 makes current
  threads for four cores whatever it has found, so on a fifth both are false. The
  stages p2 and p6 need no such condition.

`IdeInv` (`DriveAndDriverAgree`) says of each place of the driver which drive is selected,
what it is doing, and which units of the sector are where. At the heart of it is
`DriveInStep`: a drive that was given no command does nothing, and from the command until
the sector is there the one that is selected is the one that was meant, and busy; so
`waitForDrive` cannot take an earlier status for an answer.
`SectorComes` and `SectorGoes` follow the sector on its way, and `ToWrite` what a part
of a sector becomes when it is read, changed and written back. `DriverDoesWhatDisksDo`
states `ImplementsDisk`: the step in which the drive stores a sector, or the
driver hands over what was read, is `Move` of `Disk`, start and return are `Call` and
`Return`, and all others stutter. The
arithmetic of sectors inside a range is in `OneSector`, `WholeSectors` and `ThePart`.

**Only model-checked**:

* The threads of p4 and the semaphores of p5 (`PreemptSems`).
* The console (`LinesWhole`) and what the tests print (`PrintsWhatIsExpected`): the
  formatting is recursive.
* The loader: `BootInv` takes from it no more than that the report is there.
* All liveness: the prover has no support for `ENABLED`, and so none for fairness. So it is
  proved that the buffer loses nothing and that nobody passes the barrier early, and
  model-checked that each `get()` comes back and that everybody gets through.

## 5. What is not modelled

* Two users of one file system, or of one drive: neither has a lock, and the tests
  have one user at a time. Two of them would square the states of `bobfs`.
* What users do with a word that `findNode` misreads behind a torn entry and that is no
  i-number, or that of a node never made; names of more than
  one length (in `BobFS`; `FileTests` has the names of the tests); files beyond the indirect
  block, but for `PointersInside`.
* Sizes near the end of 32 bits in the heaps.
* Drives that report errors, and the panics of `waitForDrive`.
* Liveness of p6 on two cores, where cores in `block()` can pass each other's
  flagged threads for ever unless the hardware's timing breaks the step.
* `calibrate` as a measurement; `jiffies`, which nobody reads; `get()` of the
  serial line, `%n`, `switchReg2Me`, `switchCand2Reg` and the `Mutex` of p6, which
  nobody calls; the panic of `operator new` in p6.
* `machine.S` as text: what its instructions do is in the models of their users.
* Copies. The six kernels share most of their files: `snprintf.cc`, `config.cc`,
  `machine.S`, `idt.cc`, `u8250.cc`, `libk.cc` and others are the same six times,
  `p3_heap` is `p2_heap` with its tests, and `kernel/kernel.cc` of p1 is its `t0.cc`. A
  module is mapped to one of the copies, the last one as a rule.

## 6. Plan

1. Done: threads and semaphores of p4, p5 and p6; both heaps; buffer, future,
   barrier; BobFS and its layout; the driver; the loader and the boot with the
   tables; console and formatting; the tests. Abstract specifications and
   refinements for threads, heaps (twice), buffer, file system and drive. Proofs for
   the threads of p5 and p6 and what they promise, buffer, future, barrier, the critical
   sections, BobFS, that it implements `Files`, and its layout, the heaps, whole and a write at a time, the boot of
   p2 to p6 after any described tables, and the driver, that it implements `Disk`.
2. Next, models: `BobFS` on `Disk` with two users at a coarser grain; a
   drive that fails.
3. Next, proofs: the threads of p4; the semaphores of p5; that the loader's sectors are
   in place.
