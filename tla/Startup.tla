------------------------------ MODULE Startup -------------------------------
(***************************************************************************)
(* From the entry into the kernel to kernelMain, in the kernels of p2 to p6*)
(* (mbr.S, init.cc, config.cc, smp.cc, idt.cc, pit.cc).  What kernelInit   *)
(* does is one list of steps for the core that comes first and one for the *)
(* others, per stage of the project; the steps that touch what cores share *)
(* are interleaved.                                                        *)
(***************************************************************************)
EXTENDS Loader, SequencesExt

CONSTANTS
  Memories,  \* what the firmware may have left, see configInit
  None       \* a null pointer

ASSUME StartupAssumption == N \in Nat \ {0}

Core == 0..N - 1
Temp == N          \* tempStack of mbr.S
Off == N + 1       \* the stack of a core that has not started
Stage == {"p2", "p4", "p5", "p6"}
APIT_vector == 40

VARIABLES
  stage,
  todo,          \* per core, the steps it still has to do
  stack,         \* per core, the stack it is on
  started,       \* SMP::started
  smpInitDone,
  id,            \* the core that the first core is starting
  kConfig,
  activeThreads, \* the cores that have a current thread
  ready,         \* which of heap, threads, APIC registers and apitCounter are set
  sink,          \* where Debug prints: None, the uart of a stack, one of the heap
  idt,           \* the vectors that have a handler
  timer, intr,   \* per core: its timer runs; interrupts are let in
  howManyAreHere, all_here,
  mains          \* how many kernelMain there are

shared == <<kConfig, activeThreads, ready, sink, idt, smpInitDone>>
counts == <<started, id, howManyAreHere, all_here, mains>>
vars == <<stage, todo, stack, shared, counts, timer, intr>>

-----------------------------------------------------------------------------
(* Discovery: config.cc *)

\* What the firmware leaves: a pointer to a table of tables; in the table APIC the
\* entries, and what lies in memory behind the last one.
RSD == "RSD PTR "
SDT(name) == [name |-> name]
MADT(entries, behind) == [name |-> "APIC", entries |-> entries, behind |-> behind]
MADT_ENTRY(type) == [type |-> type]
APIC_ENTRY(processorId) == [type |-> "cpu", processorId |-> processorId]
IOAPIC_ENTRY(address) == [type |-> "ioapic", address |-> address]

\* The first paragraph of a range that holds the pointer.
findRSDInRange(memory, range) ==
  LET found == {i \in range : memory.at[i] = RSD}
  IN  IF found = {} THEN None ELSE Min(found)

\* In the BIOS, or else in the extended BIOS data area.
findRSD(memory) ==
  LET it == findRSDInRange(memory, memory.bios)
  IN  IF it = None THEN findRSDInRange(memory, memory.ebda) ELSE it

\* The first table of that name.
findSDT(rsdt, name) == rsdt[Min({t \in DOMAIN rsdt : rsdt[t].name = name})]

\* The walk advances before it looks: it looks at all entries but the first,
\* and at what lies behind the last.
Examined(madt) ==
  LET n == Len(madt.entries)
  IN  [i \in 1..n |-> IF i < n THEN madt.entries[i + 1] ELSE madt.behind]

\* Mutant: processor 0 is counted.
apicInfoAll(madt) ==
  LET e == Examined(madt)
  IN  {i \in DOMAIN e : e[i].type = "cpu"}

\* Where the others are; processor 0 is taken to be the one that boots.
apicInfo(madt) ==
  LET e == Examined(madt)
  IN  {i \in DOMAIN e : e[i].type = "cpu" /\ e[i].processorId # 0}

\* The last one wins.
ioAPIC(madt) ==
  LET e == Examined(madt)
      found == {i \in DOMAIN e : e[i].type = "ioapic"}
  IN  IF found = {} THEN None ELSE e[Max(found)].address

configInit(memory, info) ==
  LET madt == findSDT(memory.rsdt[findRSD(memory)], "APIC")
  IN  [memSize |-> memAbove1M(info) + 2^20,
       apicInfo |-> {Examined(madt)[i].processorId : i \in apicInfo(madt)},
       totalProcs |-> Cardinality(apicInfo(madt)) + 1, ioAPIC |-> ioAPIC(madt)]

\* The table of a machine of N processors: it begins with the one that boots and
\* has each other one once, and one IOAPIC.  Behind it is neither, or zeros.
Describes(madt) ==
  LET n == Len(madt.entries)
      Cpus(p) == {i \in 1..n : madt.entries[i].type = "cpu" /\ madt.entries[i].processorId = p}
  IN  /\ n \in Nat \ {0} /\ Cpus(0) = {1}
      /\ \A i \in 1..n : madt.entries[i].type = "cpu" => madt.entries[i].processorId \in Core
      /\ \A p \in 1..N - 1 : \E i \in 2..n : Cpus(p) = {i}
      /\ \E i \in 2..n : /\ {j \in 1..n : madt.entries[j].type = "ioapic"} = {i}
                        /\ madt.entries[i].address # None
      /\ madt.behind.type = "cpu" => madt.behind.processorId = 0
      /\ madt.behind.type # "ioapic"

\* Its firmware leaves one pointer, in one of the two areas, and one such table.
ASSUME FirmwareAssumption ==
  \A memory \in Memories :
    /\ None \notin memory.bios
    /\ \E i \in memory.bios \cup memory.ebda :
         /\ i \in Nat
         /\ {j \in memory.bios \cup memory.ebda : memory.at[j] = RSD} = {i}
         /\ \E t \in DOMAIN memory.rsdt[i] :
              /\ t \in Nat
              /\ {u \in DOMAIN memory.rsdt[i] : memory.rsdt[i][u].name = "APIC"} = {t}
              /\ Describes(memory.rsdt[i][t])

ASSUME NoneAssumption == \A memory \in Memories, r \in Reports : configInit(memory, r) # None

-----------------------------------------------------------------------------
(* What kernelInit does, stage by stage *)

Reset == <<"reset", "pick", "count">>
\* p2 and p3: all cores run kernelMain, without timer and threads.
kernelInit2(first) ==
  IF first
  THEN <<"print", "config", "heap", "uart", "smpFirst", "wake", "all", "main">>
  ELSE <<"smp", "gather", "main">>

\* p4: threads and a timer, but interrupts stay off.
kernelInit4(first) ==
  IF first
  THEN <<"print", "config", "heap", "uart", "threads", "smpFirst", "calibrate", "handler", "wake",
         "timer", "arrive">>
  ELSE <<"smp", "timer", "arrive">>

\* p5: the timer interrupts.
kernelInit5(first) ==
  IF first
  THEN <<"print", "config", "heap", "uart", "threads", "smpFirst", "calibrate", "handler", "wake",
         "timer", "sti", "arrive">>
  ELSE <<"smp", "timer", "sti", "arrive">>

\* Mutant: the other cores are started before the timer is calibrated.
kernelInitWakesEarly(first) ==
  IF first
  THEN <<"print", "config", "heap", "uart", "threads", "smpFirst", "wake", "calibrate", "handler",
         "unscope", "timer", "sti", "arrive">>
  ELSE <<"smp", "timer", "sti", "arrive">>

\* p6: the first uart is gone when its block ends.
kernelInit6(first) ==
  IF first
  THEN <<"print", "config", "heap", "uart", "threads", "smpFirst", "calibrate", "handler", "wake",
         "unscope", "timer", "sti", "arrive">>
  ELSE <<"smp", "timer", "sti", "arrive">>

kernelInit(first) ==
  CASE stage = "p2" -> kernelInit2(first)
    [] stage = "p4" -> kernelInit4(first)
    [] stage = "p5" -> kernelInit5(first)
    [] stage = "p6" -> kernelInit6(first)

Init ==
  /\ stage \in Stage
  /\ todo = [c \in Core |-> IF c = 0 THEN Reset ELSE <<>>]
  /\ stack = [c \in Core |-> Off]
  /\ started = 0 /\ smpInitDone = FALSE /\ id = 0
  /\ kConfig = None /\ activeThreads = {} /\ ready = {} /\ sink = None /\ idt = {}
  /\ timer = [c \in Core |-> FALSE] /\ intr = [c \in Core |-> FALSE]
  /\ howManyAreHere = 0 /\ all_here = FALSE /\ mains = 0

At(c, step) == todo[c] # <<>> /\ Head(todo[c]) = step
Do(c, step) == At(c, step) /\ todo' = [todo EXCEPT ![c] = Tail(@)]

-----------------------------------------------------------------------------
(* The way into kernelInit: mbr.S *)

\* Every core comes out of its reset with interrupts off on the one tempStack...
LeaveReset(c) ==
  /\ Do(c, "reset")
  /\ stack' = [stack EXCEPT ![c] = Temp]
  /\ intr' = [intr EXCEPT ![c] = FALSE]
  /\ UNCHANGED <<stage, shared, counts, timer>>

\* ...and leaves it for one of its own.
pickKernelStack(c) ==
  /\ Do(c, "pick")
  /\ stack' = [stack EXCEPT ![c] = IF smpInitDone THEN c ELSE 0]
  /\ UNCHANGED <<stage, shared, counts, timer, intr>>

\* Whoever is the first to count does what is done once.
CountIn(c) ==
  /\ At(c, "count")
  /\ todo' = [todo EXCEPT ![c] = kernelInit(started = 0)]
  /\ started' = started + 1
  /\ UNCHANGED <<stage, stack, shared, id, howManyAreHere, all_here, mains, timer, intr>>

-----------------------------------------------------------------------------
(* What the first core does alone *)

\* Each step of it sets up one thing.
DebugInit(c) ==
  /\ \/ Do(c, "print") /\ sink' = "stack"
     \/ Do(c, "uart") /\ sink' = "heap"
  /\ UNCHANGED <<stage, stack, kConfig, activeThreads, ready, idt, smpInitDone, counts, timer, intr>>

Discovered(c) ==
  /\ Do(c, "config")
  /\ \E memory \in Memories : kConfig' = configInit(memory, memInfo)
  /\ UNCHANGED <<stage, stack, activeThreads, ready, sink, idt, smpInitDone, counts, timer, intr>>

heapInit(c) ==
  /\ Do(c, "heap")
  /\ ready' = ready \cup {"heap"}
  /\ UNCHANGED <<stage, stack, kConfig, activeThreads, sink, idt, smpInitDone, counts, timer, intr>>

\* p4 and p5 make a current thread for four cores, p6 for those it has found.
threadsInit(c) ==
  /\ Do(c, "threads")
  /\ ready' = ready \cup {"threads"}
  /\ activeThreads' = IF stage = "p6" THEN 0..kConfig.totalProcs - 1 ELSE 0..3
  /\ UNCHANGED <<stage, stack, kConfig, sink, idt, smpInitDone, counts, timer, intr>>

interrupt(vector) == idt' = idt \cup {vector}

\* SMP::init(true): the registers, and a handler for spurious interrupts.
SMPInitFirst(c) ==
  /\ Do(c, "smpFirst")
  /\ ready' = ready \cup {"registers"}
  /\ interrupt(255)
  /\ smpInitDone' = TRUE
  /\ id' = 1
  /\ UNCHANGED <<stage, stack, kConfig, activeThreads, sink, started, howManyAreHere, all_here,
                 mains, timer, intr>>

\* The timer is timed, and then gets its handler.
calibrate(c) ==
  /\ \/ Do(c, "calibrate") /\ ready' = ready \cup {"apitCounter"} /\ UNCHANGED idt
     \/ Do(c, "handler") /\ interrupt(APIT_vector) /\ UNCHANGED ready
  /\ UNCHANGED <<stage, stack, kConfig, activeThreads, sink, smpInitDone, counts, timer, intr>>

\* Mutant: the last core is not started.
WakeAllButOne(c) ==
  /\ At(c, "wake") /\ id < kConfig.totalProcs - 1
  /\ todo' = [d \in Core |-> IF d = c THEN <<"await">> \o todo[c]
                             ELSE IF d = id THEN Reset ELSE todo[d]]
  /\ UNCHANGED <<stage, stack, shared, counts, timer, intr>>

\* The two messages of a start make core d start from its reset...
ipi(list, d) == [e \in Core |-> IF e = d THEN Reset ELSE list[e]]

Wake(c) ==
  /\ At(c, "wake") /\ id < kConfig.totalProcs
  /\ todo' = ipi([todo EXCEPT ![c] = <<"await">> \o @], id)
  /\ UNCHANGED <<stage, stack, shared, counts, timer, intr>>

\* ...and the one after it has to wait until this one has counted itself.
Await(c) ==
  /\ Do(c, "await") /\ started > id
  /\ id' = id + 1
  /\ UNCHANGED <<stage, stack, shared, started, howManyAreHere, all_here, mains, timer, intr>>

AllAwake(c) ==
  /\ Do(c, "wake") /\ id >= kConfig.totalProcs
  /\ UNCHANGED <<stage, stack, shared, counts, timer, intr>>

\* The first uart of p6 is gone.
LeaveBlock(c) ==
  /\ Do(c, "unscope")
  /\ UNCHANGED <<stage, stack, shared, counts, timer, intr>>

-----------------------------------------------------------------------------
(* What every core does *)

\* SMP::init(false) and, in p2, the wait for the others.
SMPInit(c) ==
  /\ Do(c, "smp") \/ (all_here /\ Do(c, "gather"))
  /\ UNCHANGED <<stage, stack, shared, counts, timer, intr>>

AllHere(c) ==
  /\ Do(c, "all")
  /\ all_here' = TRUE
  /\ UNCHANGED <<stage, stack, shared, started, id, howManyAreHere, mains, timer, intr>>

kernelMain(c) ==
  /\ Do(c, "main")
  /\ mains' = mains + 1
  /\ UNCHANGED <<stage, stack, shared, started, id, howManyAreHere, all_here, timer, intr>>

\* Pit::init; without a counter it panics, and the core halts.
PitInit(c) ==
  /\ "apitCounter" \in ready
  /\ Do(c, "timer")
  /\ timer' = [timer EXCEPT ![c] = TRUE]
  /\ UNCHANGED <<stage, stack, shared, counts, intr>>

sti(c) ==
  /\ Do(c, "sti")
  /\ intr' = [intr EXCEPT ![c] = TRUE]
  /\ UNCHANGED <<stage, stack, shared, counts, timer>>

\* Mutant: the cores that have started are counted.
ArriveWhenStarted(c) ==
  /\ Do(c, "arrive")
  /\ howManyAreHere' = howManyAreHere + 1
  /\ mains' = IF started = kConfig.totalProcs THEN mains + 1 ELSE mains
  /\ UNCHANGED <<stage, stack, shared, started, id, all_here, timer, intr>>

\* The last one makes the thread that runs kernelMain; all then stop.
Arrive(c) ==
  /\ Do(c, "arrive")
  /\ howManyAreHere' = howManyAreHere + 1
  /\ mains' = IF howManyAreHere + 1 = kConfig.totalProcs THEN mains + 1 ELSE mains
  /\ UNCHANGED <<stage, stack, shared, started, id, all_here, timer, intr>>

CoreStep(c) ==
  \/ LeaveReset(c) \/ pickKernelStack(c) \/ CountIn(c)
  \/ DebugInit(c) \/ Discovered(c) \/ heapInit(c) \/ threadsInit(c) \/ SMPInitFirst(c)
  \/ calibrate(c) \/ Wake(c) \/ Await(c) \/ AllAwake(c) \/ LeaveBlock(c)
  \/ SMPInit(c) \/ AllHere(c) \/ kernelMain(c) \/ PitInit(c) \/ sti(c) \/ Arrive(c)

Next == \E c \in Core : CoreStep(c)
Spec == Init /\ [][Next]_vars

-----------------------------------------------------------------------------
(* Properties *)

\* What a step of kernelInit uses and another step, maybe of another core, sets.
Uses(step) ==
  CASE step \in {"uart", "threads", "calibrate"} -> {"heap"}
    [] step \in {"smp", "wake"} -> {"registers"}
    [] step = "timer" -> {"registers", "apitCounter"}
    [] step \in {"sti", "arrive"} -> {"heap", "threads"}
    [] OTHER -> {}

\* The kernel knows how much memory there is.  No core uses the heap, the thread
\* module, the APIC registers or the timer's counter before it is there, and none
\* stops in Pit::init's panic; the thread module and the start of the cores rely
\* on a count of processors that is right, and nothing is printed to a uart that
\* is gone.
NothingUsedTooEarly ==
  \A c \in Core : ip = "entered" /\ todo[c] # <<>> =>
    /\ Uses(Head(todo[c])) \subseteq ready
    /\ At(c, "heap") => kConfig.memSize = memInfo.above1M + 2^20
    /\ At(c, "threads") \/ At(c, "smpFirst") => kConfig # None
    /\ At(c, "wake") => kConfig.totalProcs = N /\ kConfig.ioAPIC # None
    /\ At(c, "arrive") => c \in activeThreads
    /\ At(c, "unscope") => sink = "heap"

\* Where a timer can interrupt, its vector has a handler and yield() finds
\* a current thread.
TicksAreHandled ==
  \A c \in Core : timer[c] /\ intr[c] =>
    APIT_vector \in idt /\ {"heap", "threads"} \subseteq ready /\ c \in activeThreads

\* kernelMain runs only when all cores are up, on stacks of their own: once on
\* each before p4, and once from p4 on.
MainRunsLast ==
  /\ mains > 0 => \A c \in Core : stack[c] = c
  /\ stage # "p2" => mains <= 1 /\ (mains = 1 => howManyAreHere = N)

\* Every core gets through kernelInit, and kernelMain runs.
EveryoneArrives ==
  <>(mains = (IF stage = "p2" THEN N ELSE 1) /\ \A c \in Core : todo[c] = <<>> /\ stack[c] = c)
=============================================================================
