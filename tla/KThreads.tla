------------------------------ MODULE KThreads ------------------------------
(***************************************************************************)
(* The preemptive multi-core threads and the semaphores of the last kernel *)
(* (p6_file_system/kernel: threads.cc, threads.h, context.s, semaphore.cc, *)
(* queue.h, the timer handler of pit.cc and the end of kernelInit).        *)
(*                                                                         *)
(* Every step is one access to memory another core can reach, or one       *)
(* critical section of an InterruptSafeLock.  A timer interrupt may fall   *)
(* between any two steps of a core whose interrupts are on.                *)
(***************************************************************************)
EXTENDS Naturals, Sequences, FiniteSets

CONSTANTS Core,        \* the cores; core c's InitialThread is named c
          User,        \* blocks of memory for threads made by thread()
          Reaper,      \* the thread made by threadsInit
          Sem,         \* semaphores of the user threads
          InitCount,   \* count each semaphore is constructed with
          MaxCount,    \* bound on a semaphore's count
          None         \* the null pointer

ASSUME KThreadsAssumption ==
  /\ Core # {} /\ IsFiniteSet(Core)
  /\ Core \cap User = {} /\ Reaper \notin Core \cup User
  /\ None \notin Core \cup User \cup {Reaper}
  /\ InitCount \in [Sem -> Nat] /\ MaxCount \in Nat
  /\ "ready" \notin Sem /\ "zombie" \notin Sem

Thread == Core \cup User \cup {Reaper}
\* A thread runs at level 0; a timer interrupt's frame on its stack is level 1.
Ctx == Thread \X {0, 1}
Queue == {"ready", "zombie"} \cup Sem
\* "none" is an interrupt frame that is not there, "free" a deleted thread.
Label == {"none", "free", "born", "entry", "boot", "arrive", "work", "yield",
          "check", "set", "enqueue", "stop", "mark", "bury", "block", "test",
          "requeue", "claim", "activate", "save", "load", "off", "reap",
          "inspect", "rebury", "delete", "spawn", "schedule"}

VARIABLES
  sp,       \* per core, the thread whose stack the core is on
  active,   \* activeThreads
  intr,     \* per core, the interrupt flag
  pc, me, nxt,  \* per context: where it is, its `me`, the thread it holds
  first,    \* per thread, firstAlone in reaper()
  prev,     \* per thread, %eax of contextSwitch: whose flag it has yet to clear
  flag,     \* per thread, leaveMeAlone
  context,  \* per thread, the save area: with interrupts "on" or "off", or "stale"
  queue,    \* readyQ, zombieQ and each semaphore's waiting
  count,    \* per semaphore
  here,     \* howManyAreHere
  stopped   \* history: the threads that went through stop()

cpu  == <<sp, active, intr>>
regs == <<pc, me, nxt, first, prev>>
mem  == <<flag, context, queue, count, here>>
vars == <<cpu, regs, mem, stopped>>

Init ==
  /\ sp = [c \in Core |-> c]
  /\ active = [c \in Core |-> c]
  /\ intr = [c \in Core |-> FALSE]
  /\ pc = [k \in Ctx |-> IF k[2] = 1 THEN "none"
                          ELSE IF k[1] \in Core THEN "boot"
                          ELSE IF k[1] = Reaper THEN "born" ELSE "free"]
  /\ me = [k \in Ctx |-> None]
  /\ nxt = [k \in Ctx |-> None]
  /\ first = [t \in Thread |-> None]
  /\ prev = [t \in Thread |-> None]
  /\ flag = [t \in Thread |-> FALSE]
  /\ context = [t \in Thread |-> IF t = Reaper THEN "on" ELSE "stale"]
  /\ queue = [q \in Queue |-> IF q = "ready" THEN <<Reaper>> ELSE <<>>]
  /\ count = InitCount
  /\ here = 0
  /\ stopped = {}

-----------------------------------------------------------------------------
\* The context a stack would continue in: its interrupt frame, if it has one.
Top(t) == <<t, IF pc[<<t, 1>>] = "none" THEN 0 ELSE 1>>
Here(c) == Top(sp[c])
At(c, label) == pc[Here(c)] = label
Goto(k, label) == pc' = [pc EXCEPT ![k] = label]

\* A user thread at work may call any of these.
Enter(c, label) ==
  \/ At(c, label)
  \/ At(c, "work") /\ Here(c) \in User \X {0}

\* Mutant: the handler's return leaves interrupts off.
ReturnMasked(c) ==
  LET k == Here(c) IN
  /\ Goto(k, IF k[2] = 1 THEN "none"
             ELSE IF k[1] = Reaper THEN "reap" ELSE "work")
  /\ me' = [me EXCEPT ![k] = None]
  /\ UNCHANGED intr

\* Return from yield() or block(): the handler's iret sets the interrupt
\* flag again, the reaper's loop goes round, a user thread goes on.
Return(c) ==
  LET k == Here(c) IN
  /\ Goto(k, IF k[2] = 1 THEN "none"
             ELSE IF k[1] = Reaper THEN "reap" ELSE "work")
  /\ intr' = [intr EXCEPT ![c] = @ \/ k[2] = 1]
  /\ me' = [me EXCEPT ![k] = None]

Add(q, t) == queue' = [queue EXCEPT ![q] = Append(@, t)]
Remove(q) == queue' = [queue EXCEPT ![q] = Tail(@)]

-----------------------------------------------------------------------------
(* kernelInit, once the core's timer is set up *)

Sti(c) ==
  /\ At(c, "boot")
  /\ intr' = [intr EXCEPT ![c] = TRUE]
  /\ Goto(Here(c), "arrive")
  /\ UNCHANGED <<sp, active, me, nxt, first, prev, mem, stopped>>

\* The last core to come calls thread(kernelMain) before it stops.
Arrive(c) ==
  /\ At(c, "arrive")
  /\ here' = here + 1
  /\ Goto(Here(c), IF here + 1 = Cardinality(Core) THEN "reap" ELSE "stop")
  /\ UNCHANGED <<cpu, me, nxt, first, prev, flag, context, queue, count, stopped>>

(* The timer: entered with interrupts off, it yields for whoever is running *)

Interrupt(c) ==
  /\ intr[c]
  /\ intr' = [intr EXCEPT ![c] = FALSE]
  /\ Goto(<<sp[c], 1>>, "yield")
  /\ UNCHANGED <<sp, active, me, nxt, first, prev, mem, stopped>>

(* yield() and stop() *)

Yield(c) ==
  /\ Enter(c, "yield")
  /\ me' = [me EXCEPT ![Here(c)] = active[c]]
  /\ Goto(Here(c), "check")
  /\ UNCHANGED <<cpu, nxt, first, prev, mem, stopped>>

\* Mutant: a handler does not look at the flag.
CheckAloneSkipped(c) ==
  /\ At(c, "check")
  /\ Goto(Here(c), "set")
  /\ UNCHANGED <<cpu, me, nxt, first, prev, mem, stopped>>

CheckAlone(c) ==
  /\ At(c, "check")
  /\ IF flag[me[Here(c)]]
       THEN Return(c)
       ELSE Goto(Here(c), "set") /\ UNCHANGED <<intr, me>>
  /\ UNCHANGED <<sp, active, nxt, first, prev, mem, stopped>>

\* Mutant: the thread is queued with its flag down.
SetAloneForgotten(c) ==
  /\ At(c, "set")
  /\ Goto(Here(c), "enqueue")
  /\ UNCHANGED <<cpu, me, nxt, first, prev, mem, stopped>>

SetAlone(c) ==
  /\ At(c, "set")
  /\ flag' = [flag EXCEPT ![me[Here(c)]] = TRUE]
  /\ Goto(Here(c), "enqueue")
  /\ UNCHANGED <<cpu, me, nxt, first, prev, context, queue, count, here, stopped>>

Enqueue(c) ==
  /\ At(c, "enqueue")
  /\ Add("ready", me[Here(c)])
  /\ Goto(Here(c), "block")
  /\ UNCHANGED <<cpu, me, nxt, first, prev, flag, context, count, here, stopped>>

Stop(c) ==
  /\ Enter(c, "stop")
  /\ me' = [me EXCEPT ![Here(c)] = active[c]]
  /\ Goto(Here(c), "mark")
  /\ UNCHANGED <<cpu, nxt, first, prev, mem, stopped>>

Mark(c) ==
  /\ At(c, "mark")
  /\ flag' = [flag EXCEPT ![me[Here(c)]] = TRUE]
  /\ Goto(Here(c), "bury")
  /\ UNCHANGED <<cpu, me, nxt, first, prev, context, queue, count, here, stopped>>

\* Mutant: stop() queues the thread as yield() does.
BuryAsReady(c) ==
  /\ At(c, "bury")
  /\ Add("ready", me[Here(c)])
  /\ stopped' = stopped \cup {me[Here(c)]}
  /\ Goto(Here(c), "block")
  /\ UNCHANGED <<cpu, me, nxt, first, prev, flag, context, count, here>>

Bury(c) ==
  /\ At(c, "bury")
  /\ Add("zombie", me[Here(c)])
  /\ stopped' = stopped \cup {me[Here(c)]}
  /\ Goto(Here(c), "block")
  /\ UNCHANGED <<cpu, me, nxt, first, prev, flag, context, count, here>>

-----------------------------------------------------------------------------
(* block(me): an empty readyQ is the stuttering `goto again` *)

Pick(c) ==
  /\ At(c, "block")
  /\ queue["ready"] # <<>>
  /\ nxt' = [nxt EXCEPT ![Here(c)] = Head(queue["ready"])]
  /\ Remove("ready")
  /\ Goto(Here(c), "test")
  /\ UNCHANGED <<cpu, me, first, prev, flag, context, count, here, stopped>>

\* A thread may run into itself.
PickedMyself(c) ==
  LET k == Here(c) IN
  /\ At(c, "test")
  /\ nxt[k] = me[k]
  /\ flag' = [flag EXCEPT ![me[k]] = FALSE]
  /\ nxt' = [nxt EXCEPT ![k] = None]
  /\ Return(c)
  /\ UNCHANGED <<sp, active, first, prev, context, queue, count, here, stopped>>

\* Mutant: the next thread's flag is not tested.
TestNextNever(c) ==
  /\ At(c, "test")
  /\ nxt[Here(c)] # me[Here(c)]
  /\ Goto(Here(c), "claim")
  /\ UNCHANGED <<cpu, me, nxt, first, prev, mem, stopped>>

TestNext(c) ==
  LET k == Here(c) IN
  /\ At(c, "test")
  /\ nxt[k] # me[k]
  /\ Goto(k, IF flag[nxt[k]] THEN "requeue" ELSE "claim")
  /\ UNCHANGED <<cpu, me, nxt, first, prev, mem, stopped>>

\* Mutant: a flagged thread is passed over and forgotten.
RequeueForgotten(c) ==
  /\ At(c, "requeue")
  /\ nxt' = [nxt EXCEPT ![Here(c)] = None]
  /\ Goto(Here(c), "block")
  /\ UNCHANGED <<cpu, me, first, prev, mem, stopped>>

Requeue(c) ==
  /\ At(c, "requeue")
  /\ Add("ready", nxt[Here(c)])
  /\ nxt' = [nxt EXCEPT ![Here(c)] = None]
  /\ Goto(Here(c), "block")
  /\ UNCHANGED <<cpu, me, first, prev, flag, context, count, here, stopped>>

\* Mutant: activeThreads is written before the flag goes up.
ClaimForgotten(c) ==
  /\ At(c, "claim")
  /\ Goto(Here(c), "activate")
  /\ UNCHANGED <<cpu, me, nxt, first, prev, mem, stopped>>

Claim(c) ==
  /\ At(c, "claim")
  /\ flag' = [flag EXCEPT ![nxt[Here(c)]] = TRUE]
  /\ Goto(Here(c), "activate")
  /\ UNCHANGED <<cpu, me, nxt, first, prev, context, queue, count, here, stopped>>

Activate(c) ==
  /\ At(c, "activate")
  /\ active' = [active EXCEPT ![c] = nxt[Here(c)]]
  /\ Goto(Here(c), "save")
  /\ UNCHANGED <<sp, intr, me, nxt, first, prev, mem, stopped>>

-----------------------------------------------------------------------------
(* contextSwitch(&me->ebx, &next->ebx) *)

Save(c) ==
  /\ At(c, "save")
  /\ context' = [context EXCEPT ![me[Here(c)]] = IF intr[c] THEN "on" ELSE "off"]
  /\ Goto(Here(c), "load")
  /\ UNCHANGED <<cpu, me, nxt, first, prev, flag, queue, count, here, stopped>>

\* From cli to popf: the core is on the next stack, with its interrupt flag.
Load(c) ==
  LET k == Here(c)
      n == nxt[k]
  IN
  /\ At(c, "load")
  /\ sp' = [sp EXCEPT ![c] = n]
  /\ intr' = [intr EXCEPT ![c] = context[n] = "on"]
  /\ context' = [context EXCEPT ![n] = "stale"]
  /\ prev' = [prev EXCEPT ![n] = me[k]]
  /\ nxt' = [nxt EXCEPT ![k] = None]
  /\ me' = [me EXCEPT ![k] = None]
  /\ Goto(k, "off")
  /\ UNCHANGED <<active, first, flag, queue, count, here, stopped>>

Switched(c) == At(c, "off") \/ At(c, "born")

\* Mutant: prev->leaveMeAlone stays up.
ReleasePrevForgotten(c) ==
  /\ Switched(c)
  /\ prev[sp[c]] # None
  /\ prev' = [prev EXCEPT ![sp[c]] = None]
  /\ UNCHANGED <<cpu, pc, me, nxt, first, mem, stopped>>

ReleasePrev(c) ==
  LET p == prev[sp[c]] IN
  /\ Switched(c)
  /\ p # None
  /\ flag' = [flag EXCEPT ![p] = FALSE]
  /\ prev' = [prev EXCEPT ![sp[c]] = None]
  /\ UNCHANGED <<cpu, pc, me, nxt, first, context, queue, count, here, stopped>>

\* curr->leaveMeAlone = 0 and the return, into block() or into entry().
ReleaseCurr(c) ==
  /\ Switched(c)
  /\ prev[sp[c]] = None
  /\ flag' = [flag EXCEPT ![sp[c]] = FALSE]
  /\ IF At(c, "born") THEN Goto(Here(c), "entry") /\ UNCHANGED <<intr, me>>
                      ELSE Return(c)
  /\ UNCHANGED <<sp, active, nxt, first, prev, context, queue, count, here, stopped>>

\* entry(): active()->start(), which is the reaper's loop or a user's work.
Entry(c) ==
  /\ At(c, "entry")
  /\ Goto(Here(c), IF active[c] = Reaper THEN "reap" ELSE "work")
  /\ UNCHANGED <<cpu, me, nxt, first, prev, mem, stopped>>

-----------------------------------------------------------------------------
(* reaper() and thread() *)

\* reaper() returns: to the reaper's loop, or to thread() which allocates.
Reaped(k) ==
  /\ first' = [first EXCEPT ![k[1]] = None]
  /\ nxt' = [nxt EXCEPT ![k] = None]
  /\ Goto(k, IF k[1] = Reaper THEN "yield" ELSE "spawn")

Reap(c) ==
  LET k == Here(c) IN
  /\ Enter(c, "reap")
  /\ IF queue["zombie"] = <<>>
       THEN Reaped(k) /\ UNCHANGED queue
       ELSE /\ nxt' = [nxt EXCEPT ![k] = Head(queue["zombie"])]
            /\ Remove("zombie")
            /\ Goto(k, "inspect")
            /\ UNCHANGED first
  /\ UNCHANGED <<cpu, me, prev, flag, context, count, here, stopped>>

\* Mutant: a zombie is deleted whether or not it still runs.
InspectNever(c) ==
  /\ At(c, "inspect")
  /\ Goto(Here(c), "delete")
  /\ UNCHANGED <<cpu, me, nxt, first, prev, mem, stopped>>

\* A zombie left alone twice ends the search: the second time it is dropped.
Inspect(c) ==
  LET k == Here(c)
      z == nxt[k]
      f == first[k[1]]
  IN
  /\ At(c, "inspect")
  /\ \/ /\ flag[z] /\ z = f
        /\ Reaped(k)
     \/ /\ flag[z] /\ z # f
        /\ first' = [first EXCEPT ![k[1]] = IF f = None THEN z ELSE f]
        /\ Goto(k, "rebury")
        /\ UNCHANGED nxt
     \/ /\ ~flag[z]
        /\ Goto(k, "delete")
        /\ UNCHANGED <<first, nxt>>
  /\ UNCHANGED <<cpu, me, prev, mem, stopped>>

Rebury(c) ==
  /\ At(c, "rebury")
  /\ Add("zombie", nxt[Here(c)])
  /\ nxt' = [nxt EXCEPT ![Here(c)] = None]
  /\ Goto(Here(c), "reap")
  /\ UNCHANGED <<cpu, me, first, prev, flag, context, count, here, stopped>>

\* delete th: nothing that is in the block survives.
Delete(c) ==
  LET k == Here(c)
      z == nxt[k]
  IN
  /\ At(c, "delete")
  /\ pc' = [pc EXCEPT ![k] = "reap", ![<<z, 0>>] = "free"]
  /\ stopped' = stopped \ {z}
  /\ nxt' = [nxt EXCEPT ![k] = None]
  /\ context' = [context EXCEPT ![z] = "stale"]
  /\ UNCHANGED <<cpu, me, first, prev, flag, queue, count, here>>

\* new ThreadImpl, its first stack frame written with interrupts on.
Spawn(c) ==
  LET k == Here(c) IN
  /\ At(c, "spawn")
  /\ \E t \in User :
       /\ pc[<<t, 0>>] = "free"
       /\ pc' = [pc EXCEPT ![k] = "schedule", ![<<t, 0>>] = "born"]
       /\ nxt' = [nxt EXCEPT ![k] = t]
       /\ flag' = [flag EXCEPT ![t] = FALSE]
       /\ context' = [context EXCEPT ![t] = "on"]
  /\ UNCHANGED <<cpu, me, first, prev, queue, count, here, stopped>>

\* schedule(t), the end of thread() and of up(); an InitialThread stops next.
Schedule(c) ==
  LET k == Here(c) IN
  /\ At(c, "schedule")
  /\ Add("ready", nxt[k])
  /\ nxt' = [nxt EXCEPT ![k] = None]
  /\ Goto(k, IF k[1] \in User THEN "work" ELSE "stop")
  /\ UNCHANGED <<cpu, me, first, prev, flag, context, count, here, stopped>>

-----------------------------------------------------------------------------
(* Semaphore::down and Semaphore::up, by user threads *)

Down(c, s) ==
  LET k == Here(c) IN
  /\ Enter(c, "down")
  /\ IF count[s] = 0
       THEN /\ me' = [me EXCEPT ![k] = active[c]]
            /\ flag' = [flag EXCEPT ![active[c]] = TRUE]
            /\ Add(s, active[c])
            /\ Goto(k, "block")
            /\ UNCHANGED count
       ELSE /\ count' = [count EXCEPT ![s] = @ - 1]
            /\ UNCHANGED <<pc, me, flag, queue>>
  /\ UNCHANGED <<cpu, nxt, first, prev, context, here, stopped>>

\* Mutant: the count goes up even though the waiter is woken.
UpTwice(c, s) ==
  LET k == Here(c) IN
  /\ Enter(c, "up")
  /\ count[s] < MaxCount
  /\ count' = [count EXCEPT ![s] = @ + 1]
  /\ IF queue[s] = <<>>
       THEN UNCHANGED <<pc, nxt, queue>>
       ELSE /\ nxt' = [nxt EXCEPT ![k] = Head(queue[s])]
            /\ Remove(s)
            /\ Goto(k, "schedule")
  /\ UNCHANGED <<cpu, me, first, prev, flag, context, here, stopped>>

Up(c, s) ==
  LET k == Here(c) IN
  /\ Enter(c, "up")
  /\ IF queue[s] = <<>>
       THEN /\ count[s] < MaxCount
            /\ count' = [count EXCEPT ![s] = @ + 1]
            /\ UNCHANGED <<pc, nxt, queue>>
       ELSE /\ nxt' = [nxt EXCEPT ![k] = Head(queue[s])]
            /\ Remove(s)
            /\ Goto(k, "schedule")
            /\ UNCHANGED count
  /\ UNCHANGED <<cpu, me, first, prev, flag, context, here, stopped>>

-----------------------------------------------------------------------------
YieldOrStop(c) == Yield(c) \/ CheckAlone(c) \/ SetAlone(c) \/ Enqueue(c)
                  \/ Stop(c) \/ Mark(c) \/ Bury(c)
Block(c) == Pick(c) \/ PickedMyself(c) \/ TestNext(c) \/ Requeue(c)
            \/ Claim(c) \/ Activate(c)
Switch(c) == Save(c) \/ Load(c) \/ ReleasePrev(c) \/ ReleaseCurr(c) \/ Entry(c)
ReapOrSpawn(c) == Reap(c) \/ Inspect(c) \/ Rebury(c) \/ Delete(c)
                  \/ Spawn(c) \/ Schedule(c)
CoreStep(c) == Sti(c) \/ Arrive(c) \/ YieldOrStop(c) \/ Block(c) \/ Switch(c)
               \/ ReapOrSpawn(c) \/ \E s \in Sem : Down(c, s) \/ Up(c, s)

Next == \E c \in Core : CoreStep(c) \/ Interrupt(c)

Spec == Init /\ [][Next]_vars

\* A core goes on while it can, its timer keeps ticking, and between two ticks
\* the interrupted code gets somewhere: a tick lasts 1ms, its handler far less.
Fairness ==
  \A c \in Core :
    /\ WF_vars(CoreStep(c))
    /\ WF_vars(Interrupt(c))
    /\ \A t \in Thread : SF_vars(Here(c) = <<t, 0>> /\ CoreStep(c))

FairSpec == Init /\ [][Next]_vars /\ Fairness

-----------------------------------------------------------------------------
(* Properties *)

Live(t) == pc[<<t, 0>>] # "free"
Running(t) == \E c \in Core : sp[c] = t
InQueue(q, t) == \E i \in 1..Len(queue[q]) : queue[q][i] = t
Waiting(t) == \E s \in Sem : InQueue(s, t)

TypeOK ==
  /\ sp \in [Core -> Thread]
  /\ active \in [Core -> Thread]
  /\ intr \in [Core -> BOOLEAN]
  /\ pc \in [Ctx -> Label]
  /\ me \in [Ctx -> Thread \cup {None}]
  /\ nxt \in [Ctx -> Thread \cup {None}]
  /\ first \in [Thread -> Thread \cup {None}]
  /\ prev \in [Thread -> Thread \cup {None}]
  /\ flag \in [Thread -> BOOLEAN]
  /\ context \in [Thread -> {"on", "off", "stale"}]
  /\ queue \in [Queue -> Seq(Thread)]
  /\ count \in [Sem -> Nat]
  /\ here \in Nat
  /\ stopped \in SUBSET Thread

\* No two cores are ever on one stack, however yields, wake-ups and timer
\* interrupts interleave: what leaveMeAlone is for.
OneCorePerStack == \A c, d \in Core : sp[c] = sp[d] => c = d

\* contextSwitch loads only a save area that its owner has finished writing and
\* that nobody has loaded since; the flag alone tells block() so.
LoadsOnlySaved ==
  \A k \in Ctx : pc[k] \in {"claim", "activate", "save", "load"} =>
    /\ context[nxt[k]] # "stale"
    /\ ~Running(nxt[k])

\* A thread is linked into one queue, or held by one context that took it out,
\* never both or twice: the queues share the thread's one `next` pointer.
OnePlace ==
  \A t \in Thread :
    /\ \A q, r \in Queue : \A i \in 1..Len(queue[q]), j \in 1..Len(queue[r]) :
         queue[q][i] = t /\ queue[r][j] = t => q = r /\ i = j
    /\ \A k \in Ctx : nxt[k] = t =>
         /\ \A q \in Queue : ~InQueue(q, t)
         /\ \A l \in Ctx : nxt[l] = t => l = k

\* A thread that has not stopped is running, or is somewhere it can be found.
NoLostThread ==
  \A t \in Thread : Live(t) /\ t \notin stopped /\ ~Running(t) =>
    \/ \E q \in {"ready"} \cup Sem : InQueue(q, t)
    \/ \E k \in Ctx : nxt[k] = t

\* activeThreads is wrong only between block()'s write to it and the change of
\* stacks; a handler that comes then finds the flag of the thread it takes for
\* itself set, and leaves.
ActiveIsRunning ==
  \A c \in Core : active[c] # sp[c] =>
    LET k == IF pc[<<sp[c], 0>>] \in {"save", "load"} THEN <<sp[c], 0>> ELSE <<sp[c], 1>>
    IN  /\ pc[k] \in {"save", "load"}
        /\ active[c] = nxt[k]
        /\ flag[active[c]]

\* Whoever queues itself, blocks or saves its registers is the thread whose
\* stack the core is on, even if a handler moved it since it read `me`.
MeIsSelf ==
  \A k \in Ctx : pc[k] \in {"set", "enqueue", "mark", "bury", "block", "test",
                            "requeue", "claim", "activate", "save", "load"}
                   => me[k] = k[1]

\* A handler runs with interrupts off and no other code does, across switches
\* between threads that were interrupted and threads that yielded.
InterruptsMatch ==
  \A c \in Core : pc[<<sp[c], 0>>] # "boot" =>
    (intr[c] <=> pc[<<sp[c], 1>>] = "none")

\* Nothing that can still be followed leads to a deleted thread: no queue, no
\* core, no register, no flag a context switch has yet to clear.
NoUseAfterDelete ==
  \A t \in Thread : ~Live(t) =>
    /\ \A c \in Core : sp[c] # t /\ active[c] # t
    /\ \A q \in Queue : ~InQueue(q, t)
    /\ \A k \in Ctx : me[k] # t /\ nxt[k] # t
    /\ \A u \in Thread : prev[u] # t

\* A stopped thread is never switched to again, and never comes out of stop()'s
\* block(): it meets neither a core that takes it nor itself in readyQ.
StoppedForGood ==
  [][/\ \A c \in Core : sp'[c] # sp[c] => sp'[c] \notin stopped
     /\ \A t \in stopped : pc'[<<t, 0>>] \notin {"work", "reap"}]_vars

\* Every thread that is neither waiting nor stopped gets a core, again and
\* again: the timer takes the core from threads that never yield.
EveryThreadRuns ==
  \A t \in Thread :
    (Live(t) /\ t \notin stopped /\ ~Waiting(t)) ~> (Running(t) \/ ~Live(t))

\* The boot comes to kernelMain: the InitialThreads count themselves in, stop
\* and are deleted, and a thread made by thread() gets a core.
KernelMainRuns == <>(\E u \in User : Running(u) /\ pc[<<u, 0>>] = "work")

\* A thread that stopped is deleted in the end.
EveryZombieIsDeleted == \A t \in Thread : (t \in stopped) ~> ~Live(t)

\* A thread leaves the reaper's hands only for zombieQ or by being deleted.
NoZombieDropped ==
  \A t \in stopped : ~Running(t) =>
    InQueue("zombie", t) \/ \E k \in Ctx : nxt[k] = t

\* The threads and semaphores a user sees.
Lives ==
  [t \in Thread |-> IF ~Live(t) THEN "absent"
                     ELSE IF t \in stopped THEN "stopped"
                     ELSE IF Waiting(t) THEN "waiting" ELSE "runnable"]
Waiters == [s \in Sem |-> queue[s]]

Abstract == INSTANCE Threads WITH run <- sp, life <- Lives, waiting <- Waiters

ImplementsThreads == Abstract!Spec
=============================================================================
