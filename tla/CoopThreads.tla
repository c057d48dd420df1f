---------------------------- MODULE CoopThreads ----------------------------
(***************************************************************************)
(* The cooperative multi-core threads of p4_cooperative_multithreads       *)
(* (threads.cc, threads.h, context.S, queue.h, the end of kernelInit).     *)
(* Interrupts stay off: the steps of a core are interleaved with those of  *)
(* the other cores only, so what a core does next belongs to the core.     *)
(***************************************************************************)
EXTENDS Naturals, Sequences, FiniteSets

CONSTANTS Core,  \* the cores; the FakeTCB of core c is named c
          User,  \* blocks of memory for threads made by thread()
          None   \* the null pointer

Thread == Core \cup User

VARIABLES
  pc, me, cand,      \* per core: its next step and the locals of yield and stop
  sp,                \* per core, the thread whose stack it is on
  active,
  flag,              \* per thread, save_area[5]
  alive,             \* threads that are not deleted
  readyQ, zombieQ,
  here               \* howManyAreHere

locals == <<pc, me, cand>>
queues == <<readyQ, zombieQ>>
vars == <<locals, sp, active, flag, alive, queues, here>>

Init ==
  /\ pc = [c \in Core |-> "arrive"]
  /\ me = [c \in Core |-> None] /\ cand = [c \in Core |-> None]
  /\ sp = [c \in Core |-> c] /\ active = [c \in Core |-> c]
  /\ flag = [t \in Thread |-> 1]
  /\ alive = Core
  /\ readyQ = <<>> /\ zombieQ = <<>>
  /\ here = 0

Step(c, from, to) == pc[c] = from /\ pc' = [pc EXCEPT ![c] = to]

\* The last core to come makes the thread that runs kernelMain.
Arrive(c) ==
  /\ Step(c, "arrive", IF here + 1 = Cardinality(Core) THEN "new" ELSE "stop")
  /\ here' = here + 1
  /\ UNCHANGED <<me, cand, sp, active, flag, alive, queues>>

\* A thread at work yields, or stops...
Work(c) ==
  /\ Step(c, "work", "yield") \/ Step(c, "work", "stop")
  /\ UNCHANGED <<me, cand, sp, active, flag, alive, queues, here>>

\* ...or makes another thread.
New(c) ==
  /\ \E t \in User \ alive :
       /\ cand' = [cand EXCEPT ![c] = t]
       /\ flag' = [flag EXCEPT ![t] = 1]
       /\ alive' = alive \cup {t}
  /\ Step(c, "new", "schedule") \/ Step(c, "work", "schedule")
  /\ UNCHANGED <<me, sp, active, queues, here>>

Schedule(c) ==
  /\ Step(c, "schedule", IF sp[c] \in Core THEN "stop" ELSE "work")
  /\ readyQ' = Append(readyQ, cand[c])
  /\ UNCHANGED <<me, cand, sp, active, flag, alive, zombieQ, here>>

-----------------------------------------------------------------------------
(* yield() and stop() *)

\* yield() first deletes whatever is in zombieQ.
TakeZombie(c) ==
  /\ zombieQ # <<>>
  /\ Step(c, "yield", "delete")
  /\ cand' = [cand EXCEPT ![c] = Head(zombieQ)]
  /\ zombieQ' = Tail(zombieQ)
  /\ UNCHANGED <<me, sp, active, flag, alive, readyQ, here>>

Delete(c) ==
  /\ Step(c, "delete", "yield")
  /\ alive' = alive \ {cand[c]}
  /\ UNCHANGED <<me, cand, sp, active, flag, queues, here>>

NoZombies(c) ==
  /\ zombieQ = <<>>
  /\ Step(c, "yield", "pick")
  /\ UNCHANGED <<me, cand, sp, active, flag, alive, queues, here>>

\* With nobody ready yield() returns; stop() tries again.
Pick(c, from, to) ==
  /\ readyQ # <<>>
  /\ Step(c, from, to)
  /\ cand' = [cand EXCEPT ![c] = Head(readyQ)]
  /\ readyQ' = Tail(readyQ)
  /\ UNCHANGED <<me, sp, active, flag, alive, zombieQ, here>>

NobodyReady(c) ==
  /\ readyQ = <<>>
  /\ Step(c, "pick", "work")
  /\ UNCHANGED <<me, cand, sp, active, flag, alive, queues, here>>

\* A thread that is not saved yet goes back to the end of the queue.
Requeue(c, from, to) ==
  /\ Step(c, from, to)
  /\ flag[cand[c]] = 0
  /\ readyQ' = Append(readyQ, cand[c])
  /\ UNCHANGED <<me, cand, sp, active, flag, alive, zombieQ, here>>

Activate(c, from, to) ==
  /\ Step(c, from, to)
  /\ flag[cand[c]] = 1
  /\ me' = [me EXCEPT ![c] = active[c]]
  /\ active' = [active EXCEPT ![c] = cand[c]]
  /\ flag' = IF to = "enqueue" THEN [flag EXCEPT ![active[c]] = 0] ELSE flag
  /\ UNCHANGED <<cand, sp, alive, queues, here>>

Enqueue(c) ==
  /\ Step(c, "enqueue", "save")
  /\ readyQ' = Append(readyQ, me[c])
  /\ UNCHANGED <<me, cand, sp, active, flag, alive, zombieQ, here>>

\* The stack is in zombieQ before the core has left it.
Bury(c) ==
  /\ Step(c, "bury", "save")
  /\ zombieQ' = Append(zombieQ, me[c])
  /\ UNCHANGED <<me, cand, sp, active, flag, alive, readyQ, here>>

\* contextSwitch writes save_area and sets its flag while on the old stack...
Save(c) ==
  /\ Step(c, "save", "load")
  /\ flag' = [flag EXCEPT ![me[c]] = 1]
  /\ UNCHANGED <<me, cand, sp, active, alive, queues, here>>

\* ...and goes on in the new one: where it yielded, or at thread_entry.
Load(c) ==
  /\ Step(c, "load", "work")
  /\ sp' = [sp EXCEPT ![c] = cand[c]]
  /\ UNCHANGED <<me, cand, active, flag, alive, queues, here>>

CoreStep(c) ==
  \/ Arrive(c) \/ Work(c) \/ New(c) \/ Schedule(c)
  \/ TakeZombie(c) \/ Delete(c) \/ NoZombies(c) \/ NobodyReady(c)
  \/ Pick(c, "pick", "test") \/ Requeue(c, "test", "pick") \/ Activate(c, "test", "enqueue")
  \/ Pick(c, "stop", "check") \/ Requeue(c, "check", "stop") \/ Activate(c, "check", "bury")
  \/ Enqueue(c) \/ Bury(c) \/ Save(c) \/ Load(c)

Next == \E c \in Core : CoreStep(c)
Spec == Init /\ [][Next]_vars

-----------------------------------------------------------------------------
(* Properties *)

\* A stack is deleted only when the core that ran on it has switched to another
\* thread (REPORT.txt:12); at "load" contextSwitch reads it no more.
OnStack(c, t) == sp[c] = t /\ pc[c] # "load"
DeletedAfterSwitch == \A c \in Core : \A t \in User \ alive : ~OnStack(c, t)
=============================================================================
