-------------------------- MODULE PreemptThreads --------------------------
(***************************************************************************)
(* The preemptive threads of p5 (threads.cc, threads.h, context.S, queue.h,*)
(* apitHandler in pit.cc, the end of kernelInit).  yield and stop run with *)
(* interrupts off from their first line to the switch, on the core they    *)
(* began on: what they do next belongs to the core.  What the thread does  *)
(* next once they are over belongs to the thread.                          *)
(***************************************************************************)
EXTENDS Naturals, Sequences, FiniteSets

CONSTANTS Core,  \* the cores; the FakeTCB of core c is named c
          User,  \* blocks of memory for threads made by thread()
          None   \* the null pointer

Thread == Core \cup User

VARIABLES
  sp,         \* per core, the thread whose stack it is on
  intr,       \* per core, the interrupt flag
  active,
  pc,         \* per core, "run", or its next step in yield, stop or the switch
  me, cand,   \* per core, the locals of yield and stop
  how,        \* per core, what the yield or stop it is in returns to
  at,         \* per thread, where its own code is
  flag,       \* per thread, save_area[5]
  saved,      \* per thread, what its save area leads to, "stale" while it runs
  readyQ, zombieQ,
  here        \* howManyAreHere

kernel == <<pc, me, cand, how>>
queues == <<readyQ, zombieQ>>
vars == <<sp, intr, active, kernel, at, flag, saved, queues, here>>

Init ==
  /\ sp = [c \in Core |-> c] /\ active = [c \in Core |-> c]
  /\ intr = [c \in Core |-> TRUE]
  /\ pc = [c \in Core |-> "run"]
  /\ me = [c \in Core |-> None] /\ cand = [c \in Core |-> None]
  /\ how = [c \in Core |-> "none"]
  /\ at = [t \in Thread |-> IF t \in Core THEN "arrive" ELSE "absent"]
  /\ flag = [t \in Thread |-> 1]
  /\ saved = [t \in Thread |-> "stale"]
  /\ readyQ = <<>> /\ zombieQ = <<>>
  /\ here = 0

-----------------------------------------------------------------------------
(* What threads do, with interrupts on *)

\* Core c runs the code of the thread it is on, which is at one point of it.
AtWork(c, where) == pc[c] = "run" /\ at[sp[c]] = where

Goto(c, where) == at' = [at EXCEPT ![sp[c]] = where]

disable(c) == intr' = [intr EXCEPT ![c] = FALSE]
enable(c, was) == intr' = [intr EXCEPT ![c] = @ \/ was]

Enter(c, step, return) ==
  /\ pc' = [pc EXCEPT ![c] = step]
  /\ me' = [me EXCEPT ![c] = active[c]]
  /\ how' = [how EXCEPT ![c] = return]
  /\ disable(c)
  /\ UNCHANGED <<sp, active, cand, flag, saved, queues, here>>

apitHandler(c) == Enter(c, "reap", "iret")

\* The timer: apitHandler calls yield, and iret turns interrupts on again.
Interrupt(c) ==
  /\ pc[c] = "run" /\ intr[c]
  /\ apitHandler(c)
  /\ UNCHANGED at

\* A thread calls yield; disable() notes the flag for enable(was).
Yield(c) ==
  /\ AtWork(c, "work")
  /\ Enter(c, "reap", IF intr[c] THEN "on" ELSE "off")
  /\ UNCHANGED at

\* The work of a thread is over, or kernelInit is.
Stop(c) ==
  /\ AtWork(c, "work") \/ AtWork(c, "leave")
  /\ Goto(c, "stopped")
  /\ Enter(c, "pick to stop", "none")

\* The last core to come makes the thread that runs kernelMain.
Arrive(c) ==
  /\ AtWork(c, "arrive")
  /\ here' = here + 1
  /\ Goto(c, IF here + 1 = Cardinality(Core) THEN "last" ELSE "leave")
  /\ UNCHANGED <<sp, intr, active, kernel, flag, saved, queues>>

New(c) ==
  /\ AtWork(c, "work") \/ AtWork(c, "last")
  /\ \E t \in User :
       /\ at[t] = "absent"
       /\ at' = [at EXCEPT ![t] = "work", ![sp[c]] = IF @ = "last" THEN "leave" ELSE @]
       /\ flag' = [flag EXCEPT ![t] = 1]
       /\ saved' = [saved EXCEPT ![t] = "entry"]
       /\ readyQ' = Append(readyQ, t)
  /\ UNCHANGED <<sp, intr, active, kernel, zombieQ, here>>

-----------------------------------------------------------------------------
(* yield() and stop() *)

Step(c, from, to) == pc[c] = from /\ pc' = [pc EXCEPT ![c] = to]
Hold(c, t) == cand' = [cand EXCEPT ![c] = t]

TakeZombie(c) ==
  /\ zombieQ # <<>>
  /\ Step(c, "reap", "look at zombie")
  /\ Hold(c, Head(zombieQ))
  /\ zombieQ' = Tail(zombieQ)
  /\ UNCHANGED <<sp, intr, active, me, how, at, flag, saved, readyQ, here>>

NoZombies(c) ==
  /\ zombieQ = <<>>
  /\ Step(c, "reap", "pick")
  /\ UNCHANGED <<sp, intr, active, me, cand, how, at, flag, saved, queues, here>>

\* A zombie whose core has not left its stack goes back; the rest are deleted.
KeepZombie(c) ==
  /\ Step(c, "look at zombie", "pick")
  /\ flag[cand[c]] = 0
  /\ zombieQ' = Append(zombieQ, cand[c])
  /\ Hold(c, None)
  /\ UNCHANGED <<sp, intr, active, me, how, at, flag, saved, readyQ, here>>

\* Mutant: zombies are deleted without a look at the flag.
DeleteAny(c) ==
  /\ Step(c, "look at zombie", "reap")
  /\ at' = [at EXCEPT ![cand[c]] = "absent"]
  /\ saved' = [saved EXCEPT ![cand[c]] = "stale"]
  /\ Hold(c, None)
  /\ UNCHANGED <<sp, intr, active, me, how, flag, queues, here>>

Delete(c) ==
  /\ Step(c, "look at zombie", "reap")
  /\ flag[cand[c]] = 1
  /\ at' = [at EXCEPT ![cand[c]] = "absent"]
  /\ saved' = [saved EXCEPT ![cand[c]] = "stale"]
  /\ Hold(c, None)
  /\ UNCHANGED <<sp, intr, active, me, how, flag, queues, here>>

Pick(c, from, to) ==
  /\ readyQ # <<>>
  /\ Step(c, from, to)
  /\ Hold(c, Head(readyQ))
  /\ readyQ' = Tail(readyQ)
  /\ UNCHANGED <<sp, intr, active, me, how, at, flag, saved, zombieQ, here>>

\* stop() tries until there is somebody.
NobodyYet(c) ==
  /\ pc[c] = "pick to stop" /\ readyQ = <<>>
  /\ UNCHANGED vars

\* yield() returns without enable(was): a thread that called it goes on with
\* interrupts off, one that was interrupted gets them back from iret.
EarlyReturn(c) ==
  /\ pc' = [pc EXCEPT ![c] = "run"]
  /\ intr' = [intr EXCEPT ![c] = how[c] = "iret"]
  /\ how' = [how EXCEPT ![c] = "none"]
  /\ me' = [me EXCEPT ![c] = None]

NobodyReady(c) ==
  /\ pc[c] = "pick" /\ readyQ = <<>>
  /\ EarlyReturn(c)
  /\ UNCHANGED <<sp, active, cand, at, flag, saved, queues, here>>

\* Mutant: a thread that is not saved yet is not put back.
NotSavedDropped(c) ==
  /\ pc[c] = "look" /\ flag[cand[c]] = 0
  /\ EarlyReturn(c)
  /\ Hold(c, None)
  /\ UNCHANGED <<sp, active, at, flag, saved, queues, here>>

\* A thread that is not saved yet goes back to the end of the queue.
NotSaved(c) ==
  /\ pc[c] = "look" /\ flag[cand[c]] = 0
  /\ EarlyReturn(c)
  /\ readyQ' = Append(readyQ, cand[c])
  /\ Hold(c, None)
  /\ UNCHANGED <<sp, active, at, flag, saved, zombieQ, here>>

NotSavedAgain(c) ==
  /\ Step(c, "look to stop", "pick to stop")
  /\ flag[cand[c]] = 0
  /\ readyQ' = Append(readyQ, cand[c])
  /\ Hold(c, None)
  /\ UNCHANGED <<sp, intr, active, me, how, at, flag, saved, zombieQ, here>>

\* me, which is active[mycore], is about to leave; it is queued before it has.
Leave(c, from, queue) ==
  /\ Step(c, from, "switch")
  /\ flag[cand[c]] = 1
  /\ active' = [active EXCEPT ![c] = cand[c]]
  /\ flag' = [flag EXCEPT ![me[c]] = 0, ![cand[c]] = 0]
  /\ IF queue = "ready"
       THEN readyQ' = Append(readyQ, me[c]) /\ UNCHANGED zombieQ
       ELSE zombieQ' = Append(zombieQ, me[c]) /\ UNCHANGED readyQ

\* Mutant: the old thread's flag stays up while it is being saved.
LeaveUnflagged(c) ==
  /\ Step(c, "look", "switch")
  /\ flag[cand[c]] = 1
  /\ active' = [active EXCEPT ![c] = cand[c]]
  /\ flag' = [flag EXCEPT ![cand[c]] = 0]
  /\ readyQ' = Append(readyQ, me[c])
  /\ UNCHANGED <<sp, intr, me, cand, how, at, saved, zombieQ, here>>

LeaveReady(c) ==
  /\ Leave(c, "look", "ready")
  /\ UNCHANGED <<sp, intr, me, cand, how, at, saved, here>>

LeaveStopped(c) ==
  /\ Leave(c, "look to stop", "zombie")
  /\ UNCHANGED <<sp, intr, me, cand, how, at, saved, here>>

-----------------------------------------------------------------------------
(* contextSwitch: save, load, and then put both flags up *)

Switch(c) ==
  /\ Step(c, "switch", "mark")
  /\ saved' = [saved EXCEPT ![me[c]] = how[c], ![cand[c]] = "stale"]
  /\ how' = [how EXCEPT ![c] = saved[cand[c]]]
  /\ sp' = [sp EXCEPT ![c] = cand[c]]
  /\ UNCHANGED <<intr, active, me, cand, at, flag, queues, here>>

\* The new thread goes on: at thread_entry, which reads active and enables
\* interrupts, behind its own switch with enable(was), or where the timer
\* interrupted it.
Mark(c) ==
  /\ Step(c, "mark", "run")
  /\ flag' = [flag EXCEPT ![me[c]] = 1, ![cand[c]] = 1]
  /\ enable(c, how[c] # "off")
  /\ Hold(c, None)
  /\ me' = [me EXCEPT ![c] = None]
  /\ how' = [how EXCEPT ![c] = "none"]
  /\ UNCHANGED <<sp, active, at, saved, queues, here>>

Kernel(c) ==
  \/ TakeZombie(c) \/ NoZombies(c) \/ KeepZombie(c) \/ Delete(c)
  \/ Pick(c, "pick", "look") \/ NobodyReady(c) \/ NotSaved(c) \/ LeaveReady(c)
  \/ Pick(c, "pick to stop", "look to stop") \/ NobodyYet(c) \/ NotSavedAgain(c)
  \/ LeaveStopped(c) \/ Switch(c) \/ Mark(c)

Work(c) == Arrive(c) \/ New(c) \/ Yield(c) \/ Stop(c)

Next == \E c \in Core : Interrupt(c) \/ Work(c) \/ Kernel(c)

Spec == Init /\ [][Next]_vars

\* A core goes on while it is in the kernel, the timer of a core whose
\* interrupts are on comes, the boot is finite, and what a thread does with
\* its time is its own business.
FairSpec ==
  /\ Spec
  /\ \A c \in Core : /\ WF_vars(Kernel(c))
                     /\ SF_vars(Interrupt(c))
                     /\ SF_vars(at[sp[c]] \in {"arrive", "last", "leave"} /\ Work(c))

-----------------------------------------------------------------------------
(* Properties *)

\* No stack has two cores on it, and a core only goes to a saved thread.
OneCorePerStack ==
  /\ \A c, d \in Core : sp[c] = sp[d] => c = d
  /\ \A c \in Core : pc[c] = "switch" => saved[cand[c]] # "stale"

\* A thread is in one queue, once, or in the hands of one core; and none that
\* exists is anywhere but there or on a core.
In(q, t) == Cardinality({i \in DOMAIN q : q[i] = t})
Hands(t) == {c \in Core : pc[c] \in {"look", "look to stop", "look at zombie", "switch"} /\ cand[c] = t}
OnePlace ==
  \A t \in Thread :
    LET places == In(readyQ, t) + In(zombieQ, t) + Cardinality(Hands(t))
    IN  /\ places <= 1
        /\ places = 0 => at[t] = "absent" \/ \E c \in Core : sp[c] = t

\* Nobody is on a deleted thread's stack, and no queue and no core knows it.
NothingDangles ==
  /\ \A c \in Core : at[sp[c]] # "absent" /\ at[active[c]] # "absent"
  /\ \A t \in Thread : at[t] = "absent" => In(readyQ, t) + In(zombieQ, t) = 0 /\ Hands(t) = {}

\* active names the thread that runs (the comment at its definition) whenever
\* code that asks it can run.
ActiveIsCurrent == \A c \in Core : pc[c] \notin {"switch"} => active[c] = sp[c]

\* All threads get a chance to run (README of p5): one that is ready runs.
EveryThreadRuns ==
  \A t \in User : at[t] = "work" ~> at[t] # "work" \/ \E c \in Core : sp[c] = t

\* The threads as their users see them.
Lives == [t \in Thread |-> IF at[t] \in {"absent", "stopped"} THEN at[t] ELSE "runnable"]
AsThreads == INSTANCE Threads WITH
  Sem <- {}, run <- sp, life <- Lives,
  count <- [s \in {} |-> 0], waiting <- [s \in {} |-> <<>>]

ImplementsThreads == AsThreads!Spec
=============================================================================
