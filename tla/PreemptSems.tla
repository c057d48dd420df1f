---------------------------- MODULE PreemptSems ----------------------------
(***************************************************************************)
(* The semaphores of p5 (semaphore.cc, semaphore.h) on its threads.  up,   *)
(* and down while there is a count, are one step under the semaphore's     *)
(* lock.  block() gives the lock back, with interrupts as they were, after *)
(* it has read the number of its core, and is then code like any other:    *)
(* the thread may be interrupted there and go on on another core.          *)
(***************************************************************************)
EXTENDS PreemptThreads

CONSTANTS Sem, MaxCount

VARIABLES
  counter, blockQ,  \* per semaphore
  local             \* per thread, the locals of block()

semaphores == <<counter, blockQ>>
allVars == <<vars, semaphores, local>>

Idle == [sem |-> None, mycore |-> None, me |-> None, candidate |-> None]

InitSems ==
  /\ Init
  /\ counter \in [Sem -> 0..MaxCount]
  /\ blockQ = [s \in Sem |-> <<>>]
  /\ local = [t \in Thread |-> Idle]

Set(c, r) == local' = [local EXCEPT ![sp[c]] = r]
Count(s, n) == counter' = [counter EXCEPT ![s] = n]

Up(c, s) ==
  /\ AtWork(c, "work")
  /\ IF blockQ[s] = <<>>
       THEN counter[s] < MaxCount /\ Count(s, counter[s] + 1) /\ UNCHANGED <<readyQ, blockQ>>
       ELSE /\ readyQ' = Append(readyQ, Head(blockQ[s]))
            /\ blockQ' = [blockQ EXCEPT ![s] = Tail(@)]
            /\ UNCHANGED counter
  /\ UNCHANGED <<sp, intr, active, kernel, at, flag, saved, zombieQ, here, local>>

Down(c, s) ==
  /\ AtWork(c, "work")
  /\ counter[s] > 0
  /\ Count(s, counter[s] - 1)
  /\ UNCHANGED <<vars, blockQ, local>>

\* The lines of block() before the lock is given back, taken in down().
Block(c, s) ==
  /\ AtWork(c, "work")
  /\ counter[s] = 0
  /\ Set(c, [sem |-> s, mycore |-> c, me |-> active[c],
             candidate |-> IF readyQ = <<>> THEN None ELSE Head(readyQ)])
  /\ Goto(c, IF readyQ = <<>> THEN "poll" ELSE "look")
  /\ readyQ' = IF readyQ = <<>> THEN readyQ ELSE Tail(readyQ)
  /\ UNCHANGED <<sp, intr, active, kernel, flag, saved, zombieQ, here, semaphores>>

\* Somebody called up(): block() has nothing left to wait for.
Got(c) ==
  LET l == local[sp[c]] IN
  /\ AtWork(c, "poll") \/ AtWork(c, "commit")
  /\ counter[l.sem] > 0
  /\ Count(l.sem, counter[l.sem] - 1)
  /\ readyQ' = IF at[sp[c]] = "commit" THEN Append(readyQ, l.candidate) ELSE readyQ
  /\ Goto(c, "work") /\ Set(c, Idle)
  /\ UNCHANGED <<sp, intr, active, kernel, flag, saved, zombieQ, here, blockQ>>

StillZero(c) ==
  /\ AtWork(c, "poll")
  /\ counter[local[sp[c]].sem] = 0
  /\ Goto(c, "remove")
  /\ UNCHANGED <<sp, intr, active, kernel, flag, saved, queues, here, semaphores, local>>

Remove(c) ==
  /\ AtWork(c, "remove")
  /\ IF readyQ = <<>>
       THEN Goto(c, "poll") /\ UNCHANGED <<readyQ, local>>
       ELSE /\ Goto(c, "look")
            /\ Set(c, [local[sp[c]] EXCEPT !.candidate = Head(readyQ)])
            /\ readyQ' = Tail(readyQ)
  /\ UNCHANGED <<sp, intr, active, kernel, flag, saved, zombieQ, here, semaphores>>

Look(c) ==
  /\ AtWork(c, "look")
  /\ IF flag[local[sp[c]].candidate] = 1
       THEN Goto(c, "commit") /\ UNCHANGED readyQ
       ELSE Goto(c, "remove") /\ readyQ' = Append(readyQ, local[sp[c]].candidate)
  /\ UNCHANGED <<sp, intr, active, kernel, flag, saved, zombieQ, here, semaphores, local>>

\* The thread queues itself and leaves, for the core it was on at Block.
Commit(c) ==
  LET l == local[sp[c]] IN
  /\ AtWork(c, "commit")
  /\ counter[l.sem] = 0
  /\ active' = [active EXCEPT ![l.mycore] = l.candidate]
  /\ flag' = [flag EXCEPT ![l.me] = 0, ![l.candidate] = 0]
  /\ blockQ' = [blockQ EXCEPT ![l.sem] = Append(@, l.me)]
  /\ pc' = [pc EXCEPT ![c] = "switch"]
  /\ me' = [me EXCEPT ![c] = l.me]
  /\ Hold(c, l.candidate)
  /\ how' = [how EXCEPT ![c] = IF intr[c] THEN "on" ELSE "off"]
  /\ intr' = [intr EXCEPT ![c] = FALSE]
  /\ Goto(c, "work") /\ Set(c, Idle)
  /\ UNCHANGED <<sp, saved, queues, here, counter>>

Semaphores(c) ==
  \/ \E s \in Sem : Up(c, s) \/ Down(c, s) \/ Block(c, s)
  \/ Got(c) \/ StillZero(c) \/ Remove(c) \/ Look(c) \/ Commit(c)

NextSems == (Next /\ UNCHANGED <<semaphores, local>>) \/ \E c \in Core : Semaphores(c)

SpecSems == InitSems /\ [][NextSems]_allVars
=============================================================================
