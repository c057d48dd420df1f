------------------------------ MODULE Threads -------------------------------
(***************************************************************************)
(* What the threads and semaphores of the kernel promise: a core always    *)
(* runs one thread, a thread is on one core at a time, a core takes up     *)
(* only a thread that wants to run, a thread that stopped is never run     *)
(* again, and a semaphore either has a count or has waiters, which it      *)
(* wakes first come first served.  No queues, flags, interrupts or save    *)
(* areas.                                                                  *)
(***************************************************************************)
EXTENDS Naturals, Sequences

CONSTANTS Core, Thread, Sem

VARIABLES
  run,      \* the thread each core runs
  life,     \* per thread: "absent", "runnable", "waiting" or "stopped"
  count,    \* per semaphore
  waiting   \* per semaphore, its waiters, longest first

vars == <<run, life, count, waiting>>

Init ==
  /\ run \in [Core -> Thread]
  /\ \A c, d \in Core : run[c] = run[d] => c = d
  /\ life \in [Thread -> {"absent", "runnable"}]
  /\ \A c \in Core : life[run[c]] = "runnable"
  /\ count \in [Sem -> Nat]
  /\ waiting = [s \in Sem |-> <<>>]

Idle(t) == \A c \in Core : run[c] # t
\* The first conjunct follows from the second, and is the sooner decided.
Become(t, l) == life'[t] = l /\ life' = [life EXCEPT ![t] = l]

Dispatch(c, t) ==
  /\ run' = [run EXCEPT ![c] = t]
  /\ life[t] = "runnable" /\ Idle(t)
  /\ UNCHANGED <<life, count, waiting>>

Create(t) ==
  /\ life[t] = "absent"
  /\ Become(t, "runnable")
  /\ UNCHANGED <<run, count, waiting>>

Stop(c) ==
  /\ life[run[c]] = "runnable"
  /\ Become(run[c], "stopped")
  /\ UNCHANGED <<run, count, waiting>>

Free(t) ==
  /\ life[t] = "stopped" /\ Idle(t)
  /\ Become(t, "absent")
  /\ UNCHANGED <<run, count, waiting>>

Take(c, s) ==
  /\ life[run[c]] = "runnable"
  /\ count[s] > 0
  /\ count' = [count EXCEPT ![s] = @ - 1]
  /\ UNCHANGED <<run, life, waiting>>

Wait(c, s) ==
  /\ life[run[c]] = "runnable"
  /\ count[s] = 0
  /\ Become(run[c], "waiting")
  /\ waiting' = [waiting EXCEPT ![s] = Append(@, run[c])]
  /\ UNCHANGED <<run, count>>

Post(c, s) ==
  /\ life[run[c]] = "runnable"
  /\ waiting[s] = <<>>
  /\ count' = [count EXCEPT ![s] = @ + 1]
  /\ UNCHANGED <<run, life, waiting>>

Wake(c, s) ==
  /\ life[run[c]] = "runnable"
  /\ waiting[s] # <<>>
  /\ Become(Head(waiting[s]), "runnable")
  /\ waiting' = [waiting EXCEPT ![s] = Tail(@)]
  /\ UNCHANGED <<run, count>>

Next ==
  \/ \E c \in Core : \/ Stop(c)
                     \/ \E t \in Thread : Dispatch(c, t)
                     \/ \E s \in Sem : Take(c, s) \/ Wait(c, s)
                                       \/ Post(c, s) \/ Wake(c, s)
  \/ \E t \in Thread : Create(t) \/ Free(t)

Spec == Init /\ [][Next]_vars
=============================================================================
