------------------------------ MODULE Console ------------------------------
(***************************************************************************)
(* The locks of the kernels at work.  Threads print (debug.cc, with the    *)
(* characters of snprintf.cc one by one on u8250.cc) and use the heap, each*)
(* under a lock.  In p5 the lock turns interrupts off; in the others it is *)
(* a spin lock, under which a thread of p6 may be interrupted.  Up to p5   *)
(* yield() deletes threads that stopped, in p5 with interrupts off.        *)
(***************************************************************************)
EXTENDS Printf

CONSTANTS
  Scenarios,  \* the stage, its cores, and the calls of each thread
  Stopped     \* bound: other threads that stop

VARIABLES
  stage,         \* which kernel
  calls,         \* per thread, what it still calls
  on,            \* per core, its thread
  interrupts,    \* per core, whether they are on
  ready,         \* readyQ
  stopped,       \* how many threads will have stopped, to be deleted by yield()
  frames,        \* per thread, what it does, the innermost first
  text,          \* per thread, the characters it still has to put
  taken,         \* per lock
  serial,        \* what was put
  due,           \* history: the lines, in the order in which the lock was taken
  off            \* the machine is

Lock == {"console", "heap"}

\* Mutant: p5 has the spin locks of the others.
SpinLocks == FALSE

\* InterruptSafeLock, in heap.cc and debug.cc.
InterruptSafe == stage = "p5"

Preempts == stage \in {"p5", "p6"}

\* The calls of vprintf that a call makes.  A debug line, where it is wanted, is
\* three of them, and a panic two before the machine stops: others may print
\* between.
print(line) == << [job |-> "print", line |-> line] >>
vdebug(what, line) == print(<<Char("["), what, Char("]")>>) \o print(line) \o print(<<Char("_")>>)
vpanic(line, core) == print(line) \o << [job |-> "shutdown", line |-> <<Char("|"), core>>] >>
Pieces(call) ==
  CASE call.job = "debug" -> IF call.flag THEN vdebug(call.what, call.line) ELSE <<>>
    [] call.job = "panic" -> vpanic(call.line, call.core)
    [] OTHER              -> <<call>>

Init ==
  /\ \E s \in Scenarios :
       /\ stage = s.stage
       /\ calls = [t \in DOMAIN s.calls |->
                     LET pieces == FlattenSeq([i \in DOMAIN s.calls[t] |-> Pieces(s.calls[t][i])])
                     IN  [i \in DOMAIN pieces |->
                            [job |-> pieces[i].job, means |-> Text(pieces[i].line),
                             puts |-> vsnprintf(Format(pieces[i].line), Args(pieces[i].line))]]]
       /\ on = [c \in 1..s.cores |-> c]
       /\ ready = [i \in 1..Len(s.calls) - s.cores |-> s.cores + i]
  /\ interrupts = [c \in DOMAIN on |-> Preempts]
  /\ frames = [t \in DOMAIN calls |-> <<>>]
  /\ text = [t \in DOMAIN calls |-> <<>>]
  /\ taken = [l \in Lock |-> FALSE]
  /\ serial = <<>> /\ due = <<>>
  /\ off = FALSE
  /\ stopped = IF stage = "p6" THEN 0 ELSE Stopped

\* A frame is what a thread does, where it is in it, and the flag that lock()
\* returned.
Idle(t) == frames[t] = <<>>
Top(t) == Head(frames[t])
At(t, pc) == ~Idle(t) /\ Top(t).pc = pc
Of(t) == IF Top(t).job \in {"print", "shutdown"} THEN "console" ELSE "heap"
Push(t, job, pc) == <<[job |-> job, pc |-> pc, was |-> FALSE]>> \o frames[t]
GoTo(t, pc) == frames' = [frames EXCEPT ![t][1].pc = pc]
Pop(t) == frames' = [frames EXCEPT ![t] = Tail(@)]
lock == IF InterruptSafe THEN "disable" ELSE "try"

-----------------------------------------------------------------------------
(* Printing and the heap, by thread t on core c *)

\* vprintf, shutdown, malloc and free.
Call(t) ==
  /\ Idle(t) /\ calls[t] # <<>>
  /\ LET call == Head(calls[t]) IN
       /\ frames' = [frames EXCEPT ![t] = Push(t, call.job, lock)]
       /\ text' = [text EXCEPT ![t] = call.puts]
  /\ UNCHANGED <<calls, on, interrupts, ready, stopped, taken, serial, due, off>>

\* InterruptSafeLock::lock: off, one exchange, on again if it was in vain.
Disable(c, t) ==
  /\ At(t, "disable")
  /\ interrupts' = [interrupts EXCEPT ![c] = FALSE]
  /\ frames' = [frames EXCEPT ![t][1].pc = "try", ![t][1].was = ~interrupts[c]]
  /\ UNCHANGED <<calls, on, ready, stopped, text, taken, serial, due, off>>
Retry(c, t) ==
  /\ At(t, "try") /\ taken[Of(t)] /\ InterruptSafe
  /\ interrupts' = [interrupts EXCEPT ![c] = ~Top(t).was]
  /\ GoTo(t, "disable")
  /\ UNCHANGED <<calls, on, ready, stopped, text, taken, serial, due, off>>

\* Mutant: no lock is taken.
TakeUnasked(t) ==
  /\ At(t, "try")
  /\ GoTo(t, "held")
  /\ due' = IF Of(t) = "console" THEN due \o Head(calls[t]).means ELSE due
  /\ UNCHANGED <<calls, on, interrupts, ready, stopped, text, taken, serial, off>>

\* An exchange of the lock that finds it free; one that does not changes nothing.
Take(t) ==
  /\ At(t, "try") /\ ~taken[Of(t)]
  /\ taken' = [taken EXCEPT ![Of(t)] = TRUE]
  /\ GoTo(t, "held")
  /\ due' = IF Of(t) = "console" THEN due \o Head(calls[t]).means ELSE due
  /\ UNCHANGED <<calls, on, interrupts, ready, stopped, text, serial, off>>

Put(t) ==
  /\ At(t, "held") /\ Of(t) = "console" /\ text[t] # <<>>
  /\ serial' = Append(serial, Head(text[t]))
  /\ text' = [text EXCEPT ![t] = Tail(@)]
  /\ UNCHANGED <<calls, on, interrupts, ready, stopped, frames, taken, due, off>>

\* The end of a call, or of what shutdown prints.
Return(t) ==
  IF Top(t).job = "shutdown" THEN GoTo(t, "out") /\ UNCHANGED calls
  ELSE /\ calls' = IF Top(t).job = "delete" THEN calls ELSE [calls EXCEPT ![t] = Tail(@)]
       /\ Pop(t)

Unlock(t) ==
  /\ At(t, "held") /\ (Of(t) = "console" => text[t] = <<>>)
  /\ taken' = [taken EXCEPT ![Of(t)] = FALSE]
  /\ IF InterruptSafe THEN GoTo(t, "enable") /\ UNCHANGED calls ELSE Return(t)
  /\ UNCHANGED <<on, interrupts, ready, stopped, text, serial, due, off>>
Enable(c, t) ==
  /\ At(t, "enable")
  /\ interrupts' = [interrupts EXCEPT ![c] = ~Top(t).was]
  /\ Return(t)
  /\ UNCHANGED <<on, ready, stopped, text, taken, serial, due, off>>

\* shutdown: the machine stops.
PowerOff(t) ==
  /\ At(t, "out")
  /\ off' = TRUE
  /\ UNCHANGED <<calls, on, interrupts, ready, stopped, frames, text, taken, serial, due>>

-----------------------------------------------------------------------------
(* yield(), called or by the timer, when it finds a thread to switch to: the *)
(* others are in the modules of the threads.                               *)

\* With a thread that stopped, which is deleted, or without.
Leave(c, t) ==
  /\ ready # <<>>
  /\ LET f == Push(t, "yield", "switch") IN
       \/ frames' = [frames EXCEPT ![t] = f] /\ UNCHANGED stopped
       \/ /\ stopped > 0 /\ stopped' = stopped - 1
          /\ frames' = [frames EXCEPT ![t] =
               <<[job |-> "delete", pc |-> lock, was |-> FALSE]>> \o f]
  /\ interrupts' = [interrupts EXCEPT ![c] = FALSE]
  /\ UNCHANGED <<calls, on, ready, text, taken, serial, due, off>>

Yield(c, t) == Idle(t) /\ Leave(c, t)

\* The handler runs with interrupts off.
Interrupt(c) == interrupts[c] /\ Leave(c, on[c])

Switch(c, t) ==
  /\ At(t, "switch")
  /\ Pop(t)
  /\ on' = [on EXCEPT ![c] = Head(ready)]
  /\ ready' = Append(Tail(ready), t)
  /\ interrupts' = [interrupts EXCEPT ![c] = Preempts]
  /\ UNCHANGED <<calls, stopped, text, taken, serial, due, off>>

-----------------------------------------------------------------------------
Step(c, t) ==
  \/ Call(t) \/ Disable(c, t) \/ Retry(c, t) \/ Take(t) \/ Put(t)
  \/ Unlock(t) \/ Enable(c, t) \/ PowerOff(t)

\* Thread t gets on with what it does; core c takes the interrupt of its timer, or
\* switches; or its thread calls yield().
Work(t) == ~off /\ (\E c \in DOMAIN on : on[c] = t /\ Step(c, t)) /\ UNCHANGED stage
Turn(c) == ~off /\ (Interrupt(c) \/ Switch(c, on[c])) /\ UNCHANGED stage
Gives(c) == ~off /\ Yield(c, on[c]) /\ UNCHANGED stage

Next ==
  \/ \E t \in DOMAIN calls : Work(t)
  \/ \E c \in DOMAIN on : Turn(c) \/ Gives(c)

-----------------------------------------------------------------------------
(* Properties *)

\* What is on the serial line is what C's printf would have printed, a call
\* after the other in the order in which they got the lock.
LinesWhole == IsPrefix(serial, due)

\* Every call returns: whoever has a lock gives it up, though he may be interrupted
\* under it and the others spin, some with interrupts off.  In p4 a thread may never
\* get a core from the others.
Returned ==
  off \/ \A t \in DOMAIN calls :
           calls[t] = <<>> \/ (stage = "p4" /\ t \notin Range(on))
=============================================================================
