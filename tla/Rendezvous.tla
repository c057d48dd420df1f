----------------------------- MODULE Rendezvous -----------------------------
(***************************************************************************)
(* Future<T> and Barrier (future.h, barrier.h of p6_file_system): threads  *)
(* get a value that one of them sets, and then meet at a barrier.  Each    *)
(* lets everyone through by a chain: whoever comes out of down() calls     *)
(* up() for the next.                                                      *)
(***************************************************************************)
EXTENDS Semaphores, Integers, FiniteSets

CONSTANTS Setter,       \* the thread that sets the future
          Unset, Value  \* what it holds before and after

VARIABLES
  value,   \* of the future
  left,    \* the barrier's count
  pc,      \* per thread, what it does next
  result   \* per thread, what get() returned

sems == <<count, waiting>>
vars == <<value, left, sems, pc, result>>

Init ==
  /\ Constructed([s \in Sem |-> 0])
  /\ value = Unset
  /\ left = Cardinality(Thread)
  /\ pc = [t \in Thread |-> IF t = Setter THEN "set" ELSE "get"]
  /\ result = [t \in Thread |-> Unset]

Step(t, from, to) ==
  /\ pc[t] = from /\ ~Blocked(t)
  /\ pc' = [pc EXCEPT ![t] = to]

Set(t) ==
  /\ Step(t, "set", "announce")
  /\ value' = Value
  /\ UNCHANGED <<left, sems, result>>

Announce(t) ==
  /\ Step(t, "announce", "arrive")
  /\ Up("isReady")
  /\ UNCHANGED <<value, left, result>>

Get(t) ==
  /\ Step(t, "get", "relay")
  /\ Down(t, "isReady")
  /\ UNCHANGED <<value, left, result>>

\* Mutant: the first to get the value does not wake the next.
RelayForgotten(t) ==
  /\ Step(t, "relay", "read")
  /\ UNCHANGED <<value, left, sems, result>>

Relay(t) ==
  /\ Step(t, "relay", "read")
  /\ Up("isReady")
  /\ UNCHANGED <<value, left, result>>

Read(t) ==
  /\ Step(t, "read", "arrive")
  /\ result' = [result EXCEPT ![t] = value]
  /\ UNCHANGED <<value, left, sems>>

\* Mutant: the last but one opens the barrier.
ArriveEarly(t) ==
  /\ Step(t, "arrive", IF left <= 2 THEN "pass" ELSE "wait")
  /\ left' = left - 1
  /\ UNCHANGED <<value, sems, result>>

\* The count goes down and is tested in one step; one thread too many panics.
Arrive(t) ==
  /\ Step(t, "arrive", IF left = 0 THEN "panic" ELSE IF left = 1 THEN "pass" ELSE "wait")
  /\ left' = left - 1
  /\ UNCHANGED <<value, sems, result>>

Wait(t) ==
  /\ Step(t, "wait", "pass")
  /\ Down(t, "sem")
  /\ UNCHANGED <<value, left, result>>

Pass(t) ==
  /\ Step(t, "pass", "through")
  /\ Up("sem")
  /\ UNCHANGED <<value, left, result>>

Run(t) == Set(t) \/ Announce(t) \/ Get(t) \/ Relay(t) \/ Read(t)
          \/ Arrive(t) \/ Wait(t) \/ Pass(t)

Next == \E t \in Thread : Run(t)

Spec == Init /\ [][Next]_vars
FairSpec == Spec /\ \A t \in Thread : WF_vars(Run(t))

-----------------------------------------------------------------------------
(* Properties *)

\* get() returns what was set, never what the future was constructed with.
GetsWhatWasSet ==
  \A t \in Thread \ {Setter} :
    pc[t] \in {"arrive", "wait", "pass", "through"} => result[t] = Value

\* Nobody passes early, neither get() before set() nor the barrier before
\* everybody has come to it.
NobodyPassesEarly ==
  /\ GetsWhatWasSet
  /\ \A t \in Thread : pc[t] \in {"pass", "through"} /\ ~Blocked(t) =>
       \A u \in Thread : pc[u] \in {"wait", "pass", "through"}

\* Everybody gets the value, comes to the barrier and leaves it: the chain of
\* up() reaches each of those who wait, in whatever order they came.
Through == \A t \in Thread : pc[t] = "through"
=============================================================================
