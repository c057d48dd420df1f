--------------------------- MODULE BoundedBuffer ---------------------------
(***************************************************************************)
(* BoundedBuffer<N,T> (bb.h of p6_file_system): a ring of N slots, two     *)
(* semaphores that count its empty and its full slots, and one for the     *)
(* ring itself.                                                            *)
(***************************************************************************)
EXTENDS Semaphores, FiniteSets

CONSTANTS Producer, Consumer,  \* threads that put, and threads that get
          Item,                \* what they put
          Junk,                \* what a slot holds before the first put
          N                    \* slots of the ring

ASSUME BoundedBufferAssumption ==
  /\ N \in Nat \ {0} /\ Junk \notin Item
  /\ Producer \cap Consumer = {} /\ Thread = Producer \cup Consumer
  /\ IsFiniteSet(Thread)
  /\ Sem = {"nEmpty", "nFull", "lock"}

VARIABLES
  head, n, data,  \* the ring
  pc,             \* per thread, what it does next
  item            \* per thread, what it puts, or has got

ring == <<head, n, data>>
sems == <<count, waiting>>
vars == <<ring, sems, pc, item>>

Init ==
  /\ Constructed([s \in Sem |-> IF s = "nEmpty" THEN N ELSE IF s = "nFull" THEN 0 ELSE 1])
  /\ head = 0 /\ n = 0
  /\ data = [i \in 0..N - 1 |-> Junk]
  /\ pc = [t \in Thread |-> "call"]
  /\ item = [t \in Thread |-> Junk]

\* A thread that waits goes on at the label behind its down().
Step(t, from, to) ==
  /\ pc[t] = from /\ ~Blocked(t)
  /\ pc' = [pc EXCEPT ![t] = to]

CallPut(t, x) ==
  /\ t \in Producer
  /\ Step(t, "call", "reserve")
  /\ item' = [item EXCEPT ![t] = x]
  /\ UNCHANGED <<ring, sems>>

CallGet(t) ==
  /\ t \in Consumer
  /\ Step(t, "call", "reserve")
  /\ item' = [item EXCEPT ![t] = Junk]
  /\ UNCHANGED <<ring, sems>>

Reserve(t) ==
  /\ Step(t, "reserve", "lock")
  /\ Down(t, IF t \in Producer THEN "nEmpty" ELSE "nFull")
  /\ UNCHANGED <<ring, item>>

\* Mutant: the ring is not locked.
LockForgotten(t) ==
  /\ Step(t, "lock", "move")
  /\ UNCHANGED <<ring, item, sems>>

Lock(t) ==
  /\ Step(t, "lock", "move")
  /\ Down(t, "lock")
  /\ UNCHANGED <<ring, item>>

\* The slot is written before n counts it, and read before head moves on.
Store(t) ==
  /\ t \in Producer
  /\ Step(t, "move", "counted")
  /\ data' = [data EXCEPT ![(head + n) % N] = item[t]]
  /\ UNCHANGED <<head, n, item, sems>>

Fetch(t) ==
  /\ t \in Consumer
  /\ Step(t, "move", "counted")
  /\ item' = [item EXCEPT ![t] = data[head]]
  /\ UNCHANGED <<ring, sems>>

Counted(t) ==
  /\ Step(t, "counted", "unlock")
  /\ IF t \in Producer
       THEN n' = n + 1 /\ UNCHANGED head
       ELSE n' = n - 1 /\ head' = (head + 1) % N
  /\ UNCHANGED <<data, item, sems>>

Unlock(t) ==
  /\ Step(t, "unlock", "announce")
  /\ Up("lock")
  /\ UNCHANGED <<ring, item>>

Announce(t) ==
  /\ Step(t, "announce", "call")
  /\ Up(IF t \in Producer THEN "nFull" ELSE "nEmpty")
  /\ UNCHANGED <<ring, item>>

Run(t) == Reserve(t) \/ Lock(t) \/ Store(t) \/ Fetch(t) \/ Counted(t)
          \/ Unlock(t) \/ Announce(t)
Call(t) == CallGet(t) \/ \E x \in Item : CallPut(t, x)

Next == \E t \in Thread : Run(t) \/ Call(t)

\* Every thread gets a core again and again, and calls again and again.
Fairness == \A t \in Thread : WF_vars(Run(t)) /\ WF_vars(Call(t))

Spec == Init /\ [][Next]_vars
FairSpec == Spec /\ Fairness

-----------------------------------------------------------------------------
(* Properties *)

\* One thread at a time is inside the ring.
Inside == {t \in Thread : ~Blocked(t) /\ pc[t] \in {"move", "counted", "unlock"}}
RingExclusive == \A t, u \in Inside : t = u

\* The buffer as its users see it: an item is inside once it is counted.
AsChannel == INSTANCE Channel WITH
  inside <- [i \in 1..n |-> data[(head + i - 1) % N]],
  given <- [t \in Producer |->
              IF pc[t] \in {"reserve", "lock", "move", "counted"} THEN <<item[t]>> ELSE <<>>],
  got <- [t \in Consumer |->
            IF pc[t] \in {"unlock", "announce"} THEN <<item[t]>> ELSE <<>>]

ImplementsChannel == AsChannel!Spec

\* While there are threads that put and threads that get, each call returns:
\* nobody waits for a slot or for the ring for ever.
CallsReturn == \A t \in Thread : []<>(pc[t] = "call")
=============================================================================
