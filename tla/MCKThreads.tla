----------------------------- MODULE MCKThreads -----------------------------
(* KThreads for TLC: from the boot, and from the state the boot leads to. *)
EXTENDS KThreadsInv, TLC

CONSTANTS c1, c2, u1, u2, s1

NoCount == [s \in Sem |-> 0]
Symmetric == Permutations(Core) \cup Permutations(User)

\* The boot is over: its stacks are deleted, a core runs the reaper, the other
\* cores run user threads, and the rest of the user threads are new and ready.
Booted ==
  /\ sp \in [Core -> User \cup {Reaper}]
  /\ \E c \in Core : sp[c] = Reaper
  /\ OneCorePerStack
  /\ active = sp
  /\ intr = [c \in Core |-> TRUE]
  /\ pc = [k \in Ctx |-> IF k[2] = 1 THEN "none"
                          ELSE IF k[1] \in Core THEN "free"
                          ELSE IF ~Running(k[1]) THEN "born"
                          ELSE IF k[1] = Reaper THEN "reap" ELSE "work"]
  /\ me = [k \in Ctx |-> None]
  /\ nxt = [k \in Ctx |-> None]
  /\ first = [t \in Thread |-> None]
  /\ prev = [t \in Thread |-> None]
  /\ flag = [t \in Thread |-> FALSE]
  /\ context = [t \in Thread |-> IF t \in User /\ ~Running(t) THEN "on" ELSE "stale"]
  /\ \E order \in [1..Cardinality({t \in User : ~Running(t)}) -> User] :
       /\ {order[i] : i \in DOMAIN order} = {t \in User : ~Running(t)}
       /\ queue = [q \in Queue |-> IF q = "ready" THEN order ELSE <<>>]
  /\ count = InitCount
  /\ here = Cardinality(Core)
  /\ stopped = {}

BootedSpec == Booted /\ [][Next]_vars
=============================================================================
