---------------------------- MODULE KThreadsInv -----------------------------
(* The inductive invariant of KThreads, in named parts. *)
EXTENDS KThreads

\* Where a thread's leaveMeAlone may be down while it is on a core.
Calm == {"entry", "arrive", "work", "yield", "check", "set", "stop", "mark",
         "reap", "inspect", "rebury", "delete", "spawn", "schedule"}
\* In block(): the thread has put itself into a queue and its flag is up.
Queued == {"block", "test", "requeue", "claim", "activate", "save", "load"}
Flagged == {"enqueue", "bury"} \cup Queued
Chosen == {"claim", "activate", "save", "load"}
Window == {"save", "load"}
\* In contextSwitch, or not started yet.
Away == {"off", "born"}
Reaping == {"inspect", "rebury", "delete"}
Holding == {"test", "requeue", "schedule"} \cup Chosen \cup Reaping
\* A handler that is past its test of the flag.
Suspending == {"set", "enqueue", "off"} \cup Queued

Held(t) == (\E q \in Queue : InQueue(q, t)) \/ (\E k \in Ctx : nxt[k] = t)
Switching(t) == pc[<<t, 0>>] \in Away \/ pc[<<t, 1>>] = "off"

\* A handler gets past its test of the flag only when it interrupted calm code,
\* which it may then suspend.
LevelsAt(t) ==
  /\ pc[<<t, 0>>] # "none"
  /\ pc[<<t, 1>>] \in {"none", "yield", "check"} \cup Suspending
  /\ pc[<<t, 1>>] # "none" => pc[<<t, 0>>] \notin {"free", "boot"}
  /\ pc[<<t, 1>>] \in Suspending => pc[<<t, 0>>] \in Calm

\* A live thread that no core is on can be switched to.
StackAt(t) ==
  /\ Running(t) => pc[<<t, 0>>] # "free"
  /\ pc[<<t, 0>>] # "free" /\ ~Running(t) =>
       /\ context[t] # "stale"
       /\ pc[<<t, 1>>] = "off" \/ (pc[<<t, 1>>] = "none" /\ pc[<<t, 0>>] \in Away)
  /\ pc[<<t, 0>>] = "load" \/ pc[<<t, 1>>] = "load" => context[t] # "stale"
  /\ context[t] # "stale" =>
       /\ context[t] = "off" <=> pc[<<t, 1>>] \in {"load", "off"}
       /\ Running(t) => pc[<<t, 0>>] = "load" \/ pc[<<t, 1>>] = "load"

FlagAt(t) ==
  /\ pc[<<t, 0>>] \in Flagged \/ pc[<<t, 1>>] \in Flagged => flag[t]
  /\ Running(t) /\ Switching(t) => flag[t]

\* A thread in a queue or in somebody's hands is alive, and off its core or in
\* block(); one that stopped never returns from block().
HeldAt(t) ==
  /\ Held(t) => /\ pc[<<t, 0>>] # "free"
                /\ Running(t) => pc[<<t, 0>>] \in Queued \/ pc[<<t, 1>>] \in Queued
  /\ t \in stopped => /\ pc[<<t, 0>>] \in Queued \cup {"off"}
                      /\ Running(t) => pc[<<t, 0>>] # "off"
                      /\ pc[<<t, 1>>] \in {"none", "yield", "check"}

MeAt(t) ==
  /\ pc[<<t, 0>>] \in {"check", "set", "mark"} \cup Flagged => me[<<t, 0>>] = t
  /\ pc[<<t, 0>>] \notin {"check", "set", "mark"} \cup Flagged => me[<<t, 0>>] = None
  /\ pc[<<t, 1>>] \in {"set"} \cup Flagged => me[<<t, 1>>] = t
  /\ pc[<<t, 1>>] = "check" =>
       \/ me[<<t, 1>>] = t
       \/ pc[<<t, 0>>] \in Window /\ me[<<t, 1>>] = nxt[<<t, 0>>]
  /\ pc[<<t, 1>>] \notin {"check", "set"} \cup Flagged => me[<<t, 1>>] = None

ThreadInv(t) == LevelsAt(t) /\ StackAt(t) /\ FlagAt(t) /\ HeldAt(t) /\ MeAt(t)

CoreInv(c) ==
  /\ pc[<<sp[c], 0>>] \notin Window /\ pc[<<sp[c], 1>>] \notin Window => active[c] = sp[c]
  /\ pc[<<sp[c], 0>>] \in Window => active[c] = nxt[<<sp[c], 0>>]
  /\ pc[<<sp[c], 1>>] \in Window => active[c] = nxt[<<sp[c], 1>>]
  /\ intr[c] <=> pc[<<sp[c], 0>>] # "boot" /\ pc[<<sp[c], 1>>] = "none"

QueuesInv ==
  \A q, r \in Queue : \A i \in 1..Len(queue[q]), j \in 1..Len(queue[r]) :
    queue[q][i] = queue[r][j] => q = r /\ i = j

HandsInv ==
  /\ \A k \in Ctx : nxt[k] # None <=> pc[k] \in Holding
  /\ \A k \in Ctx : nxt[k] # None => \A q \in Queue : ~InQueue(q, nxt[k])
  /\ \A k, l \in Ctx : nxt[k] # None /\ nxt[k] = nxt[l] => k = l

\* The thread block() has chosen is nobody else's business.
ChosenInv ==
  \A k \in Ctx : pc[k] \in Chosen =>
    /\ ~Running(nxt[k])
    /\ \A u \in Thread : prev[u] # nxt[k]
    /\ flag[nxt[k]] <=> pc[k] # "claim"

\* A thread whose flag is still to be cleared is saved and nobody's to choose.
PrevInv ==
  /\ \A u \in Thread : prev[u] # None =>
       /\ Running(u) /\ Switching(u)
       /\ ~Running(prev[u]) /\ flag[prev[u]] /\ pc[<<prev[u], 0>>] # "free"
  /\ \A u, v \in Thread : prev[u] # None /\ prev[u] = prev[v] => u = v

\* Only a reaper can find a stopped thread, and it deletes one that is off.
ZombieInv ==
  /\ \A t \in stopped : \A q \in Queue : InQueue(q, t) => q = "zombie"
  /\ \A t \in Thread : InQueue("zombie", t) => t \in stopped
  /\ \A k \in Ctx : nxt[k] \in stopped <=> pc[k] \in Reaping
  /\ \A k \in Ctx : pc[k] = "delete" => ~flag[nxt[k]]

\* A thread that has not stopped stays to be found from the moment it has put
\* itself into a queue until it is out of block() again.
NoneLost ==
  \A t \in Thread : pc[<<t, 0>>] # "free" /\ t \notin stopped =>
    \/ Held(t)
    \/ Running(t) /\ pc[<<t, 0>>] \notin Queued /\ pc[<<t, 1>>] \notin Queued

SafeInv ==
  /\ TypeOK /\ OneCorePerStack /\ QueuesInv /\ HandsInv /\ ChosenInv /\ PrevInv
  /\ ZombieInv
  /\ \A t \in Thread : ThreadInv(t)
  /\ \A c \in Core : CoreInv(c)

IInv == SafeInv /\ NoneLost
=============================================================================
