--------------------------- MODULE PreemptProofs ----------------------------
(* The threads of p5, on any number of cores and with any number of threads:  *)
(* they keep their stacks apart, lose and delete nobody too early, and do     *)
(* what Threads promises.                                                     *)
EXTENDS PreemptThreads, FiniteSetTheorems, TLAPS

Stopping == {"pick to stop", "look to stop"}
Holding == {"look", "look to stop", "look at zombie", "switch"}
Leaving == {"switch", "mark"}
Label == {"run", "reap", "pick"} \cup Stopping \cup Holding \cup Leaving
Return == {"none", "entry", "iret", "on", "off"}
Place == {"absent", "arrive", "last", "leave", "work", "stopped"}

Once(q) == \A i, j \in 1..Len(q) : q[i] = q[j] => i = j
Ready(t) == \E i \in 1..Len(readyQ) : readyQ[i] = t
Zombie(t) == \E i \in 1..Len(zombieQ) : zombieQ[i] = t
Hand(c, t) == pc[c] \in Holding /\ cand[c] = t
Held(t) == Ready(t) \/ Zombie(t) \/ \E c \in Core : Hand(c, t)
Alone(t) == \A c \in Core : sp[c] # t
Alive(t) == at[t] \notin {"absent", "stopped"}

CoresType ==
  /\ sp \in [Core -> Thread] /\ active \in [Core -> Thread]
  /\ pc \in [Core -> Label] /\ how \in [Core -> Return]
  /\ me \in [Core -> Thread \cup {None}] /\ cand \in [Core -> Thread \cup {None}]
ThreadsType ==
  /\ at \in [Thread -> Place] /\ flag \in [Thread -> {0, 1}]
  /\ saved \in [Thread -> {"stale"} \cup Return]
TypeOK == CoresType /\ ThreadsType

QueuesInv ==
  /\ readyQ \in Seq(Thread) /\ zombieQ \in Seq(Thread)
  /\ Once(readyQ) /\ Once(zombieQ)

\* Each core is on a stack of its own, and me and active say which but for the
\* time of a switch.
StacksInv ==
  /\ \A c, d \in Core : sp[c] = sp[d] => c = d
  /\ \A c \in Core :
       /\ pc[c] # "switch" => active[c] = sp[c]
       /\ pc[c] \notin {"run", "mark"} => me[c] = sp[c]
       /\ pc[c] \in Holding \cup Leaving => cand[c] \in Thread
       /\ pc[c] = "switch" => active[c] = cand[c] /\ Alone(cand[c])
       /\ pc[c] = "mark" => cand[c] = sp[c] /\ me[c] \in Thread /\ Alone(me[c])

\* Who runs has not stopped, until it has called stop(); those who are switched
\* from and to exist.
LivesInv ==
  \A c \in Core :
    /\ pc[c] \notin Stopping \cup {"switch"} => Alive(sp[c])
    /\ pc[c] \in Stopping => at[sp[c]] = "stopped"
    /\ at[sp[c]] # "absent"
    /\ pc[c] = "mark" => at[me[c]] # "absent"

\* No two cores switch from or to the same thread, and the flags that are down are
\* those of the threads being switched from and to.
FlagsInv ==
  /\ \A c, d \in Core : c # d /\ pc[c] \in Leaving /\ pc[d] \in Leaving =>
       me[c] # me[d] /\ me[c] # cand[d] /\ cand[c] # cand[d]
  /\ \A t \in Thread :
       flag[t] = 0 <=> \E c \in Core : pc[c] \in Leaving /\ (t = me[c] \/ t = cand[c])

\* A thread that no core is on can be switched to.
SavedInv == \A t \in Thread : saved[t] = "stale" <=> ~Alone(t) \/ at[t] = "absent"

\* A thread is in one queue or one hand; then it exists and is on no core, or is
\* about to leave its own.
PlacesAt(t) ==
  /\ Ready(t) => ~Zombie(t) /\ Alive(t)
  /\ Zombie(t) => at[t] = "stopped"
  /\ \A c \in Core : Hand(c, t) =>
       /\ ~Ready(t) /\ ~Zombie(t)
       /\ IF pc[c] = "look at zombie" THEN at[t] = "stopped" ELSE Alive(t)
  /\ \A c, d \in Core : Hand(c, t) /\ Hand(d, t) => c = d
  /\ \A c \in Core : Held(t) /\ sp[c] = t => pc[c] = "switch"
PlacesInv == \A t \in Thread : PlacesAt(t)

\* A thread that exists is in a queue or in a hand, or on a core that is not about
\* to leave it.
NoneLost ==
  \A t \in Thread :
    at[t] # "absent" => Held(t) \/ \E c \in Core : sp[c] = t /\ pc[c] # "switch"

IInv ==
  /\ TypeOK /\ QueuesInv
  /\ StacksInv /\ LivesInv /\ FlagsInv /\ SavedInv /\ PlacesInv /\ NoneLost

-----------------------------------------------------------------------------
(* The queues *)

\* What Queue::add does.
LEMMA Appended ==
  ASSUME NEW S, NEW q \in Seq(S), NEW t \in S, Once(q),
         \A i \in 1..Len(q) : q[i] # t
  PROVE  /\ Append(q, t) \in Seq(S) /\ Once(Append(q, t))
         /\ \A u : (\E i \in 1..Len(Append(q, t)) : Append(q, t)[i] = u)
                     <=> u = t \/ \E i \in 1..Len(q) : q[i] = u
<1>1. /\ Append(q, t) \in Seq(S) /\ Len(q) \in Nat
      /\ Len(Append(q, t)) = Len(q) + 1
      /\ Append(q, t)[Len(q) + 1] = t
      /\ \A i \in 1..Len(q) : Append(q, t)[i] = q[i]
  OBVIOUS
<1>2. \A i \in 1..Len(Append(q, t)) :
        i \in 1..Len(q) \/ (i = Len(q) + 1 /\ i \notin 1..Len(q))
  BY <1>1
<1>3. Once(Append(q, t))
  BY <1>1, <1>2 DEF Once
<1>4. \A u : (\E i \in 1..Len(q) : q[i] = u) => \E i \in 1..Len(Append(q, t)) : Append(q, t)[i] = u
  BY <1>1
<1>5. \E i \in 1..Len(Append(q, t)) : Append(q, t)[i] = t
  BY <1>1
<1> QED
  BY <1>1, <1>2, <1>3, <1>4, <1>5

\* What Queue::remove does.
LEMMA Removed ==
  ASSUME NEW S, NEW q \in Seq(S), q # <<>>, Once(q)
  PROVE  /\ Head(q) \in S /\ Tail(q) \in Seq(S) /\ Once(Tail(q))
         /\ \E i \in 1..Len(q) : q[i] = Head(q)
         /\ \A u : (\E i \in 1..Len(Tail(q)) : Tail(q)[i] = u)
                     <=> u # Head(q) /\ \E i \in 1..Len(q) : q[i] = u
<1>1. /\ Head(q) \in S /\ Tail(q) \in Seq(S) /\ Len(q) \in Nat \ {0}
      /\ Len(Tail(q)) = Len(q) - 1 /\ Head(q) = q[1]
      /\ \A i \in 1..Len(Tail(q)) : Tail(q)[i] = q[i + 1]
  OBVIOUS
<1>2. \A i \in 1..Len(Tail(q)) : i + 1 \in 1..Len(q) /\ i + 1 # 1
  BY <1>1
<1>3. \A i \in 1..Len(q) : i = 1 \/ (i - 1 \in 1..Len(Tail(q)) /\ (i - 1) + 1 = i)
  BY <1>1
<1>4. Once(Tail(q))
  <2> SUFFICES ASSUME NEW i \in 1..Len(Tail(q)), NEW j \in 1..Len(Tail(q)),
                      Tail(q)[i] = Tail(q)[j]
               PROVE  i = j
    BY DEF Once
  <2>1. i + 1 = j + 1
    BY <1>1, <1>2 DEF Once
  <2> QED
    BY <2>1, <1>1
<1>5. 1 \in 1..Len(q)
  BY <1>1
<1>6. ASSUME NEW u, NEW i \in 1..Len(Tail(q)), Tail(q)[i] = u
      PROVE  u # Head(q) /\ \E j \in 1..Len(q) : q[j] = u
  BY <1>1, <1>2, <1>5, <1>6 DEF Once
<1>7. ASSUME NEW u, u # Head(q), NEW i \in 1..Len(q), q[i] = u
      PROVE  \E j \in 1..Len(Tail(q)) : Tail(q)[j] = u
  <2>1. i # 1
    BY <1>1, <1>7
  <2>2. i - 1 \in 1..Len(Tail(q)) /\ (i - 1) + 1 = i
    BY <1>3, <2>1
  <2>3. Tail(q)[i - 1] = u
    BY <1>1, <1>7, <2>2
  <2> QED
    BY <2>2, <2>3
<1> QED
  BY <1>1, <1>4, <1>5, <1>6, <1>7

\* Adding to the ready queue, in terms of who is in which queue.
LEMMA AddReady ==
  ASSUME QueuesInv, NEW t \in Thread, ~Ready(t),
         readyQ' = Append(readyQ, t), zombieQ' = zombieQ
  PROVE  QueuesInv' /\ \A u : /\ Ready(u)' <=> Ready(u) \/ u = t
                              /\ Zombie(u)' <=> Zombie(u)
<1>1. QueuesInv'
  BY Appended DEF QueuesInv, Ready
<1>2. \A u : Ready(u)' <=> Ready(u) \/ u = t
  BY Appended DEF QueuesInv, Ready
<1>3. \A u : Zombie(u)' <=> Zombie(u)
  BY DEF Zombie
<1> QED
  BY <1>1, <1>2, <1>3

\* Adding to the zombie queue.
LEMMA AddZombie ==
  ASSUME QueuesInv, NEW t \in Thread, ~Zombie(t),
         zombieQ' = Append(zombieQ, t), readyQ' = readyQ
  PROVE  QueuesInv' /\ \A u : /\ Zombie(u)' <=> Zombie(u) \/ u = t
                              /\ Ready(u)' <=> Ready(u)
<1>1. QueuesInv'
  BY Appended DEF QueuesInv, Zombie
<1>2. \A u : Zombie(u)' <=> Zombie(u) \/ u = t
  BY Appended DEF QueuesInv, Zombie
<1>3. \A u : Ready(u)' <=> Ready(u)
  BY DEF Ready
<1> QED
  BY <1>1, <1>2, <1>3

\* Taking the head of the ready queue.
LEMMA RemoveReady ==
  ASSUME QueuesInv, readyQ # <<>>, readyQ' = Tail(readyQ), zombieQ' = zombieQ
  PROVE  /\ QueuesInv' /\ Head(readyQ) \in Thread /\ Ready(Head(readyQ))
         /\ \A u : /\ Ready(u)' <=> Ready(u) /\ u # Head(readyQ)
                   /\ Zombie(u)' <=> Zombie(u)
<1>1. QueuesInv' /\ Head(readyQ) \in Thread /\ Ready(Head(readyQ))
  BY Removed DEF QueuesInv, Ready
<1>2. \A u : Ready(u)' <=> Ready(u) /\ u # Head(readyQ)
  <2>1. \A u : (\E i \in 1..Len(Tail(readyQ)) : Tail(readyQ)[i] = u)
                 <=> u # Head(readyQ) /\ \E i \in 1..Len(readyQ) : readyQ[i] = u
    BY Removed DEF QueuesInv
  <2> QED
    BY <2>1 DEF Ready
<1>3. \A u : Zombie(u)' <=> Zombie(u)
  BY DEF Zombie
<1> QED
  BY <1>1, <1>2, <1>3

\* Taking the head of the zombie queue.
LEMMA RemoveZombie ==
  ASSUME QueuesInv, zombieQ # <<>>, zombieQ' = Tail(zombieQ), readyQ' = readyQ
  PROVE  /\ QueuesInv' /\ Head(zombieQ) \in Thread /\ Zombie(Head(zombieQ))
         /\ \A u : /\ Zombie(u)' <=> Zombie(u) /\ u # Head(zombieQ)
                   /\ Ready(u)' <=> Ready(u)
<1>1. QueuesInv' /\ Head(zombieQ) \in Thread /\ Zombie(Head(zombieQ))
  BY Removed DEF QueuesInv, Zombie
<1>2. \A u : Zombie(u)' <=> Zombie(u) /\ u # Head(zombieQ)
  <2>1. \A u : (\E i \in 1..Len(Tail(zombieQ)) : Tail(zombieQ)[i] = u)
                 <=> u # Head(zombieQ) /\ \E i \in 1..Len(zombieQ) : zombieQ[i] = u
    BY Removed DEF QueuesInv
  <2> QED
    BY <2>1 DEF Zombie
<1>3. \A u : Ready(u)' <=> Ready(u)
  BY DEF Ready
<1> QED
  BY <1>1, <1>2, <1>3

\* Steps that leave the queues alone.
LEMMA SameQueues ==
  ASSUME QueuesInv, UNCHANGED queues
  PROVE  QueuesInv' /\ \A u : /\ Ready(u)' <=> Ready(u)
                              /\ Zombie(u)' <=> Zombie(u)
  BY DEF QueuesInv, queues, Ready, Zombie, Once
-----------------------------------------------------------------------------
(* What a step of core c preserves *)

\* Core c stays on its stack and is not in the middle of leaving it.
Stays(c) ==
  /\ UNCHANGED <<sp, active, flag, saved>>
  /\ how' \in [Core -> Return] /\ at' \in [Thread -> Place]
  /\ me' \in [Core -> Thread \cup {None}] /\ cand' \in [Core -> Thread \cup {None}]
  /\ pc' \in [Core -> Label] /\ pc[c] \notin Leaving /\ pc'[c] \notin Leaving
  /\ \A d \in Core : d # c => pc'[d] = pc[d] /\ me'[d] = me[d] /\ cand'[d] = cand[d]
  /\ pc'[c] # "run" => me'[c] = sp[c]
  /\ pc'[c] \in Holding => cand'[c] \in Thread
  /\ \A t \in Thread : t # sp[c] => at'[t] = at[t]
  /\ at'[sp[c]] # "absent"
  /\ pc'[c] \in Stopping <=> at'[sp[c]] = "stopped"
  /\ QueuesInv'
  /\ \A t \in Thread : Held(t)' <=> Held(t)

\* Such a step changes what is said of the queues and hands only.
LEMMA StayingKeeps ==
  ASSUME IInv, NEW c \in Core, Stays(c), PlacesInv'
  PROVE  IInv'
<1>1. /\ sp' = sp /\ active' = active /\ flag' = flag /\ saved' = saved
      /\ \A t \in Thread : Alone(t)' <=> Alone(t)
  BY DEF Stays, Alone
<1>2. TypeOK'
  BY DEF IInv, TypeOK, CoresType, ThreadsType, Stays
<1>3. sp[c] \in Thread /\ ~Alone(sp[c])
  BY DEF IInv, TypeOK, CoresType, Alone
<1>4. /\ \A d \in Core : pc'[d] \in Leaving <=> pc[d] \in Leaving
      /\ \A d \in Core : pc[d] \in Leaving => d # c
      /\ \A d \in Core : pc'[d] = "switch" <=> pc[d] = "switch"
  BY DEF Stays, Leaving
<1>5. StacksInv'
  <2> SUFFICES ASSUME NEW d \in Core
               PROVE  /\ pc'[d] # "switch" => active[d] = sp[d]
                      /\ pc'[d] \notin {"run", "mark"} => me'[d] = sp[d]
                      /\ pc'[d] \in Holding \cup Leaving => cand'[d] \in Thread
                      /\ pc'[d] = "switch" => active[d] = cand'[d] /\ \A e \in Core : sp[e] # cand'[d]
                      /\ pc'[d] = "mark" => /\ cand'[d] = sp[d] /\ me'[d] \in Thread
                                            /\ \A e \in Core : sp[e] # me'[d]
    BY <1>1 DEF IInv, StacksInv, Alone
  <2>1. CASE d = c
    BY <1>4, <2>1 DEF IInv, StacksInv, Stays, Leaving
  <2>2. CASE d # c
    BY <2>2 DEF IInv, StacksInv, Stays, Alone
  <2> QED
    BY <2>1, <2>2
<1>6. LivesInv'
  <2> SUFFICES ASSUME NEW d \in Core
               PROVE  /\ pc'[d] \notin Stopping \cup {"switch"} => at'[sp[d]] \notin {"absent", "stopped"}
                      /\ pc'[d] \in Stopping => at'[sp[d]] = "stopped"
                      /\ at'[sp[d]] # "absent"
                      /\ pc'[d] = "mark" => at'[me'[d]] # "absent"
    BY <1>1 DEF LivesInv, Alive
  <2>1. CASE d = c
    BY <2>1 DEF Stays, Leaving
  <2>2. CASE d # c
    <3>1. sp[d] \in Thread /\ sp[d] # sp[c] /\ pc'[d] = pc[d] /\ me'[d] = me[d]
      BY <2>2 DEF IInv, StacksInv, TypeOK, CoresType, Stays
    <3>2. pc[d] = "mark" => me[d] \in Thread /\ me[d] # sp[c]
      BY DEF IInv, StacksInv, Alone
    <3> QED
      BY <3>1, <3>2 DEF IInv, LivesInv, Stays, Alive
  <2> QED
    BY <2>1, <2>2
<1>7. FlagsInv'
  <2>1. \A d \in Core : pc[d] \in Leaving => me'[d] = me[d] /\ cand'[d] = cand[d]
    BY <1>4 DEF Stays
  <2> QED
    BY <1>1, <1>4, <2>1 DEF IInv, FlagsInv
<1>8. SavedInv'
  <2>1. \A t \in Thread : ~Alone(t) \/ at'[t] = "absent" <=> ~Alone(t) \/ at[t] = "absent"
    BY <1>3 DEF Stays
  <2> QED
    BY <1>1, <2>1 DEF IInv, SavedInv
<1>9. NoneLost'
  <2>1. /\ pc[c] # "switch"
        /\ \A t \in Thread : t # sp[c] => at'[t] = at[t]
        /\ \A t \in Thread : Held(t)' <=> Held(t)
    BY DEF Stays, Leaving
  <2> QED
    BY <1>1, <1>4, <2>1 DEF IInv, NoneLost
<1> QED
  BY <1>2, <1>5, <1>6, <1>7, <1>8, <1>9 DEF IInv, Stays

Calm == {"run", "reap", "pick", "pick to stop"}

\* Steps outside the search for a thread and the switch: nobody is taken or put
\* back, and a thread changes its own place only.
LEMMA CalmKeeps ==
  ASSUME IInv, NEW c \in Core, UNCHANGED <<sp, active, cand, flag, saved, queues>>,
         pc[c] \in Calm, NEW b \in Calm, pc' = [pc EXCEPT ![c] = b],
         how' \in [Core -> Return], at' \in [Thread -> Place],
         me' \in [Core -> Thread \cup {None}],
         \A d \in Core : d # c => me'[d] = me[d],
         b # "run" => me'[c] = sp[c],
         \A t \in Thread : t # sp[c] => at'[t] = at[t],
         at'[sp[c]] # "absent",
         b = "pick to stop" <=> at'[sp[c]] = "stopped"
  PROVE  IInv'
<1>1. /\ pc' \in [Core -> Label] /\ pc'[c] = b
      /\ \A d \in Core : d # c => pc'[d] = pc[d]
  BY DEF IInv, TypeOK, CoresType, Calm, Label, Stopping
<1>2. QueuesInv' /\ \A u : (Ready(u)' <=> Ready(u)) /\ (Zombie(u)' <=> Zombie(u))
  BY SameQueues DEF IInv
<1>3. pc[c] \notin Holding \cup Leaving /\ pc'[c] \notin Holding \cup Leaving
  BY <1>1 DEF Calm, Holding, Leaving
<1>4. \A t \in Thread : \A d \in Core : (Hand(d, t)' <=> Hand(d, t)) /\ (Hand(d, t) => d # c)
  BY <1>1, <1>3 DEF Hand
<1>5. \A t \in Thread : Held(t)' <=> Held(t)
  BY <1>2, <1>4 DEF Held
<1>6. ~Held(sp[c]) /\ sp[c] \in Thread
  BY <1>3 DEF IInv, TypeOK, CoresType, PlacesInv, PlacesAt, Holding
<1>7. PlacesInv'
  <2> SUFFICES ASSUME NEW t \in Thread PROVE PlacesAt(t)'
    BY DEF PlacesInv
  <2>1. PlacesAt(t)
    BY DEF IInv, PlacesInv
  <2>2. CASE t = sp[c]
    BY <1>2, <1>4, <1>5, <1>6, <2>2 DEF PlacesAt, Held
  <2>3. CASE t # sp[c]
    <3>1. at'[t] = at[t] /\ sp' = sp
      BY <2>3
    <3>2. \A d \in Core : sp[d] = t => d # c
      BY <2>3
    <3> QED
      BY <1>1, <1>2, <1>4, <1>5, <2>1, <3>1, <3>2 DEF PlacesAt, Alive
  <2> QED
    BY <2>2, <2>3
<1>8. Stays(c)
  BY <1>1, <1>2, <1>3, <1>5 DEF Stays, IInv, TypeOK, CoresType, Calm, Stopping
<1> QED
  BY <1>7, <1>8, StayingKeeps

\* A core takes the first thread out of a queue.
LEMMA TakeKeeps ==
  ASSUME IInv, NEW c \in Core, UNCHANGED <<sp, active, me, how, at, flag, saved>>,
         NEW a \in {"reap", "pick", "pick to stop"}, NEW b, Step(c, a, b),
         NEW h \in Thread, Hold(c, h), QueuesInv',
         \/ /\ a = "reap" /\ b = "look at zombie" /\ Zombie(h)
            /\ \A u : (Zombie(u)' <=> Zombie(u) /\ u # h) /\ (Ready(u)' <=> Ready(u))
         \/ /\ <<a, b>> \in {<<"pick", "look">>, <<"pick to stop", "look to stop">>}
            /\ Ready(h)
            /\ \A u : (Ready(u)' <=> Ready(u) /\ u # h) /\ (Zombie(u)' <=> Zombie(u))
  PROVE  IInv'
<1>1. /\ pc' \in [Core -> Label] /\ pc[c] = a /\ pc'[c] = b
      /\ b \in Holding \ Leaving /\ a \notin Holding \cup Leaving
      /\ b \in Stopping <=> a \in Stopping
      /\ \A d \in Core : d # c => pc'[d] = pc[d]
  BY DEF IInv, TypeOK, CoresType, Step, Label, Stopping, Holding, Leaving
<1>2. /\ cand' \in [Core -> Thread \cup {None}] /\ cand'[c] = h
      /\ \A d \in Core : d # c => cand'[d] = cand[d]
  BY DEF IInv, TypeOK, CoresType, Hold
<1>3. \A t \in Thread : \A d \in Core : Hand(d, t)' <=> (Hand(d, t) /\ d # c) \/ (d = c /\ t = h)
  <2>1. \A t \in Thread : Hand(c, t)' <=> t = h
    BY <1>1, <1>2 DEF Hand
  <2>2. \A t \in Thread : \A d \in Core : d # c => (Hand(d, t)' <=> Hand(d, t))
    BY <1>1, <1>2 DEF Hand
  <2> QED
    BY <2>1, <2>2
<1>4. \A t \in Thread : \A d \in Core : Hand(d, t) => d # c
  BY <1>1 DEF Hand
<1>5. \A t \in Thread : Held(t)' <=> Held(t)
  BY <1>3, <1>4 DEF Held
<1>6. PlacesInv'
  <2> SUFFICES ASSUME NEW t \in Thread PROVE PlacesAt(t)'
    BY DEF PlacesInv
  <2>1. PlacesAt(t)
    BY DEF IInv, PlacesInv
  <2>2. ASSUME t = h
        PROVE  /\ \A d \in Core : Hand(d, t)' <=> d = c
               /\ ~Ready(t)' /\ ~Zombie(t)'
               /\ IF b = "look at zombie" THEN at[t] = "stopped" ELSE Alive(t)
    BY <1>3, <1>4, <2>1, <2>2 DEF PlacesAt
  <2>3. \A d \in Core : Held(t)' /\ sp[d] = t => pc'[d] = "switch"
    BY <1>1, <1>5, <2>1 DEF PlacesAt, Holding
  <2>4. CASE t = h
    BY <1>1, <2>2, <2>3, <2>4 DEF PlacesAt, Alive
  <2>5. CASE t # h
    BY <1>1, <1>3, <2>1, <2>3, <2>5 DEF PlacesAt, Alive
  <2> QED
    BY <2>4, <2>5
<1>7. a \notin {"run", "mark"}
  OBVIOUS
<1>8. Stays(c)
  BY <1>1, <1>2, <1>5, <1>7
     DEF Stays, IInv, TypeOK, CoresType, ThreadsType, StacksInv, LivesInv, Alive, Leaving, Holding
<1> QED
  BY <1>6, <1>8, StayingKeeps

\* A core puts a thread back that it cannot take.
LEMMA PutBackKeeps ==
  ASSUME IInv, NEW c \in Core, UNCHANGED <<sp, active, at, flag, saved>>,
         pc[c] \in {"look at zombie", "look", "look to stop"},
         NEW b, pc' = [pc EXCEPT ![c] = b],
         <<pc[c], b>> \in {<<"look at zombie", "pick">>, <<"look", "run">>,
                          <<"look to stop", "pick to stop">>},
         how' \in [Core -> Return], me' \in [Core -> Thread \cup {None}],
         \A d \in Core : d # c => me'[d] = me[d],
         b # "run" => me'[c] = me[c],
         Hold(c, None),
         IF b = "pick" THEN zombieQ' = Append(zombieQ, cand[c]) /\ UNCHANGED readyQ
                       ELSE readyQ' = Append(readyQ, cand[c]) /\ UNCHANGED zombieQ
  PROVE  IInv'
<1>1. /\ pc' \in [Core -> Label] /\ pc'[c] = b
      /\ b \notin Holding \cup Leaving /\ pc[c] \in Holding \ Leaving
      /\ b \in Stopping <=> pc[c] \in Stopping
      /\ \A d \in Core : d # c => pc'[d] = pc[d]
  BY DEF IInv, TypeOK, CoresType, Label, Stopping, Holding, Leaving
<1>2. /\ cand' \in [Core -> Thread \cup {None}]
      /\ \A d \in Core : d # c => cand'[d] = cand[d]
  BY DEF IInv, TypeOK, CoresType, Hold
<1>3. PICK h \in Thread : h = cand[c]
  BY <1>1 DEF IInv, StacksInv
<1>4. Hand(c, h) /\ ~Ready(h) /\ ~Zombie(h) /\ \A d \in Core : Hand(d, h) => d = c
  BY <1>1, <1>3 DEF Hand, IInv, PlacesInv, PlacesAt
<1>5. \A t \in Thread : \A d \in Core : Hand(d, t)' <=> Hand(d, t) /\ d # c
  BY <1>1, <1>2 DEF Hand
<1>6. \A t \in Thread : Hand(c, t) <=> t = h
  BY <1>1, <1>3 DEF Hand
<1>7. /\ QueuesInv'
      /\ IF b = "pick" THEN \A u : (Zombie(u)' <=> Zombie(u) \/ u = h) /\ (Ready(u)' <=> Ready(u))
                       ELSE \A u : (Ready(u)' <=> Ready(u) \/ u = h) /\ (Zombie(u)' <=> Zombie(u))
  <2>1. CASE b = "pick"
    BY <1>3, <1>4, <2>1, AddZombie DEF IInv
  <2>2. CASE b # "pick"
    BY <1>3, <1>4, <2>2, AddReady DEF IInv
  <2> QED
    BY <2>1, <2>2
<1>8. \A t \in Thread : Held(t)' <=> Held(t)
  BY <1>4, <1>5, <1>6, <1>7 DEF Held
<1>9. PlacesInv'
  <2> SUFFICES ASSUME NEW t \in Thread PROVE PlacesAt(t)'
    BY DEF PlacesInv
  <2>1. PlacesAt(t)
    BY DEF IInv, PlacesInv
  <2>2. \A d \in Core : Held(t)' /\ sp[d] = t => pc'[d] = "switch"
    BY <1>1, <1>8, <2>1 DEF PlacesAt, Leaving
  <2>3. CASE t = h
    BY <1>1, <1>4, <1>5, <1>7, <2>1, <2>2, <2>3 DEF PlacesAt, Alive
  <2>4. CASE t # h
    BY <1>1, <1>5, <1>6, <1>7, <2>1, <2>2, <2>4 DEF PlacesAt, Alive
  <2> QED
    BY <2>3, <2>4
<1>10. Stays(c)
  BY <1>1, <1>2, <1>7, <1>8
     DEF Stays, IInv, TypeOK, CoresType, ThreadsType, StacksInv, LivesInv, Alive, Leaving, Holding
<1> QED
  BY <1>9, <1>10, StayingKeeps

\* The steps of a core that stays on its stack.
LEMMA SearchKeeps ==
  ASSUME IInv, NEW c \in Core,
         \/ Interrupt(c) \/ Arrive(c) \/ Yield(c) \/ Stop(c)
         \/ NoZombies(c) \/ NobodyReady(c) \/ NobodyYet(c)
         \/ TakeZombie(c) \/ Pick(c, "pick", "look") \/ Pick(c, "pick to stop", "look to stop")
         \/ KeepZombie(c) \/ NotSaved(c) \/ NotSavedAgain(c)
  PROVE  IInv'
<1> USE DEF kernel, queues
<1>1. /\ sp[c] \in Thread /\ pc \in [Core -> Label] /\ how \in [Core -> Return]
      /\ me \in [Core -> Thread \cup {None}] /\ at \in [Thread -> Place]
      /\ pc[c] \in {"run", "reap", "pick"} => Alive(sp[c]) /\ active[c] = sp[c]
      /\ pc[c] \in {"reap", "pick", "pick to stop"} => me[c] = sp[c]
      /\ pc[c] = "pick to stop" => at[sp[c]] = "stopped"
  BY DEF IInv, TypeOK, CoresType, ThreadsType, StacksInv, LivesInv, Stopping
<1>2. CASE Interrupt(c) \/ Yield(c)
  <2>1. /\ pc[c] = "run" /\ pc' = [pc EXCEPT ![c] = "reap"] /\ me' = [me EXCEPT ![c] = active[c]]
        /\ UNCHANGED <<sp, active, cand, flag, saved, readyQ, zombieQ, at>>
    BY <1>2 DEF Interrupt, Yield, AtWork, apitHandler, Enter
  <2>2. how' \in [Core -> Return]
    BY <1>1, <1>2 DEF Interrupt, Yield, apitHandler, Enter, Return
  <2>3. me' \in [Core -> Thread \cup {None}] /\ me'[c] = sp[c] /\ \A d \in Core : d # c => me'[d] = me[d]
    BY <1>1, <2>1
  <2> QED
    BY <1>1, <2>1, <2>2, <2>3, CalmKeeps DEF Calm, Alive
<1>3. CASE Stop(c)
  <2>1. /\ pc[c] = "run" /\ pc' = [pc EXCEPT ![c] = "pick to stop"] /\ me' = [me EXCEPT ![c] = active[c]]
        /\ UNCHANGED <<sp, active, cand, flag, saved, readyQ, zombieQ>>
        /\ at' = [at EXCEPT ![sp[c]] = "stopped"]
    BY <1>3 DEF Stop, AtWork, Goto, Enter
  <2>2. how' \in [Core -> Return]
    BY <1>1, <1>3 DEF Stop, Enter, Return
  <2>3. /\ me' \in [Core -> Thread \cup {None}] /\ me'[c] = sp[c] /\ \A d \in Core : d # c => me'[d] = me[d]
        /\ at' \in [Thread -> Place] /\ at'[sp[c]] = "stopped"
        /\ \A t \in Thread : t # sp[c] => at'[t] = at[t]
    BY <1>1, <2>1 DEF Place
  <2> QED
    BY <1>1, <2>1, <2>2, <2>3, CalmKeeps DEF Calm
<1>4. CASE Arrive(c)
  <2>1. /\ pc[c] = "run" /\ pc' = [pc EXCEPT ![c] = "run"]
        /\ UNCHANGED <<sp, active, cand, flag, saved, readyQ, zombieQ, me, how>>
        /\ \E p \in {"last", "leave"} : at' = [at EXCEPT ![sp[c]] = p]
    BY <1>1, <1>4 DEF Arrive, AtWork, Goto
  <2>2. /\ at' \in [Thread -> Place] /\ at'[sp[c]] \in {"last", "leave"}
        /\ \A t \in Thread : t # sp[c] => at'[t] = at[t]
    BY <1>1, <2>1 DEF Place
  <2> QED
    BY <1>1, <2>1, <2>2, CalmKeeps DEF Calm
<1>5. CASE NoZombies(c)
  <2>1. /\ pc[c] = "reap" /\ pc' = [pc EXCEPT ![c] = "pick"]
        /\ UNCHANGED <<sp, active, cand, flag, saved, readyQ, zombieQ, me, how, at>>
    BY <1>5 DEF NoZombies, Step
  <2> QED
    BY <1>1, <2>1, CalmKeeps DEF Calm, Alive
<1>6. CASE NobodyReady(c)
  <2>1. /\ pc[c] = "pick" /\ pc' = [pc EXCEPT ![c] = "run"]
        /\ UNCHANGED <<sp, active, cand, flag, saved, readyQ, zombieQ, at>>
        /\ me' \in [Core -> Thread \cup {None}] /\ \A d \in Core : d # c => me'[d] = me[d]
        /\ how' \in [Core -> Return]
    BY <1>1, <1>6 DEF NobodyReady, EarlyReturn, Return
  <2> QED
    BY <1>1, <2>1, CalmKeeps DEF Calm, Alive
<1>7. CASE NobodyYet(c)
  <2>1. pc[c] = "pick to stop" /\ pc' = [pc EXCEPT ![c] = "pick to stop"] /\ UNCHANGED vars
    BY <1>1, <1>7 DEF NobodyYet, vars
  <2> QED
    BY <1>1, <2>1, CalmKeeps DEF Calm, vars
<1>8. CASE TakeZombie(c)
  <2>1. /\ QueuesInv' /\ Head(zombieQ) \in Thread /\ Zombie(Head(zombieQ))
        /\ \A u : (Zombie(u)' <=> Zombie(u) /\ u # Head(zombieQ)) /\ (Ready(u)' <=> Ready(u))
    BY <1>8, RemoveZombie DEF TakeZombie, IInv
  <2> QED
    BY <1>8, <2>1, TakeKeeps DEF TakeZombie
<1>9. CASE Pick(c, "pick", "look") \/ Pick(c, "pick to stop", "look to stop")
  <2>1. /\ QueuesInv' /\ Head(readyQ) \in Thread /\ Ready(Head(readyQ))
        /\ \A u : (Ready(u)' <=> Ready(u) /\ u # Head(readyQ)) /\ (Zombie(u)' <=> Zombie(u))
    BY <1>9, RemoveReady DEF Pick, IInv
  <2> QED
    BY <1>9, <2>1, TakeKeeps DEF Pick
<1>10. CASE KeepZombie(c) \/ NotSavedAgain(c)
  BY <1>1, <1>10, PutBackKeeps DEF KeepZombie, NotSavedAgain, Step
<1>11. CASE NotSaved(c)
  <2>1. /\ me' \in [Core -> Thread \cup {None}] /\ \A d \in Core : d # c => me'[d] = me[d]
        /\ how' \in [Core -> Return]
    BY <1>1, <1>11 DEF NotSaved, EarlyReturn, Return
  <2> QED
    BY <1>11, <2>1, PutBackKeeps DEF NotSaved, EarlyReturn
<1> QED
  BY <1>2, <1>3, <1>4, <1>5, <1>6, <1>7, <1>8, <1>9, <1>10, <1>11

\* A thread with its flag up that is in a queue or in a hand is on no core, and no
\* switch has to do with it.
LEMMA SavedAndFree ==
  ASSUME IInv, NEW t \in Thread, Held(t), flag[t] # 0
  PROVE  /\ Alone(t)
         /\ \A d \in Core : pc[d] \in Leaving => me[d] # t /\ cand[d] # t
<1>1. \A d \in Core : pc[d] \in Leaving => me[d] # t /\ cand[d] # t
  BY DEF IInv, FlagsInv
<1>2. \A d \in Core : sp[d] = t => pc[d] = "switch" /\ me[d] = t
  BY DEF IInv, PlacesInv, PlacesAt, StacksInv
<1> QED
  BY <1>1, <1>2 DEF Alone, Leaving

\* new thread
LEMMA NewKeeps ==
  ASSUME IInv, NEW c \in Core, New(c)
  PROVE  IInv'
<1> USE DEF kernel, queues
<1>1. PICK t \in User :
        /\ at[t] = "absent"
        /\ at' = [at EXCEPT ![t] = "work", ![sp[c]] = IF @ = "last" THEN "leave" ELSE @]
        /\ flag' = [flag EXCEPT ![t] = 1] /\ saved' = [saved EXCEPT ![t] = "entry"]
        /\ readyQ' = Append(readyQ, t)
  BY DEF New
<1>2. UNCHANGED <<sp, intr, active, pc, me, cand, how, zombieQ>>
  BY DEF New
<1>3. t \in Thread /\ sp[c] \in Thread /\ at[sp[c]] \in {"work", "last"} /\ t # sp[c]
  BY <1>1 DEF New, AtWork, IInv, TypeOK, CoresType, Thread
<1>4. /\ at' \in [Thread -> Place] /\ at'[t] = "work" /\ at'[sp[c]] \in {"work", "leave"}
      /\ \A u \in Thread : u # t /\ u # sp[c] => at'[u] = at[u]
  BY <1>1, <1>3 DEF IInv, TypeOK, ThreadsType, Place
<1>5. \A u \in Thread : u # t => (at'[u] = "absent" <=> at[u] = "absent")
                              /\ (at'[u] = "stopped" <=> at[u] = "stopped")
  BY <1>3, <1>4
<1>6. /\ flag' \in [Thread -> {0, 1}] /\ flag'[t] = 1
      /\ saved' \in [Thread -> {"stale"} \cup Return] /\ saved'[t] = "entry"
      /\ \A u \in Thread : u # t => flag'[u] = flag[u] /\ saved'[u] = saved[u]
  BY <1>1, <1>3 DEF IInv, TypeOK, ThreadsType, Return
<1>7. Alone(t) /\ ~Held(t)
  <2>1. ~Ready(t) /\ ~Zombie(t) /\ \A d \in Core : ~Hand(d, t)
    BY <1>1, <1>3 DEF IInv, PlacesInv, PlacesAt, Alive
  <2>2. \A d \in Core : sp[d] # t
    BY <1>1 DEF IInv, LivesInv
  <2> QED
    BY <2>1, <2>2 DEF Held, Alone
<1>8. \A d \in Core : pc[d] \in Leaving => me[d] # t /\ cand[d] # t
  <2>1. \A d \in Core : pc[d] = "switch" => me[d] # t /\ cand[d] # t
    BY <1>7 DEF IInv, StacksInv, Alone, Held, Hand, Holding
  <2>2. \A d \in Core : pc[d] = "mark" => me[d] # t /\ cand[d] # t
    BY <1>1, <1>7 DEF IInv, StacksInv, LivesInv, Alone
  <2> QED
    BY <2>1, <2>2 DEF Leaving
<1>9. QueuesInv' /\ \A u : (Ready(u)' <=> Ready(u) \/ u = t) /\ (Zombie(u)' <=> Zombie(u))
  BY <1>1, <1>2, <1>3, <1>7, AddReady DEF IInv, Held
<1>10. \A u \in Thread : /\ Held(u)' <=> Held(u) \/ u = t
                         /\ Alone(u)' <=> Alone(u)
                         /\ \A d \in Core : Hand(d, u)' <=> Hand(d, u)
  BY <1>2, <1>9 DEF Held, Hand, Alone
<1>11. TypeOK'
  BY <1>2, <1>4, <1>6 DEF IInv, TypeOK, CoresType, ThreadsType
<1>12. StacksInv'
  BY <1>2 DEF IInv, StacksInv, Alone
<1>13. LivesInv'
  <2> SUFFICES ASSUME NEW d \in Core
               PROVE  /\ pc[d] \notin Stopping \cup {"switch"} => at'[sp[d]] \notin {"absent", "stopped"}
                      /\ pc[d] \in Stopping => at'[sp[d]] = "stopped"
                      /\ at'[sp[d]] # "absent"
                      /\ pc[d] = "mark" => at'[me[d]] # "absent"
    BY <1>2 DEF LivesInv, Alive
  <2>1. sp[d] \in Thread /\ sp[d] # t
    BY <1>7 DEF IInv, TypeOK, CoresType, Alone
  <2>2. pc[d] = "mark" => me[d] \in Thread /\ me[d] # t
    BY <1>8 DEF IInv, StacksInv, Leaving
  <2> QED
    BY <1>5, <2>1, <2>2 DEF IInv, LivesInv, Alive
<1>14. FlagsInv'
  BY <1>2, <1>6, <1>8 DEF IInv, FlagsInv
<1>15. SavedInv'
  BY <1>4, <1>5, <1>6, <1>7, <1>10 DEF IInv, SavedInv
<1>16. PlacesInv'
  <2> SUFFICES ASSUME NEW u \in Thread PROVE PlacesAt(u)'
    BY DEF PlacesInv
  <2>1. PlacesAt(u)
    BY DEF IInv, PlacesInv
  <2>2. CASE u = t
    BY <1>2, <1>4, <1>7, <1>9, <1>10, <2>2 DEF PlacesAt, Held, Alive, Alone
  <2>3. CASE u # t
    BY <1>2, <1>5, <1>9, <1>10, <2>1, <2>3 DEF PlacesAt, Alive
  <2> QED
    BY <2>2, <2>3
<1>17. NoneLost'
  BY <1>2, <1>5, <1>10 DEF IInv, NoneLost
<1> QED
  BY <1>9, <1>11, <1>12, <1>13, <1>14, <1>15, <1>16, <1>17 DEF IInv

\* delete of a zombie whose core has left it
LEMMA DeleteKeeps ==
  ASSUME IInv, NEW c \in Core, Delete(c)
  PROVE  IInv'
<1> USE DEF kernel, queues
<1>1. /\ pc[c] = "look at zombie" /\ pc' = [pc EXCEPT ![c] = "reap"] /\ flag[cand[c]] = 1
      /\ at' = [at EXCEPT ![cand[c]] = "absent"] /\ saved' = [saved EXCEPT ![cand[c]] = "stale"]
      /\ cand' = [cand EXCEPT ![c] = None]
      /\ UNCHANGED <<sp, active, me, how, flag, readyQ, zombieQ>>
  BY DEF Delete, Step, Hold
<1>2. PICK h \in Thread : h = cand[c]
  BY <1>1 DEF IInv, StacksInv, Holding
<1>3. /\ pc' \in [Core -> Label] /\ pc'[c] = "reap" /\ \A d \in Core : d # c => pc'[d] = pc[d]
      /\ cand' \in [Core -> Thread \cup {None}] /\ \A d \in Core : d # c => cand'[d] = cand[d]
      /\ at' \in [Thread -> Place] /\ at'[h] = "absent"
      /\ saved' \in [Thread -> {"stale"} \cup Return] /\ saved'[h] = "stale"
      /\ \A t \in Thread : t # h => at'[t] = at[t] /\ saved'[t] = saved[t]
  BY <1>1, <1>2 DEF IInv, TypeOK, CoresType, ThreadsType, Label, Place
<1>4. Hand(c, h) /\ Held(h) /\ \A t \in Thread : Hand(c, t) <=> t = h
  BY <1>1, <1>2 DEF Held, Hand, Holding
<1>5. Alone(h) /\ \A d \in Core : pc[d] \in Leaving => me[d] # h /\ cand[d] # h
  <2>1. flag[h] = 1
    BY <1>1, <1>2
  <2>2. flag[h] # 0
    BY <2>1
  <2> QED
    BY <1>4, <2>2, SavedAndFree
<1>6. ~Ready(h) /\ ~Zombie(h) /\ \A d \in Core : Hand(d, h) => d = c
  BY <1>4 DEF IInv, PlacesInv, PlacesAt
<1>7. QueuesInv' /\ \A u : (Ready(u)' <=> Ready(u)) /\ (Zombie(u)' <=> Zombie(u))
  BY <1>1, SameQueues DEF IInv
<1>8. \A t \in Thread : \A d \in Core : Hand(d, t)' <=> Hand(d, t) /\ d # c
  BY <1>3 DEF Hand, Holding
<1>9. \A t \in Thread : /\ Held(t)' <=> Held(t) /\ t # h
                        /\ Alone(t)' <=> Alone(t)
  BY <1>1, <1>4, <1>6, <1>7, <1>8 DEF Held, Alone
<1>10. TypeOK'
  BY <1>1, <1>3 DEF IInv, TypeOK, CoresType, ThreadsType
<1>11. \A d \in Core : /\ pc'[d] \in Leaving <=> pc[d] \in Leaving
                       /\ pc[d] \in Leaving => d # c
                       /\ pc'[d] = "switch" <=> pc[d] = "switch"
  BY <1>1, <1>3 DEF Leaving
<1>12. StacksInv'
  <2> SUFFICES ASSUME NEW d \in Core
               PROVE  /\ pc'[d] # "switch" => active[d] = sp[d]
                      /\ pc'[d] \notin {"run", "mark"} => me[d] = sp[d]
                      /\ pc'[d] \in Holding \cup Leaving => cand'[d] \in Thread
                      /\ pc'[d] = "switch" => active[d] = cand'[d] /\ \A e \in Core : sp[e] # cand'[d]
                      /\ pc'[d] = "mark" => /\ cand'[d] = sp[d] /\ me[d] \in Thread
                                            /\ \A e \in Core : sp[e] # me[d]
    BY <1>1 DEF IInv, StacksInv, Alone
  <2>1. CASE d = c
    BY <1>1, <1>3, <2>1 DEF IInv, StacksInv, Holding, Leaving
  <2>2. CASE d # c
    BY <1>3, <2>2 DEF IInv, StacksInv, Alone
  <2> QED
    BY <2>1, <2>2
<1>13. LivesInv'
  <2> SUFFICES ASSUME NEW d \in Core
               PROVE  /\ pc'[d] \notin Stopping \cup {"switch"} => at'[sp[d]] \notin {"absent", "stopped"}
                      /\ pc'[d] \in Stopping => at'[sp[d]] = "stopped"
                      /\ at'[sp[d]] # "absent"
                      /\ pc'[d] = "mark" => at'[me[d]] # "absent"
    BY <1>1 DEF LivesInv, Alive
  <2>1. sp[d] \in Thread /\ sp[d] # h
    BY <1>5 DEF IInv, TypeOK, CoresType, Alone
  <2>2. pc[d] = "mark" => me[d] \in Thread /\ me[d] # h
    BY <1>5 DEF IInv, StacksInv, Leaving
  <2>3. CASE d = c
    BY <1>1, <1>3, <2>1, <2>3 DEF IInv, LivesInv, Alive, Stopping
  <2>4. CASE d # c
    BY <1>3, <2>1, <2>2, <2>4 DEF IInv, LivesInv, Alive
  <2> QED
    BY <2>3, <2>4
<1>14. FlagsInv'
  <2>1. \A d \in Core : pc[d] \in Leaving => cand'[d] = cand[d]
    BY <1>3, <1>11
  <2>2. flag' = flag /\ me' = me
    BY <1>1
  <2> QED
    BY <1>11, <2>1, <2>2 DEF IInv, FlagsInv
<1>15. SavedInv'
  BY <1>3, <1>9 DEF IInv, SavedInv
<1>16. PlacesInv'
  <2> SUFFICES ASSUME NEW t \in Thread PROVE PlacesAt(t)'
    BY DEF PlacesInv
  <2>1. PlacesAt(t)
    BY DEF IInv, PlacesInv
  <2>2. CASE t = h
    BY <1>6, <1>7, <1>8, <1>9, <2>2 DEF PlacesAt
  <2>3. CASE t # h
    <3>1. sp' = sp /\ at'[t] = at[t] /\ \A d \in Core : Hand(d, t)' => Hand(d, t) /\ pc'[d] = pc[d]
      BY <1>1, <1>3, <1>8, <2>3
    <3> QED
      BY <1>7, <1>9, <1>11, <2>1, <3>1 DEF PlacesAt, Alive
  <2> QED
    BY <2>2, <2>3
<1>17. NoneLost'
  BY <1>1, <1>3, <1>9, <1>11 DEF IInv, NoneLost
<1> QED
  BY <1>7, <1>10, <1>12, <1>13, <1>14, <1>15, <1>16, <1>17 DEF IInv

\* A core queues the thread it is on and is about to leave it for the one it has.
LEMMA LeaveKeeps ==
  ASSUME IInv, NEW c \in Core, LeaveReady(c) \/ LeaveStopped(c)
  PROVE  IInv'
<1> USE DEF kernel, queues
<1>1. /\ pc[c] \in {"look", "look to stop"} /\ pc' = [pc EXCEPT ![c] = "switch"]
      /\ flag[cand[c]] = 1
      /\ active' = [active EXCEPT ![c] = cand[c]]
      /\ flag' = [flag EXCEPT ![me[c]] = 0, ![cand[c]] = 0]
      /\ UNCHANGED <<sp, me, cand, how, at, saved>>
      /\ IF pc[c] = "look" THEN readyQ' = Append(readyQ, me[c]) /\ UNCHANGED zombieQ
                           ELSE zombieQ' = Append(zombieQ, me[c]) /\ UNCHANGED readyQ
  BY DEF LeaveReady, LeaveStopped, Leave, Step
<1>2. PICK k \in Thread : k = cand[c]
  BY <1>1 DEF IInv, StacksInv, Holding
<1>3. PICK m \in Thread : m = sp[c] /\ me[c] = m
  BY <1>1 DEF IInv, StacksInv, TypeOK, CoresType
<1>4. Hand(c, k) /\ Held(k) /\ ~Held(m) /\ k # m
  <2>1. Hand(c, k) /\ Held(k)
    BY <1>1, <1>2 DEF Held, Hand, Holding
  <2>2. ~Held(m)
    BY <1>1, <1>3 DEF IInv, PlacesInv, PlacesAt
  <2> QED
    BY <2>1, <2>2
<1>5. Alone(k) /\ \A d \in Core : pc[d] \in Leaving => me[d] # k /\ cand[d] # k
  <2>1. flag[k] = 1
    BY <1>1, <1>2
  <2>2. flag[k] # 0
    BY <2>1
  <2> QED
    BY <1>4, <2>2, SavedAndFree
<1>6. \A d \in Core : d # c /\ pc[d] \in Leaving => me[d] # m /\ cand[d] # m
  <2> SUFFICES ASSUME NEW d \in Core, d # c, pc[d] \in Leaving
               PROVE  me[d] # m /\ cand[d] # m
    OBVIOUS
  <2>1. sp[d] # m
    BY <1>3 DEF IInv, StacksInv
  <2>2. CASE pc[d] = "switch"
    BY <1>3, <2>1, <2>2 DEF IInv, StacksInv, Alone
  <2>3. CASE pc[d] = "mark"
    BY <1>3, <2>1, <2>3 DEF IInv, StacksInv, Alone
  <2> QED
    BY <2>2, <2>3 DEF Leaving
<1>7. /\ pc' \in [Core -> Label] /\ pc'[c] = "switch" /\ \A d \in Core : d # c => pc'[d] = pc[d]
      /\ active' \in [Core -> Thread] /\ active'[c] = k /\ \A d \in Core : d # c => active'[d] = active[d]
      /\ flag' \in [Thread -> {0, 1}] /\ flag'[k] = 0 /\ flag'[m] = 0
      /\ \A t \in Thread : t # k /\ t # m => flag'[t] = flag[t]
  BY <1>1, <1>2, <1>3 DEF IInv, TypeOK, CoresType, ThreadsType, Label, Holding
<1>8. /\ QueuesInv'
      /\ IF pc[c] = "look" THEN \A u : (Ready(u)' <=> Ready(u) \/ u = m) /\ (Zombie(u)' <=> Zombie(u))
                           ELSE \A u : (Zombie(u)' <=> Zombie(u) \/ u = m) /\ (Ready(u)' <=> Ready(u))
  <2>1. CASE pc[c] = "look"
    BY <1>1, <1>3, <1>4, <2>1, AddReady DEF IInv, Held
  <2>2. CASE pc[c] # "look"
    BY <1>1, <1>3, <1>4, <2>2, AddZombie DEF IInv, Held
  <2> QED
    BY <2>1, <2>2
<1>9. \A t \in Thread : \A d \in Core : Hand(d, t)' <=> Hand(d, t)
  BY <1>1, <1>7 DEF Hand, Holding
<1>10. \A t \in Thread : /\ Held(t)' <=> Held(t) \/ t = m
                         /\ Alone(t)' <=> Alone(t)
  BY <1>1, <1>8, <1>9 DEF Held, Alone
<1>11. TypeOK'
  BY <1>1, <1>7 DEF IInv, TypeOK, CoresType, ThreadsType
<1>12. StacksInv'
  <2> SUFFICES ASSUME NEW d \in Core
               PROVE  /\ pc'[d] # "switch" => active'[d] = sp[d]
                      /\ pc'[d] \notin {"run", "mark"} => me[d] = sp[d]
                      /\ pc'[d] \in Holding \cup Leaving => cand[d] \in Thread
                      /\ pc'[d] = "switch" => active'[d] = cand[d] /\ \A e \in Core : sp[e] # cand[d]
                      /\ pc'[d] = "mark" => /\ cand[d] = sp[d] /\ me[d] \in Thread
                                            /\ \A e \in Core : sp[e] # me[d]
    BY <1>1 DEF IInv, StacksInv, Alone
  <2>1. CASE d = c
    BY <1>2, <1>3, <1>5, <1>7, <2>1 DEF Alone
  <2>2. CASE d # c
    BY <1>7, <2>2 DEF IInv, StacksInv, Alone
  <2> QED
    BY <2>1, <2>2
<1>13. LivesInv'
  <2> SUFFICES ASSUME NEW d \in Core
               PROVE  /\ pc'[d] \notin Stopping \cup {"switch"} => at[sp[d]] \notin {"absent", "stopped"}
                      /\ pc'[d] \in Stopping => at[sp[d]] = "stopped"
                      /\ at[sp[d]] # "absent"
                      /\ pc'[d] = "mark" => at[me[d]] # "absent"
    BY <1>1 DEF LivesInv, Alive
  <2>1. CASE d = c
    BY <1>7, <2>1 DEF IInv, LivesInv, Stopping
  <2>2. CASE d # c
    BY <1>7, <2>2 DEF IInv, LivesInv, Alive
  <2> QED
    BY <2>1, <2>2
<1>14. FlagsInv'
  <2>1. \A d \in Core : pc'[d] \in Leaving <=> pc[d] \in Leaving \/ d = c
    BY <1>7 DEF Leaving
  <2>2. ASSUME NEW d \in Core, NEW e \in Core, d # e, pc'[d] \in Leaving, pc'[e] \in Leaving
        PROVE  me[d] # me[e] /\ me[d] # cand[e] /\ cand[d] # cand[e]
    BY <1>2, <1>3, <1>5, <1>6, <2>1, <2>2 DEF IInv, FlagsInv
  <2>3. ASSUME NEW t \in Thread
        PROVE  flag'[t] = 0 <=> \E d \in Core : pc'[d] \in Leaving /\ (t = me[d] \/ t = cand[d])
    <3>1. CASE t = k \/ t = m
      BY <1>2, <1>3, <1>7, <2>1, <3>1
    <3>2. CASE t # k /\ t # m
      BY <1>2, <1>3, <1>7, <2>1, <3>2 DEF IInv, FlagsInv
    <3> QED
      BY <3>1, <3>2
  <2> QED
    BY <1>1, <2>2, <2>3 DEF FlagsInv
<1>15. SavedInv'
  BY <1>1, <1>10 DEF IInv, SavedInv
<1>16. PlacesInv'
  <2> SUFFICES ASSUME NEW t \in Thread PROVE PlacesAt(t)'
    BY DEF PlacesInv
  <2>1. PlacesAt(t)
    BY DEF IInv, PlacesInv
  <2>2. /\ ~Ready(m) /\ ~Zombie(m) /\ \A d \in Core : ~Hand(d, m) /\ (sp[d] = m => d = c)
        /\ IF pc[c] = "look" THEN Alive(m) ELSE at[m] = "stopped"
    <3>1. \A d \in Core : sp[d] = m => d = c
      BY <1>3 DEF IInv, StacksInv
    <3>2. IF pc[c] = "look" THEN Alive(m) ELSE at[m] = "stopped"
      BY <1>1, <1>3 DEF IInv, LivesInv, Stopping, Alive
    <3> QED
      BY <1>4, <3>1, <3>2 DEF Held
  <2>3. CASE t = m
    BY <1>1, <1>7, <1>8, <1>9, <1>10, <2>2, <2>3 DEF PlacesAt, Alive
  <2>4. CASE t # m
    <3>1. \A d \in Core : Hand(d, t) => (pc'[d] = "look at zombie" <=> pc[d] = "look at zombie")
      BY <1>1, <1>7
    <3> QED
      BY <1>1, <1>7, <1>8, <1>9, <1>10, <2>1, <2>4, <3>1 DEF PlacesAt, Alive
  <2> QED
    BY <2>3, <2>4
<1>17. NoneLost'
  <2>1. sp' = sp /\ at' = at
    BY <1>1
  <2>2. \A d \in Core : sp[d] # m => pc'[d] = pc[d]
    BY <1>3, <1>7
  <2> QED
    BY <1>10, <2>1, <2>2 DEF IInv, NoneLost
<1> QED
  BY <1>8, <1>11, <1>12, <1>13, <1>14, <1>15, <1>16, <1>17 DEF IInv

\* The core is on the other stack.
LEMMA SwitchKeeps ==
  ASSUME IInv, NEW c \in Core, Switch(c)
  PROVE  IInv'
<1> USE DEF kernel, queues
<1>1. /\ pc[c] = "switch" /\ pc' = [pc EXCEPT ![c] = "mark"]
      /\ saved' = [saved EXCEPT ![me[c]] = how[c], ![cand[c]] = "stale"]
      /\ how' = [how EXCEPT ![c] = saved[cand[c]]]
      /\ sp' = [sp EXCEPT ![c] = cand[c]]
      /\ UNCHANGED <<active, me, cand, at, flag, readyQ, zombieQ>>
  BY DEF Switch, Step
<1>2. PICK k \in Thread : k = cand[c]
  BY <1>1 DEF IInv, StacksInv, Holding
<1>3. PICK m \in Thread : m = sp[c] /\ me[c] = m
  BY <1>1 DEF IInv, StacksInv, TypeOK, CoresType
<1>4. /\ Hand(c, k) /\ Held(k) /\ Alone(k) /\ k # m
      /\ \A t \in Thread : Hand(c, t) <=> t = k
  BY <1>1, <1>2, <1>3 DEF Held, Hand, Holding, IInv, StacksInv, Alone
<1>5. Alive(k) /\ ~Ready(k) /\ ~Zombie(k) /\ \A d \in Core : Hand(d, k) => d = c
  BY <1>1, <1>4 DEF IInv, PlacesInv, PlacesAt
<1>6. saved[k] \in Return /\ how[c] \in Return /\ at[m] # "absent"
  BY <1>3, <1>4, <1>5 DEF IInv, SavedInv, Alive, TypeOK, CoresType, ThreadsType, LivesInv
<1>7. /\ pc' \in [Core -> Label] /\ pc'[c] = "mark" /\ \A d \in Core : d # c => pc'[d] = pc[d]
      /\ sp' \in [Core -> Thread] /\ sp'[c] = k /\ \A d \in Core : d # c => sp'[d] = sp[d]
      /\ how' \in [Core -> Return]
  BY <1>1, <1>2, <1>6 DEF IInv, TypeOK, CoresType, Label, Leaving
<1>8. /\ saved' \in [Thread -> {"stale"} \cup Return] /\ saved'[k] = "stale" /\ saved'[m] # "stale"
      /\ \A t \in Thread : t # k /\ t # m => saved'[t] = saved[t]
  <2>1. saved' \in [Thread -> {"stale"} \cup Return] /\ saved'[k] = "stale" /\ saved'[m] = how[c]
    BY <1>1, <1>2, <1>3, <1>4, <1>6 DEF IInv, TypeOK, ThreadsType
  <2>2. \A t \in Thread : t # k /\ t # m => saved'[t] = saved[t]
    BY <1>1, <1>2, <1>3 DEF IInv, TypeOK, ThreadsType
  <2>3. how[c] # "stale"
    BY <1>6 DEF Return
  <2> QED
    BY <2>1, <2>2, <2>3
<1>9. \A d \in Core : d # c => sp[d] # k /\ sp[d] # m
  BY <1>3, <1>4 DEF IInv, StacksInv, Alone
<1>10. \A t \in Thread : Alone(t)' <=> t # k /\ (Alone(t) \/ t = m)
  <2> SUFFICES ASSUME NEW t \in Thread
               PROVE  (\A d \in Core : sp'[d] # t) <=> t # k /\ ((\A d \in Core : sp[d] # t) \/ t = m)
    BY DEF Alone
  <2>1. CASE t = k
    BY <1>7, <2>1
  <2>2. CASE t = m
    BY <1>4, <1>7, <1>9, <2>2
  <2>3. CASE t # k /\ t # m
    BY <1>3, <1>7, <2>3
  <2> QED
    BY <2>1, <2>2, <2>3
<1>11. QueuesInv' /\ \A u : (Ready(u)' <=> Ready(u)) /\ (Zombie(u)' <=> Zombie(u))
  BY <1>1, SameQueues DEF IInv
<1>12. \A t \in Thread : \A d \in Core : Hand(d, t)' <=> Hand(d, t) /\ d # c
  BY <1>1, <1>7 DEF Hand, Holding
<1>13. \A t \in Thread : Held(t)' <=> Held(t) /\ t # k
  BY <1>4, <1>5, <1>11, <1>12 DEF Held
<1>14. \A d \in Core : pc'[d] \in Leaving <=> pc[d] \in Leaving
  BY <1>1, <1>7 DEF Leaving
<1>15. \A d \in Core : d # c /\ pc[d] \in Leaving =>
         me[d] # m /\ me[d] # k /\ cand[d] # m /\ cand[d] # k
  <2>1. pc[c] \in Leaving
    BY <1>1 DEF Leaving
  <2> QED
    BY <1>2, <1>3, <2>1 DEF IInv, FlagsInv
<1>16. TypeOK'
  BY <1>1, <1>7, <1>8 DEF IInv, TypeOK, CoresType, ThreadsType
<1>17. StacksInv'
  <2>1. \A d, e \in Core : sp'[d] = sp'[e] => d = e
    BY <1>7, <1>9 DEF IInv, StacksInv
  <2> SUFFICES ASSUME NEW d \in Core
               PROVE  /\ pc'[d] # "switch" => active[d] = sp'[d]
                      /\ pc'[d] \notin {"run", "mark"} => me[d] = sp'[d]
                      /\ pc'[d] \in Holding \cup Leaving => cand[d] \in Thread
                      /\ pc'[d] = "switch" => active[d] = cand[d] /\ Alone(cand[d])'
                      /\ pc'[d] = "mark" => /\ cand[d] = sp'[d] /\ me[d] \in Thread
                                            /\ Alone(me[d])'
    BY <1>1, <2>1 DEF StacksInv, Alone
  <2>2. CASE d = c
    <3>1. active[c] = k /\ Alone(m)'
      BY <1>1, <1>2, <1>4, <1>10 DEF IInv, StacksInv
    <3>2. me' = me
      BY <1>1
    <3>3. Alone(me[c])'
      BY <1>3, <3>1, <3>2 DEF Alone
    <3> QED
      BY <1>2, <1>3, <1>7, <2>2, <3>1, <3>3
  <2>3. CASE d # c
    <3>1. sp'[d] = sp[d] /\ pc'[d] = pc[d] /\ me' = me /\ cand' = cand
      BY <1>1, <1>7, <2>3
    <3>2. pc[d] = "switch" => Alone(cand[d])'
      <4> SUFFICES ASSUME pc[d] = "switch", NEW e \in Core PROVE sp'[e] # cand[d]
        BY <3>1 DEF Alone
      <4>1. cand[d] # k /\ sp[e] # cand[d]
        BY <1>15, <2>3 DEF IInv, StacksInv, Alone, Leaving
      <4> QED
        BY <1>7, <4>1
    <3>3. pc[d] = "mark" => Alone(me[d])'
      <4> SUFFICES ASSUME pc[d] = "mark", NEW e \in Core PROVE sp'[e] # me[d]
        BY <3>1 DEF Alone
      <4>1. me[d] # k /\ sp[e] # me[d]
        BY <1>15, <2>3 DEF IInv, StacksInv, Alone, Leaving
      <4> QED
        BY <1>7, <4>1
    <3> QED
      BY <3>1, <3>2, <3>3 DEF IInv, StacksInv
  <2> QED
    BY <2>2, <2>3
<1>18. LivesInv'
  <2> SUFFICES ASSUME NEW d \in Core
               PROVE  /\ pc'[d] \notin Stopping \cup {"switch"} => at[sp'[d]] \notin {"absent", "stopped"}
                      /\ pc'[d] \in Stopping => at[sp'[d]] = "stopped"
                      /\ at[sp'[d]] # "absent"
                      /\ pc'[d] = "mark" => at[me[d]] # "absent"
    BY <1>1 DEF LivesInv, Alive
  <2>1. CASE d = c
    BY <1>3, <1>5, <1>6, <1>7, <2>1 DEF Alive, Stopping
  <2>2. CASE d # c
    BY <1>7, <2>2 DEF IInv, LivesInv, Alive
  <2> QED
    BY <2>1, <2>2
<1>19. FlagsInv'
  <2>1. flag' = flag /\ me' = me /\ cand' = cand
    BY <1>1
  <2> QED
    BY <1>14, <2>1 DEF IInv, FlagsInv
<1>20. SavedInv'
  <2>1. at' = at
    BY <1>1
  <2>2. ~Alone(m)
    BY <1>3 DEF Alone
  <2> QED
    BY <1>4, <1>5, <1>6, <1>8, <1>10, <2>1, <2>2 DEF IInv, SavedInv, Alive
<1>21. PlacesInv'
  <2> SUFFICES ASSUME NEW t \in Thread PROVE PlacesAt(t)'
    BY DEF PlacesInv
  <2>1. PlacesAt(t)
    BY DEF IInv, PlacesInv
  <2>2. at' = at /\ \A d \in Core : Hand(d, t)' => Hand(d, t) /\ pc'[d] = pc[d]
    BY <1>1, <1>7, <1>12
  <2>3. \A d \in Core : Held(t)' /\ sp'[d] = t => pc'[d] = "switch"
    BY <1>7, <1>13, <2>1 DEF PlacesAt
  <2> QED
    BY <1>11, <2>1, <2>2, <2>3 DEF PlacesAt, Alive
<1>22. NoneLost'
  <2> SUFFICES ASSUME NEW t \in Thread, at[t] # "absent"
               PROVE  Held(t)' \/ \E d \in Core : sp'[d] = t /\ pc'[d] # "switch"
    BY <1>1 DEF NoneLost
  <2>1. CASE t = k
    BY <1>7, <2>1
  <2>2. CASE t # k
    <3>1. CASE Held(t)
      BY <1>13, <2>2, <3>1
    <3>2. CASE ~Held(t)
      <4>1. PICK d \in Core : sp[d] = t /\ pc[d] # "switch"
        BY <3>2 DEF IInv, NoneLost
      <4> QED
        BY <1>1, <1>7, <4>1
    <3> QED
      BY <3>1, <3>2
  <2> QED
    BY <2>1, <2>2
<1> QED
  BY <1>11, <1>16, <1>17, <1>18, <1>19, <1>20, <1>21, <1>22 DEF IInv

\* Both flags go up again.
LEMMA MarkKeeps ==
  ASSUME IInv, NEW c \in Core, Mark(c)
  PROVE  IInv'
<1> USE DEF kernel, queues
<1>1. /\ pc[c] = "mark" /\ pc' = [pc EXCEPT ![c] = "run"]
      /\ flag' = [flag EXCEPT ![me[c]] = 1, ![cand[c]] = 1]
      /\ cand' = [cand EXCEPT ![c] = None] /\ me' = [me EXCEPT ![c] = None]
      /\ how' = [how EXCEPT ![c] = "none"]
      /\ UNCHANGED <<sp, active, at, saved, readyQ, zombieQ>>
  BY DEF Mark, Step, Hold
<1>2. PICK k \in Thread : k = cand[c] /\ sp[c] = k /\ active[c] = k
  BY <1>1 DEF IInv, StacksInv, Leaving
<1>3. PICK m \in Thread : m = me[c]
  BY <1>1 DEF IInv, StacksInv
<1>4. \A d \in Core : d # c /\ pc[d] \in Leaving =>
         me[d] # m /\ me[d] # k /\ cand[d] # m /\ cand[d] # k
  <2>1. pc[c] \in Leaving
    BY <1>1 DEF Leaving
  <2> QED
    BY <1>2, <1>3, <2>1 DEF IInv, FlagsInv
<1>5. /\ pc' \in [Core -> Label] /\ pc'[c] = "run" /\ \A d \in Core : d # c => pc'[d] = pc[d]
      /\ me' \in [Core -> Thread \cup {None}] /\ \A d \in Core : d # c => me'[d] = me[d]
      /\ cand' \in [Core -> Thread \cup {None}] /\ \A d \in Core : d # c => cand'[d] = cand[d]
      /\ how' \in [Core -> Return]
  BY <1>1 DEF IInv, TypeOK, CoresType, Label, Return
<1>6. /\ flag' \in [Thread -> {0, 1}] /\ flag'[k] = 1 /\ flag'[m] = 1
      /\ \A t \in Thread : t # k /\ t # m => flag'[t] = flag[t]
  BY <1>1, <1>2, <1>3 DEF IInv, TypeOK, ThreadsType
<1>7. /\ sp' = sp /\ active' = active /\ at' = at /\ saved' = saved
      /\ \A t \in Thread : Alone(t)' <=> Alone(t)
  BY <1>1 DEF Alone
<1>8. QueuesInv' /\ \A u : (Ready(u)' <=> Ready(u)) /\ (Zombie(u)' <=> Zombie(u))
  BY <1>1, SameQueues DEF IInv
<1>9. \A t \in Thread : \A d \in Core : /\ Hand(d, t)' <=> Hand(d, t)
                                        /\ Hand(d, t) => pc'[d] = pc[d]
  BY <1>1, <1>5 DEF Hand, Holding
<1>10. \A t \in Thread : Held(t)' <=> Held(t)
  BY <1>8, <1>9 DEF Held
<1>11. \A d \in Core : /\ pc'[d] \in Leaving <=> pc[d] \in Leaving /\ d # c
                       /\ pc'[d] = "switch" <=> pc[d] = "switch"
  BY <1>1, <1>5 DEF Leaving
<1>12. TypeOK'
  BY <1>5, <1>6, <1>7 DEF IInv, TypeOK, CoresType, ThreadsType
<1>13. StacksInv'
  <2> SUFFICES ASSUME NEW d \in Core
               PROVE  /\ pc'[d] # "switch" => active[d] = sp[d]
                      /\ pc'[d] \notin {"run", "mark"} => me'[d] = sp[d]
                      /\ pc'[d] \in Holding \cup Leaving => cand'[d] \in Thread
                      /\ pc'[d] = "switch" => active[d] = cand'[d] /\ \A e \in Core : sp[e] # cand'[d]
                      /\ pc'[d] = "mark" => /\ cand'[d] = sp[d] /\ me'[d] \in Thread
                                            /\ \A e \in Core : sp[e] # me'[d]
    BY <1>7 DEF IInv, StacksInv, Alone
  <2>1. CASE d = c
    BY <1>2, <1>5, <2>1 DEF Holding, Leaving
  <2>2. CASE d # c
    BY <1>5, <2>2 DEF IInv, StacksInv, Alone
  <2> QED
    BY <2>1, <2>2
<1>14. LivesInv'
  <2> SUFFICES ASSUME NEW d \in Core
               PROVE  /\ pc'[d] \notin Stopping \cup {"switch"} => at[sp[d]] \notin {"absent", "stopped"}
                      /\ pc'[d] \in Stopping => at[sp[d]] = "stopped"
                      /\ at[sp[d]] # "absent"
                      /\ pc'[d] = "mark" => at[me'[d]] # "absent"
    BY <1>7 DEF LivesInv, Alive
  <2>1. CASE d = c
    BY <1>1, <1>5, <2>1 DEF IInv, LivesInv, Alive, Stopping
  <2>2. CASE d # c
    BY <1>5, <2>2 DEF IInv, LivesInv, Alive
  <2> QED
    BY <2>1, <2>2
<1>15. FlagsInv'
  <2>1. \A d \in Core : pc'[d] \in Leaving => d # c /\ pc[d] \in Leaving /\ me'[d] = me[d] /\ cand'[d] = cand[d]
    BY <1>5, <1>11
  <2>2. ASSUME NEW t \in Thread
        PROVE  flag'[t] = 0 <=> \E d \in Core : pc'[d] \in Leaving /\ (t = me'[d] \/ t = cand'[d])
    <3>1. CASE t = k \/ t = m
      BY <1>4, <1>6, <2>1, <3>1
    <3>2. CASE t # k /\ t # m
      <4>1. flag'[t] = flag[t]
        BY <1>6, <3>2
      <4>2. \A d \in Core : pc[d] \in Leaving /\ (t = me[d] \/ t = cand[d]) => d # c
        BY <1>2, <1>3, <3>2
      <4>3. flag[t] = 0 <=> \E d \in Core : pc[d] \in Leaving /\ (t = me[d] \/ t = cand[d])
        BY DEF IInv, FlagsInv
      <4> QED
        BY <1>5, <1>11, <2>1, <4>1, <4>2, <4>3
    <3> QED
      BY <3>1, <3>2
  <2>3. ASSUME NEW d \in Core, NEW e \in Core, d # e, pc'[d] \in Leaving, pc'[e] \in Leaving
        PROVE  me'[d] # me'[e] /\ me'[d] # cand'[e] /\ cand'[d] # cand'[e]
    BY <2>1, <2>3 DEF IInv, FlagsInv
  <2> QED
    BY <2>2, <2>3 DEF FlagsInv
<1>16. SavedInv'
  BY <1>7 DEF IInv, SavedInv
<1>17. PlacesInv'
  <2> SUFFICES ASSUME NEW t \in Thread PROVE PlacesAt(t)'
    BY DEF PlacesInv
  <2>1. PlacesAt(t)
    BY DEF IInv, PlacesInv
  <2>2. sp' = sp /\ at' = at
    BY <1>7
  <2>3. \A d \in Core : Held(t)' /\ sp'[d] = t => pc'[d] = "switch"
    BY <1>10, <1>11, <2>1, <2>2 DEF PlacesAt
  <2> QED
    BY <1>8, <1>9, <2>1, <2>2, <2>3 DEF PlacesAt, Alive
<1>18. NoneLost'
  BY <1>7, <1>10, <1>11 DEF IInv, NoneLost
<1> QED
  BY <1>8, <1>12, <1>13, <1>14, <1>15, <1>16, <1>17, <1>18 DEF IInv

-----------------------------------------------------------------------------
(* The theorems *)

\* The inductive invariant of p5's threads: whoever is queued before it is saved has its
\* flag down until it is, and whoever looks at the flag has the thread to himself.
THEOREM InvariantHolds == Spec => []IInv
<1>1. Init => IInv
  <2> SUFFICES ASSUME Init PROVE IInv
    OBVIOUS
  <2>1. TypeOK /\ QueuesInv
    BY DEF Init, TypeOK, CoresType, ThreadsType, Label, Return, Place, Thread, QueuesInv, Once
  <2>2. \A t \in Thread : /\ ~Ready(t) /\ ~Zombie(t) /\ \A c \in Core : ~Hand(c, t)
    BY DEF Init, Ready, Zombie, Hand, Holding
  <2>3. StacksInv /\ LivesInv
    BY DEF Init, StacksInv, LivesInv, Thread, Holding, Leaving, Stopping, Alive
  <2>4. FlagsInv
    BY DEF Init, FlagsInv, Leaving
  <2>5. \A t \in Thread : (at[t] # "absent" <=> t \in Core) /\ (t \in Core => sp[t] = t) /\ saved[t] = "stale"
    BY DEF Init
  <2>6. SavedInv
    BY <2>5 DEF SavedInv, Alone
  <2>7. PlacesInv
    BY <2>2 DEF PlacesInv, PlacesAt, Held
  <2>8. NoneLost
    BY <2>5 DEF Init, NoneLost
  <2> QED
    BY <2>1, <2>3, <2>4, <2>6, <2>7, <2>8 DEF IInv
<1>2. IInv /\ [Next]_vars => IInv'
  <2> SUFFICES ASSUME IInv, [Next]_vars PROVE IInv'
    OBVIOUS
  <2>1. CASE UNCHANGED vars
    <3>1. /\ sp' = sp /\ active' = active /\ pc' = pc /\ me' = me /\ cand' = cand /\ how' = how
          /\ at' = at /\ flag' = flag /\ saved' = saved /\ UNCHANGED queues
      BY <2>1 DEF vars, kernel
    <3>2. TypeOK'
      BY <3>1 DEF IInv, TypeOK, CoresType, ThreadsType
    <3>3. QueuesInv' /\ \A u : (Ready(u)' <=> Ready(u)) /\ (Zombie(u)' <=> Zombie(u))
      BY <3>1, SameQueues DEF IInv
    <3>4. \A t : /\ Held(t)' <=> Held(t)
                 /\ Alone(t)' <=> Alone(t)
                 /\ \A d \in Core : Hand(d, t)' <=> Hand(d, t)
      BY <3>1, <3>3 DEF Held, Hand, Alone
    <3>5. StacksInv' /\ LivesInv'
      BY <3>1 DEF IInv, StacksInv, LivesInv, Alone, Alive
    <3>6. FlagsInv'
      BY <3>1 DEF IInv, FlagsInv
    <3>7. SavedInv' /\ NoneLost'
      BY <3>1, <3>4 DEF IInv, SavedInv, NoneLost
    <3>8. PlacesInv'
      BY <3>1, <3>3, <3>4 DEF IInv, PlacesInv, PlacesAt, Alive
    <3> QED
      BY <3>2, <3>3, <3>5, <3>6, <3>7, <3>8 DEF IInv
  <2>2. ASSUME NEW c \in Core, Interrupt(c) \/ Work(c) \/ Kernel(c)
        PROVE  IInv'
    BY <2>2, SearchKeeps, NewKeeps, DeleteKeeps, LeaveKeeps, SwitchKeeps, MarkKeeps
       DEF Work, Kernel
  <2> QED
    BY <2>1, <2>2 DEF Next
<1> QED
  BY <1>1, <1>2, PTL DEF Spec

\* A sequence without repetitions has what is in it once.
LEMMA InOnce ==
  ASSUME NEW q \in Seq(Thread), Once(q), NEW t
  PROVE  In(q, t) = IF \E i \in 1..Len(q) : q[i] = t THEN 1 ELSE 0
<1>1. CASE \E i \in 1..Len(q) : q[i] = t
  <2>1. PICK i \in 1..Len(q) : q[i] = t
    BY <1>1
  <2>2. {j \in DOMAIN q : q[j] = t} = {i}
    BY <2>1 DEF Once
  <2> QED
    BY <1>1, <2>2, FS_Singleton DEF In
<1>2. CASE ~ \E i \in 1..Len(q) : q[i] = t
  <2>1. {j \in DOMAIN q : q[j] = t} = {}
    BY <1>2
  <2> QED
    BY <1>2, <2>1, FS_EmptySet DEF In
<1> QED
  BY <1>1, <1>2

\* The places of a thread, counted.
LEMMA Places ==
  ASSUME IInv, NEW t \in Thread
  PROVE  /\ In(readyQ, t) = IF Ready(t) THEN 1 ELSE 0
         /\ In(zombieQ, t) = IF Zombie(t) THEN 1 ELSE 0
         /\ Cardinality(Hands(t)) = IF \E c \in Core : Hand(c, t) THEN 1 ELSE 0
         /\ Hands(t) = {c \in Core : Hand(c, t)}
<1>1. In(readyQ, t) = IF Ready(t) THEN 1 ELSE 0
  BY InOnce DEF IInv, QueuesInv, Ready
<1>2. In(zombieQ, t) = IF Zombie(t) THEN 1 ELSE 0
  BY InOnce DEF IInv, QueuesInv, Zombie
<1>3. Hands(t) = {c \in Core : Hand(c, t)}
  BY DEF Hands, Hand, Holding
<1>4. CASE \E c \in Core : Hand(c, t)
  <2>1. PICK c \in Core : Hand(c, t)
    BY <1>4
  <2>2. Hands(t) = {c}
    BY <1>3, <2>1 DEF IInv, PlacesInv, PlacesAt
  <2> QED
    BY <1>1, <1>2, <1>3, <1>4, <2>2, FS_Singleton
<1>5. CASE ~ \E c \in Core : Hand(c, t)
  <2>1. Hands(t) = {}
    BY <1>3, <1>5
  <2> QED
    BY <1>1, <1>2, <1>3, <1>5, <2>1, FS_EmptySet
<1> QED
  BY <1>4, <1>5

\* No two cores of p5 are on one stack, and what a core switches to has been saved.
THEOREM StacksExclusive == Spec => []OneCorePerStack
<1>1. IInv => OneCorePerStack
  BY DEF IInv, StacksInv, SavedInv, PlacesInv, PlacesAt, OneCorePerStack, Hand, Holding, Alive
<1> QED
  BY <1>1, InvariantHolds, PTL

\* A thread of p5 is in one queue or one core's hands, once, and one that exists is there
\* or on a core, also while yield() and stop() put back what they cannot take.
THEOREM PlacesExclusive == Spec => []OnePlace
<1>1. ASSUME IInv PROVE OnePlace
  <2> SUFFICES ASSUME NEW t \in Thread
               PROVE  LET places == In(readyQ, t) + In(zombieQ, t) + Cardinality(Hands(t))
                      IN  /\ places <= 1
                          /\ places = 0 => at[t] = "absent" \/ \E c \in Core : sp[c] = t
    BY DEF OnePlace
  <2>1. /\ Ready(t) => ~Zombie(t)
        /\ \A c \in Core : Hand(c, t) => ~Ready(t) /\ ~Zombie(t)
    BY <1>1 DEF IInv, PlacesInv, PlacesAt
  <2>2. at[t] # "absent" => Held(t) \/ \E c \in Core : sp[c] = t
    BY <1>1 DEF IInv, NoneLost
  <2>3. CASE Ready(t)
    BY <1>1, <2>1, <2>3, Places
  <2>4. CASE Zombie(t)
    BY <1>1, <2>1, <2>4, Places
  <2>5. CASE ~Ready(t) /\ ~Zombie(t)
    BY <1>1, <2>2, <2>5, Places DEF Held
  <2> QED
    BY <2>3, <2>4, <2>5
<1> QED
  BY <1>1, InvariantHolds, PTL

\* Nobody is on the stack of a thread that yield() has deleted, and no queue, no core
\* and no active entry leads to one.
THEOREM NoDangling == Spec => []NothingDangles
<1>1. ASSUME IInv PROVE NothingDangles
  <2>1. ASSUME NEW c \in Core
        PROVE  at[sp[c]] # "absent" /\ at[active[c]] # "absent"
    <3>1. pc[c] = "switch" => Alive(active[c])
      BY <1>1 DEF IInv, StacksInv, PlacesInv, PlacesAt, Hand, Holding
    <3> QED
      BY <1>1, <3>1 DEF IInv, StacksInv, LivesInv, Alive
  <2>2. ASSUME NEW t \in Thread, at[t] = "absent"
        PROVE  In(readyQ, t) + In(zombieQ, t) = 0 /\ Hands(t) = {}
    <3>1. ~Ready(t) /\ ~Zombie(t) /\ \A c \in Core : ~Hand(c, t)
      BY <1>1, <2>2 DEF IInv, PlacesInv, PlacesAt, Alive
    <3> QED
      BY <1>1, <3>1, Places
  <2> QED
    BY <2>1, <2>2 DEF NothingDangles
<1> QED
  BY <1>1, InvariantHolds, PTL

\* Whoever asks active who runs, outside the switch, is told the truth.
THEOREM ActiveCorrect == Spec => []ActiveIsCurrent
<1>1. IInv => ActiveIsCurrent
  BY DEF IInv, StacksInv, ActiveIsCurrent
<1> QED
  BY <1>1, InvariantHolds, PTL

\* The abstract threads see who runs, who exists and who has stopped.
LEMMA NotSeen ==
  ASSUME sp' = sp, Lives' = Lives
  PROVE  UNCHANGED AsThreads!vars
  BY DEF AsThreads!vars

\* Steps in the kernel that change neither.
LEMMA HiddenSteps ==
  ASSUME NEW c \in Core,
         \/ Interrupt(c) \/ Yield(c) \/ NoZombies(c) \/ NobodyReady(c) \/ NobodyYet(c)
         \/ TakeZombie(c) \/ Pick(c, "pick", "look") \/ Pick(c, "pick to stop", "look to stop")
         \/ KeepZombie(c) \/ NotSaved(c) \/ NotSavedAgain(c)
         \/ LeaveReady(c) \/ LeaveStopped(c) \/ Mark(c)
  PROVE  sp' = sp /\ Lives' = Lives
<1>1. sp' = sp /\ at' = at
  BY DEF kernel, queues, Interrupt, apitHandler, Enter, Yield, NoZombies, NobodyReady, NobodyYet,
         TakeZombie, Pick, KeepZombie, NotSaved, NotSavedAgain, LeaveReady, LeaveStopped, Mark, vars
<1> QED
  BY <1>1 DEF Lives

\* Arriving at start() is none of the users' business.
LEMMA ArriveIsHidden ==
  ASSUME IInv, NEW c \in Core, Arrive(c)
  PROVE  sp' = sp /\ Lives' = Lives
<1>1. /\ sp' = sp /\ at[sp[c]] = "arrive"
      /\ \E p \in {"last", "leave"} : at' = [at EXCEPT ![sp[c]] = p]
  BY DEF Arrive, AtWork, Goto
<1>2. \A t \in Thread : \/ at'[t] = at[t]
                        \/ at[t] = "arrive" /\ at'[t] \in {"last", "leave"}
  BY <1>1 DEF IInv, TypeOK, CoresType, ThreadsType
<1> QED
  BY <1>1, <1>2 DEF Lives

\* thread() creates a thread, as its users see it.
LEMMA NewIsCreate ==
  ASSUME IInv, NEW c \in Core, New(c)
  PROVE  \E t \in Thread : AsThreads!Create(t)
<1>1. PICK t \in User :
        /\ at[t] = "absent"
        /\ at' = [at EXCEPT ![t] = "work", ![sp[c]] = IF @ = "last" THEN "leave" ELSE @]
  BY DEF New
<1>2. t \in Thread /\ sp[c] \in Thread /\ at[sp[c]] \in {"work", "last"} /\ t # sp[c] /\ sp' = sp
  BY <1>1 DEF New, AtWork, IInv, TypeOK, CoresType, Thread
<1>3. /\ at'[t] = "work" /\ at'[sp[c]] \in {"work", "leave"}
      /\ \A u \in Thread : u # t /\ u # sp[c] => at'[u] = at[u]
  BY <1>1, <1>2 DEF IInv, TypeOK, ThreadsType
<1>4. /\ Lives[t] = "absent" /\ Lives'[t] = "runnable"
      /\ \A u \in Thread : u # t => Lives'[u] = Lives[u]
  BY <1>1, <1>2, <1>3 DEF Lives
<1>5. Lives' = [Lives EXCEPT ![t] = "runnable"]
  BY <1>2, <1>4 DEF Lives
<1> QED
  BY <1>2, <1>4, <1>5 DEF AsThreads!Create, AsThreads!Become

\* stop() stops the thread that calls it, whose stack core c is on.
LEMMA StopIsStop ==
  ASSUME IInv, NEW c \in Core, Stop(c)
  PROVE  AsThreads!Stop(c)
<1>1. /\ sp' = sp /\ sp[c] \in Thread /\ at[sp[c]] \in {"work", "leave"}
      /\ at' = [at EXCEPT ![sp[c]] = "stopped"]
  BY DEF Stop, AtWork, Goto, Enter, IInv, TypeOK, CoresType
<1>2. /\ Lives[sp[c]] = "runnable" /\ Lives'[sp[c]] = "stopped"
      /\ \A u \in Thread : u # sp[c] => Lives'[u] = Lives[u]
  BY <1>1 DEF Lives, IInv, TypeOK, ThreadsType
<1>3. Lives' = [Lives EXCEPT ![sp[c]] = "stopped"]
  BY <1>1, <1>2 DEF Lives
<1> QED
  BY <1>1, <1>2, <1>3 DEF AsThreads!Stop, AsThreads!Become

\* Deleting a zombie in reap() frees a thread that has stopped and is on no core.
LEMMA DeleteIsFree ==
  ASSUME IInv, NEW c \in Core, Delete(c)
  PROVE  \E t \in Thread : AsThreads!Free(t)
<1>1. /\ sp' = sp /\ pc[c] = "look at zombie" /\ flag[cand[c]] = 1
      /\ at' = [at EXCEPT ![cand[c]] = "absent"]
  BY DEF Delete, Step
<1>2. PICK h \in Thread : h = cand[c]
  BY <1>1 DEF IInv, StacksInv, Holding
<1>3. Held(h) /\ at[h] = "stopped" /\ flag[h] = 1
  BY <1>1, <1>2 DEF IInv, PlacesInv, PlacesAt, Held, Hand, Holding
<1>4. Alone(h)
  <2>1. flag[h] # 0
    BY <1>3
  <2> QED
    BY <1>3, <2>1, SavedAndFree
<1>5. /\ Lives[h] = "stopped" /\ Lives'[h] = "absent"
      /\ \A u \in Thread : u # h => Lives'[u] = Lives[u]
  BY <1>1, <1>2, <1>3 DEF Lives, IInv, TypeOK, ThreadsType
<1>6. Lives' = [Lives EXCEPT ![h] = "absent"]
  BY <1>2, <1>5 DEF Lives
<1> QED
  BY <1>1, <1>4, <1>5, <1>6 DEF AsThreads!Free, AsThreads!Become, AsThreads!Idle, Alone

\* context_switch() moves core c to a thread that exists, has not stopped and is on no core.
LEMMA SwitchIsDispatch ==
  ASSUME IInv, NEW c \in Core, Switch(c)
  PROVE  \E t \in Thread : AsThreads!Dispatch(c, t)
<1>1. pc[c] = "switch" /\ sp' = [sp EXCEPT ![c] = cand[c]] /\ at' = at
  BY DEF Switch, Step
<1>2. PICK k \in Thread : k = cand[c]
  BY <1>1 DEF IInv, StacksInv, Holding
<1>3. Alone(k) /\ Alive(k)
  BY <1>1, <1>2 DEF IInv, StacksInv, PlacesInv, PlacesAt, Hand, Holding
<1>4. Lives[k] = "runnable" /\ Lives' = Lives
  BY <1>1, <1>3 DEF Lives, Alive
<1> QED
  BY <1>1, <1>2, <1>3, <1>4 DEF AsThreads!Dispatch, AsThreads!Idle, Alone

\* The threads of p5 do what the abstract threads do: a core takes up only a thread that
\* wants to run and that no core is on, one that stopped is not run again, and it is
\* deleted when no core is on its stack.
THEOREM DoesWhatThreadsDo == Spec => ImplementsThreads
<1>1. Init => AsThreads!Init
  <2> SUFFICES ASSUME Init PROVE AsThreads!Init
    OBVIOUS
  <2>1. /\ sp \in [Core -> Thread] /\ \A c \in Core : sp[c] = c /\ c \in Thread /\ Lives[c] = "runnable"
        /\ Lives \in [Thread -> {"absent", "runnable"}]
    BY DEF Init, Lives, Thread
  <2> QED
    BY <2>1 DEF AsThreads!Init
<1>2. IInv /\ [Next]_vars => [AsThreads!Next]_AsThreads!vars
  <2> SUFFICES ASSUME IInv, [Next]_vars PROVE [AsThreads!Next]_AsThreads!vars
    OBVIOUS
  <2>1. CASE UNCHANGED vars
    <3>1. sp' = sp /\ Lives' = Lives
      BY <2>1 DEF vars, Lives
    <3> QED
      BY <3>1, NotSeen
  <2>2. ASSUME NEW c \in Core, Interrupt(c) \/ Work(c) \/ Kernel(c)
        PROVE  [AsThreads!Next]_AsThreads!vars
    <3>1. \/ sp' = sp /\ Lives' = Lives
          \/ New(c) \/ Stop(c) \/ Delete(c) \/ Switch(c)
      BY <2>2, HiddenSteps, ArriveIsHidden DEF Work, Kernel
    <3>2. CASE sp' = sp /\ Lives' = Lives
      BY <3>2, NotSeen
    <3>3. CASE New(c) \/ Stop(c) \/ Delete(c) \/ Switch(c)
      BY <3>3, NewIsCreate, StopIsStop, DeleteIsFree, SwitchIsDispatch DEF AsThreads!Next
    <3> QED
      BY <3>1, <3>2, <3>3
  <2> QED
    BY <2>1, <2>2 DEF Next
<1> QED
  BY <1>1, <1>2, InvariantHolds, PTL DEF Spec, ImplementsThreads, AsThreads!Spec
=============================================================================
