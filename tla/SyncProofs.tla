----------------------------- MODULE SyncProofs -----------------------------
(***************************************************************************)
(* What stands on semaphores, for any number of threads: BoundedBuffer     *)
(* keeps one thread in its ring and does what Channel promises; and of     *)
(* those who come to a future or a barrier each gets what was set, and     *)
(* none passes before the last has come.                                   *)
(***************************************************************************)
EXTENDS BoundedBuffer, FiniteSetTheorems, TLAPS

InQ(s, t) == \E i \in 1..Len(waiting[s]) : waiting[s][i] = t

SemsInv ==
  /\ count \in [Sem -> Nat] /\ waiting \in [Sem -> Seq(Thread)]
  /\ \A s \in Sem : count[s] > 0 => waiting[s] = <<>>
  /\ \A r, s \in Sem : \A i \in 1..Len(waiting[r]), j \in 1..Len(waiting[s]) :
       waiting[r][i] = waiting[s][j] => r = s /\ i = j

Label == {"call", "reserve", "lock", "move", "counted", "unlock", "announce"}

TypeOK ==
  /\ head \in 0..N - 1 /\ n \in 0..N
  /\ data \in [0..N - 1 -> Item \cup {Junk}]
  /\ pc \in [Thread -> Label]
  /\ item \in [Thread -> Item \cup {Junk}]

\* A thread waits at the label behind its down().
WaitersInv ==
  \A t \in Thread :
    /\ InQ("lock", t) => pc[t] = "move"
    /\ InQ("nEmpty", t) => pc[t] = "lock" /\ t \in Producer
    /\ InQ("nFull", t) => pc[t] = "lock" /\ t \in Consumer

LockInv ==
  /\ count["lock"] <= 1
  /\ count["lock"] = 1 => Inside = {}
  /\ RingExclusive

\* Threads of R that have a unit of s and have not used it yet, and those that have and
\* have not told the other side.
Reserved(R, s) ==
  {t \in R : pc[t] \in {"move", "counted"} \/ (pc[t] = "lock" /\ ~InQ(s, t))}
Moved(R) == {t \in R : pc[t] \in {"unlock", "announce"}}

\* Every slot is counted once.
SlotsInv ==
  /\ count["nEmpty"] + n + Cardinality(Reserved(Producer, "nEmpty")) + Cardinality(Moved(Consumer)) = N
  /\ count["nFull"] + Cardinality(Reserved(Consumer, "nFull")) + Cardinality(Moved(Producer)) = n

\* What was moved is still where it was moved to or from.
MovedInv ==
  \A t \in Thread : pc[t] = "counted" =>
    item[t] = data[IF t \in Producer THEN (head + n) % N ELSE head]

IInv == SemsInv /\ TypeOK /\ WaitersInv /\ LockInv /\ SlotsInv /\ MovedInv

-----------------------------------------------------------------------------
(* What down and up do *)

\* Who waits for what after down(): the caller too, if it found the count 0.
Lowered(t, s) ==
  /\ count' \in [Sem -> Nat]
  /\ \A r \in Sem : count'[r] = IF r = s /\ count[s] > 0 THEN count[s] - 1 ELSE count[r]
  /\ \A r \in Sem : \A u \in Thread :
       InQ(r, u)' <=> InQ(r, u) \/ (r = s /\ u = t /\ count[s] = 0)

\* Who waits for what after up(): one of those who waited does not any more,
\* or nobody waited and the count is higher.
Raised(s) ==
  /\ count' \in [Sem -> Nat]
  /\ \/ /\ \A u \in Thread : ~InQ(s, u)
        /\ \A r \in Sem : count'[r] = IF r = s THEN count[s] + 1 ELSE count[r]
        /\ \A r \in Sem : \A u \in Thread : InQ(r, u)' <=> InQ(r, u)
     \/ /\ count[s] = 0 /\ count' = count
        /\ \E w \in Thread :
             /\ InQ(s, w)
             /\ \A r \in Sem : \A u \in Thread :
                  InQ(r, u)' <=> InQ(r, u) /\ ~(r = s /\ u = w)

LEMMA DownLowers ==
  ASSUME SemsInv, NEW t \in Thread, NEW s \in Sem, ~Blocked(t), Down(t, s)
  PROVE  SemsInv' /\ Lowered(t, s)
<1>1. CASE count[s] = 0
  <2>1. waiting' = [waiting EXCEPT ![s] = Append(waiting[s], t)] /\ count' = count
    BY <1>1 DEF Down
  <2>2. /\ waiting[s] \in Seq(Thread) /\ waiting'[s] = Append(waiting[s], t)
        /\ waiting' \in [Sem -> Seq(Thread)]
        /\ \A r \in Sem : r # s => waiting'[r] = waiting[r]
    BY <2>1 DEF SemsInv
  <2>3. /\ Len(waiting[s]) \in Nat /\ Len(waiting'[s]) = Len(waiting[s]) + 1
        /\ waiting'[s][Len(waiting[s]) + 1] = t
        /\ \A i \in 1..Len(waiting[s]) : waiting'[s][i] = waiting[s][i]
    BY <2>2
  <2>4. \A r \in Sem : \A i \in 1..Len(waiting[r]) : waiting[r][i] # t
    BY DEF Blocked
  <2>5. \A r \in Sem : \A i \in 1..Len(waiting'[r]) :
          \/ i \in 1..Len(waiting[r]) /\ waiting'[r][i] = waiting[r][i]
          \/ r = s /\ i = Len(waiting[s]) + 1 /\ waiting'[r][i] = t
    BY <2>2, <2>3
  <2>6. \A r \in Sem : \A u \in Thread : InQ(r, u)' <=> InQ(r, u) \/ (r = s /\ u = t)
    <3> TAKE r \in Sem
    <3> TAKE u \in Thread
    <3>1. ASSUME InQ(r, u)'
          PROVE  InQ(r, u) \/ (r = s /\ u = t)
      <4>1. PICK i \in 1..Len(waiting'[r]) : waiting'[r][i] = u
        BY <3>1 DEF InQ
      <4>2. \/ i \in 1..Len(waiting[r]) /\ waiting[r][i] = u
            \/ r = s /\ u = t
        BY <2>5, <4>1
      <4> QED
        BY <4>2 DEF InQ
    <3>2. InQ(r, u) => InQ(r, u)'
      BY <2>2, <2>3 DEF InQ
    <3>3. InQ(s, t)'
      BY <2>3 DEF InQ
    <3> QED
      BY <3>1, <3>2, <3>3
  <2>7. \A q, r \in Sem : \A i \in 1..Len(waiting'[q]), j \in 1..Len(waiting'[r]) :
          waiting'[q][i] = waiting'[r][j] => q = r /\ i = j
    <3> TAKE q, r \in Sem
    <3> TAKE i \in 1..Len(waiting'[q]), j \in 1..Len(waiting'[r])
    <3> HAVE waiting'[q][i] = waiting'[r][j]
    <3>1. CASE waiting'[q][i] = t
      <4>1. q = s /\ i = Len(waiting[s]) + 1
        BY <2>4, <2>5, <3>1
      <4>2. waiting'[r][j] = t
        BY <3>1
      <4>3. r = s /\ j = Len(waiting[s]) + 1
        BY <2>4, <2>5, <4>2
      <4> QED
        BY <4>1, <4>3
    <3>2. CASE waiting'[q][i] # t
      <4>1. /\ i \in 1..Len(waiting[q]) /\ j \in 1..Len(waiting[r])
            /\ waiting[q][i] = waiting[r][j]
        BY <2>5, <3>2
      <4> QED
        BY <4>1 DEF SemsInv
    <3> QED
      BY <3>1, <3>2
  <2>8. \A r \in Sem : count'[r] > 0 => waiting'[r] = <<>>
    BY <1>1, <2>1, <2>2 DEF SemsInv
  <2>9. SemsInv'
    BY <2>1, <2>2, <2>7, <2>8 DEF SemsInv
  <2> QED
    BY <1>1, <2>1, <2>6, <2>9 DEF Lowered, SemsInv
<1>2. CASE count[s] # 0
  <2>1. count' = [count EXCEPT ![s] = count[s] - 1] /\ waiting' = waiting
    BY <1>2 DEF Down
  <2>2. count[s] \in Nat /\ count[s] > 0
    BY <1>2 DEF SemsInv
  <2>3. /\ count' \in [Sem -> Nat]
        /\ \A r \in Sem : count'[r] = IF r = s THEN count[s] - 1 ELSE count[r]
    BY <2>1, <2>2 DEF SemsInv
  <2>4. SemsInv'
    BY <2>1, <2>2, <2>3 DEF SemsInv
  <2>5. \A r, u : InQ(r, u)' <=> InQ(r, u)
    BY <2>1 DEF InQ
  <2> QED
    BY <2>2, <2>3, <2>4, <2>5, <1>2 DEF Lowered
<1> QED
  BY <1>1, <1>2

LEMMA UpRaises ==
  ASSUME SemsInv, NEW s \in Sem, Up(s)
  PROVE  SemsInv' /\ Raised(s)
<1>1. CASE waiting[s] = <<>>
  <2>1. count' = [count EXCEPT ![s] = count[s] + 1] /\ waiting' = waiting
    BY <1>1 DEF Up
  <2>2. /\ count' \in [Sem -> Nat]
        /\ \A r \in Sem : count'[r] = IF r = s THEN count[s] + 1 ELSE count[r]
    BY <2>1 DEF SemsInv
  <2>3. SemsInv'
    BY <1>1, <2>1, <2>2 DEF SemsInv
  <2>4. \A r, u : InQ(r, u)' <=> InQ(r, u)
    BY <2>1 DEF InQ
  <2>5. \A u \in Thread : ~InQ(s, u)
    BY <1>1 DEF InQ
  <2> QED
    BY <2>2, <2>3, <2>4, <2>5 DEF Raised
<1>2. CASE waiting[s] # <<>>
  <2> DEFINE w == waiting[s][1]
  <2>1. waiting' = [waiting EXCEPT ![s] = Tail(waiting[s])] /\ count' = count
    BY <1>2 DEF Up
  <2>2. /\ waiting[s] \in Seq(Thread) /\ waiting'[s] = Tail(waiting[s])
        /\ waiting' \in [Sem -> Seq(Thread)]
        /\ \A r \in Sem : r # s => waiting'[r] = waiting[r]
    BY <1>2, <2>1 DEF SemsInv
  <2>3. /\ Len(waiting[s]) \in Nat \ {0} /\ Len(waiting'[s]) = Len(waiting[s]) - 1
        /\ \A i \in 1..Len(waiting'[s]) : waiting'[s][i] = waiting[s][i + 1]
    BY <1>2, <2>2
  <2>4. w \in Thread /\ InQ(s, w)
    BY <2>2, <2>3 DEF InQ
  <2>5. \A r \in Sem : \A i \in 1..Len(waiting'[r]) :
          \/ r # s /\ i \in 1..Len(waiting[r]) /\ waiting'[r][i] = waiting[r][i]
          \/ r = s /\ i + 1 \in 1..Len(waiting[r]) /\ waiting'[r][i] = waiting[r][i + 1]
    BY <2>2, <2>3
  <2>6. \A r \in Sem : \A u \in Thread : InQ(r, u)' => InQ(r, u) /\ ~(r = s /\ u = w)
    <3> TAKE r \in Sem
    <3> TAKE u \in Thread
    <3> HAVE InQ(r, u)'
    <3>1. PICK i \in 1..Len(waiting'[r]) : waiting'[r][i] = u
      BY DEF InQ
    <3>2. CASE r # s
      BY <2>5, <3>1, <3>2 DEF InQ
    <3>3. CASE r = s
      <4>1. i + 1 \in 1..Len(waiting[s]) /\ u = waiting[s][i + 1] /\ i + 1 # 1 /\ 1 \in 1..Len(waiting[s])
        BY <2>3, <2>5, <3>1, <3>3
      <4>2. u # w
        BY <4>1 DEF SemsInv
      <4> QED
        BY <4>1, <4>2, <3>3 DEF InQ
    <3> QED
      BY <3>2, <3>3
  <2>7. \A r \in Sem : \A u \in Thread : InQ(r, u) /\ ~(r = s /\ u = w) => InQ(r, u)'
    <3> TAKE r \in Sem
    <3> TAKE u \in Thread
    <3> HAVE InQ(r, u) /\ ~(r = s /\ u = w)
    <3>1. PICK i \in 1..Len(waiting[r]) : waiting[r][i] = u
      BY DEF InQ
    <3>2. CASE r # s
      BY <2>2, <3>1, <3>2 DEF InQ
    <3>3. CASE r = s
      <4>1. i # 1
        BY <3>1, <3>3
      <4>2. i - 1 \in 1..Len(waiting'[s]) /\ waiting'[s][i - 1] = u
        BY <2>3, <3>1, <3>3, <4>1
      <4> QED
        BY <3>3, <4>2 DEF InQ
    <3> QED
      BY <3>2, <3>3
  <2>8. \A q, r \in Sem : \A i \in 1..Len(waiting'[q]), j \in 1..Len(waiting'[r]) :
          waiting'[q][i] = waiting'[r][j] => q = r /\ i = j
    <3> TAKE q, r \in Sem
    <3> TAKE i \in 1..Len(waiting'[q]), j \in 1..Len(waiting'[r])
    <3> QED
      BY <2>5 DEF SemsInv
  <2>9. count[s] = 0
    BY <1>2 DEF SemsInv
  <2>10. SemsInv'
    BY <2>1, <2>2, <2>8, <2>9 DEF SemsInv
  <2>11. \E v \in Thread :
           /\ InQ(s, v)
           /\ \A r \in Sem : \A u \in Thread :
                InQ(r, u)' <=> InQ(r, u) /\ ~(r = s /\ u = v)
    BY <2>4, <2>6, <2>7
  <2>12. count' \in [Sem -> Nat]
    BY <2>10 DEF SemsInv
  <2> QED
    BY <2>1, <2>9, <2>10, <2>11, <2>12 DEF Raised
<1> QED
  BY <1>1, <1>2

-----------------------------------------------------------------------------
(* What the parts say *)

LEMMA Roles ==
  /\ "lock" \in Sem /\ "nEmpty" \in Sem /\ "nFull" \in Sem
  /\ \A t : ~(t \in Producer /\ t \in Consumer)
  /\ Producer \subseteq Thread /\ Consumer \subseteq Thread
  /\ \A t \in Thread : t \in Producer \/ t \in Consumer
  /\ N \in Nat /\ N > 0
  BY BoundedBufferAssumption

LEMMA BlockedIs ==
  \A t : Blocked(t) <=> InQ("lock", t) \/ InQ("nEmpty", t) \/ InQ("nFull", t)
  BY BoundedBufferAssumption DEF Blocked, InQ

LEMMA InsideIs ==
  ASSUME WaitersInv
  PROVE  \A t : t \in Inside <=>
           t \in Thread /\ ~InQ("lock", t) /\ pc[t] \in {"move", "counted", "unlock"}
  BY BlockedIs, Roles DEF WaitersInv, Inside

LEMMA InsideNext ==
  ASSUME WaitersInv'
  PROVE  \A t : t \in Inside' <=>
           t \in Thread /\ ~InQ("lock", t)' /\ pc'[t] \in {"move", "counted", "unlock"}
<1>1. \A t : Blocked(t)' <=> InQ("lock", t)' \/ InQ("nEmpty", t)' \/ InQ("nFull", t)'
  BY BoundedBufferAssumption DEF Blocked, InQ
<1> QED
  BY <1>1, Roles DEF WaitersInv, Inside

LEMMA SetsFinite ==
  \A R, s : R \subseteq Thread =>
    /\ IsFiniteSet(Reserved(R, s)) /\ Cardinality(Reserved(R, s)) \in Nat
    /\ IsFiniteSet(Moved(R)) /\ Cardinality(Moved(R)) \in Nat
<1> TAKE R, s
<1> HAVE R \subseteq Thread
<1>1. IsFiniteSet(R)
  BY BoundedBufferAssumption, FS_Subset
<1>2. Reserved(R, s) \in SUBSET R /\ Moved(R) \in SUBSET R
  BY DEF Reserved, Moved
<1> QED
  BY <1>1, <1>2, FS_Subset, FS_CardinalityType

\* One thread more or less counts one.
LEMMA OneMore ==
  ASSUME NEW S, IsFiniteSet(S), NEW x, x \notin S, NEW T, \A u : u \in T <=> u \in S \/ u = x
  PROVE  Cardinality(T) = Cardinality(S) + 1
<1>1. T = S \cup {x}
  OBVIOUS
<1> QED
  BY <1>1, FS_AddElement

LEMMA OneLess ==
  ASSUME NEW S, IsFiniteSet(S), NEW x, x \in S, NEW T, \A u : u \in T <=> u \in S /\ u # x
  PROVE  Cardinality(S) = Cardinality(T) + 1 /\ Cardinality(T) \in Nat
<1>1. T = S \ {x}
  OBVIOUS
<1>2. IsFiniteSet(T) /\ Cardinality(T) = Cardinality(S) - 1
  BY <1>1, FS_RemoveElement
<1>3. Cardinality(S) \in Nat /\ Cardinality(T) \in Nat
  BY <1>2, FS_CardinalityType
<1> QED
  BY <1>2, <1>3

\* The steps of a thread, and what they do to the program counters.
StepOf(t, a, b) ==
  /\ pc[t] = a /\ ~Blocked(t)
  /\ pc' \in [Thread -> Label]
  /\ pc'[t] = b
  /\ \A u \in Thread : u # t => pc'[u] = pc[u]

LEMMA StepIs ==
  ASSUME TypeOK, NEW t \in Thread, NEW a, NEW b \in Label, Step(t, a, b)
  PROVE  StepOf(t, a, b)
  BY DEF TypeOK, Step, StepOf

LEMMA QueuesSame ==
  ASSUME UNCHANGED sems
  PROVE  /\ \A s, u : InQ(s, u)' <=> InQ(s, u)
         /\ SemsInv => SemsInv'
  BY DEF sems, InQ, SemsInv

-----------------------------------------------------------------------------
(* A thread that waits is at the label behind its down() *)

LEMMA WaitersKept ==
  ASSUME TypeOK, WaitersInv, NEW t \in Thread, NEW a, NEW b, StepOf(t, a, b),
         \A s \in Sem : \A u \in Thread : InQ(s, u)' => InQ(s, u)
  PROVE  WaitersInv'
<1>1. \A u \in Thread : \A s \in Sem : InQ(s, u)' => u # t
  BY BlockedIs, BoundedBufferAssumption DEF StepOf
<1> QED
  BY <1>1, Roles DEF WaitersInv, StepOf

LEMMA WaitersJoined ==
  ASSUME TypeOK, WaitersInv, NEW t \in Thread, NEW a, NEW b, StepOf(t, a, b),
         NEW s \in Sem, Lowered(t, s),
         \/ s = "lock" /\ b = "move"
         \/ s = "nEmpty" /\ b = "lock" /\ t \in Producer
         \/ s = "nFull" /\ b = "lock" /\ t \in Consumer
  PROVE  WaitersInv'
<1>1. ~InQ("lock", t) /\ ~InQ("nEmpty", t) /\ ~InQ("nFull", t)
  BY BlockedIs DEF StepOf
<1>2. \A u \in Thread : u # t =>
        \A r \in Sem : InQ(r, u)' <=> InQ(r, u)
  BY DEF Lowered
<1>3. \A r \in Sem : InQ(r, t)' => r = s
  BY <1>1, BoundedBufferAssumption DEF Lowered
<1> QED
  BY <1>2, <1>3, Roles DEF WaitersInv, StepOf

-----------------------------------------------------------------------------
(* The steps *)

LEMMA ReserveIs ==
  ASSUME IInv, NEW t \in Thread, Reserve(t)
  PROVE  /\ StepOf(t, "reserve", "lock") /\ SemsInv' /\ WaitersInv'
         /\ t \in Producer => Lowered(t, "nEmpty")
         /\ t \in Consumer => Lowered(t, "nFull")
         /\ UNCHANGED <<ring, item>>
<1> DEFINE s == IF t \in Producer THEN "nEmpty" ELSE "nFull"
<1>1. s \in Sem /\ StepOf(t, "reserve", "lock") /\ Down(t, s) /\ UNCHANGED <<ring, item>>
  BY Roles, StepIs DEF IInv, Reserve, Label
<1>2. SemsInv' /\ Lowered(t, s)
  BY <1>1, DownLowers DEF IInv, StepOf
<1>3. WaitersInv'
  BY <1>1, <1>2, WaitersJoined, Roles DEF IInv
<1> QED
  BY <1>1, <1>2, <1>3, Roles

LEMMA LockIs ==
  ASSUME IInv, NEW t \in Thread, Lock(t)
  PROVE  /\ StepOf(t, "lock", "move") /\ SemsInv' /\ WaitersInv'
         /\ Lowered(t, "lock")
         /\ UNCHANGED <<ring, item>>
<1>1. StepOf(t, "lock", "move") /\ Down(t, "lock") /\ UNCHANGED <<ring, item>>
  BY StepIs DEF IInv, Lock, Label
<1>2. SemsInv' /\ Lowered(t, "lock")
  BY <1>1, DownLowers, Roles DEF IInv, StepOf
<1>3. WaitersInv'
  BY <1>1, <1>2, WaitersJoined, Roles DEF IInv
<1> QED
  BY <1>1, <1>2, <1>3

LEMMA UnlockIs ==
  ASSUME IInv, NEW t \in Thread, Unlock(t)
  PROVE  /\ StepOf(t, "unlock", "announce") /\ SemsInv' /\ WaitersInv'
         /\ Raised("lock")
         /\ UNCHANGED <<ring, item>>
<1>1. StepOf(t, "unlock", "announce") /\ Up("lock") /\ UNCHANGED <<ring, item>>
  BY StepIs DEF IInv, Unlock, Label
<1>2. SemsInv' /\ Raised("lock")
  BY <1>1, UpRaises, Roles DEF IInv
<1>3. WaitersInv'
  BY <1>1, <1>2, WaitersKept DEF IInv, Raised
<1> QED
  BY <1>1, <1>2, <1>3

LEMMA AnnounceIs ==
  ASSUME IInv, NEW t \in Thread, Announce(t)
  PROVE  /\ StepOf(t, "announce", "call") /\ SemsInv' /\ WaitersInv'
         /\ t \in Producer => Raised("nFull")
         /\ t \in Consumer => Raised("nEmpty")
         /\ UNCHANGED <<ring, item>>
<1> DEFINE s == IF t \in Producer THEN "nFull" ELSE "nEmpty"
<1>1. s \in Sem /\ StepOf(t, "announce", "call") /\ Up(s) /\ UNCHANGED <<ring, item>>
  BY Roles, StepIs DEF IInv, Announce, Label
<1>2. SemsInv' /\ Raised(s)
  BY <1>1, UpRaises DEF IInv
<1>3. WaitersInv'
  BY <1>1, <1>2, WaitersKept DEF IInv, Raised
<1> QED
  BY <1>1, <1>2, <1>3, Roles

\* The steps in the ring, and calls.
LEMMA OthersAre ==
  ASSUME IInv, NEW t \in Thread, NEW a, NEW b \in Label, Step(t, a, b), UNCHANGED sems
  PROVE  /\ StepOf(t, a, b) /\ SemsInv' /\ WaitersInv'
         /\ \A s, u : InQ(s, u)' <=> InQ(s, u)
         /\ UNCHANGED count
<1>1. StepOf(t, a, b)
  BY StepIs DEF IInv
<1>2. SemsInv' /\ \A s, u : InQ(s, u)' <=> InQ(s, u)
  BY QueuesSame DEF IInv
<1>3. WaitersInv'
  BY <1>1, <1>2, WaitersKept DEF IInv
<1> QED
  BY <1>1, <1>2, <1>3 DEF sems

LEMMA RingSteps ==
  ASSUME NEW t \in Thread
  PROVE  /\ Store(t) => Step(t, "move", "counted") /\ UNCHANGED sems
         /\ Fetch(t) => Step(t, "move", "counted") /\ UNCHANGED sems
         /\ Counted(t) => Step(t, "counted", "unlock") /\ UNCHANGED sems
         /\ Call(t) => Step(t, "call", "reserve") /\ UNCHANGED sems
         /\ {"counted", "unlock", "reserve"} \subseteq Label
  BY DEF Store, Fetch, Counted, Call, CallGet, CallPut, Label

-----------------------------------------------------------------------------
(* One thread at a time is in the ring *)

\* The lock is as it was and nobody comes into the ring.
LEMMA LockUntouched ==
  ASSUME LockInv, count'["lock"] = count["lock"], Inside' \subseteq Inside
  PROVE  LockInv'
  BY DEF LockInv, RingExclusive

LEMMA LockStep ==
  ASSUME IInv, NEW t \in Thread, Run(t) \/ Call(t)
  PROVE  LockInv'
<1>1. /\ WaitersInv /\ LockInv /\ count["lock"] \in Nat
      /\ \A u : u \in Inside <=>
           u \in Thread /\ ~InQ("lock", u) /\ pc[u] \in {"move", "counted", "unlock"}
  BY InsideIs, Roles DEF IInv, SemsInv
<1>2. CASE Reserve(t)
  <2>1. /\ StepOf(t, "reserve", "lock") /\ WaitersInv'
        /\ count'["lock"] = count["lock"]
        /\ \A u \in Thread : InQ("lock", u)' <=> InQ("lock", u)
    BY <1>2, ReserveIs, Roles DEF Lowered
  <2>2. Inside' \subseteq Inside
    BY <1>1, <2>1, InsideNext DEF StepOf
  <2> QED
    BY <1>1, <2>1, <2>2, LockUntouched
<1>3. CASE Lock(t)
  <2>1. /\ StepOf(t, "lock", "move") /\ WaitersInv' /\ Lowered(t, "lock")
    BY <1>3, LockIs
  <2>2. CASE count["lock"] = 0
    <3>1. InQ("lock", t)' /\ count'["lock"] = count["lock"]
      BY <2>1, <2>2, Roles DEF Lowered
    <3>2. Inside' \subseteq Inside
      BY <1>1, <2>1, <2>2, <3>1, InsideNext, Roles DEF StepOf, Lowered
    <3> QED
      BY <1>1, <3>1, <3>2, LockUntouched
  <2>3. CASE count["lock"] # 0
    <3>1. count["lock"] = 1 /\ Inside = {} /\ count'["lock"] = 0
      BY <1>1, <2>1, <2>3, Roles DEF LockInv, Lowered
    <3>2. \A u \in Thread : InQ("lock", u)' <=> InQ("lock", u)
      BY <2>1, <2>3, Roles DEF Lowered
    <3>3. \A u \in Inside' : u = t
      BY <1>1, <2>1, <3>1, <3>2, InsideNext DEF StepOf
    <3> QED
      BY <3>1, <3>3 DEF LockInv, RingExclusive
  <2> QED
    BY <2>2, <2>3
<1>4. CASE Unlock(t)
  <2>1. StepOf(t, "unlock", "announce") /\ WaitersInv' /\ Raised("lock")
    BY <1>4, UnlockIs
  <2>2. t \in Inside /\ ~InQ("lock", t)
    BY <1>1, <2>1, BlockedIs DEF StepOf
  <2>3. Inside = {t} /\ count["lock"] = 0
    BY <1>1, <2>2 DEF LockInv, RingExclusive
  <2>4. CASE \A u \in Thread : ~InQ("lock", u)
    <3>1. count'["lock"] = 1 /\ \A u \in Thread : ~InQ("lock", u)'
      BY <2>1, <2>3, <2>4, Roles DEF Raised
    <3>2. Inside' = {}
      BY <1>1, <2>1, <2>3, <2>4, <3>1, InsideNext DEF StepOf
    <3> QED
      BY <3>1, <3>2 DEF LockInv, RingExclusive
  <2>5. CASE ~ \A u \in Thread : ~InQ("lock", u)
    <3>1. PICK w \in Thread :
            /\ InQ("lock", w)
            /\ \A u \in Thread : InQ("lock", u)' <=> InQ("lock", u) /\ u # w
      BY <2>1, <2>5, Roles DEF Raised
    <3>2. count'["lock"] = 0
      BY <2>1, <2>3, <2>5, Roles DEF Raised
    <3>3. \A u \in Inside' : u = w
      BY <1>1, <2>1, <2>3, <3>1, InsideNext DEF StepOf
    <3> QED
      BY <3>2, <3>3 DEF LockInv, RingExclusive
  <2> QED
    BY <2>4, <2>5
<1>5. CASE Announce(t)
  <2>1. /\ StepOf(t, "announce", "call") /\ WaitersInv'
        /\ count'["lock"] = count["lock"]
        /\ \A u \in Thread : InQ("lock", u)' <=> InQ("lock", u)
    BY <1>5, AnnounceIs, Roles DEF Raised
  <2>2. Inside' \subseteq Inside
    BY <1>1, <2>1, InsideNext DEF StepOf
  <2> QED
    BY <1>1, <2>1, <2>2, LockUntouched
<1>6. CASE Store(t) \/ Fetch(t) \/ Counted(t) \/ Call(t)
  <2>1. PICK a \in Label, b \in Label :
          /\ Step(t, a, b) /\ UNCHANGED sems
          /\ a \in {"move", "counted"} \/ b = "reserve"
    BY <1>6, RingSteps DEF Label
  <2>2. /\ StepOf(t, a, b) /\ WaitersInv' /\ UNCHANGED count
        /\ \A u \in Thread : InQ("lock", u)' <=> InQ("lock", u)
    BY <2>1, OthersAre
  <2>3. Inside' \subseteq Inside
    BY <1>1, <2>1, <2>2, InsideNext, BlockedIs DEF StepOf
  <2> QED
    BY <1>1, <2>2, <2>3, LockUntouched
<1> QED
  BY <1>2, <1>3, <1>4, <1>5, <1>6 DEF Run

-----------------------------------------------------------------------------
(* Every slot is counted once *)

Givers == Reserved(Producer, "nEmpty")
Given == Moved(Producer)
Takers == Reserved(Consumer, "nFull")
Taken == Moved(Consumer)

LEMMA Sizes ==
  /\ IsFiniteSet(Givers) /\ Cardinality(Givers) \in Nat
  /\ IsFiniteSet(Given) /\ Cardinality(Given) \in Nat
  /\ IsFiniteSet(Takers) /\ Cardinality(Takers) \in Nat
  /\ IsFiniteSet(Taken) /\ Cardinality(Taken) \in Nat
  BY Roles, SetsFinite DEF Givers, Given, Takers, Taken

LEMMA SlotsAre ==
  SlotsInv <=>
    /\ count["nEmpty"] + n + Cardinality(Givers) + Cardinality(Taken) = N
    /\ count["nFull"] + Cardinality(Takers) + Cardinality(Given) = n
  BY DEF SlotsInv, Givers, Given, Takers, Taken

LEMMA SlotsNext ==
  ASSUME count'["nEmpty"] + n' + Cardinality(Givers') + Cardinality(Taken') = N,
         count'["nFull"] + Cardinality(Takers') + Cardinality(Given') = n'
  PROVE  SlotsInv'
  BY DEF SlotsInv, Givers, Takers, Given, Taken

\* Who is counted where after a step.
LEMMA SlotsMove ==
  ASSUME TypeOK, WaitersInv, WaitersInv', NEW t \in Thread, NEW a, NEW b, StepOf(t, a, b),
         NEW s, \A r \in Sem \ {s} : \A u \in Thread : InQ(r, u)' <=> InQ(r, u)
  PROVE  /\ s # "nEmpty" => \A u : u # t => (u \in Givers' <=> u \in Givers)
         /\ s # "nFull" => \A u : u # t => (u \in Takers' <=> u \in Takers)
         /\ \A u : u # t => /\ u \in Given' <=> u \in Given
                            /\ u \in Taken' <=> u \in Taken
         /\ t \in Givers <=> t \in Producer /\ a \in {"lock", "move", "counted"}
         /\ t \in Takers <=> t \in Consumer /\ a \in {"lock", "move", "counted"}
         /\ t \in Given <=> t \in Producer /\ a \in {"unlock", "announce"}
         /\ t \in Taken <=> t \in Consumer /\ a \in {"unlock", "announce"}
         /\ t \in Given' <=> t \in Producer /\ b \in {"unlock", "announce"}
         /\ t \in Taken' <=> t \in Consumer /\ b \in {"unlock", "announce"}
         /\ t \in Givers' <=>
              /\ t \in Producer
              /\ b \in {"move", "counted"} \/ (b = "lock" /\ ~InQ("nEmpty", t)')
         /\ t \in Takers' <=>
              /\ t \in Consumer
              /\ b \in {"move", "counted"} \/ (b = "lock" /\ ~InQ("nFull", t)')
<1>1. /\ pc[t] = a /\ pc'[t] = b /\ \A u \in Thread : u # t => pc'[u] = pc[u]
      /\ ~InQ("nEmpty", t) /\ ~InQ("nFull", t)
  BY BlockedIs DEF StepOf
<1>2. /\ s # "nEmpty" => \A u \in Thread : InQ("nEmpty", u)' <=> InQ("nEmpty", u)
      /\ s # "nFull" => \A u \in Thread : InQ("nFull", u)' <=> InQ("nFull", u)
  BY Roles
<1>3. s # "nEmpty" => \A u : u # t => (u \in Givers' <=> u \in Givers)
  BY <1>1, <1>2, Roles DEF Givers, Reserved
<1>4. s # "nFull" => \A u : u # t => (u \in Takers' <=> u \in Takers)
  BY <1>1, <1>2, Roles DEF Takers, Reserved
<1>5. \A u : u # t => /\ u \in Given' <=> u \in Given
                      /\ u \in Taken' <=> u \in Taken
  BY <1>1, Roles DEF Given, Taken, Moved
<1>6. /\ t \in Givers <=> t \in Producer /\ a \in {"lock", "move", "counted"}
      /\ t \in Takers <=> t \in Consumer /\ a \in {"lock", "move", "counted"}
  BY <1>1 DEF Givers, Takers, Reserved
<1>7. /\ t \in Given <=> t \in Producer /\ a \in {"unlock", "announce"}
      /\ t \in Taken <=> t \in Consumer /\ a \in {"unlock", "announce"}
      /\ t \in Given' <=> t \in Producer /\ b \in {"unlock", "announce"}
      /\ t \in Taken' <=> t \in Consumer /\ b \in {"unlock", "announce"}
  BY <1>1 DEF Given, Taken, Moved
<1>8. /\ t \in Givers' <=>
           /\ t \in Producer
           /\ b \in {"move", "counted"} \/ (b = "lock" /\ ~InQ("nEmpty", t)')
      /\ t \in Takers' <=>
           /\ t \in Consumer
           /\ b \in {"move", "counted"} \/ (b = "lock" /\ ~InQ("nFull", t)')
  BY <1>1 DEF Givers, Takers, Reserved
<1> QED
  BY <1>3, <1>4, <1>5, <1>6, <1>7, <1>8

LEMMA SlotsSame ==
  ASSUME SlotsInv, \A u : u \in Givers' <=> u \in Givers, \A u : u \in Takers' <=> u \in Takers,
         \A u : u \in Given' <=> u \in Given, \A u : u \in Taken' <=> u \in Taken,
         n' = n, count'["nEmpty"] = count["nEmpty"], count'["nFull"] = count["nFull"]
  PROVE  SlotsInv'
<1>1. Givers' = Givers /\ Takers' = Takers /\ Given' = Given /\ Taken' = Taken
  OBVIOUS
<1> QED
  BY <1>1 DEF SlotsInv, Givers, Takers, Given, Taken

LEMMA SlotsReserve ==
  ASSUME IInv, NEW t \in Thread, Reserve(t)
  PROVE  SlotsInv'
<1>1. /\ StepOf(t, "reserve", "lock") /\ WaitersInv' /\ TypeOK /\ WaitersInv /\ SlotsInv
      /\ n' = n /\ n \in Nat /\ N \in Nat
      /\ count["nEmpty"] \in Nat /\ count["nFull"] \in Nat
  BY ReserveIs, Roles DEF IInv, SemsInv, TypeOK, ring
<1>2. CASE t \in Producer
  <2>1. Lowered(t, "nEmpty") /\ t \notin Consumer
    BY <1>2, ReserveIs, Roles
  <2>2. /\ count'["nEmpty"] = (IF count["nEmpty"] > 0 THEN count["nEmpty"] - 1 ELSE count["nEmpty"])
        /\ count'["nFull"] = count["nFull"]
        /\ \A r \in Sem \ {"nEmpty"} : \A u \in Thread : InQ(r, u)' <=> InQ(r, u)
        /\ \A u \in Thread : u # t => (InQ("nEmpty", u)' <=> InQ("nEmpty", u))
        /\ InQ("nEmpty", t)' <=> InQ("nEmpty", t) \/ count["nEmpty"] = 0
    BY <2>1, Roles DEF Lowered
  <2>3. /\ \A u : u # t => (u \in Givers' <=> u \in Givers)
        /\ \A u : u \in Takers' <=> u \in Takers
        /\ \A u : u \in Given' <=> u \in Given
        /\ \A u : u \in Taken' <=> u \in Taken
        /\ t \notin Givers
        /\ t \in Givers' <=> ~InQ("nEmpty", t)'
    <3>1. \A u : u # t => (u \in Givers' <=> u \in Givers)
      BY <1>1, <2>2, Roles DEF Givers, Reserved, StepOf
    <3> QED
      BY <3>1, <1>1, <1>2, <2>1, <2>2, SlotsMove
  <2>4. CASE count["nEmpty"] = 0
    BY <1>1, <2>2, <2>3, <2>4, SlotsSame
  <2>5. CASE count["nEmpty"] > 0
    <3>1. ~InQ("nEmpty", t)'
      BY <1>1, <2>2, <2>5, BlockedIs DEF StepOf
    <3>2. Cardinality(Givers') = Cardinality(Givers) + 1
      BY <2>3, <3>1, OneMore, Sizes
    <3>3. Takers' = Takers /\ Given' = Given /\ Taken' = Taken
      BY <2>3
    <3> QED
      BY <1>1, <2>2, <2>5, <3>2, <3>3, Sizes DEF SlotsInv, Givers, Takers, Given, Taken
  <2> QED
    BY <1>1, <2>4, <2>5
<1>3. CASE t \in Consumer
  <2>1. Lowered(t, "nFull") /\ t \notin Producer
    BY <1>3, ReserveIs, Roles
  <2>2. /\ count'["nFull"] = (IF count["nFull"] > 0 THEN count["nFull"] - 1 ELSE count["nFull"])
        /\ count'["nEmpty"] = count["nEmpty"]
        /\ \A r \in Sem \ {"nFull"} : \A u \in Thread : InQ(r, u)' <=> InQ(r, u)
        /\ \A u \in Thread : u # t => (InQ("nFull", u)' <=> InQ("nFull", u))
        /\ InQ("nFull", t)' <=> InQ("nFull", t) \/ count["nFull"] = 0
    BY <2>1, Roles DEF Lowered
  <2>3. /\ \A u : u # t => (u \in Takers' <=> u \in Takers)
        /\ \A u : u \in Givers' <=> u \in Givers
        /\ \A u : u \in Given' <=> u \in Given
        /\ \A u : u \in Taken' <=> u \in Taken
        /\ t \notin Takers
        /\ t \in Takers' <=> ~InQ("nFull", t)'
    <3>1. \A u : u # t => (u \in Takers' <=> u \in Takers)
      BY <1>1, <2>2, Roles DEF Takers, Reserved, StepOf
    <3> QED
      BY <3>1, <1>1, <1>3, <2>1, <2>2, SlotsMove
  <2>4. CASE count["nFull"] = 0
    BY <1>1, <2>2, <2>3, <2>4, SlotsSame
  <2>5. CASE count["nFull"] > 0
    <3>1. ~InQ("nFull", t)'
      BY <1>1, <2>2, <2>5, BlockedIs DEF StepOf
    <3>2. Cardinality(Takers') = Cardinality(Takers) + 1
      BY <2>3, <3>1, OneMore, Sizes
    <3>3. Givers' = Givers /\ Given' = Given /\ Taken' = Taken
      BY <2>3
    <3> QED
      BY <1>1, <2>2, <2>5, <3>2, <3>3, Sizes DEF SlotsInv, Givers, Takers, Given, Taken
  <2> QED
    BY <1>1, <2>4, <2>5
<1> QED
  BY <1>2, <1>3, Roles

LEMMA SlotsAnnounce ==
  ASSUME IInv, NEW t \in Thread, Announce(t)
  PROVE  SlotsInv'
<1>1. /\ StepOf(t, "announce", "call") /\ WaitersInv' /\ TypeOK /\ WaitersInv /\ SlotsInv
      /\ n' = n /\ n \in Nat /\ N \in Nat
      /\ count["nEmpty"] \in Nat /\ count["nFull"] \in Nat
  BY AnnounceIs, Roles DEF IInv, SemsInv, TypeOK, ring
<1>2. CASE t \in Producer
  <2>1. Raised("nFull") /\ t \notin Consumer
    BY <1>2, AnnounceIs, Roles
  <2>2. /\ count'["nEmpty"] = count["nEmpty"]
        /\ \A r \in Sem \ {"nFull"} : \A u \in Thread : InQ(r, u)' <=> InQ(r, u)
    BY <2>1, Roles DEF Raised
  <2>3. /\ \A u : u \in Givers' <=> u \in Givers
        /\ \A u : u \in Taken' <=> u \in Taken
        /\ t \in Given /\ \A u : u \in Given' <=> u \in Given /\ u # t
        /\ t \notin Takers /\ t \notin Takers'
    BY <1>1, <1>2, <2>1, <2>2, SlotsMove
  <2>4. Givers' = Givers /\ Taken' = Taken
    BY <2>3
  <2>5. /\ Cardinality(Given) = Cardinality(Given') + 1
        /\ Cardinality(Given') \in Nat
    BY <2>3, OneLess, Sizes
  <2>6. CASE \A u \in Thread : ~InQ("nFull", u)
    <3>1. /\ count'["nFull"] = count["nFull"] + 1
          /\ \A u \in Thread : ~InQ("nFull", u)'
      BY <2>1, <2>6, Roles DEF Raised
    <3>2. \A u : u \in Takers' <=> u \in Takers
      BY <1>1, <2>3, <2>6, <3>1, Roles DEF Takers, Reserved, StepOf
    <3>3. Takers' = Takers
      BY <3>2
    <3> QED
      BY <1>1, <2>2, <2>4, <2>5, <3>1, <3>3, Sizes DEF SlotsInv, Givers, Takers, Given, Taken
  <2>7. CASE ~ \A u \in Thread : ~InQ("nFull", u)
    <3>1. PICK w \in Thread :
            /\ InQ("nFull", w)
            /\ \A u \in Thread : InQ("nFull", u)' <=> InQ("nFull", u) /\ u # w
      BY <2>1, <2>7, Roles DEF Raised
    <3>2. count' = count
      BY <2>1, <2>7 DEF Raised
    <3>3. w # t /\ pc[w] = "lock" /\ w \in Consumer /\ pc'[w] = "lock"
      BY <1>1, <3>1 DEF WaitersInv, StepOf
    <3>4. w \notin Takers /\ \A u : u \in Takers' <=> u \in Takers \/ u = w
      BY <1>1, <2>3, <3>1, <3>3, Roles DEF Takers, Reserved, StepOf
    <3>5. Cardinality(Takers') = Cardinality(Takers) + 1
      BY <3>4, OneMore, Sizes
    <3> QED
      BY <1>1, <2>4, <2>5, <3>2, <3>5, Sizes DEF SlotsInv, Givers, Takers, Given, Taken
  <2> QED
    BY <2>6, <2>7
<1>3. CASE t \in Consumer
  <2>1. Raised("nEmpty") /\ t \notin Producer
    BY <1>3, AnnounceIs, Roles
  <2>2. /\ count'["nFull"] = count["nFull"]
        /\ \A r \in Sem \ {"nEmpty"} : \A u \in Thread : InQ(r, u)' <=> InQ(r, u)
    BY <2>1, Roles DEF Raised
  <2>3. /\ \A u : u \in Given' <=> u \in Given
        /\ \A u : u \in Takers' <=> u \in Takers
        /\ t \in Taken /\ \A u : u \in Taken' <=> u \in Taken /\ u # t
        /\ t \notin Givers /\ t \notin Givers'
    BY <1>1, <1>3, <2>1, <2>2, SlotsMove
  <2>4. Given' = Given /\ Takers' = Takers
    BY <2>3
  <2>5. /\ Cardinality(Taken) = Cardinality(Taken') + 1
        /\ Cardinality(Taken') \in Nat
    BY <2>3, OneLess, Sizes
  <2>6. CASE \A u \in Thread : ~InQ("nEmpty", u)
    <3>1. /\ count'["nEmpty"] = count["nEmpty"] + 1
          /\ \A u \in Thread : ~InQ("nEmpty", u)'
      BY <2>1, <2>6, Roles DEF Raised
    <3>2. \A u : u \in Givers' <=> u \in Givers
      BY <1>1, <2>3, <2>6, <3>1, Roles DEF Givers, Reserved, StepOf
    <3>3. Givers' = Givers
      BY <3>2
    <3>9. /\ count'["nEmpty"] + n' + Cardinality(Givers') + Cardinality(Taken') = N
          /\ count'["nFull"] + Cardinality(Takers') + Cardinality(Given') = n'
      BY <1>1, <2>2, <2>4, <2>5, <3>1, <3>3, Sizes, SlotsAre
    <3> QED
      BY <3>9, SlotsNext
  <2>7. CASE ~ \A u \in Thread : ~InQ("nEmpty", u)
    <3>1. PICK w \in Thread :
            /\ InQ("nEmpty", w)
            /\ \A u \in Thread : InQ("nEmpty", u)' <=> InQ("nEmpty", u) /\ u # w
      BY <2>1, <2>7, Roles DEF Raised
    <3>2. count' = count
      BY <2>1, <2>7 DEF Raised
    <3>3. w # t /\ pc[w] = "lock" /\ w \in Producer /\ pc'[w] = "lock"
      BY <1>1, <3>1 DEF WaitersInv, StepOf
    <3>4. w \notin Givers /\ \A u : u \in Givers' <=> u \in Givers \/ u = w
      BY <1>1, <2>3, <3>1, <3>3, Roles DEF Givers, Reserved, StepOf
    <3>5. Cardinality(Givers') = Cardinality(Givers) + 1
      BY <3>4, OneMore, Sizes
    <3> QED
      BY <1>1, <2>4, <2>5, <3>2, <3>5, Sizes DEF SlotsInv, Givers, Takers, Given, Taken
  <2> QED
    BY <2>6, <2>7
<1> QED
  BY <1>2, <1>3, Roles

\* The ring has room for who is about to count up, and an item for who counts down.
LEMMA RoomToCount ==
  ASSUME IInv, NEW t \in Thread, pc[t] \in {"move", "counted"}
  PROVE  /\ t \in Producer => n + 1 <= N
         /\ t \in Consumer => n >= 1
<1>1. /\ t \in Producer => Cardinality(Givers) > 0
      /\ t \in Consumer => Cardinality(Takers) > 0
  <2>1. /\ t \in Producer => t \in Givers
        /\ t \in Consumer => t \in Takers
    BY DEF Givers, Takers, Reserved
  <2> QED
    BY <2>1, Sizes, FS_EmptySet
<1>2. /\ SlotsInv /\ n \in Nat /\ N \in Nat
      /\ count["nEmpty"] \in Nat /\ count["nFull"] \in Nat
  BY Roles DEF IInv, TypeOK, SemsInv
<1> QED
  BY <1>1, <1>2, Sizes, SlotsAre

LEMMA SlotsCounted ==
  ASSUME IInv, NEW t \in Thread, Counted(t)
  PROVE  SlotsInv'
<1>1. /\ StepOf(t, "counted", "unlock") /\ WaitersInv' /\ TypeOK /\ WaitersInv /\ SlotsInv
      /\ \A r \in Sem \ {"lock"} : \A u \in Thread : InQ(r, u)' <=> InQ(r, u)
      /\ count' = count /\ n \in Nat /\ N \in Nat
      /\ count["nEmpty"] \in Nat /\ count["nFull"] \in Nat
  BY OthersAre, RingSteps, Roles DEF IInv, SemsInv, TypeOK
<1>a. /\ \A u : u # t => (u \in Givers' <=> u \in Givers)
      /\ \A u : u # t => (u \in Takers' <=> u \in Takers)
      /\ \A u : u # t => (u \in Given' <=> u \in Given)
      /\ \A u : u # t => (u \in Taken' <=> u \in Taken)
  BY <1>1, SlotsMove
<1>b. /\ t \in Givers <=> t \in Producer
      /\ t \in Takers <=> t \in Consumer
      /\ t \notin Given /\ t \notin Taken
      /\ t \in Given' <=> t \in Producer
      /\ t \in Taken' <=> t \in Consumer
      /\ t \notin Givers' /\ t \notin Takers'
  BY <1>1, SlotsMove
<1>2. CASE t \in Producer
  <2>1. n' = n + 1 /\ t \notin Consumer
    BY <1>2, Roles DEF Counted
  <2>2. /\ \A u : u \in Takers' <=> u \in Takers
        /\ \A u : u \in Taken' <=> u \in Taken
        /\ t \in Givers /\ \A u : u \in Givers' <=> u \in Givers /\ u # t
        /\ t \notin Given /\ \A u : u \in Given' <=> u \in Given \/ u = t
    BY <1>a, <1>b, <1>2, <2>1
  <2>3. /\ Cardinality(Givers) = Cardinality(Givers') + 1 /\ Cardinality(Givers') \in Nat
        /\ Cardinality(Given') = Cardinality(Given) + 1
        /\ Takers' = Takers /\ Taken' = Taken
    BY <2>2, OneMore, OneLess, Sizes
  <2> QED
    BY <1>1, <2>1, <2>3, Sizes DEF SlotsInv, Givers, Takers, Given, Taken
<1>3. CASE t \in Consumer
  <2>1. n' = n - 1 /\ t \notin Producer
    BY <1>3, Roles DEF Counted
  <2>2. /\ \A u : u \in Givers' <=> u \in Givers
        /\ \A u : u \in Given' <=> u \in Given
        /\ t \in Takers /\ \A u : u \in Takers' <=> u \in Takers /\ u # t
        /\ t \notin Taken /\ \A u : u \in Taken' <=> u \in Taken \/ u = t
    BY <1>a, <1>b, <1>3, <2>1
  <2>3. /\ Cardinality(Takers) = Cardinality(Takers') + 1 /\ Cardinality(Takers') \in Nat
        /\ Cardinality(Taken') = Cardinality(Taken) + 1
        /\ Givers' = Givers /\ Given' = Given
    BY <2>2, OneMore, OneLess, Sizes
  <2> QED
    BY <1>1, <2>1, <2>3, Sizes DEF SlotsInv, Givers, Takers, Given, Taken
<1> QED
  BY <1>2, <1>3, Roles

LEMMA SlotsStep ==
  ASSUME IInv, NEW t \in Thread, Run(t) \/ Call(t)
  PROVE  SlotsInv'
<1>1. /\ TypeOK /\ WaitersInv /\ SlotsInv
  BY DEF IInv
<1>2. CASE Lock(t)
  <2>1. StepOf(t, "lock", "move") /\ WaitersInv' /\ Lowered(t, "lock") /\ n' = n
    BY <1>2, LockIs DEF ring
  <2>2. /\ \A r \in Sem \ {"lock"} : \A u \in Thread : InQ(r, u)' <=> InQ(r, u)
        /\ count'["nEmpty"] = count["nEmpty"] /\ count'["nFull"] = count["nFull"]
    BY <2>1, Roles DEF Lowered
  <2>3. /\ \A u : u \in Givers' <=> u \in Givers
        /\ \A u : u \in Takers' <=> u \in Takers
        /\ \A u : u \in Given' <=> u \in Given
        /\ \A u : u \in Taken' <=> u \in Taken
    BY <1>1, <2>1, <2>2, SlotsMove
  <2> QED
    BY <1>1, <2>1, <2>2, <2>3, SlotsSame
<1>3. CASE Unlock(t)
  <2>1. StepOf(t, "unlock", "announce") /\ WaitersInv' /\ Raised("lock") /\ n' = n
    BY <1>3, UnlockIs DEF ring
  <2>2. /\ \A r \in Sem \ {"lock"} : \A u \in Thread : InQ(r, u)' <=> InQ(r, u)
        /\ count'["nEmpty"] = count["nEmpty"] /\ count'["nFull"] = count["nFull"]
    BY <2>1, Roles DEF Raised
  <2>3. /\ \A u : u \in Givers' <=> u \in Givers
        /\ \A u : u \in Takers' <=> u \in Takers
        /\ \A u : u \in Given' <=> u \in Given
        /\ \A u : u \in Taken' <=> u \in Taken
    BY <1>1, <2>1, <2>2, SlotsMove
  <2> QED
    BY <1>1, <2>1, <2>2, <2>3, SlotsSame
<1>4. CASE Store(t) \/ Fetch(t) \/ Call(t)
  <2>1. PICK a, b \in Label :
          /\ Step(t, a, b) /\ UNCHANGED sems
          /\ (a = "move" /\ b = "counted") \/ (a = "call" /\ b = "reserve")
    BY <1>4, RingSteps DEF Label
  <2>2. n' = n
    BY <1>4 DEF Store, Fetch, Call, CallGet, CallPut, ring
  <2>3. /\ StepOf(t, a, b) /\ WaitersInv' /\ UNCHANGED count
        /\ \A s, u : InQ(s, u)' <=> InQ(s, u)
    BY <2>1, OthersAre
  <2>4. /\ \A u : u \in Givers' <=> u \in Givers
        /\ \A u : u \in Takers' <=> u \in Takers
        /\ \A u : u \in Given' <=> u \in Given
        /\ \A u : u \in Taken' <=> u \in Taken
    BY <1>1, <2>1, <2>3, SlotsMove
  <2> QED
    BY <1>1, <2>2, <2>3, <2>4, SlotsSame
<1> QED
  BY <1>2, <1>3, <1>4, SlotsReserve, SlotsAnnounce, SlotsCounted DEF Run

-----------------------------------------------------------------------------
(* What is moved is still there when it is counted *)

LEMMA TypesStep ==
  ASSUME IInv, NEW t \in Thread, Run(t) \/ Call(t)
  PROVE  TypeOK'
<1>1. /\ TypeOK /\ N \in Nat /\ N > 0
  BY Roles DEF IInv
<1>2. PICK a, b \in Label : Step(t, a, b)
  BY RingSteps DEF Run, Reserve, Lock, Unlock, Announce, Label
<1>3. pc' \in [Thread -> Label]
  BY <1>1, <1>2, StepIs DEF StepOf
<1>4. CASE Reserve(t) \/ Lock(t) \/ Unlock(t) \/ Announce(t)
  BY <1>1, <1>3, <1>4 DEF Reserve, Lock, Unlock, Announce, ring, TypeOK
<1>5. CASE Call(t)
  BY <1>1, <1>3, <1>5 DEF Call, CallGet, CallPut, ring, TypeOK
<1>6. CASE Store(t)
  BY <1>1, <1>3, <1>6 DEF Store, TypeOK
<1>7. CASE Fetch(t)
  BY <1>1, <1>3, <1>7 DEF Fetch, ring, TypeOK
<1>8. CASE Counted(t)
  <2>1. pc[t] = "counted"
    BY <1>8 DEF Counted, Step
  <2>2. (head + 1) % N \in 0..N - 1
    BY <1>1 DEF TypeOK
  <2>3. n' \in 0..N
    BY <1>1, <1>8, <2>1, RoomToCount, Roles DEF Counted, TypeOK
  <2> QED
    BY <1>1, <1>3, <1>8, <2>2, <2>3 DEF Counted, TypeOK
<1> QED
  BY <1>4, <1>5, <1>6, <1>7, <1>8 DEF Run

\* Whoever is at one of these labels and not waiting is inside the ring.
LEMMA AtIsInside ==
  ASSUME WaitersInv, NEW t \in Thread, pc[t] \in {"counted", "unlock"}
  PROVE  t \in Inside
  BY InsideIs DEF WaitersInv

LEMMA MovedStep ==
  ASSUME IInv, NEW t \in Thread, Run(t) \/ Call(t)
  PROVE  MovedInv'
<1>1. /\ TypeOK /\ WaitersInv /\ MovedInv /\ RingExclusive /\ N \in Nat /\ N > 0
  BY Roles DEF IInv, LockInv
<1>2. PICK a, b \in Label : Step(t, a, b) /\ (b = "counted" => a = "move")
  BY RingSteps DEF Run, Reserve, Lock, Unlock, Announce, Label
<1>3. StepOf(t, a, b)
  BY <1>1, <1>2, StepIs
<1>4. CASE Store(t) \/ Fetch(t)
  <2>1. Step(t, "move", "counted")
    BY <1>4, RingSteps
  <2>2. t \in Inside
    BY <1>1, <2>1, InsideIs, BlockedIs DEF Step
  <2>3. \A u \in Thread : pc'[u] = "counted" => u = t
    <3>1. pc[t] = "move" /\ \A u \in Thread : u # t => pc'[u] = pc[u]
      BY <1>3, <2>1 DEF StepOf, Step
    <3> QED
      BY <1>1, <2>2, <3>1, AtIsInside DEF RingExclusive
  <2>4. CASE Store(t)
    <3>1. (head + n) % N \in 0..N - 1
      BY <1>1 DEF TypeOK
    <3>2. data'[(head + n) % N] = item[t] /\ item' = item /\ head' = head /\ n' = n /\ t \in Producer
      BY <1>1, <2>4, <3>1 DEF Store, TypeOK
    <3> QED
      BY <2>3, <3>2 DEF MovedInv
  <2>5. CASE Fetch(t)
    <3>1. item'[t] = data[head] /\ data' = data /\ head' = head /\ t \notin Producer
      BY <1>1, <2>5, Roles DEF Fetch, ring, TypeOK
    <3> QED
      BY <2>3, <3>1 DEF MovedInv
  <2> QED
    BY <1>4, <2>4, <2>5
<1>5. CASE Counted(t)
  <2>1. pc[t] = "counted" /\ pc'[t] = "unlock" /\ \A u \in Thread : u # t => pc'[u] = pc[u]
    BY <1>1, <1>5 DEF Counted, Step, TypeOK
  <2>2. \A u \in Thread : pc'[u] # "counted"
    BY <1>1, <2>1, AtIsInside DEF RingExclusive
  <2> QED
    BY <2>2 DEF MovedInv
<1>6. CASE ~(Store(t) \/ Fetch(t) \/ Counted(t))
  <2>1. UNCHANGED ring /\ \A u \in Thread : u # t => item'[u] = item[u]
    BY <1>1, <1>6 DEF Run, Call, CallGet, CallPut, Reserve, Lock, Unlock, Announce, TypeOK
  <2>2. \A u \in Thread : pc'[u] = "counted" => u # t /\ pc[u] = "counted"
    <3>1. pc'[t] # "counted"
      BY <1>1, <1>6 DEF Run, Call, CallGet, CallPut, Reserve, Lock, Unlock, Announce, Step, TypeOK
    <3> QED
      BY <1>3, <3>1 DEF StepOf
  <2> QED
    BY <1>1, <2>1, <2>2 DEF MovedInv, ring
<1> QED
  BY <1>4, <1>5, <1>6

-----------------------------------------------------------------------------
(* The invariant *)

LEMMA InitHolds ==
  ASSUME Init
  PROVE  IInv
<1>1. /\ N \in Nat /\ N > 0 /\ Junk \in Item \cup {Junk}
      /\ waiting = [s \in Sem |-> <<>>]
      /\ count = [s \in Sem |-> IF s = "nEmpty" THEN N ELSE IF s = "nFull" THEN 0 ELSE 1]
  BY Roles DEF Init, Constructed
<1>2. /\ count \in [Sem -> Nat] /\ waiting \in [Sem -> Seq(Thread)]
      /\ \A s \in Sem : Len(waiting[s]) = 0 /\ waiting[s] = <<>>
  BY <1>1
<1>3. \A s \in Sem : \A u : ~InQ(s, u)
  BY <1>2 DEF InQ
<1>4. SemsInv
  BY <1>2 DEF SemsInv
<1>5. TypeOK
  BY <1>1 DEF Init, TypeOK, Label
<1>6. WaitersInv
  BY <1>3, Roles DEF WaitersInv
<1>7. LockInv
  <2>1. Inside = {} /\ count["lock"] = 1
    BY <1>1, Roles DEF Init, Inside
  <2> QED
    BY <2>1 DEF LockInv, RingExclusive
<1>8. SlotsInv
  <2>1. Givers = {} /\ Takers = {} /\ Given = {} /\ Taken = {}
    BY Roles DEF Init, Givers, Takers, Given, Taken, Reserved, Moved
  <2>2. count["nEmpty"] = N /\ count["nFull"] = 0 /\ n = 0
    BY <1>1, Roles DEF Init
  <2> QED
    BY <1>1, <2>1, <2>2, FS_EmptySet, SlotsAre
<1>9. MovedInv
  BY DEF Init, MovedInv
<1> QED
  BY <1>4, <1>5, <1>6, <1>7, <1>8, <1>9 DEF IInv

LEMMA NextHolds ==
  ASSUME IInv, [Next]_vars
  PROVE  IInv'
<1>1. CASE Next
  <2>1. PICK t \in Thread : Run(t) \/ Call(t)
    BY <1>1 DEF Next
  <2>2. SemsInv' /\ WaitersInv'
    BY <2>1, ReserveIs, LockIs, UnlockIs, AnnounceIs, RingSteps, OthersAre DEF Run
  <2> QED
    BY <2>1, <2>2, TypesStep, LockStep, SlotsStep, MovedStep DEF IInv
<1>2. CASE UNCHANGED vars
  <2>1. \A s, u : InQ(s, u)' <=> InQ(s, u)
    BY <1>2 DEF vars, sems, InQ
  <2>2. Inside' = Inside
    BY <1>2 DEF vars, sems, Inside, Blocked
  <2>3. Givers' = Givers /\ Takers' = Takers /\ Given' = Given /\ Taken' = Taken
    BY <1>2, <2>1 DEF vars, Givers, Takers, Given, Taken, Reserved, Moved
  <2> QED
    BY <1>2, <2>1, <2>2, <2>3
       DEF vars, sems, ring, IInv, SemsInv, TypeOK, WaitersInv, LockInv, RingExclusive, SlotsInv,
           Givers, Takers, Given, Taken, MovedInv
<1> QED
  BY <1>1, <1>2

THEOREM InvariantHolds == Spec => []IInv
<1> QED
  BY InitHolds, NextHolds, PTL DEF Spec

\* For a ring of any size and any number of threads: one at a time is in it.
THEOREM OneInTheRing == Spec => []RingExclusive
<1>1. IInv => RingExclusive
  BY DEF IInv, LockInv
<1> QED
  BY <1>1, InvariantHolds, PTL

-----------------------------------------------------------------------------
(* The buffer does what a Channel does *)

Inner == [i \in 1..n |-> data[(head + i - 1) % N]]
Offered ==
  [t \in Producer |->
     IF pc[t] \in {"reserve", "lock", "move", "counted"} THEN <<item[t]>> ELSE <<>>]
Returned ==
  [t \in Consumer |-> IF pc[t] \in {"unlock", "announce"} THEN <<item[t]>> ELSE <<>>]

\* Within one turn around the ring no two places are the same.
LEMMA PlacesApart ==
  ASSUME NEW M \in Nat, M > 0, NEW h \in 0..M - 1, NEW i \in 0..M - 1, NEW j \in 0..M - 1,
         (h + i) % M = (h + j) % M
  PROVE  i = j
<1>1. ASSUME NEW k \in 0..M - 1
      PROVE  (h + k) % M = (IF h + k < M THEN h + k ELSE h + k - M)
  OBVIOUS
<1>2. /\ (h + i) % M = (IF h + i < M THEN h + i ELSE h + i - M)
      /\ (h + j) % M = (IF h + j < M THEN h + j ELSE h + j - M)
  BY <1>1
<1> QED
  BY <1>2

\* The second item is the first one after head has moved on.
LEMMA PlaceAfter ==
  ASSUME NEW M \in Nat, M > 0, NEW h \in 0..M - 1, NEW i \in 0..M - 1
  PROVE  (((h + 1) % M) + i) % M = (h + (i + 1)) % M
<1>1. CASE h + 1 < M
  <2>1. (h + 1) % M = h + 1
    BY <1>1
  <2> QED
    BY <2>1
<1>2. CASE h + 1 = M
  <2>1. (h + 1) % M = 0 /\ (h + (i + 1)) = M + i
    BY <1>2
  <2>2. (M + i) % M = i /\ i % M = i
    OBVIOUS
  <2> QED
    BY <2>1, <2>2
<1> QED
  BY <1>1, <1>2

\* One item more at the end, and one less at the front.
LEMMA LongerIs ==
  ASSUME NEW S, NEW k \in Nat, NEW s \in [1..k -> S], NEW x \in S
  PROVE  s \o <<x>> = [i \in 1..k + 1 |-> IF i = k + 1 THEN x ELSE s[i]]
<1>1. s \in Seq(S) /\ Len(s) = k /\ <<x>> \in Seq(S) /\ Len(<<x>>) = 1 /\ <<x>>[1] = x
  OBVIOUS
<1>2. /\ s \o <<x>> \in Seq(S) /\ Len(s \o <<x>>) = k + 1
      /\ \A i \in 1..k : (s \o <<x>>)[i] = s[i]
      /\ (s \o <<x>>)[k + 1] = x
  BY <1>1
<1> QED
  BY <1>2

LEMMA ShorterIs ==
  ASSUME NEW S, NEW k \in Nat, k >= 1, NEW s \in [1..k -> S]
  PROVE  Tail(s) = [i \in 1..k - 1 |-> s[i + 1]]
<1>1. s \in Seq(S) /\ Len(s) = k
  OBVIOUS
<1>2. /\ Tail(s) \in Seq(S) /\ Len(Tail(s)) = k - 1
      /\ \A i \in 1..k - 1 : Tail(s)[i] = s[i + 1]
  BY <1>1
<1>3. ASSUME NEW r \in Seq(S), Len(r) = k - 1, \A i \in 1..k - 1 : r[i] = s[i + 1]
      PROVE  r = [i \in 1..k - 1 |-> s[i + 1]]
  BY <1>3
<1> QED
  BY <1>2, <1>3

LEMMA InnerType ==
  ASSUME TypeOK
  PROVE  Inner \in [1..n -> Item \cup {Junk}]
<1>1. \A i \in 1..n : (head + i - 1) % N \in 0..N - 1
  BY Roles DEF TypeOK
<1> QED
  BY <1>1 DEF Inner, TypeOK

LEMMA OfferedSame ==
  ASSUME NEW t \in Thread, NEW a, NEW b, StepOf(t, a, b),
         \A u \in Thread : u # t => item'[u] = item[u],
         t \in Producer =>
           \/ /\ a \in {"reserve", "lock", "move", "counted"}
              /\ b \in {"reserve", "lock", "move", "counted"}
              /\ item'[t] = item[t]
           \/ /\ a \notin {"reserve", "lock", "move", "counted"}
              /\ b \notin {"reserve", "lock", "move", "counted"}
  PROVE  Offered' = Offered
  BY Roles DEF StepOf, Offered

LEMMA ReturnedSame ==
  ASSUME NEW t \in Thread, NEW a, NEW b, StepOf(t, a, b),
         \A u \in Thread : u # t => item'[u] = item[u],
         t \in Consumer =>
           \/ /\ a \in {"unlock", "announce"} /\ b \in {"unlock", "announce"}
              /\ item'[t] = item[t]
           \/ a \notin {"unlock", "announce"} /\ b \notin {"unlock", "announce"}
  PROVE  Returned' = Returned
  BY Roles DEF StepOf, Returned

LEMMA ChannelStep ==
  ASSUME IInv, NEW t \in Thread, Run(t) \/ Call(t)
  PROVE  \/ AsChannel!Next
         \/ UNCHANGED <<Inner, Offered, Returned>>
<1>1. /\ TypeOK /\ MovedInv /\ N \in Nat /\ N > 0
  BY Roles DEF IInv
<1>2. CASE Reserve(t)
  <2>1. StepOf(t, "reserve", "lock") /\ UNCHANGED <<ring, item>>
    BY <1>2, ReserveIs
  <2> QED
    BY <2>1, OfferedSame, ReturnedSame DEF Inner, ring
<1>3. CASE Lock(t)
  <2>1. StepOf(t, "lock", "move") /\ UNCHANGED <<ring, item>>
    BY <1>3, LockIs
  <2> QED
    BY <2>1, OfferedSame, ReturnedSame DEF Inner, ring
<1>4. CASE Unlock(t)
  <2>1. StepOf(t, "unlock", "announce") /\ UNCHANGED <<ring, item>>
    BY <1>4, UnlockIs
  <2> QED
    BY <2>1, OfferedSame, ReturnedSame DEF Inner, ring
<1>5. CASE Announce(t)
  <2>1. StepOf(t, "announce", "call") /\ UNCHANGED <<ring, item>>
    BY <1>5, AnnounceIs
  <2>2. Inner' = Inner /\ Offered' = Offered
    BY <2>1, OfferedSame DEF Inner, ring
  <2>3. CASE t \in Producer
    BY <2>1, <2>2, <2>3, Roles, ReturnedSame
  <2>4. CASE t \in Consumer
    <3>1. Returned' = [Returned EXCEPT ![t] = <<>>]
      BY <2>1, <2>4, Roles DEF Returned, StepOf
    <3>2. AsChannel!Return(t)
      BY <2>2, <3>1 DEF AsChannel!Return, AsChannel!Nothing, Inner, Offered, Returned
    <3> QED
      BY <2>4, <3>2 DEF AsChannel!Next
  <2> QED
    BY <2>3, <2>4, Roles
<1>6. CASE CallGet(t)
  <2>1. StepOf(t, "call", "reserve") /\ UNCHANGED ring /\ t \in Consumer
        /\ \A u \in Thread : u # t => item'[u] = item[u]
    BY <1>1, <1>6, StepIs DEF CallGet, Label, TypeOK
  <2> QED
    BY <2>1, Roles, OfferedSame, ReturnedSame DEF Inner, ring
<1>7. ASSUME NEW x \in Item, CallPut(t, x)
      PROVE  AsChannel!Next
  <2>1. StepOf(t, "call", "reserve") /\ UNCHANGED ring /\ t \in Producer
        /\ item' = [item EXCEPT ![t] = x]
    BY <1>1, <1>7, StepIs DEF CallPut, Label
  <2>2. \A u \in Thread : u # t => item'[u] = item[u]
    BY <1>1, <2>1 DEF TypeOK
  <2>3. Inner' = Inner /\ Returned' = Returned
    BY <2>1, <2>2, Roles, ReturnedSame DEF Inner, ring
  <2>4. Offered[t] = <<>> /\ Offered' = [Offered EXCEPT ![t] = <<x>>]
    BY <1>1, <2>1, <2>2, Roles DEF Offered, StepOf, TypeOK
  <2>5. AsChannel!CallPut(t, x)
    BY <2>3, <2>4 DEF AsChannel!CallPut, AsChannel!Nothing, Inner, Offered, Returned
  <2> QED
    BY <2>1, <2>5 DEF AsChannel!Next
<1>8. CASE Store(t)
  <2>1. /\ StepOf(t, "move", "counted") /\ t \in Producer
        /\ UNCHANGED <<head, n, item>>
        /\ data' = [data EXCEPT ![(head + n) % N] = item[t]]
    BY <1>1, <1>8, StepIs DEF Store, Label
  <2>2. Offered' = Offered /\ Returned' = Returned
    BY <2>1, Roles, OfferedSame, ReturnedSame
  <2>3. n + 1 <= N
    BY <2>1, RoomToCount DEF StepOf
  <2>4. ASSUME NEW i \in 1..n
        PROVE  data'[(head + i - 1) % N] = data[(head + i - 1) % N]
    <3>1. i - 1 \in 0..N - 1 /\ n \in 0..N - 1 /\ i - 1 # n /\ head \in 0..N - 1
          /\ head + i - 1 = head + (i - 1)
      BY <1>1, <2>3 DEF TypeOK
    <3>2. (head + (i - 1)) % N # (head + n) % N
      BY <1>1, <3>1, PlacesApart
    <3>3. (head + (i - 1)) % N \in 0..N - 1
      BY <1>1, <3>1
    <3> QED
      BY <1>1, <2>1, <3>1, <3>2, <3>3 DEF TypeOK
  <2>5. Inner' = Inner
    BY <2>1, <2>4 DEF Inner
  <2> QED
    BY <2>2, <2>5
<1>9. CASE Fetch(t)
  <2>1. /\ StepOf(t, "move", "counted") /\ t \in Consumer /\ UNCHANGED ring
        /\ \A u \in Thread : u # t => item'[u] = item[u]
    BY <1>1, <1>9, StepIs DEF Fetch, Label, TypeOK
  <2> QED
    BY <2>1, Roles, OfferedSame, ReturnedSame DEF Inner, ring
<1>10. CASE Counted(t)
  <2>1. /\ StepOf(t, "counted", "unlock") /\ data' = data /\ item' = item
        /\ pc[t] = "counted"
    BY <1>1, <1>10, StepIs DEF Counted, Label, Step
  <2>2. CASE t \in Producer
    <3>1. n' = n + 1 /\ head' = head /\ n + 1 <= N
      BY <1>10, <2>1, <2>2, RoomToCount DEF Counted
    <3>2. Returned' = Returned
      BY <2>1, <2>2, Roles, ReturnedSame
    <3>3. /\ Offered[t] = <<item[t]>> /\ Offered[t] # <<>>
          /\ Offered' = [Offered EXCEPT ![t] = <<>>]
      BY <2>1, <2>2, Roles DEF Offered, StepOf
    <3>4. item[t] = data[(head + n) % N]
      BY <1>1, <2>1, <2>2 DEF MovedInv
    <3>5. Inner' = Inner \o <<item[t]>>
      <4>1. /\ Inner' = [i \in 1..n + 1 |-> data[(head + i - 1) % N]]
            /\ n \in Nat /\ head \in Nat
        BY <1>1, <2>1, <3>1 DEF Inner, TypeOK
      <4>2. head + (n + 1) - 1 = head + n
        BY <4>1
      <4>3. Inner \o <<item[t]>> =
              [i \in 1..n + 1 |-> IF i = n + 1 THEN item[t] ELSE Inner[i]]
        BY <1>1, <4>1, InnerType, LongerIs DEF TypeOK
      <4>4. \A i \in 1..n + 1 : i # n + 1 => i \in 1..n
        BY <4>1
      <4>5. \A i \in 1..n + 1 :
              data[(head + i - 1) % N] = IF i = n + 1 THEN item[t] ELSE Inner[i]
        BY <3>4, <4>2, <4>4 DEF Inner
      <4> QED
        BY <4>1, <4>3, <4>5
    <3>6. Len(Inner) < N
      BY <1>1, <3>1 DEF Inner, TypeOK
    <3>7. AsChannel!Put(t)
      BY <3>2, <3>3, <3>5, <3>6 DEF AsChannel!Put, AsChannel!Nothing, Inner, Offered, Returned
    <3> QED
      BY <2>2, <3>7 DEF AsChannel!Next
  <2>3. CASE t \in Consumer
    <3>1. n' = n - 1 /\ head' = (head + 1) % N /\ n >= 1
      BY <1>10, <2>1, <2>3, RoomToCount, Roles DEF Counted
    <3>2. Offered' = Offered
      BY <2>1, <2>3, Roles, OfferedSame
    <3>3. Returned[t] = <<>> /\ Returned' = [Returned EXCEPT ![t] = <<item[t]>>]
      BY <2>1, <2>3, Roles DEF Returned, StepOf
    <3>4. item[t] = data[head]
      BY <1>1, <2>1, <2>3, Roles DEF MovedInv
    <3>5. Inner # <<>> /\ Head(Inner) = item[t]
      <4>1. head % N = head /\ head + 1 - 1 = head /\ n \in Nat /\ 1 \in 1..n
        BY <1>1, <3>1 DEF TypeOK
      <4> QED
        BY <3>4, <4>1 DEF Inner
    <3>6. Inner' = Tail(Inner)
      <4>1. Inner' = [i \in 1..n - 1 |-> data[(((head + 1) % N) + i - 1) % N]]
        BY <2>1, <3>1 DEF Inner
      <4>2. ASSUME NEW i \in 1..n - 1
            PROVE  data[(((head + 1) % N) + i - 1) % N] = data[(head + (i + 1) - 1) % N]
        <5>1. /\ i - 1 \in 0..N - 1 /\ head \in 0..N - 1
              /\ ((head + 1) % N) + i - 1 = ((head + 1) % N) + (i - 1)
              /\ head + (i + 1) - 1 = head + ((i - 1) + 1)
          BY <1>1, <3>1 DEF TypeOK
        <5> QED
          BY <1>1, <5>1, PlaceAfter
      <4>3. Tail(Inner) = [i \in 1..n - 1 |-> data[(head + (i + 1) - 1) % N]]
        <5>1. n \in Nat /\ \A i \in 1..n - 1 : i + 1 \in 1..n
          BY <1>1 DEF TypeOK
        <5>2. Tail(Inner) = [i \in 1..n - 1 |-> Inner[i + 1]]
          BY <1>1, <3>1, <5>1, InnerType, ShorterIs
        <5>3. \A i \in 1..n - 1 : Inner[i + 1] = data[(head + (i + 1) - 1) % N]
          BY <5>1 DEF Inner
        <5> QED
          BY <5>2, <5>3
      <4> QED
        BY <4>1, <4>2, <4>3
    <3>7. AsChannel!Get(t)
      BY <3>2, <3>3, <3>5, <3>6 DEF AsChannel!Get, AsChannel!Nothing, Inner, Offered, Returned
    <3> QED
      BY <2>3, <3>7 DEF AsChannel!Next
  <2> QED
    BY <2>2, <2>3, Roles
<1> QED
  BY <1>2, <1>3, <1>4, <1>5, <1>6, <1>7, <1>8, <1>9, <1>10 DEF Run, Call

\* Items come out in the order they went in, each once, and at most N are inside.
THEOREM DoesWhatChannelsDo == Spec => ImplementsChannel
<1>1. Init => AsChannel!Init
  BY Roles DEF Init, AsChannel!Init, AsChannel!Nothing
<1>2. IInv /\ [Next]_vars => [AsChannel!Next]_AsChannel!vars
  <2> SUFFICES ASSUME IInv, [Next]_vars
               PROVE  AsChannel!Next \/ UNCHANGED AsChannel!vars
    OBVIOUS
  <2>1. CASE Next
    <3>1. AsChannel!Next \/ UNCHANGED <<Inner, Offered, Returned>>
      BY <2>1, ChannelStep DEF Next
    <3> QED
      BY <3>1 DEF AsChannel!vars, Inner, Offered, Returned
  <2>2. CASE UNCHANGED vars
    BY <2>2 DEF vars, ring, AsChannel!vars
  <2> QED
    BY <2>1, <2>2
<1> QED
  BY <1>1, <1>2, InvariantHolds, PTL DEF Spec, ImplementsChannel, AsChannel!Spec

-----------------------------------------------------------------------------
(* The future and the barrier, with semaphores and threads of their own *)

CONSTANTS Guest, Setter, Unset, Value

VARIABLES value, left, rCount, rWaiting, rPc, result

Gate == {"isReady", "sem"}

R == INSTANCE Rendezvous WITH
  Thread <- Guest, Sem <- Gate, count <- rCount, waiting <- rWaiting, pc <- rPc

\* get() returns what was set, never what the future was constructed with.
GetsWhatWasSet == R!GetsWhatWasSet

\* Nobody passes early, neither get() before set() nor the barrier before
\* everybody has come to it.
NobodyPassesEarly == R!NobodyPassesEarly

\* What a meeting is: as many threads as the barrier was constructed for, of which one
\* sets the future.
Meeting == IsFiniteSet(Guest) /\ Setter \in Guest

AtGate(s, t) == \E i \in 1..Len(rWaiting[s]) : rWaiting[s][i] = t

GatesType == rCount \in [Gate -> Nat] /\ rWaiting \in [Gate -> Seq(Guest)]

Before == {"set", "announce", "get", "relay", "read", "arrive"}
Behind == {"wait", "pass", "through"}

\* The setter never gets, the others never set, and nobody panics.
GuestsInv ==
  /\ rPc \in [Guest -> Before \cup Behind]
  /\ \A t \in Guest :
       IF t = Setter THEN rPc[t] \notin {"get", "relay", "read"}
                     ELSE rPc[t] \notin {"set", "announce"}

\* A thread waits at the label behind its down().
GateInv ==
  \A t \in Guest :
    /\ AtGate("isReady", t) => rPc[t] = "relay"
    /\ AtGate("sem", t) => rPc[t] = "pass"

\* Until the value is there nobody has been told so.
FutureInv ==
  \/ value = Value
  \/ /\ value = Unset /\ rPc[Setter] = "set" /\ rCount["isReady"] = 0
     /\ \A t \in Guest \ {Setter} : rPc[t] = "get" \/ AtGate("isReady", t)

ResultInv ==
  /\ result \in [Guest -> {Unset, Value}]
  /\ GetsWhatWasSet

\* The count is the number of those who have still to come, and the chain of up()
\* starts when there are none.
Missing == {t \in Guest : rPc[t] \in Before}
BarrierInv ==
  /\ left = Cardinality(Missing)
  /\ rCount["sem"] > 0 => Missing = {}
  /\ \A t \in Guest : rPc[t] \in {"pass", "through"} => AtGate("sem", t) \/ Missing = {}

MeetingInv == GatesType /\ GuestsInv /\ GateInv /\ FutureInv /\ ResultInv /\ BarrierInv

-----------------------------------------------------------------------------
(* What down and up do *)

LEMMA GateDown ==
  ASSUME GatesType, NEW t \in Guest, NEW s \in Gate, R!Down(t, s)
  PROVE  /\ GatesType'
         /\ rCount[s] = 0 => rCount' = rCount /\ AtGate(s, t)'
         /\ rCount[s] > 0 => \A u : AtGate(s, u)' <=> AtGate(s, u)
         /\ \A r \in Gate : r # s => rCount'[r] = rCount[r]
         /\ \A r \in Gate : \A u : AtGate(r, u) => AtGate(r, u)'
         /\ \A r \in Gate : \A u : AtGate(r, u)' => AtGate(r, u) \/ (r = s /\ u = t)
<1>1. CASE rCount[s] = 0
  <2>1. rWaiting' = [rWaiting EXCEPT ![s] = Append(rWaiting[s], t)] /\ rCount' = rCount
    BY <1>1 DEF R!Down
  <2>2. /\ rWaiting[s] \in Seq(Guest) /\ rWaiting'[s] = Append(rWaiting[s], t)
        /\ rWaiting' \in [Gate -> Seq(Guest)]
        /\ \A r \in Gate : r # s => rWaiting'[r] = rWaiting[r]
    BY <2>1 DEF GatesType
  <2>3. /\ Len(rWaiting[s]) \in Nat /\ Len(rWaiting'[s]) = Len(rWaiting[s]) + 1
        /\ rWaiting'[s][Len(rWaiting[s]) + 1] = t
        /\ \A i \in 1..Len(rWaiting[s]) : rWaiting'[s][i] = rWaiting[s][i]
    BY <2>2
  <2>4. ASSUME NEW r \in Gate, NEW u, AtGate(r, u)
        PROVE  AtGate(r, u)'
    <3>1. PICK i \in 1..Len(rWaiting[r]) : rWaiting[r][i] = u
      BY <2>4 DEF AtGate
    <3>2. i \in 1..Len(rWaiting'[r]) /\ rWaiting'[r][i] = u
      BY <2>2, <2>3, <3>1
    <3> QED
      BY <3>2 DEF AtGate
  <2>5. ASSUME NEW r \in Gate, NEW u, AtGate(r, u)'
        PROVE  AtGate(r, u) \/ (r = s /\ u = t)
    <3>1. PICK i \in 1..Len(rWaiting'[r]) : rWaiting'[r][i] = u
      BY <2>5 DEF AtGate
    <3>2. \/ i \in 1..Len(rWaiting[r]) /\ rWaiting[r][i] = u
          \/ r = s /\ u = t
      BY <2>2, <2>3, <3>1
    <3> QED
      BY <3>2 DEF AtGate
  <2>6. AtGate(s, t)'
    BY <2>3 DEF AtGate
  <2>7. GatesType' /\ \A r \in Gate : r # s => rCount'[r] = rCount[r]
    BY <2>1, <2>2 DEF GatesType
  <2> QED
    BY <1>1, <2>1, <2>4, <2>5, <2>6, <2>7
<1>2. CASE rCount[s] # 0
  <2>1. rCount' = [rCount EXCEPT ![s] = rCount[s] - 1] /\ rWaiting' = rWaiting
    BY <1>2 DEF R!Down
  <2>2. rCount' \in [Gate -> Nat] /\ \A r \in Gate : r # s => rCount'[r] = rCount[r]
    BY <1>2, <2>1 DEF GatesType
  <2>3. \A r, u : AtGate(r, u)' <=> AtGate(r, u)
    BY <2>1 DEF AtGate
  <2> QED
    BY <1>2, <2>1, <2>2, <2>3 DEF GatesType
<1> QED
  BY <1>1, <1>2

LEMMA GateUp ==
  ASSUME GatesType, NEW s \in Gate, R!Up(s)
  PROVE  /\ GatesType'
         /\ \A r \in Gate : r # s => rCount'[r] = rCount[r]
         /\ \A r \in Gate : \A u : AtGate(r, u)' => AtGate(r, u)
         /\ \A r \in Gate : \A u : r # s => (AtGate(r, u)' <=> AtGate(r, u))
<1>1. CASE rWaiting[s] = <<>>
  <2>1. rCount' = [rCount EXCEPT ![s] = rCount[s] + 1] /\ rWaiting' = rWaiting
    BY <1>1 DEF R!Up
  <2>2. rCount' \in [Gate -> Nat] /\ \A r \in Gate : r # s => rCount'[r] = rCount[r]
    BY <2>1 DEF GatesType
  <2>3. \A r, u : AtGate(r, u)' <=> AtGate(r, u)
    BY <2>1 DEF AtGate
  <2> QED
    BY <2>1, <2>2, <2>3 DEF GatesType
<1>2. CASE rWaiting[s] # <<>>
  <2>1. rWaiting' = [rWaiting EXCEPT ![s] = Tail(rWaiting[s])] /\ rCount' = rCount
    BY <1>2 DEF R!Up
  <2>2. /\ rWaiting[s] \in Seq(Guest) /\ rWaiting'[s] = Tail(rWaiting[s])
        /\ rWaiting' \in [Gate -> Seq(Guest)]
        /\ \A r \in Gate : r # s => rWaiting'[r] = rWaiting[r]
    BY <1>2, <2>1 DEF GatesType
  <2>3. /\ Len(rWaiting[s]) \in Nat \ {0} /\ Len(rWaiting'[s]) = Len(rWaiting[s]) - 1
        /\ \A i \in 1..Len(rWaiting'[s]) :
             i + 1 \in 1..Len(rWaiting[s]) /\ rWaiting'[s][i] = rWaiting[s][i + 1]
    BY <1>2, <2>2
  <2>4. ASSUME NEW r \in Gate, NEW u, AtGate(r, u)'
        PROVE  AtGate(r, u)
    <3>1. PICK i \in 1..Len(rWaiting'[r]) : rWaiting'[r][i] = u
      BY <2>4 DEF AtGate
    <3>2. \E j \in 1..Len(rWaiting[r]) : rWaiting[r][j] = u
      BY <2>2, <2>3, <3>1
    <3> QED
      BY <3>2 DEF AtGate
  <2>5. \A r \in Gate : \A u : r # s => (AtGate(r, u)' <=> AtGate(r, u))
    BY <2>2 DEF AtGate
  <2> QED
    BY <2>1, <2>2, <2>4, <2>5 DEF GatesType
<1> QED
  BY <1>1, <1>2

LEMMA GuestBlocked ==
  ASSUME Meeting
  PROVE  \A t : R!Blocked(t) <=> AtGate("isReady", t) \/ AtGate("sem", t)
  BY DEF Meeting, Gate, R!Blocked, AtGate

-----------------------------------------------------------------------------
(* The steps *)

GuestStep(t, a, b) ==
  /\ rPc[t] = a /\ ~AtGate("isReady", t) /\ ~AtGate("sem", t)
  /\ rPc' = [rPc EXCEPT ![t] = b]
  /\ rPc'[t] = b
  /\ \A u \in Guest : u # t => rPc'[u] = rPc[u]

LEMMA GuestSteps ==
  ASSUME Meeting, GuestsInv, NEW t \in Guest, NEW a, NEW b, R!Step(t, a, b)
  PROVE  GuestStep(t, a, b)
  BY GuestBlocked DEF R!Step, GuestStep, GuestsInv

\* A thread that moves before the barrier is still to come.
LEMMA MissingSame ==
  ASSUME NEW t \in Guest, NEW a, NEW b, GuestStep(t, a, b), a \in Before <=> b \in Before
  PROVE  Missing' = Missing
  BY DEF GuestStep, Missing

\* Who has come is counted once.
LEMMA MissingLess ==
  ASSUME Meeting, NEW t \in Guest, NEW a \in Before, NEW b \in Behind, GuestStep(t, a, b)
  PROVE  /\ Missing' = Missing \ {t} /\ t \in Missing
         /\ IsFiniteSet(Missing) /\ Cardinality(Missing) \in Nat
         /\ Cardinality(Missing') = Cardinality(Missing) - 1
         /\ Cardinality(Missing') = 0 <=> Missing' = {}
         /\ Cardinality(Missing) # 0
<1>1. Missing' = Missing \ {t} /\ t \in Missing
  BY DEF GuestStep, Missing, Before, Behind
<1>2. IsFiniteSet(Missing)
  BY FS_Subset DEF Meeting, Gate, Missing
<1>3. Cardinality(Missing) \in Nat /\ Cardinality(Missing) # 0
  BY <1>1, <1>2, FS_EmptySet, FS_CardinalityType
<1>4. Cardinality(Missing') = Cardinality(Missing) - 1 /\ IsFiniteSet(Missing')
  BY <1>1, <1>2, FS_RemoveElement
<1> QED
  BY <1>1, <1>2, <1>3, <1>4, FS_EmptySet

\* Nobody begins to wait.
LEMMA GateKept ==
  ASSUME Meeting, GateInv, NEW t \in Guest, NEW a, NEW b, GuestStep(t, a, b),
         \A r \in Gate : \A u : AtGate(r, u)' => AtGate(r, u)
  PROVE  GateInv'
  BY DEF GateInv, GuestStep, Meeting, Gate

\* A step before the barrier that leaves its semaphore alone.
LEMMA BarrierKept ==
  ASSUME BarrierInv, NEW t \in Guest, NEW a \in Before, NEW b \in Before, GuestStep(t, a, b),
         left' = left, rCount'["sem"] = rCount["sem"],
         \A u : AtGate("sem", u)' <=> AtGate("sem", u)
  PROVE  BarrierInv'
<1>1. Missing' = Missing
  BY MissingSame
<1>2. \A u \in Guest : rPc'[u] \in {"pass", "through"} => rPc[u] \in {"pass", "through"}
  BY DEF GuestStep, Before
<1> QED
  BY <1>1, <1>2 DEF BarrierInv

\* The others know nothing of the value before it is there.
LEMMA FutureKept ==
  ASSUME Meeting, GateInv, FutureInv, NEW t \in Guest, NEW a, NEW b, GuestStep(t, a, b),
         a \notin {"get", "set"}, value' = value,
         rCount'["isReady"] = rCount["isReady"] \/ t = Setter \/ a = "relay",
         \A u : AtGate("isReady", u) => AtGate("isReady", u)' \/ t = Setter \/ a = "relay"
  PROVE  FutureInv'
<1>1. CASE value = Value
  BY <1>1 DEF FutureInv
<1>2. CASE value # Value
  <2>1. t # Setter /\ a # "relay"
    BY <1>2 DEF FutureInv, GuestStep
  <2>2. FALSE
    BY <1>2, <2>1 DEF FutureInv, GuestStep
  <2> QED
    BY <2>2
<1> QED
  BY <1>1, <1>2

LEMMA SetStep ==
  ASSUME Meeting, MeetingInv, NEW t \in Guest, R!Set(t)
  PROVE  MeetingInv'
<1>1. /\ GuestStep(t, "set", "announce") /\ value' = Value /\ t = Setter
      /\ UNCHANGED <<left, rCount, rWaiting, result>>
  BY GuestSteps DEF MeetingInv, R!Set, R!sems, GuestsInv, R!Step
<1>2. \A r, u : AtGate(r, u)' <=> AtGate(r, u)
  BY <1>1 DEF AtGate
<1>3. GatesType' /\ FutureInv' /\ GateInv'
  BY <1>1, <1>2, GateKept DEF MeetingInv, GatesType, FutureInv
<1>4. GuestsInv' /\ ResultInv'
  BY <1>1 DEF MeetingInv, GuestsInv, ResultInv,
     GetsWhatWasSet, R!GetsWhatWasSet, GuestStep, Before
<1>5. BarrierInv'
  BY <1>1, <1>2, BarrierKept DEF MeetingInv, Before
<1> QED
  BY <1>3, <1>4, <1>5 DEF MeetingInv

LEMMA AnnounceStep ==
  ASSUME Meeting, MeetingInv, NEW t \in Guest, R!Announce(t)
  PROVE  MeetingInv'
<1>1. /\ GuestStep(t, "announce", "arrive") /\ R!Up("isReady") /\ t = Setter
      /\ UNCHANGED <<value, left, result>>
  BY GuestSteps DEF MeetingInv, R!Announce, GuestsInv, R!Step
<1>2. /\ GatesType' /\ rCount'["sem"] = rCount["sem"]
      /\ \A r \in Gate : \A u : AtGate(r, u)' => AtGate(r, u)
      /\ \A u : AtGate("sem", u)' <=> AtGate("sem", u)
  BY <1>1, GateUp DEF MeetingInv, Meeting, Gate
<1>3. FutureInv' /\ GateInv'
  BY <1>1, <1>2, GateKept, FutureKept DEF MeetingInv
<1>4. GuestsInv' /\ ResultInv'
  BY <1>1 DEF MeetingInv, GuestsInv, ResultInv,
     GetsWhatWasSet, R!GetsWhatWasSet, GuestStep, Before
<1>5. BarrierInv'
  BY <1>1, <1>2, BarrierKept DEF MeetingInv, Before
<1> QED
  BY <1>2, <1>3, <1>4, <1>5 DEF MeetingInv

LEMMA GetStep ==
  ASSUME Meeting, MeetingInv, NEW t \in Guest, R!Get(t)
  PROVE  MeetingInv'
<1>1. /\ GuestStep(t, "get", "relay") /\ R!Down(t, "isReady") /\ t # Setter
      /\ UNCHANGED <<value, left, result>>
  BY GuestSteps DEF MeetingInv, R!Get, GuestsInv, R!Step
<1>2. /\ GatesType' /\ rCount'["sem"] = rCount["sem"]
      /\ rCount["isReady"] = 0 => rCount' = rCount /\ AtGate("isReady", t)'
      /\ \A u : AtGate("isReady", u) => AtGate("isReady", u)'
      /\ \A u : AtGate("isReady", u)' => AtGate("isReady", u) \/ u = t
      /\ \A u : AtGate("sem", u)' <=> AtGate("sem", u)
  BY <1>1, GateDown DEF MeetingInv, Meeting, Gate
<1>3. GateInv'
  BY <1>1, <1>2 DEF MeetingInv, GateInv, GuestStep
<1>4. FutureInv'
  BY <1>1, <1>2 DEF MeetingInv, FutureInv, GuestStep, Meeting, Gate
<1>5. GuestsInv' /\ ResultInv'
  BY <1>1 DEF MeetingInv, GuestsInv, ResultInv,
     GetsWhatWasSet, R!GetsWhatWasSet, GuestStep, Before
<1>6. BarrierInv'
  BY <1>1, <1>2, BarrierKept DEF MeetingInv, Before
<1> QED
  BY <1>2, <1>3, <1>4, <1>5, <1>6 DEF MeetingInv

LEMMA RelayStep ==
  ASSUME Meeting, MeetingInv, NEW t \in Guest, R!Relay(t)
  PROVE  MeetingInv'
<1>1. /\ GuestStep(t, "relay", "read") /\ R!Up("isReady") /\ t # Setter
      /\ UNCHANGED <<value, left, result>>
  BY GuestSteps DEF MeetingInv, R!Relay, GuestsInv, R!Step
<1>2. /\ GatesType' /\ rCount'["sem"] = rCount["sem"]
      /\ \A r \in Gate : \A u : AtGate(r, u)' => AtGate(r, u)
      /\ \A u : AtGate("sem", u)' <=> AtGate("sem", u)
  BY <1>1, GateUp DEF MeetingInv, Meeting, Gate
<1>3. GateInv'
  BY <1>1, <1>2, GateKept DEF MeetingInv
<1>4. FutureInv'
  BY <1>1 DEF MeetingInv, FutureInv, GuestStep
<1>5. GuestsInv' /\ ResultInv'
  BY <1>1 DEF MeetingInv, GuestsInv, ResultInv,
     GetsWhatWasSet, R!GetsWhatWasSet, GuestStep, Before
<1>6. BarrierInv'
  BY <1>1, <1>2, BarrierKept DEF MeetingInv, Before
<1> QED
  BY <1>2, <1>3, <1>4, <1>5, <1>6 DEF MeetingInv

LEMMA ReadStep ==
  ASSUME Meeting, MeetingInv, NEW t \in Guest, R!Read(t)
  PROVE  MeetingInv'
<1>1. /\ GuestStep(t, "read", "arrive") /\ t # Setter
      /\ UNCHANGED <<value, left, rCount, rWaiting>>
      /\ result' = [result EXCEPT ![t] = value]
  BY GuestSteps DEF MeetingInv, R!Read, GuestsInv, R!Step, R!sems
<1>2. value = Value
  BY <1>1 DEF MeetingInv, FutureInv, GuestStep
<1>3. \A r, u : AtGate(r, u)' <=> AtGate(r, u)
  BY <1>1 DEF AtGate
<1>4. GatesType' /\ FutureInv' /\ GateInv'
  BY <1>1, <1>2, <1>3, GateKept DEF MeetingInv, GatesType, FutureInv
<1>5. GuestsInv' /\ ResultInv'
  BY <1>1, <1>2 DEF MeetingInv, GuestsInv, ResultInv,
     GetsWhatWasSet, R!GetsWhatWasSet, GuestStep, Before
<1>6. BarrierInv'
  BY <1>1, <1>3, BarrierKept DEF MeetingInv, Before
<1> QED
  BY <1>4, <1>5, <1>6 DEF MeetingInv

LEMMA ArriveStep ==
  ASSUME Meeting, MeetingInv, NEW t \in Guest, R!Arrive(t)
  PROVE  MeetingInv'
<1> DEFINE b == IF left = 1 THEN "pass" ELSE "wait"
<1>1. /\ R!Step(t, "arrive", IF left = 0 THEN "panic" ELSE b)
      /\ left' = left - 1 /\ UNCHANGED <<value, rCount, rWaiting, result>>
  BY DEF R!Arrive, R!sems
<1>2. left \in Nat /\ left # 0 /\ left = Cardinality(Missing)
  <2>1. t \in Missing /\ IsFiniteSet(Missing)
    BY <1>1, FS_Subset DEF Meeting, Gate, R!Step, Missing, Before
  <2> QED
    BY <2>1, FS_EmptySet, FS_CardinalityType DEF MeetingInv, BarrierInv
<1>3. GuestStep(t, "arrive", b) /\ b \in Behind
  BY <1>1, <1>2, GuestSteps DEF MeetingInv, Behind
<1>4. \A r, u : AtGate(r, u)' <=> AtGate(r, u)
  BY <1>1 DEF AtGate
<1>5. GatesType' /\ GateInv'
  BY <1>1, <1>3, <1>4, GateKept DEF MeetingInv, GatesType
<1>6. FutureInv'
  BY <1>1, <1>3, <1>4, FutureKept DEF MeetingInv
<1>7. GuestsInv' /\ ResultInv'
  BY <1>1, <1>3 DEF MeetingInv, GuestsInv, ResultInv,
     GetsWhatWasSet, R!GetsWhatWasSet, GuestStep, Before, Behind
<1>8. /\ Missing' \subseteq Missing
      /\ Cardinality(Missing') = Cardinality(Missing) - 1
      /\ Cardinality(Missing') = 0 <=> Missing' = {}
  BY <1>3, MissingLess DEF Before
<1>9. BarrierInv'
  <2>1. left' = Cardinality(Missing') /\ (b = "pass" => Missing' = {})
    BY <1>1, <1>2, <1>8
  <2>2. rCount'["sem"] > 0 => Missing' = {}
    BY <1>1, <1>8 DEF MeetingInv, BarrierInv
  <2>3. \A u \in Guest : rPc'[u] \in {"pass", "through"} => AtGate("sem", u)' \/ Missing' = {}
    BY <1>3, <1>4, <1>8, <2>1 DEF MeetingInv, BarrierInv, GuestStep
  <2> QED
    BY <2>1, <2>2, <2>3 DEF BarrierInv
<1> QED
  BY <1>5, <1>6, <1>7, <1>9 DEF MeetingInv

LEMMA WaitStep ==
  ASSUME Meeting, MeetingInv, NEW t \in Guest, R!Wait(t)
  PROVE  MeetingInv'
<1>1. /\ GuestStep(t, "wait", "pass") /\ R!Down(t, "sem")
      /\ UNCHANGED <<value, left, result>>
  BY GuestSteps DEF MeetingInv, R!Wait
<1>2. /\ GatesType' /\ rCount["sem"] \in Nat
      /\ rCount["sem"] = 0 => rCount'["sem"] = 0 /\ AtGate("sem", t)'
      /\ rCount'["isReady"] = rCount["isReady"]
      /\ \A u : AtGate("sem", u) => AtGate("sem", u)'
      /\ \A u : AtGate("sem", u)' => AtGate("sem", u) \/ u = t
      /\ \A u : AtGate("isReady", u)' <=> AtGate("isReady", u)
  BY <1>1, GateDown DEF MeetingInv, Meeting, Gate, GatesType
<1>3. GateInv'
  BY <1>1, <1>2 DEF MeetingInv, GateInv, GuestStep
<1>4. FutureInv'
  BY <1>1, <1>2, FutureKept DEF MeetingInv
<1>5. GuestsInv' /\ ResultInv'
  BY <1>1 DEF MeetingInv, GuestsInv, ResultInv, GetsWhatWasSet, R!GetsWhatWasSet, GuestStep, Behind
<1>6. BarrierInv'
  <2>1. Missing' = Missing
    BY <1>1, MissingSame DEF Before
  <2>2. rCount'["sem"] > 0 => Missing' = {}
    BY <1>2, <2>1 DEF MeetingInv, BarrierInv
  <2>3. \A u \in Guest : rPc'[u] \in {"pass", "through"} => AtGate("sem", u)' \/ Missing' = {}
    BY <1>1, <1>2, <2>1 DEF MeetingInv, BarrierInv, GuestStep
  <2> QED
    BY <1>1, <2>1, <2>2, <2>3 DEF MeetingInv, BarrierInv
<1> QED
  BY <1>2, <1>3, <1>4, <1>5, <1>6 DEF MeetingInv

LEMMA PassStep ==
  ASSUME Meeting, MeetingInv, NEW t \in Guest, R!Pass(t)
  PROVE  MeetingInv'
<1>1. /\ GuestStep(t, "pass", "through") /\ R!Up("sem")
      /\ UNCHANGED <<value, left, result>>
  BY GuestSteps DEF MeetingInv, R!Pass
<1>2. /\ GatesType' /\ rCount'["isReady"] = rCount["isReady"]
      /\ \A r \in Gate : \A u : AtGate(r, u)' => AtGate(r, u)
      /\ \A u : AtGate("isReady", u)' <=> AtGate("isReady", u)
  BY <1>1, GateUp DEF MeetingInv, Meeting, Gate
<1>3. GateInv'
  BY <1>1, <1>2, GateKept DEF MeetingInv
<1>4. FutureInv'
  BY <1>1, <1>2, FutureKept DEF MeetingInv
<1>5. GuestsInv' /\ ResultInv'
  BY <1>1 DEF MeetingInv, GuestsInv, ResultInv, GetsWhatWasSet, R!GetsWhatWasSet, GuestStep, Behind
<1>6. BarrierInv'
  <2>1. Missing = {} /\ Missing' = Missing
    BY <1>1, MissingSame DEF Before, MeetingInv, BarrierInv, GuestStep
  <2> QED
    BY <1>1, <2>1 DEF MeetingInv, BarrierInv
<1> QED
  BY <1>2, <1>3, <1>4, <1>5, <1>6 DEF MeetingInv

-----------------------------------------------------------------------------
(* The invariant *)

LEMMA MeetingInit ==
  ASSUME Meeting, R!Init
  PROVE  MeetingInv
<1>1. /\ rCount = [s \in Gate |-> 0] /\ rWaiting = [s \in Gate |-> <<>>]
      /\ "sem" \in Gate /\ "isReady" \in Gate /\ Setter \in Guest
      /\ rPc = [t \in Guest |-> IF t = Setter THEN "set" ELSE "get"]
  BY DEF Meeting, Gate, R!Init, R!Constructed
<1>2. GatesType /\ \A s \in Gate : \A u : ~AtGate(s, u)
  BY <1>1 DEF GatesType, AtGate
<1>3. GuestsInv /\ GateInv /\ FutureInv
  BY <1>1, <1>2 DEF R!Init, GuestsInv, Before, GateInv, FutureInv
<1>4. ResultInv
  BY <1>1 DEF R!Init, ResultInv, GetsWhatWasSet, R!GetsWhatWasSet
<1>5. BarrierInv
  <2>1. Missing = Guest
    BY <1>1 DEF Missing, Before
  <2>2. R!Cardinality(Guest) = Cardinality(Guest)
    BY DEF R!Cardinality, Cardinality, R!IsFiniteSet, IsFiniteSet
  <2>3. left = Cardinality(Missing)
    BY <1>1, <2>1, <2>2 DEF R!Init
  <2> QED
    BY <1>1, <2>3 DEF BarrierInv
<1> QED
  BY <1>2, <1>3, <1>4, <1>5 DEF MeetingInv

LEMMA MeetingNext ==
  ASSUME Meeting, MeetingInv, [R!Next]_R!vars
  PROVE  MeetingInv'
<1>1. CASE R!Next
  BY <1>1, SetStep, AnnounceStep, GetStep, RelayStep, ReadStep, ArriveStep, WaitStep, PassStep
     DEF R!Next, R!Run
<1>2. CASE UNCHANGED R!vars
  <2>1. \A s, u : AtGate(s, u)' <=> AtGate(s, u)
    BY <1>2 DEF R!vars, R!sems, AtGate
  <2>2. Missing' = Missing
    BY <1>2 DEF R!vars, Missing
  <2> QED
    BY <1>2, <2>1, <2>2 DEF R!vars, R!sems, MeetingInv, GatesType, GuestsInv, GateInv, FutureInv,
       ResultInv, GetsWhatWasSet, R!GetsWhatWasSet, BarrierInv
<1> QED
  BY <1>1, <1>2

\* However many threads meet and in whatever order they come, ...
THEOREM MeetingHolds ==
  ASSUME Meeting
  PROVE  R!Spec => []MeetingInv
<1> QED
  BY MeetingInit, MeetingNext, PTL DEF R!Spec

\* ... get() returns what was set, never what the future was constructed with, ...
THEOREM FutureKeepsItsWord ==
  ASSUME Meeting
  PROVE  R!Spec => []GetsWhatWasSet
<1>1. MeetingInv => GetsWhatWasSet
  BY DEF MeetingInv, ResultInv
<1> QED
  BY <1>1, MeetingHolds, PTL

\* ... and nobody passes early, neither get() nor the barrier.
THEOREM BarrierHolds ==
  ASSUME Meeting
  PROVE  R!Spec => []NobodyPassesEarly
<1>1. MeetingInv => NobodyPassesEarly
  <2>0. MeetingInv => R!GetsWhatWasSet
    BY DEF MeetingInv, ResultInv, GetsWhatWasSet
  <2> SUFFICES ASSUME MeetingInv, NEW t \in Guest, rPc[t] \in {"pass", "through"}, ~R!Blocked(t),
                      NEW u \in Guest
               PROVE  rPc[u] \in {"wait", "pass", "through"}
    BY <2>0 DEF NobodyPassesEarly, R!NobodyPassesEarly
  <2>1. Missing = {}
    BY GuestBlocked DEF MeetingInv, BarrierInv
  <2> QED
    BY <2>1 DEF MeetingInv, GuestsInv, Missing, Behind
<1> QED
  BY <1>1, MeetingHolds, PTL
=============================================================================
