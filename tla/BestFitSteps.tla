--------------------------- MODULE BestFitSteps ---------------------------
(***************************************************************************)
(* malloc and free of the last three kernels (heap.cc of p5, the same but  *)
(* for its lock in p4 and p6), a write to memory at a time, by several     *)
(* callers at once: threads on any core, preempted wherever they may be.   *)
(* They implement module Heap, where each call is one step: heapLock is    *)
(* held from the first look at the array to the last write.                *)
(***************************************************************************)
EXTENDS Integers, Sequences

CONSTANTS Caller, ArrayLen, CountDown, Bytes

VARIABLES
  heap,          \* the array and the head of the list of available blocks
  live, failed,  \* history, as in Heap
  taken,         \* heapLock
  pc,            \* per caller, where in malloc or free it is
  arg,           \* per caller, the bytes or the address it called with
  local,         \* per caller: p, it, mx and countDown; in free it and mx are idx and sz
  todo,          \* per caller, the writes up to the next look at the array
  before         \* history: the heap when the lock was last given back

H == INSTANCE Heap

stepVars == <<heap, live, failed, taken, pc, arg, local, todo, before>>

Huge == ArrayLen + 1  \* more than any block has
Fresh == [p |-> 0, it |-> 0, mx |-> Huge, countDown |-> CountDown]

Init ==
  /\ H!Init
  /\ taken = FALSE
  /\ pc = [c \in Caller |-> "out"] /\ arg = [c \in Caller |-> 0]
  /\ local = [c \in Caller |-> Fresh]
  /\ todo = [c \in Caller |-> <<>>]
  /\ before = heap

-----------------------------------------------------------------------------
(* The block at i, and writes to the array or to avail *)

size(i) == H!Size(heap, i)
left(i) == H!Left(heap, i)
right(i) == H!Right(heap, i)
next(i) == H!NextOf(heap, i)
prev(i) == H!PrevOf(heap, i)
isAvail(i) == H!IsAvail(heap, i)
isTaken(i) == H!IsTaken(heap, i)

Write(i, v) == [to |-> "array", at |-> i, value |-> v]
WriteAvail(v) == [to |-> "avail", at |-> 0, value |-> v]
Written(h, w) == IF w.to = "avail" THEN [h EXCEPT !.avail = w.value]
                                   ELSE [h EXCEPT !.array[w.at] = w.value]

setNext(i, x) == Write(i + 1, x)
setPrev(i, x) == Write(i + 2, x)
Ends(i, v) == <<Write(i, v), Write(i + H!Abs(v) - 1, v)>>

remove(i) ==
  LET p == prev(i)
      n == next(i)
  IN  <<IF p = 0 THEN WriteAvail(n) ELSE setNext(p, n)>>
      \o IF n = 0 THEN <<>> ELSE <<setPrev(n, p)>>

makeTaken(i, ints) == Ends(i, -ints)

makeAvail(i, ints) ==
  Ends(i, ints) \o <<setNext(i, heap.avail), setPrev(i, 0)>>
  \o (IF heap.avail = 0 THEN <<>> ELSE <<setPrev(heap.avail, i)>>)
  \o <<WriteAvail(i)>>

-----------------------------------------------------------------------------
(* Caller c in malloc and free *)

At(c, where) == pc[c] = where /\ todo[c] = <<>>
Go(c, where, writes) ==
  /\ pc' = [pc EXCEPT ![c] = where]
  /\ todo' = [todo EXCEPT ![c] = writes]
Look == UNCHANGED <<heap, live, failed, taken, arg, before>>

\* The next write, to where it was decided that it goes.
Store(c) ==
  /\ todo[c] # <<>>
  /\ heap' = Written(heap, Head(todo[c]))
  /\ todo' = [todo EXCEPT ![c] = Tail(@)]
  /\ UNCHANGED <<live, failed, taken, pc, arg, local, before>>

\* Mutant: what the exchange returns is not looked at.
LockUnseen(c, where, x) ==
  /\ At(c, "out")
  /\ taken' = TRUE
  /\ arg' = [arg EXCEPT ![c] = x]
  /\ Go(c, where, <<>>)
  /\ UNCHANGED <<heap, live, failed, local, before>>

\* The exchange that finds the lock free.  A call with nothing to do, malloc(0),
\* free(0) or free of the start of the array, has returned before.
Lock(c, where, x) ==
  /\ At(c, "out") /\ ~taken
  /\ taken' = TRUE
  /\ arg' = [arg EXCEPT ![c] = x]
  /\ Go(c, where, <<>>)
  /\ UNCHANGED <<heap, live, failed, local, before>>
malloc(c) == \E bytes \in Bytes \ {0} : Lock(c, "malloc", bytes)
free(c) == \E p \in DOMAIN live : Lock(c, "free", p)

Search(c) ==
  /\ At(c, "malloc")
  /\ local' = [local EXCEPT ![c].p = heap.avail]
  /\ Go(c, "find", <<>>) /\ Look

Over(c) == local[c].p = 0 \/ local[c].countDown = 0
ints(c) == H!IntsFor(arg[c])

\* One more block of the list; one that is not available panics.
Find(c) ==
  LET l == local[c]
      sz == size(l.p)
      fits == sz >= ints(c)
      better == fits /\ sz < l.mx
  IN
  /\ At(c, "find") /\ ~Over(c)
  /\ isAvail(l.p)
  /\ local' = [local EXCEPT ![c] =
       [p |-> IF fits /\ l.countDown = 1 THEN l.p ELSE next(l.p),
        it |-> IF better THEN l.p ELSE l.it, mx |-> IF better THEN sz ELSE l.mx,
        countDown |-> l.countDown - IF fits THEN 1 ELSE 0]]
  /\ UNCHANGED <<pc, todo>> /\ Look

Found(c) ==
  /\ At(c, "find") /\ Over(c) /\ local[c].it # 0
  /\ Go(c, "cut", remove(local[c].it))
  /\ UNCHANGED local /\ Look
NotFound(c) ==
  /\ At(c, "find") /\ Over(c) /\ local[c].it = 0
  /\ Go(c, "failed", <<>>)
  /\ UNCHANGED local /\ Look

\* What is left over becomes available if it is a block.
Cut(c) ==
  LET it == local[c].it
      extra == local[c].mx - ints(c)
  IN
  /\ At(c, "cut")
  /\ Go(c, "found",
        IF extra >= 4 THEN makeTaken(it, ints(c)) \o makeAvail(it + ints(c), extra)
                      ELSE makeTaken(it, local[c].mx))
  /\ UNCHANGED local /\ Look

\* free: a block that is not taken panics.
Measure(c) ==
  LET idx == arg[c] - 1 IN
  /\ At(c, "free") /\ isTaken(idx)
  /\ local' = [local EXCEPT ![c].it = idx, ![c].mx = size(idx)]
  /\ Go(c, "merge left", <<>>) /\ Look

\* An available neighbour leaves the list and its ints are added.
Merge(c, from, to, neighbour, idx) ==
  /\ At(c, from)
  /\ IF isAvail(neighbour)
       THEN /\ local' = [local EXCEPT ![c].it = idx, ![c].mx = @ + size(neighbour)]
            /\ Go(c, to, remove(neighbour))
       ELSE UNCHANGED local /\ Go(c, to, <<>>)
  /\ Look
MergeLeft(c) ==
  LET l == left(arg[c] - 1) IN Merge(c, "merge left", "merge right", l, l)
MergeRight(c) ==
  Merge(c, "merge right", "merged", right(arg[c] - 1), local[c].it)
Merged(c) ==
  /\ At(c, "merged")
  /\ Go(c, "freed", makeAvail(local[c].it, local[c].mx))
  /\ UNCHANGED local /\ Look

\* The lock is given back; what the call did is seen now.
Unlock(c) ==
  LET p == local[c].it + 1 IN
  /\ pc[c] \in {"found", "failed", "freed"} /\ todo[c] = <<>>
  /\ taken' = FALSE /\ before' = heap
  /\ live' = CASE pc[c] = "found"  -> [q \in DOMAIN live \cup {p} |->
                                         IF q = p THEN arg[c] ELSE live[q]]
               [] pc[c] = "freed"  -> [q \in DOMAIN live \ {arg[c]} |-> live[q]]
               [] pc[c] = "failed" -> live
  /\ failed' = IF pc[c] = "failed" THEN ints(c) ELSE 0
  /\ Go(c, "out", <<>>)
  /\ arg' = [arg EXCEPT ![c] = 0] /\ local' = [local EXCEPT ![c] = Fresh]
  /\ UNCHANGED heap

Step(c) ==
  \/ Store(c) \/ malloc(c) \/ free(c) \/ Search(c) \/ Find(c) \/ Found(c) \/ NotFound(c)
  \/ Cut(c) \/ Measure(c) \/ MergeLeft(c) \/ MergeRight(c) \/ Merged(c) \/ Unlock(c)

Next == \E c \in Caller : Step(c)
Spec == Init /\ [][Next]_stepVars

-----------------------------------------------------------------------------
(* What the calls amount to *)

\* The heap as whoever takes the lock next will have found it: however the
\* callers interleave, its steps are to be those of whole calls.
Whole == INSTANCE Heap WITH heap <- before
=============================================================================
