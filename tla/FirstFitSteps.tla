--------------------------- MODULE FirstFitSteps ---------------------------
(***************************************************************************)
(* malloc and free of p3_heap (heap.cc), a write to memory at a time, by   *)
(* several cores under the spin lock s.  They implement module FirstFit,   *)
(* where each is one step: the lock is taken before the first look at the  *)
(* heap and given back on every way out.                                   *)
(***************************************************************************)
EXTENDS Integers, Sequences

CONSTANTS Core, Words, Bytes

VARIABLES
  heap,          \* the words and the head of the free list
  live, failed,  \* history, as in FirstFit
  taken,         \* the lock s
  pc,            \* per core, where in malloc or free it is
  arg,           \* per core, the bytes or the address it was called with
  block,         \* per core: finder, newHead or cur
  todo,          \* per core, the writes up to the next look at the heap
  before         \* history: the heap when the lock was last given back

F == INSTANCE FirstFit
null == F!null
end == Words + 1      \* behind the heap, what malloc(0) returns
TooMany == 4 * Words + 1  \* more bytes than heapsize

locals == <<pc, arg, block, todo>>
stepVars == <<heap, live, failed, taken, locals, before>>

\* heapInit, on the first core.
Init ==
  /\ F!Init
  /\ taken = FALSE
  /\ pc = [c \in Core |-> "out"]
  /\ arg = [c \in Core |-> 0] /\ block = [c \in Core |-> null]
  /\ todo = [c \in Core |-> <<>>]
  /\ before = heap

-----------------------------------------------------------------------------
(* The block with its header at i, and writes to its fields *)

size(i) == F!size(heap, i)
isfree(i) == F!isfree(heap, i)
next(i) == F!next(heap, i)
prev(i) == F!prev(heap, i)

Write(field, i, v) == [field |-> field, at |-> i, value |-> v]
Written(h, w) ==
  CASE w.field = "size"     -> [h EXCEPT !.word[w.at] = w.value]
    [] w.field = "prev"     -> F!SetPrev(h, w.at, w.value)
    [] w.field = "next"     -> F!SetNext(h, w.at, w.value)
    [] w.field = "freehead" -> [h EXCEPT !.freehead = w.value]

\* The header, then the footer, which the new size leads to.
Sized(i, n) == <<Write("size", i, n), Write("size", i + (IF n < 0 THEN -n ELSE n) + 1, n)>>

\* malloc takes block i off the list; through a null pointer nothing is written.
Taken(i) ==
  LET p == F!prevFree(heap, i)
      n == F!nextFree(heap, i)
  IN  IF p = null THEN <<Write("freehead", 0, n), Write("prev", n, null)>>
      ELSE IF n = null THEN <<Write("next", p, null)>>
      ELSE <<Write("prev", n, p), Write("next", p, n)>>

\* merge does, and looks first at the other end.  (The last two writes are the
\* other way round when the left neighbour swallows the block, which is then at
\* the head of the list: they are not made.)
Swallowed(i) ==
  LET p == F!prevFree(heap, i)
      n == F!nextFree(heap, i)
  IN  IF n = null THEN <<Write("next", p, null)>>
      ELSE IF p = null THEN <<Write("prev", n, null), Write("freehead", 0, n)>>
      ELSE <<Write("prev", n, p), Write("next", p, n)>>

-----------------------------------------------------------------------------
(* Core c in malloc and free *)

At(c, where) == pc[c] = where /\ todo[c] = <<>>
Go(c, where, writes) ==
  /\ pc' = [pc EXCEPT ![c] = where]
  /\ todo' = [todo EXCEPT ![c] = writes]
Look == UNCHANGED <<heap, live, failed, taken, arg, before>>

\* The next write, to where it was decided that it goes.
Store(c) ==
  /\ todo[c] # <<>>
  /\ heap' = Written(heap, Head(todo[c]))
  /\ todo' = [todo EXCEPT ![c] = Tail(@)]
  /\ UNCHANGED <<live, failed, taken, pc, arg, block, before>>

\* The exchange that finds the lock free; one that does not changes nothing.  What
\* is freed is what malloc returned, or a null pointer, or the end of the heap.
Lock(c, where, x) ==
  /\ At(c, "out") /\ ~taken
  /\ taken' = TRUE
  /\ arg' = [arg EXCEPT ![c] = x]
  /\ Go(c, where, <<>>)
  /\ UNCHANGED <<heap, live, failed, block, before>>
Malloc(c) == \E bytes \in Bytes \cup {0, TooMany} : Lock(c, "malloc", bytes)
Free(c) == \E p \in DOMAIN live \cup {null, end} : Lock(c, "free", p)

wordSize(c) == F!WordSize(arg[c])

\* More than there is, or nothing; or the search begins.
Begin(c) ==
  /\ At(c, "malloc")
  /\ IF arg[c] \in {0, TooMany}
       THEN /\ block' = [block EXCEPT ![c] = null]
            /\ Go(c, IF arg[c] = 0 THEN "nothing" ELSE "failed", <<>>)
       ELSE /\ block' = [block EXCEPT ![c] = heap.freehead]
            /\ Go(c, "find", <<>>)
  /\ Look

Fits(c) == -size(block[c]) >= wordSize(c)

\* The next block of the list, as long as they are too short.
Find(c) ==
  /\ At(c, "find") /\ block[c] # null /\ ~Fits(c)
  /\ block' = [block EXCEPT ![c] = F!nextFree(heap, @)]
  /\ UNCHANGED <<pc, todo>> /\ Look
NotFound(c) ==
  /\ At(c, "find") /\ block[c] = null
  /\ Go(c, "failed", <<>>)
  /\ UNCHANGED block /\ Look

\* The block is handed out whole, or its right end is.
Found(c) ==
  LET i == block[c]
      rest == -size(i) - wordSize(c) - 2
  IN
  /\ At(c, "find") /\ i # null /\ Fits(c)
  /\ IF rest + 2 <= 4
       THEN Go(c, "found", Sized(i, -size(i)) \o Taken(i)) /\ UNCHANGED block
       ELSE /\ Go(c, "found", Sized(i, -rest) \o Sized(i + rest + 2, wordSize(c)))
            /\ block' = [block EXCEPT ![c] = i + rest + 2]
  /\ Look

\* free: nothing to do, or the block goes to the head of the list.
FreeNothing(c) ==
  /\ At(c, "free")
  /\ arg[c] \notin {null, end} => size(arg[c]) <= 0
  /\ Go(c, "nothing", <<>>)
  /\ UNCHANGED block /\ Look
FreeBlock(c) ==
  LET i == arg[c] IN
  /\ At(c, "free") /\ i \notin {null, end} /\ size(i) > 0
  /\ Go(c, "merge right",
        Sized(i, -size(i))
        \o <<Write("next", i, heap.freehead), Write("prev", i, null),
             Write("prev", heap.freehead, i), Write("freehead", 0, i)>>)
  /\ block' = [block EXCEPT ![c] = i]
  /\ Look

\* merge: the right neighbour goes into the block, and the block into the left one.
Merge(c, from, to, neighbour, into, gone) ==
  /\ At(c, from)
  /\ Go(c, to, IF neighbour # null /\ isfree(neighbour)
                 THEN Sized(into, size(into) + size(gone) - 2) \o Swallowed(gone)
                 ELSE <<>>)
  /\ UNCHANGED block /\ Look
MergeRight(c) ==
  LET r == next(block[c]) IN Merge(c, "merge right", "merge left", r, block[c], r)
MergeLeft(c) ==
  LET l == prev(block[c]) IN Merge(c, "merge left", "freed", l, l, block[c])

\* The lock is given back; what the call did is seen now.
Unlock(c) ==
  /\ pc[c] \in {"found", "failed", "freed", "nothing"} /\ todo[c] = <<>>
  /\ taken' = FALSE /\ before' = heap
  /\ live' = CASE pc[c] = "found" -> [p \in DOMAIN live \cup {block[c]} |->
                                        IF p = block[c] THEN arg[c] ELSE live[p]]
               [] pc[c] = "freed" -> [p \in DOMAIN live \ {arg[c]} |-> live[p]]
               [] OTHER           -> live
  /\ failed' = CASE pc[c] = "failed"  -> wordSize(c) + 2
                 [] pc[c] = "nothing" -> failed
                 [] OTHER             -> 0
  /\ Go(c, "out", <<>>)
  /\ arg' = [arg EXCEPT ![c] = 0] /\ block' = [block EXCEPT ![c] = null]
  /\ UNCHANGED heap

Step(c) ==
  \/ Store(c) \/ Malloc(c) \/ Free(c) \/ Begin(c) \/ Find(c) \/ NotFound(c) \/ Found(c)
  \/ FreeNothing(c) \/ FreeBlock(c) \/ MergeRight(c) \/ MergeLeft(c) \/ Unlock(c)

Next == \E c \in Core : Step(c)
Spec == Init /\ [][Next]_stepVars

-----------------------------------------------------------------------------
(* What the calls amount to *)

\* The heap as whoever takes the lock next will have found it: however the
\* cores interleave, its steps are to be those of whole calls.
Whole == INSTANCE FirstFit WITH heap <- before, Bytes <- Bytes \cup {TooMany}
=============================================================================
