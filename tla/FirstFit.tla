----------------------------- MODULE FirstFit -----------------------------
(***************************************************************************)
(* The first-fit heap of p2_heap and p3_heap (heap.cc): the words between  *)
(* heapstart and its end, cut into blocks that carry the size of their     *)
(* payload at both ends, negative while they are free.  The free ones are  *)
(* linked.  malloc and free are one step each (module FirstFitSteps has    *)
(* every write).  A null pointer is word 0: the code writes through it     *)
(* when the last free block goes and when one comes back, into low memory  *)
(* that nothing reads.                                                     *)
(***************************************************************************)
EXTENDS Integers, FiniteSets, FiniteSetsExt

CONSTANTS Words,  \* the words of the heap, 1 to Words
          Bytes   \* the sizes users ask for

VARIABLES
  heap,   \* the words and the head of the free list
  live,   \* history: from the header of what malloc returned to its bytes
  failed  \* the words of the block malloc was just asked for in vain, or 0

vars == <<heap, live, failed>>

null == 0

-----------------------------------------------------------------------------
(* struct Header, Footer and freeHeader, by the index of the first word *)

size(h, i) == h.word[i]
isfree(h, i) == size(h, i) < 0
payload(h, i) == IF isfree(h, i) THEN -size(h, i) ELSE size(h, i)
findFooter(h, i) == i + payload(h, i) + 1
prevFree(h, i) == h.word[i + 1]
nextFree(h, i) == h.word[i + 2]

\* The block to the right, null behind the last.
next(h, i) ==
  LET n == i + payload(h, i) + 2
  IN  IF size(h, i) = 0 \/ n > Words THEN null ELSE n

\* The block to the left, null before the first: the word before the heap,
\* which prev() reads there, is taken not to lead into the heap.
prev(h, i) ==
  IF i = 1 \/ h.word[i - 1] = 0 THEN null
  ELSE LET p == i - payload(h, i - 1) - 2
       IN  IF p < 1 THEN null ELSE p

\* Header and footer of block i.
SetSize(h, i, n) ==
  [h EXCEPT !.word[i] = n, !.word[i + (IF n < 0 THEN -n ELSE n) + 1] = n]

SetPrev(h, i, p) == IF i = null THEN h ELSE [h EXCEPT !.word[i + 1] = p]
SetNext(h, i, n) == IF i = null THEN h ELSE [h EXCEPT !.word[i + 2] = n]

\* Mutant: the block behind keeps its link to the one that leaves.
UnlinkOneWay(h, i) ==
  IF prevFree(h, i) = null THEN [h EXCEPT !.freehead = nextFree(h, i)]
                           ELSE SetNext(h, prevFree(h, i), nextFree(h, i))

\* Taking block i out of the free list, at its head, its end or between.
Unlink(h, i) ==
  LET ahead == IF prevFree(h, i) = null
                 THEN [h EXCEPT !.freehead = nextFree(h, i)]
                 ELSE SetNext(h, prevFree(h, i), nextFree(h, i))
  IN  SetPrev(ahead, nextFree(h, i), prevFree(h, i))

\* The free list from its head on; null behind its end.
Follow(h, i) == IF i = null THEN null ELSE nextFree(h, i)
Listed(h) ==
  LET at[k \in 0..Words \div 4] == IF k = 0 THEN h.freehead ELSE Follow(h, at[k - 1])
  IN  at

-----------------------------------------------------------------------------
(* heapInit, malloc, free and merge *)

Init ==
  /\ heap = SetSize([word |-> [i \in 1..Words |-> 0], freehead |-> 1], 1, -(Words - 2))
  /\ live = [p \in {} |-> 0]
  /\ failed = 0

\* The payload in words, with room for two links.
WordSize(bytes) == Max({2, (bytes + 3) \div 4})

\* The first free block that is long enough, null if there is none.
Finder(h, words) ==
  LET at == Listed(h)
      fits == {k \in DOMAIN at : at[k] # null /\ payload(h, at[k]) >= words}
  IN  IF fits = {} THEN null ELSE at[Min(fits)]

\* The block is handed out whole, or its right end is cut off for the user and
\* the rest stays where it is in the list.
HandOut(h, i, words) ==
  LET rest == payload(h, i) - words - 2 IN
  IF payload(h, i) - words <= 4
    THEN [heap |-> SetSize(Unlink(h, i), i, payload(h, i)), at |-> i]
    ELSE [heap |-> SetSize(SetSize(h, i, -rest), i + rest + 2, words), at |-> i + rest + 2]

\* A request for nothing returns the end of the heap and changes nothing; so
\* does free of it.
malloc(bytes) ==
  LET words == WordSize(bytes)
      finder == Finder(heap, words)
      done == HandOut(heap, finder, words)
  IN
  /\ bytes > 0
  /\ IF bytes <= 4 * Words /\ finder # null
       THEN /\ heap' = done.heap
            /\ live' = [p \in DOMAIN live \cup {done.at} |->
                          IF p = done.at THEN bytes ELSE live[p]]
            /\ failed' = 0
       ELSE failed' = words + 2 /\ UNCHANGED <<heap, live>>

\* The freed block swallows a free right neighbour.
MergeRight(h, i) ==
  LET r == next(h, i) IN
  IF r # null /\ isfree(h, r)
    THEN SetSize(Unlink(h, r), i, size(h, i) + size(h, r) - 2)
    ELSE h

\* A free left neighbour swallows the freed block.
MergeLeft(h, i) ==
  LET l == prev(h, i) IN
  IF l # null /\ isfree(h, l)
    THEN SetSize(Unlink(h, i), l, size(h, l) + size(h, i) - 2)
    ELSE h

\* Mutant: the left neighbour is left alone.
mergeRightOnly(h, i) == MergeRight(h, i)

merge(h, i) == MergeLeft(MergeRight(h, i), i)

\* The block goes to the head of the list and is merged.  A user frees what it
\* got, once; free looks at the sign of the size and returns otherwise.
free(i) ==
  LET freed == SetSize(heap, i, -size(heap, i))
      linked == SetPrev(SetNext(SetPrev(freed, i, null), i, heap.freehead), heap.freehead, i)
  IN
  /\ size(heap, i) > 0
  /\ heap' = merge([linked EXCEPT !.freehead = i], i)
  /\ live' = [p \in DOMAIN live \ {i} |-> live[p]]
  /\ failed' = 0

Next == (\E bytes \in Bytes : malloc(bytes)) \/ \E i \in DOMAIN live : free(i)

Spec == Init /\ [][Next]_vars

-----------------------------------------------------------------------------
(* Properties *)

\* Walking from the first word by the sizes.
Blocks ==
  LET step(i) == IF i = null THEN null ELSE next(heap, i)
      at[k \in 0..Words \div 4] == IF k = 0 THEN 1 ELSE step(at[k - 1])
  IN  {at[k] : k \in DOMAIN at} \ {null}

\* The walk ends with the last footer of the heap.
goFromLeftToRight == \E i \in Blocks : findFooter(heap, i) = Words

\* What the free list leads to has the size of a free block.
checkfreenodes ==
  LET at == Listed(heap)
  IN  \A k \in DOMAIN at : at[k] # null => size(heap, at[k]) \in -4 * Words..0

\* What the code checks of the walk holds, sizes agree at both ends, and no two
\* free blocks touch.  What users hold are the other blocks, each with room for
\* the bytes that were asked for.
Tiled ==
  /\ goFromLeftToRight
  /\ \A i \in Blocks :
       /\ payload(heap, i) >= 2 /\ heap.word[findFooter(heap, i)] = size(heap, i)
       /\ ~(isfree(heap, i) /\ \E j \in Blocks : j = next(heap, i) /\ isfree(heap, j))
  /\ DOMAIN live = {i \in Blocks : ~isfree(heap, i)}
  /\ \A i \in DOMAIN live : 4 * payload(heap, i) >= live[i]

\* The free list runs through exactly the free blocks, once, and back: also
\* when it has been empty, and the code has written through a null pointer.
ListsFree ==
  LET at == Listed(heap)
      used == {k \in DOMAIN at : at[k] # null}
  IN  /\ checkfreenodes
      /\ {at[k] : k \in used} = {i \in Blocks : isfree(heap, i)}
      /\ Cardinality(used) = Cardinality({at[k] : k \in used})
      /\ \A k \in used : prevFree(heap, at[k]) = IF k = 0 THEN null ELSE at[k - 1]

\* malloc and free write nothing into blocks that stay in use.
KeepsPayload ==
  \A i \in DOMAIN live : i \in DOMAIN live' =>
    \A w \in i + 1..findFooter(heap, i) - 1 : heap'.word[w] = heap.word[w]

\* The heap as its users see it: disjoint blocks, and malloc fails only if no
\* gap would do.
AsAllocator == INSTANCE Allocator WITH
  First <- 1, Last <- Words, Slack <- 4,
  live <- [i \in DOMAIN live |-> payload(heap, i) + 2],
  failed <- failed
=============================================================================
