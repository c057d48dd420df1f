------------------------------- MODULE Heap -------------------------------
(***************************************************************************)
(* The best-fit heap of the last three kernels (heap.cc of p6_file_system, *)
(* the same but for its lock in p4 and p5): an array of ints in which each *)
(* block carries its size at both ends, negative while it is taken, and    *)
(* the available ones are linked.  malloc and free are one step each       *)
(* (module BestFitSteps has every write).                                  *)
(***************************************************************************)
EXTENDS Integers, FiniteSets, FiniteSetsExt

CONSTANTS ArrayLen,   \* ints of the array heapInit is given
          CountDown,  \* how many blocks that fit malloc looks at
          Bytes       \* the sizes users ask for

ASSUME HeapAssumption ==
  /\ ArrayLen \in Nat /\ ArrayLen >= 8
  /\ CountDown \in Nat \ {0}
  /\ Bytes \subseteq Nat

Index == 0..ArrayLen - 1
MaxBlocks == ArrayLen \div 4  \* besides the guard at the start

VARIABLES
  heap,   \* the array and the head of the list of available blocks
  live,   \* history: from what malloc returned to the bytes that were asked for
  failed  \* the ints malloc was just asked for in vain, or 0

vars == <<heap, live, failed>>

-----------------------------------------------------------------------------
(* Blocks, by the index of their first int *)

Abs(x) == IF x < 0 THEN -x ELSE x
Size(h, i) == Abs(h.array[i])
Footer(h, i) == i + Size(h, i) - 1
Left(h, i) == i - Size(h, i - 1)
Right(h, i) == i + Size(h, i)
NextOf(h, i) == h.array[i + 1]
PrevOf(h, i) == h.array[i + 2]
IsAvail(h, i) == h.array[i] > 0
IsTaken(h, i) == h.array[i] < 0

SetNext(h, i, x) == [h EXCEPT !.array[i + 1] = x]
SetPrev(h, i, x) == IF i = 0 THEN h ELSE [h EXCEPT !.array[i + 2] = x]

MakeTaken(h, i, ints) == [h EXCEPT !.array[i] = -ints, !.array[i + ints - 1] = -ints]

\* A block that becomes available goes to the head of the list.
MakeAvail(h, i, ints) ==
  LET sized == [h EXCEPT !.array[i] = ints, !.array[i + ints - 1] = ints]
      linked == SetPrev(SetNext(sized, i, h.avail), i, 0)
  IN  [SetPrev(linked, h.avail, i) EXCEPT !.avail = i]

Remove(h, i) ==
  LET ahead == IF PrevOf(h, i) = 0 THEN [h EXCEPT !.avail = NextOf(h, i)]
                                   ELSE SetNext(h, PrevOf(h, i), NextOf(h, i))
  IN  SetPrev(ahead, NextOf(h, i), PrevOf(h, i))

\* The k-th block of the list, from 0 on; 0 behind its end.
Follow(h, i) == IF i = 0 THEN 0 ELSE NextOf(h, i)
Link(h) ==
  LET link[k \in 0..MaxBlocks] == IF k = 0 THEN h.avail ELSE Follow(h, link[k - 1])
  IN  link

-----------------------------------------------------------------------------
(* heapInit, malloc and free *)

Empty == [array |-> [i \in Index |-> 0], avail |-> 0]

Init ==
  /\ heap = MakeTaken(MakeAvail(MakeTaken(Empty, 0, 2), 2, ArrayLen - 4), ArrayLen - 2, 2)
  /\ live = [p \in {} |-> 0]
  /\ failed = 0

\* The payload rounded up to ints, a header and a footer; room for two links.
IntsFor(bytes) == Max({4, ((bytes + 3) \div 4) + 2})

\* The smallest of the first CountDown blocks of the list that fit, the first
\* of them if they are equal; 0 if no block fits.
BestFit(h, ints) ==
  LET link == Link(h)
      fits == {k \in 0..MaxBlocks : link[k] # 0 /\ Size(h, link[k]) >= ints}
      seen == {k \in fits : Cardinality({j \in fits : j <= k}) <= CountDown}
      best == {k \in seen : \A j \in seen : Size(h, link[k]) <= Size(h, link[j])}
  IN  IF fits = {} THEN 0 ELSE link[Min(best)]

\* Mutant: a block that is handed out whole stays in the list.
TakeListed(h, i, ints) ==
  LET extra == Size(h, i) - ints IN
  IF extra >= 4
    THEN MakeAvail(MakeTaken(Remove(h, i), i, ints), i + ints, extra)
    ELSE MakeTaken(h, i, Size(h, i))

Take(h, i, ints) ==
  LET extra == Size(h, i) - ints IN
  IF extra >= 4
    THEN MakeAvail(MakeTaken(Remove(h, i), i, ints), i + ints, extra)
    ELSE MakeTaken(Remove(h, i), i, Size(h, i))

Malloc(bytes) ==
  LET ints == IntsFor(bytes)
      it == BestFit(heap, ints)
  IN
  /\ bytes > 0
  /\ IF it # 0
       THEN /\ heap' = Take(heap, it, ints)
            /\ live' = [p \in DOMAIN live \cup {it + 1} |->
                          IF p = it + 1 THEN bytes ELSE live[p]]
            /\ failed' = 0
       ELSE failed' = ints /\ UNCHANGED <<heap, live>>

Release(h, i) ==
  LET l == Left(h, i)
      r == Right(h, i)
      mergeLeft == IsAvail(h, l)
      mergeRight == IsAvail(h, r)
      h1 == IF mergeLeft THEN Remove(h, l) ELSE h
      h2 == IF mergeRight THEN Remove(h1, r) ELSE h1
  IN  MakeAvail(h2, IF mergeLeft THEN l ELSE i,
                Size(h, i) + (IF mergeLeft THEN Size(h, l) ELSE 0)
                           + (IF mergeRight THEN Size(h, r) ELSE 0))

\* A user frees what malloc gave it, once; a block that is not taken panics.
Free(p) ==
  /\ IsTaken(heap, p - 1)
  /\ heap' = Release(heap, p - 1)
  /\ live' = [q \in DOMAIN live \ {p} |-> live[q]]
  /\ failed' = 0

Next == (\E bytes \in Bytes : Malloc(bytes)) \/ \E p \in DOMAIN live : Free(p)

Spec == Init /\ [][Next]_vars

-----------------------------------------------------------------------------
(* Properties *)

\* The first ints of the blocks, walking the array from its first to its last.
Blocks ==
  LET step(i) == IF i >= ArrayLen - 2 THEN i ELSE Right(heap, i)
      at[k \in 0..MaxBlocks] == IF k = 0 THEN 0 ELSE step(at[k - 1])
  IN  {at[k] : k \in 0..MaxBlocks}

\* The blocks fill the array from the guard at its start to the guard at its
\* end, each with its size at both ends, and no two available ones touch.  What
\* users hold are the taken ones between the guards, each with room for the
\* bytes that were asked for: nothing leaks and nothing is given twice.
Tiled ==
  /\ ArrayLen - 2 \in Blocks
  /\ {0, ArrayLen - 2} \subseteq {i \in Blocks : heap.array[i] = -2}
  /\ \A i \in Blocks :
       /\ heap.array[i] # 0 /\ heap.array[Footer(heap, i)] = heap.array[i]
       /\ IsAvail(heap, i) => Size(heap, i) >= 4 /\ ~IsAvail(heap, Right(heap, i))
  /\ {p - 1 : p \in DOMAIN live} = {i \in Blocks \ {0, ArrayLen - 2} : IsTaken(heap, i)}
  /\ \A p \in DOMAIN live : 4 * (Size(heap, p - 1) - 2) >= live[p]

\* The list runs through exactly the available blocks, once and both ways.
ListsAvailable ==
  LET link == Link(heap)
      listed == {k \in 0..MaxBlocks : link[k] # 0}
  IN  /\ {link[k] : k \in listed} = {i \in Blocks : IsAvail(heap, i)}
      /\ Cardinality(listed) = Cardinality({link[k] : k \in listed})
      /\ \A k \in listed : PrevOf(heap, link[k]) = IF k = 0 THEN 0 ELSE link[k - 1]

\* malloc and free write nothing into blocks that stay in use.
KeepsPayload ==
  \A p \in DOMAIN live : p \in DOMAIN live' =>
    \A i \in p..Footer(heap, p - 1) - 1 : heap'.array[i] = heap.array[i]

\* The heap as its users see it.
AsAllocator == INSTANCE Allocator WITH
  First <- 2, Last <- ArrayLen - 3, Slack <- 3,
  live <- [b \in {p - 1 : p \in DOMAIN live} |-> Size(heap, b)],
  failed <- failed
=============================================================================
