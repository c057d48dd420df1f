----------------------------- MODULE HeapProofs -----------------------------
(***************************************************************************)
(* Proofs about both heaps.                                                *)
(***************************************************************************)
EXTENDS MCHeaps, FiniteSetTheorems, TLAPS

-----------------------------------------------------------------------------
(* Induction, over a set *)

LEMMA Induction ==
  ASSUME NEW T, 0 \in T, \A n \in Nat : n \in T => n + 1 \in T
  PROVE  \A n \in Nat : n \in T
<1> SUFFICES ASSUME NEW n \in Nat, n \notin T PROVE FALSE
  OBVIOUS
<1> DEFINE A == {x \in 0..n : x \in T}
           f == [x \in A |-> x + 1]
<1>1. IsFiniteSet(A) /\ IsFiniteSet(A \ {0})
  <2>1. IsFiniteSet(0..n)
    BY FS_Interval
  <2> QED
    BY <2>1, FS_Subset
<1>2. Cardinality(A \ {0}) < Cardinality(A)
  <2>1. 0 \in A
    OBVIOUS
  <2>2. Cardinality(A \ {0}) = Cardinality(A) - 1
    BY <1>1, <2>1, FS_RemoveElement
  <2>3. Cardinality(A) \in Nat
    BY <1>1, FS_CardinalityType
  <2> QED
    BY <2>2, <2>3
<1>3. f \in [A -> A \ {0}]
  OBVIOUS
<1>4. \E x, y \in A : x # y /\ f[x] = f[y]
  <2> HIDE DEF A, f
  <2> QED
    BY <1>1, <1>2, <1>3, FS_PigeonHole
<1> QED
  BY <1>4

LEMMA Least ==
  ASSUME NEW T \in SUBSET Nat, T # {}
  PROVE  \E x \in T : \A y \in T : x <= y
<1> SUFFICES ASSUME \A x \in T : \E y \in T : y < x PROVE FALSE
  OBVIOUS
<1> DEFINE U == {n \in Nat : \A m \in T : m > n}
<1>1. 0 \in U
  <2>1. 0 \notin T
    OBVIOUS
  <2> QED
    BY <2>1
<1>2. \A n \in Nat : n \in U => n + 1 \in U
  <2> SUFFICES ASSUME NEW n \in Nat, n \in U PROVE n + 1 \in U
    OBVIOUS
  <2>1. n + 1 \notin T
    OBVIOUS
  <2> QED
    BY <2>1
<1>3. \A n \in Nat : n \in U
  <2> HIDE DEF U
  <2> QED
    BY <1>1, <1>2, Induction
<1>4. PICK x \in T : TRUE
  OBVIOUS
<1>5. x \in U /\ x \in Nat
  BY <1>3
<1>6. \A m \in T : m > x
  BY <1>5
<1>7. x > x
  BY <1>6
<1> QED
  BY <1>5, <1>7

\* Among integers with a bound there is a greatest one.
LEMMA Greatest ==
  ASSUME NEW T \in SUBSET Int, NEW b \in Int, T # {}, \A x \in T : x <= b
  PROVE  \E x \in T : \A y \in T : y <= x
<1> DEFINE D == {b - x : x \in T}
<1>1. D \in SUBSET Nat /\ D # {}
  <2>1. D \subseteq Nat
    <3> SUFFICES ASSUME NEW x \in T PROVE b - x \in Nat
      OBVIOUS
    <3> QED
      BY x \in Int /\ x <= b
  <2>2. PICK x \in T : TRUE
    OBVIOUS
  <2>3. b - x \in D
    BY <2>2
  <2> QED
    BY <2>1, <2>3
<1>2. PICK d \in D : \A e \in D : d <= e
  <2> HIDE DEF D
  <2> QED
    BY <1>1, Least
<1>3. PICK x \in T : d = b - x
  BY <1>2
<1>4. \A y \in T : d <= b - y
  BY <1>2
<1>5. \A y \in T : y <= x
  <2> TAKE y \in T
  <2>1. x \in Int /\ y \in Int /\ b - x <= b - y
    BY <1>3, <1>4
  <2> QED
    BY <2>1
<1> QED
  BY <1>5

\* A function that is defined by its value before exists.
Walks(M, S, a, g) == {f \in [0..M -> S] : f[0] = a /\ \A k \in 1..M : f[k] = g[f[k - 1]]}

LEMMA Recursion ==
  ASSUME NEW M \in Nat, NEW S, NEW a \in S, NEW g \in [S -> S]
  PROVE  Walks(M, S, a, g) # {}
<1> DEFINE Good(n) == \E f \in [0..n -> S] : f[0] = a /\ \A k \in 1..n : f[k] = g[f[k - 1]]
           T == {n \in Nat : Good(n)}
<1>1. 0 \in T
  <2> DEFINE e == [k \in 0..0 |-> a]
  <2>1. e \in [0..0 -> S] /\ e[0] = a /\ \A k \in 1..0 : e[k] = g[e[k - 1]]
    OBVIOUS
  <2> HIDE DEF e
  <2>2. Good(0)
    BY <2>1
  <2> QED
    BY <2>2
<1>2. \A n \in Nat : n \in T => n + 1 \in T
  <2> SUFFICES ASSUME NEW n \in Nat, Good(n) PROVE Good(n + 1)
    <3> HIDE DEF Good
    <3> QED
      OBVIOUS
  <2>1. PICK f \in [0..n -> S] : f[0] = a /\ \A k \in 1..n : f[k] = g[f[k - 1]]
    OBVIOUS
  <2> DEFINE e == [k \in 0..n + 1 |-> IF k <= n THEN f[k] ELSE g[f[n]]]
  <2>2. e \in [0..n + 1 -> S] /\ e[0] = a
    BY <2>1
  <2>3. \A k \in 1..n + 1 : e[k] = g[e[k - 1]]
    <3> TAKE k \in 1..n + 1
    <3>1. CASE k <= n
      BY <3>1, <2>1
    <3>2. CASE k = n + 1
      BY <3>2
    <3> QED
      BY <3>1, <3>2
  <2> HIDE DEF e
  <2> QED
    BY <2>2, <2>3
<1>3. M \in T
  <2> HIDE DEF T
  <2> QED
    BY <1>1, <1>2, Induction
<1> QED
  BY <1>3 DEF Walks

-----------------------------------------------------------------------------
(* The best-fit heap: what a heap is *)

End == ArrayLen - 2

HeapType(h) == h \in [array : [Index -> Int], avail : Int]

\* B are the first ints of its blocks: from the guard at the start each leads to the
\* next one, up to the guard at the end, and has its size at both ends.
Tagged(h, B) ==
  /\ B \subseteq 0..End /\ 0 \in B /\ End \in B
  /\ h.array[0] = -2 /\ h.array[End] = -2
  /\ \A i \in B :
       /\ h.array[i] # 0 /\ h.array[Footer(h, i)] = h.array[i]
       /\ i # 0 /\ i # End => Size(h, i) >= 4
       /\ i # End => Right(h, i) \in B
       /\ \A j \in B : j <= i \/ j >= Right(h, i)

Available(h, B) == {i \in B : IsAvail(h, i)}
Joined(h, B) == \A i \in B : IsAvail(h, i) => ~IsAvail(h, Right(h, i))

\* The list runs both ways through A, and never in a circle: rank grows along it.
Linked(h, A, rank) ==
  /\ rank \in [A -> Nat]
  /\ h.avail \in A \cup {0}
  /\ h.avail # 0 => PrevOf(h, h.avail) = 0
  /\ \A a \in A :
       /\ NextOf(h, a) \in A \cup {0} /\ PrevOf(h, a) \in A \cup {0}
       /\ NextOf(h, a) # 0 => PrevOf(h, NextOf(h, a)) = a /\ rank[a] < rank[NextOf(h, a)]
       /\ PrevOf(h, a) = 0 => h.avail = a
       /\ PrevOf(h, a) # 0 => NextOf(h, PrevOf(h, a)) = a

\* Links of different blocks are apart, and inside the array.
Apart(A) ==
  /\ A \subseteq 2..ArrayLen - 4
  /\ \A a, b \in A : a = b \/ a + 4 <= b \/ b + 4 <= a

-----------------------------------------------------------------------------
(* The words that an operation changes *)

LEMMA Sizes == ArrayLen \in Nat /\ ArrayLen >= 8 /\ End \in Nat /\ (\A w : w \in Index <=> w \in Nat /\ w < ArrayLen)
BY HeapAssumption DEF End, Index

\* The last int of a block of n ints that starts at i.
LastOf(i, n) == i + n - 1

\* A block may start at i: it is 0, or its links are in the array.
Linkable(i) == i = 0 \/ i + 2 \in Index

LEMMA MakeTakenIs ==
  ASSUME NEW h, HeapType(h), NEW i \in Index, NEW n \in Int, NEW f \in Index, f = LastOf(i, n),
         NEW s, s = MakeTaken(h, i, n)
  PROVE  /\ HeapType(s) /\ s.avail = h.avail
         /\ \A w \in Index : s.array[w] = IF w = i \/ w = f THEN -n ELSE h.array[w]
<1>1. -n \in Int
  OBVIOUS
<1> QED
  BY <1>1 DEF HeapType, MakeTaken, LastOf

\* What a call MakeAvail(i, n) may rely on: f is the block's last int, g the first one of the list.
MadeAvail(h, i, n, f, g, s) ==
  /\ HeapType(h) /\ i \in Index /\ n \in Int /\ n >= 4 /\ f \in Index /\ f = LastOf(i, n)
  /\ g \in Int /\ g = h.avail /\ Linkable(g)
  /\ s = MakeAvail(h, i, n)

\* MakeAvail writes the tags, both links and the way back of the former first one.
LEMMA MakeAvailIs ==
  ASSUME NEW h, NEW i, NEW n, NEW f, NEW g, NEW s, MadeAvail(h, i, n, f, g, s)
  PROVE  /\ HeapType(s) /\ s.avail = i
         /\ \A w \in Index : s.array[w] =
                  IF g # 0 /\ w = g + 2 THEN i
                  ELSE IF i # 0 /\ w = i + 2 THEN 0
                  ELSE IF w = i + 1 THEN g
                  ELSE IF w = i \/ w = f THEN n ELSE h.array[w]
<1>0. /\ HeapType(h) /\ i \in Index /\ n \in Int /\ n >= 4 /\ f \in Index /\ f = LastOf(i, n)
      /\ g \in Int /\ g = h.avail /\ Linkable(g)
      /\ s = MakeAvail(h, i, n)
  BY DEF MadeAvail
<1>1. i + 1 \in Index /\ i + 2 \in Index /\ i \in Int /\ 0 \in Int /\ (g = 0 \/ g + 2 \in Index)
  BY <1>0, Sizes DEF LastOf, Linkable
<1>2. PICK sized : sized = [h EXCEPT !.array[i] = n, !.array[f] = n]
  OBVIOUS
<1>3. /\ HeapType(sized) /\ sized.avail = g
      /\ \A w \in Index : sized.array[w] = IF w = i \/ w = f THEN n ELSE h.array[w]
  BY <1>0, <1>1, <1>2 DEF HeapType
<1>4. PICK t : t = SetNext(sized, i, g)
  OBVIOUS
<1>5. /\ HeapType(t) /\ t.avail = sized.avail
      /\ \A w \in Index : t.array[w] = IF w = i + 1 THEN g ELSE sized.array[w]
  BY <1>0, <1>1, <1>3, <1>4 DEF SetNext, HeapType
<1>6. PICK linked : linked = SetPrev(t, i, 0)
  OBVIOUS
<1>7. /\ HeapType(linked) /\ linked.avail = t.avail
      /\ \A w \in Index : linked.array[w] = IF i # 0 /\ w = i + 2 THEN 0 ELSE t.array[w]
  BY <1>1, <1>5, <1>6 DEF SetPrev, HeapType
<1>8. PICK u : u = SetPrev(linked, g, i)
  OBVIOUS
<1>9. /\ HeapType(u) /\ u.avail = linked.avail
      /\ \A w \in Index : u.array[w] = IF g # 0 /\ w = g + 2 THEN i ELSE linked.array[w]
  BY <1>0, <1>1, <1>7, <1>8 DEF SetPrev, HeapType
<1>10. s = [u EXCEPT !.avail = i]
  BY <1>0, <1>2, <1>4, <1>6, <1>8 DEF MakeAvail, LastOf
<1>11. HeapType(s) /\ s.avail = i /\ s.array = u.array
  BY <1>1, <1>9, <1>10 DEF HeapType
<1> QED
  BY <1>3, <1>5, <1>7, <1>9, <1>11

\* Remove bridges the gap from both sides.
LEMMA RemoveIs ==
  ASSUME NEW h, HeapType(h), NEW i \in Int,
         NEW p \in Int, p = PrevOf(h, i), p = 0 \/ p + 1 \in Index,
         NEW n \in Int, n = NextOf(h, i), n = 0 \/ n + 2 \in Index,
         NEW s, s = Remove(h, i)
  PROVE  /\ HeapType(s) /\ s.avail = IF p = 0 THEN n ELSE h.avail
         /\ \A w \in Index : s.array[w] = IF n # 0 /\ w = n + 2 THEN p
                                              ELSE IF p # 0 /\ w = p + 1 THEN n ELSE h.array[w]
<1>1. PICK ahead : ahead = IF p = 0 THEN [h EXCEPT !.avail = n] ELSE SetNext(h, p, n)
  OBVIOUS
<1>2. /\ HeapType(ahead) /\ ahead.avail = IF p = 0 THEN n ELSE h.avail
      /\ \A w \in Index : ahead.array[w] = IF p # 0 /\ w = p + 1 THEN n ELSE h.array[w]
  <2>1. CASE p = 0
    BY <1>1, <2>1 DEF HeapType
  <2>2. CASE p # 0
    BY <1>1, <2>2 DEF SetNext, HeapType
  <2> QED
    BY <2>1, <2>2
<1>3. s = SetPrev(ahead, n, p)
  BY <1>1 DEF Remove
<1>4. /\ HeapType(s) /\ s.avail = ahead.avail
      /\ \A w \in Index : s.array[w] = IF n # 0 /\ w = n + 2 THEN p ELSE ahead.array[w]
  BY <1>2, <1>3 DEF SetPrev, HeapType
<1> QED
  BY <1>2, <1>4

-----------------------------------------------------------------------------
(* Where blocks are *)

LEMMA Places ==
  ASSUME NEW h, NEW B, Tagged(h, B)
  PROVE  B \subseteq Int /\ B \subseteq 0..End /\ 0 \in B /\ End \in B /\ h.array[0] = -2 /\ h.array[End] = -2
BY Sizes DEF Tagged

LEMMA BlockFacts ==
  ASSUME NEW h, HeapType(h), NEW B, Tagged(h, B), NEW i \in Int, i \in B
  PROVE  /\ i \in 0..End /\ Size(h, i) \in Nat /\ Size(h, i) >= 2
         /\ Footer(h, i) \in Index /\ Right(h, i) \in Nat
         /\ i = 0 \/ i = End => Size(h, i) = 2 /\ ~IsAvail(h, i) /\ IsTaken(h, i)
         /\ i # 0 => i >= 2
         /\ i # 0 /\ i # End => Size(h, i) >= 4 /\ Right(h, i) <= End
         /\ i # End => Right(h, i) \in B
         /\ IsAvail(h, i) <=> ~IsTaken(h, i)
         /\ Size(h, i) = IF IsAvail(h, i) THEN h.array[i] ELSE -h.array[i]
         /\ h.array[i] \in Int
<1>1. i \in 0..End /\ i \in Index /\ h.array[i] \in Int /\ h.array[i] # 0
  BY Sizes DEF Tagged, HeapType, End
<1>2. Size(h, i) \in Nat /\ Size(h, i) = IF IsAvail(h, i) THEN h.array[i] ELSE -h.array[i]
  BY <1>1 DEF Size, Abs, IsAvail
<1>3. i = 0 \/ i = End => Size(h, i) = 2 /\ ~IsAvail(h, i) /\ IsTaken(h, i)
  BY DEF Tagged, Size, Abs, IsAvail, IsTaken
<1>4. i # 0 /\ i # End => Size(h, i) >= 4
  BY DEF Tagged
<1>5. i # End => Right(h, i) \in B /\ Right(h, i) \in 0..End
  BY DEF Tagged
<1>6. Right(h, i) \in Nat /\ Right(h, i) = i + Size(h, i) /\ Footer(h, i) = i + Size(h, i) - 1
  BY <1>1, <1>2 DEF Right, Footer
<1>7. i # 0 => i >= 2
  <2>1. 0 \in B /\ Right(h, 0) = 2
    <3>1. h.array[0] = -2 /\ 0 \in B
      BY Places
    <3>2. \A j \in Int : j = 0 => Size(h, j) = 2
      BY <3>1 DEF Size, Abs
    <3> QED
      BY <3>1, <3>2 DEF Right
  <2>2. i <= 0 \/ i >= Right(h, 0)
    BY <2>1 DEF Tagged
  <2> QED
    BY <1>1, <2>1, <2>2
<1>8. Footer(h, i) \in Index
  BY <1>1, <1>2, <1>3, <1>4, <1>5, <1>6, Sizes DEF End
<1>9. IsAvail(h, i) <=> ~IsTaken(h, i)
  BY <1>1 DEF IsAvail, IsTaken
<1> QED
  BY <1>1, <1>2, <1>3, <1>4, <1>5, <1>6, <1>7, <1>8, <1>9

\* Every word is in a block.
LEMMA Covered ==
  ASSUME NEW h, HeapType(h), NEW B, Tagged(h, B), NEW w \in Int, w \in Index
  PROVE  \E i \in B : i <= w /\ w <= Footer(h, i)
<1> DEFINE T == {i \in B : i <= w}
<1>1. T \in SUBSET Int /\ 0 \in T /\ (\A i \in T : i <= w)
  BY Sizes, Places
<1>2. PICK i \in T : \A j \in T : j <= i
  <2> HIDE DEF T
  <2> QED
    BY <1>1, Greatest
<1>3. i \in B /\ i <= w /\ i \in Int
  BY <1>1, <1>2
<1>4. CASE i = End
  BY <1>3, <1>4, Sizes DEF Footer, Tagged, Size, Abs, End
<1>5. CASE i # End
  <2>1. Right(h, i) \in B /\ Right(h, i) = Footer(h, i) + 1 /\ Size(h, i) \in Nat /\ Size(h, i) >= 2
    BY <1>3, <1>5, BlockFacts DEF Right, Footer
  <2>2. Right(h, i) > i
    BY <1>3, <2>1 DEF Right
  <2>3. Right(h, i) \notin T
    BY <1>2, <1>3, <2>1, <2>2 DEF Right
  <2>4. Right(h, i) > w
    BY <2>1, <2>3, <1>3 DEF Right
  <2> QED
    BY <1>3, <2>1, <2>4 DEF Right, Footer
<1> QED
  BY <1>4, <1>5

\* The word before a block is the size of its neighbour.
LEMMA LeftNeighbour ==
  ASSUME NEW h, HeapType(h), NEW B, Tagged(h, B), NEW i \in Int, i \in B, i # 0
  PROVE  /\ Left(h, i) \in B /\ Left(h, i) \in Nat /\ Left(h, i) < i
         /\ Right(h, Left(h, i)) = i /\ Left(h, i) # End
<1>1. i - 1 \in Int /\ i - 1 \in Index /\ i <= End
  BY BlockFacts, Sizes DEF End
<1>2. PICK l \in B : l <= i - 1 /\ i - 1 <= Footer(h, l)
  BY <1>1, Covered
<1>3. l \in Int /\ l \in 0..End /\ Size(h, l) \in Nat /\ Size(h, l) >= 2
  <2>1. l \in Int
    BY DEF Tagged
  <2> QED
    BY <2>1, BlockFacts
<1>4. l # End
  BY <1>1, <1>2, <1>3
<1>5. i <= l \/ i >= Right(h, l)
  BY DEF Tagged
<1>6. Right(h, l) = i /\ Footer(h, l) = i - 1
  BY <1>2, <1>3, <1>5 DEF Right, Footer
<1>7. h.array[i - 1] = h.array[l]
  BY <1>6 DEF Tagged
<1>8. Left(h, i) = l
  BY <1>3, <1>6, <1>7 DEF Left, Size, Right
<1> QED
  BY <1>2, <1>3, <1>4, <1>6, <1>8

\* Blocks do not overlap.
LEMMA Disjoint ==
  ASSUME NEW h, HeapType(h), NEW B, Tagged(h, B), NEW i \in Int, i \in B, NEW j \in Int, j \in B, i < j
  PROVE  Right(h, i) <= j
BY BlockFacts DEF Tagged

LEMMA AvailableApart ==
  ASSUME NEW h, HeapType(h), NEW B, Tagged(h, B)
  PROVE  /\ Apart(Available(h, B))
         /\ \A a \in Available(h, B) : a \in B /\ a \in Int /\ a >= 2 /\ a # End /\ Footer(h, a) < End
<1>1. \A a \in Available(h, B) : /\ a \in B /\ a \in Int /\ a >= 2 /\ a # End /\ a # 0 /\ Size(h, a) >= 4
                                 /\ Size(h, a) \in Nat /\ Right(h, a) <= End
  <2> TAKE a \in Available(h, B)
  <2>1. a \in B /\ a \in Int /\ IsAvail(h, a)
    BY Places DEF Available
  <2> QED
    BY <2>1, BlockFacts
<1>2. \A a, b \in Available(h, B) : a = b \/ a + 4 <= b \/ b + 4 <= a
  <2> SUFFICES ASSUME NEW a \in Available(h, B), NEW b \in Available(h, B), a < b PROVE a + 4 <= b
    BY <1>1
  <2>1. Right(h, a) <= b
    BY <1>1, Disjoint
  <2> QED
    BY <1>1, <2>1 DEF Right
<1>3. \A a \in Available(h, B) : a \in 2..ArrayLen - 4 /\ Footer(h, a) < End
  BY <1>1, Sizes DEF Right, Footer, End
<1> QED
  BY <1>1, <1>2, <1>3 DEF Apart

\* The walk over the sizes comes to every block: those but the guard at the start are
\* not shorter than 4, so it has enough steps.
LEMMA BlocksAre ==
  ASSUME HeapType(heap), NEW B, Tagged(heap, B)
  PROVE  Blocks = B
<1> DEFINE step(i) == IF i >= ArrayLen - 2 THEN i ELSE Right(heap, i)
           g == [i \in B |-> step(i)]
           Walk(at) == at = [k \in 0..MaxBlocks |-> IF k = 0 THEN 0 ELSE step(at[k - 1])]
           at == CHOOSE f : Walk(f)
<1>1. MaxBlocks \in Nat /\ 4 * MaxBlocks + 3 >= ArrayLen
  BY Sizes DEF MaxBlocks
<1>2. \A i \in B : i \in Int /\ i <= End /\ i >= 0
  BY Places, Sizes
<1>3. 0 \in B /\ g \in [B -> B]
  <2>1. \A i \in B : step(i) \in B
    BY <1>2, BlockFacts DEF End
  <2> QED
    BY <2>1 DEF Tagged
<1>4. Walk(at)
  <2>1. PICK f \in [0..MaxBlocks -> B] : f[0] = 0 /\ \A k \in 1..MaxBlocks : f[k] = g[f[k - 1]]
    <3> HIDE DEF g, at, Walk
    <3>1. Walks(MaxBlocks, B, 0, g) # {}
      BY <1>1, <1>3, Recursion
    <3> QED
      BY <3>1 DEF Walks
  <2>2. \A k \in 0..MaxBlocks : k # 0 => f[k - 1] \in B
    <3> TAKE k \in 0..MaxBlocks
    <3>1. k # 0 => k - 1 \in 0..MaxBlocks
      BY <1>1
    <3> HIDE DEF at, Walk, g
    <3> QED
      BY <3>1
  <2>3. \A k \in 0..MaxBlocks : f[k] = IF k = 0 THEN 0 ELSE step(f[k - 1])
    <3> TAKE k \in 0..MaxBlocks
    <3>1. k # 0 => k \in 1..MaxBlocks
      BY <1>1
    <3> HIDE DEF at, Walk
    <3> QED
      BY <3>1, <2>1, <2>2
  <2>4. Walk(f)
    BY <2>1, <2>3
  <2> HIDE DEF Walk
  <2> QED
    BY <2>4
<1>5. at[0] = 0 /\ \A k \in 1..MaxBlocks : at[k] = step(at[k - 1])
  <2> HIDE DEF at
  <2> QED
    BY <1>1, <1>4
<1>6. Blocks = {at[k] : k \in 0..MaxBlocks}
  BY DEF Blocks
<1> HIDE DEF at, Walk, g
\* The first k steps lead to blocks and pass none.
<1> DEFINE Passed(k) == /\ at[k] \in B
                        /\ at[k] = End \/ at[k] >= 4 * k - 2
                        /\ \A i \in B : i <= at[k] => \E j \in 0..k : at[j] = i
           T == {k \in Nat : k <= MaxBlocks => Passed(k)}
<1>7. 0 \in T
  BY <1>2, <1>3, <1>5
<1>8. \A k \in Nat : k \in T => k + 1 \in T
  <2> SUFFICES ASSUME NEW k \in Nat, k + 1 <= MaxBlocks, Passed(k) PROVE Passed(k + 1)
    BY <1>1
  <2>1. at[k + 1] = step(at[k]) /\ at[k] \in B /\ at[k] \in Int
    BY <1>1, <1>2, <1>5
  <2>2. PICK i \in Int : i = at[k]
    BY <2>1
  <2>3. CASE i = End
    BY <2>1, <2>2, <2>3 DEF End
  <2>4. CASE i # End
    <3>1. /\ i < End /\ at[k + 1] = Right(heap, i) /\ Right(heap, i) \in B
          /\ i # 0 => Size(heap, i) >= 4
          /\ i = 0 => Size(heap, i) = 2
          /\ Size(heap, i) \in Nat
      <4>1. i \in B /\ i <= End /\ ~(i >= ArrayLen - 2)
        BY <1>2, <2>1, <2>2, <2>4, Sizes DEF End
      <4>2. at[k + 1] = Right(heap, i)
        BY <2>1, <2>2, <4>1
      <4>3. /\ Right(heap, i) \in B /\ Size(heap, i) \in Nat
            /\ i # 0 => Size(heap, i) >= 4
            /\ i = 0 => Size(heap, i) = 2
        BY <2>4, <4>1, BlockFacts
      <4> QED
        BY <1>2, <2>4, <4>1, <4>2, <4>3, Sizes
    <3>2. Right(heap, i) >= 4 * (k + 1) - 2
      <4>1. CASE i = 0
        BY <3>1, <4>1, <2>2, <2>4 DEF Right
      <4>2. CASE i # 0
        BY <3>1, <4>2, <2>2, <2>4 DEF Right
      <4> QED
        BY <4>1, <4>2
    <3>3. \A j \in B : j <= Right(heap, i) => \E m \in 0..k + 1 : at[m] = j
      <4> SUFFICES ASSUME NEW j \in B, j <= Right(heap, i) PROVE \E m \in 0..k + 1 : at[m] = j
        OBVIOUS
      <4>1. j <= i \/ j >= Right(heap, i)
        BY <2>1, <2>2 DEF Tagged
      <4>2. CASE j <= i
        BY <2>2, <4>2
      <4>3. CASE j >= Right(heap, i)
        <5>1. j = Right(heap, i)
          BY <4>3, <1>2, <3>1
        <5> QED
          BY <5>1, <3>1
      <4> QED
        BY <4>1, <4>2, <4>3
    <3> QED
      BY <3>1, <3>2, <3>3
  <2> QED
    BY <2>2, <2>3, <2>4
<1>9. \A k \in 0..MaxBlocks : Passed(k)
  <2>1. \A k \in Nat : k \in T
    <3> HIDE DEF T
    <3> QED
      BY <1>7, <1>8, Induction
  <2> QED
    BY <2>1
<1>10. at[MaxBlocks] = End
  <2>1. PICK i \in Int : i = at[MaxBlocks] /\ i \in B /\ (i = End \/ i >= 4 * MaxBlocks - 2)
    BY <1>1, <1>2, <1>9
  <2>2. ASSUME i # End PROVE FALSE
    <3>1. i # 0 => Size(heap, i) >= 4 /\ Right(heap, i) <= End /\ Size(heap, i) \in Nat
      BY <2>1, <2>2, BlockFacts
    <3>2. CASE i = 0
      BY <1>1, <2>1, <2>2, <3>2, Sizes
    <3>3. CASE i # 0
      BY <1>1, <2>1, <2>2, <3>1, <3>3, Sizes DEF Right, End
    <3> QED
      BY <3>2, <3>3
  <2> QED
    BY <2>1, <2>2
<1>11. \A i \in B : i \in Blocks
  BY <1>1, <1>2, <1>6, <1>9, <1>10
<1>12. \A i \in Blocks : i \in B
  BY <1>6, <1>9
<1> QED
  BY <1>11, <1>12

-----------------------------------------------------------------------------
(* The list of available blocks *)

LEMMA ApartFacts ==
  ASSUME NEW A, Apart(A)
  PROVE  /\ 0 \notin A
         /\ \A a \in A : a \in Int /\ a >= 2 /\ a \in Index /\ a + 1 \in Index /\ a + 2 \in Index /\ a + 3 \in Index
         /\ \A a, b \in A : a # b => /\ a + 1 # b + 1 /\ a + 1 # b + 2 /\ a + 2 # b + 1 /\ a + 2 # b + 2
                                     /\ a # b + 1 /\ a # b + 2
BY Sizes DEF Apart

\* A word that is no link of the blocks in A.
NoLink(A, w) == \A a \in A : w # a + 1 /\ w # a + 2

\* The rank when a block leaves, and when one comes in front.
Less(A, i, rank) == [a \in A \ {i} |-> rank[a]]
Pushed(A, i, rank) == [a \in A \cup {i} |-> IF a = i THEN 0 ELSE rank[a] + 1]

\* All words but links of the blocks in A are the same.
Untouched(h, A, s) == \A w \in Index : NoLink(A, w) => s.array[w] = h.array[w]

\* Words that MakeAvail writes, with those of A in the list.
Written(h, A, i, f, n, s) ==
  /\ s.array[i] = n /\ s.array[f] = n
  /\ \A w \in Index : w # i /\ w # f /\ NoLink(A \cup {i}, w) => s.array[w] = h.array[w]

\* A write elsewhere does not matter to it.
LEMMA LinksStay ==
  ASSUME NEW h, NEW A, NEW rank, Linked(h, A, rank),
         NEW s, s.avail = h.avail,
         \A a \in A : s.array[a + 1] = h.array[a + 1] /\ s.array[a + 2] = h.array[a + 2]
  PROVE  Linked(s, A, rank)
<1>1. \A a \in A : NextOf(s, a) = NextOf(h, a) /\ PrevOf(s, a) = PrevOf(h, a)
  BY DEF NextOf, PrevOf
<1> QED
  BY <1>1 DEF Linked

\* Remove takes one block out of it, and writes but links of the others.
LEMMA Unlinked ==
  ASSUME NEW h, HeapType(h), NEW A, Apart(A), NEW rank, Linked(h, A, rank),
         NEW i \in Int, i \in A, NEW s, s = Remove(h, i)
  PROVE  /\ HeapType(s) /\ Linked(s, A \ {i}, Less(A, i, rank))
         /\ Untouched(h, A \ {i}, s)
<1> USE DEF NextOf, PrevOf, NoLink, Untouched
<1>1. PICK p \in Int : p = PrevOf(h, i) /\ (p = 0 \/ p \in A)
  BY ApartFacts DEF Linked
<1>2. PICK n \in Int : n = NextOf(h, i) /\ (n = 0 \/ n \in A)
  BY ApartFacts DEF Linked
<1>3. (p # 0 => p + 1 \in Index) /\ (n # 0 => n + 2 \in Index)
  BY <1>1, <1>2, ApartFacts
<1>4. /\ HeapType(s) /\ s.avail = IF p = 0 THEN n ELSE h.avail
      /\ \A w \in Index : s.array[w] = IF n # 0 /\ w = n + 2 THEN p
                                       ELSE IF p # 0 /\ w = p + 1 THEN n ELSE h.array[w]
  BY <1>1, <1>2, <1>3, RemoveIs
<1>5. /\ n # 0 => h.array[n + 2] = i /\ rank[i] < rank[n]
      /\ p # 0 => h.array[p + 1] = i /\ rank[p] < rank[i]
      /\ p = 0 => h.avail = i
      /\ p # 0 => h.avail # i
      /\ h.avail \in A \cup {0} /\ (h.avail # 0 => h.array[h.avail + 2] = 0)
      /\ rank \in [A -> Nat]
  BY <1>1, <1>2, ApartFacts DEF Linked
<1>6. n # i /\ p # i /\ (n = p => n = 0)
  BY <1>1, <1>2, <1>5, ApartFacts
<1>7. \A a \in A \ {i} :
        /\ s.array[a + 1] = IF a = p THEN n ELSE h.array[a + 1]
        /\ s.array[a + 2] = IF a = n THEN p ELSE h.array[a + 2]
  <2> TAKE a \in A \ {i}
  <2>1. a \in Int /\ a # 0 /\ a + 1 \in Index /\ a + 2 \in Index
    BY ApartFacts
  <2>2. (n # 0 => a + 1 # n + 2 /\ (a # n => a + 2 # n + 2)) /\ (p # 0 => a + 2 # p + 1 /\ (a # p => a + 1 # p + 1))
    BY <1>1, <1>2, <2>1, ApartFacts
  <2> QED
    BY <1>4, <2>1, <2>2
<1>8. \A a \in A \ {i} :
        /\ NextOf(h, a) \in A \cup {0} /\ PrevOf(h, a) \in A \cup {0}
        /\ NextOf(h, a) # 0 => PrevOf(h, NextOf(h, a)) = a /\ rank[a] < rank[NextOf(h, a)]
        /\ PrevOf(h, a) = 0 => h.avail = a
        /\ PrevOf(h, a) # 0 => NextOf(h, PrevOf(h, a)) = a
        /\ NextOf(h, a) = i => a = p
        /\ PrevOf(h, a) = i => a = n
        /\ a \in Int /\ a # 0
  BY <1>1, <1>2, ApartFacts DEF Linked
<1>9. \A a \in A \ {i} :
        /\ NextOf(s, a) \in (A \ {i}) \cup {0} /\ PrevOf(s, a) \in (A \ {i}) \cup {0}
        /\ NextOf(s, a) # 0 => PrevOf(s, NextOf(s, a)) = a /\ rank[a] < rank[NextOf(s, a)]
        /\ PrevOf(s, a) = 0 => s.avail = a
        /\ PrevOf(s, a) # 0 => NextOf(s, PrevOf(s, a)) = a
  <2> TAKE a \in A \ {i}
  <2>1. NextOf(s, a) = IF a = p THEN n ELSE NextOf(h, a)
    BY <1>7
  <2>2. PrevOf(s, a) = IF a = n THEN p ELSE PrevOf(h, a)
    BY <1>7
  <2>3. NextOf(s, a) \in (A \ {i}) \cup {0} /\ PrevOf(s, a) \in (A \ {i}) \cup {0}
    BY <1>1, <1>2, <1>6, <1>8, <2>1, <2>2
  <2>4. NextOf(s, a) # 0 => PrevOf(s, NextOf(s, a)) = a /\ rank[a] < rank[NextOf(s, a)]
    <3>1. CASE a = p
      <4>1. rank[p] \in Nat /\ rank[i] \in Nat /\ (n # 0 => rank[n] \in Nat)
        BY <1>1, <1>2, <1>5, <3>1
      <4> QED
        BY <1>2, <1>5, <1>6, <1>7, <1>8, <2>1, <3>1, <4>1
    <3>2. CASE a # p
      <4>1. NextOf(s, a) = NextOf(h, a)
        BY <2>1, <3>2
      <4>2. NextOf(h, a) = n => n = 0
        BY <1>5, <1>8, <3>2
      <4>3. CASE NextOf(h, a) # 0
        <5>1. PICK b \in A \ {i} : b = NextOf(h, a)
          BY <2>3, <4>1, <4>3
        <5>2. b # n /\ PrevOf(h, b) = a /\ rank[a] < rank[b]
          BY <1>8, <4>2, <4>3, <5>1
        <5>3. PrevOf(s, b) = PrevOf(h, b)
          BY <1>7, <5>2
        <5> QED
          BY <4>1, <5>1, <5>2, <5>3
      <4> QED
        BY <4>1, <4>3
    <3> QED
      BY <3>1, <3>2
  <2>5. PrevOf(s, a) = 0 => s.avail = a
    BY <1>4, <1>5, <1>8, <2>2
  <2>6. PrevOf(s, a) # 0 => NextOf(s, PrevOf(s, a)) = a
    <3>1. CASE a = n
      BY <1>1, <1>6, <1>7, <2>2, <3>1
    <3>2. CASE a # n
      <4>1. PrevOf(s, a) = PrevOf(h, a)
        BY <2>2, <3>2
      <4>2. PrevOf(h, a) = p => p = 0
        BY <1>5, <1>8, <3>2
      <4>3. CASE PrevOf(h, a) # 0
        <5>1. PICK b \in A \ {i} : b = PrevOf(h, a)
          BY <2>3, <4>1, <4>3
        <5>2. b # p /\ NextOf(h, b) = a
          BY <1>8, <4>2, <4>3, <5>1
        <5>3. NextOf(s, b) = NextOf(h, b)
          BY <1>7, <5>2
        <5> QED
          BY <4>1, <5>1, <5>2, <5>3
      <4> QED
        BY <4>1, <4>3
    <3> QED
      BY <3>1, <3>2
  <2> QED
    BY <2>3, <2>4, <2>5, <2>6
<1>10. s.avail \in (A \ {i}) \cup {0} /\ (s.avail # 0 => PrevOf(s, s.avail) = 0)
  <2>1. CASE p = 0
    BY <1>2, <1>4, <1>6, <1>7, <2>1
  <2>2. CASE p # 0
    <3>1. s.avail = h.avail /\ h.avail # i /\ h.avail \in A \cup {0}
      BY <1>4, <1>5, <2>2
    <3>2. h.avail # n \/ n = 0
      <4>1. i # 0 /\ (n # 0 => h.array[n + 2] = i)
        BY <1>5, ApartFacts
      <4> QED
        BY <1>5, <4>1
    <3> QED
      BY <1>5, <1>7, <3>1, <3>2
  <2> QED
    BY <2>1, <2>2
<1>11. [a \in A \ {i} |-> rank[a]] \in [A \ {i} -> Nat]
  BY <1>5
<1>12. Linked(s, A \ {i}, [a \in A \ {i} |-> rank[a]])
  BY <1>9, <1>10, <1>11 DEF Linked
<1>13. ASSUME NEW w \in Index, NoLink(A \ {i}, w) PROVE s.array[w] = h.array[w]
  BY <1>1, <1>2, <1>4, <1>6, <1>13
<1> QED
  BY <1>4, <1>12, <1>13 DEF Less

\* MakeAvail puts one in front, and writes but its tags and links and links of others.
LEMMA LinkedIn ==
  ASSUME NEW h, HeapType(h), NEW A, NEW rank, Linked(h, A, rank),
         NEW i \in Int, i \notin A, Apart(A \cup {i}), NEW n \in Int, n >= 4,
         NEW f \in Int, f = i + n - 1, f \in Index, NoLink(A, f),
         NEW s, s = MakeAvail(h, i, n)
  PROVE  /\ HeapType(s) /\ Linked(s, A \cup {i}, Pushed(A, i, rank))
         /\ Written(h, A, i, f, n, s)
<1> USE DEF NextOf, PrevOf, NoLink
<1> DEFINE new == [a \in A \cup {i} |-> IF a = i THEN 0 ELSE rank[a] + 1]
<1>1. i # 0 /\ i \in Index /\ i + 1 \in Index /\ i + 2 \in Index /\ i >= 2
  BY ApartFacts
<1>2. PICK g \in Int : g = h.avail /\ (g = 0 \/ g \in A)
  BY ApartFacts DEF Linked
<1>3. g # 0 => g + 2 \in Index /\ h.array[g + 2] = 0 /\ g + 2 # i /\ g + 2 # i + 1 /\ g + 2 # i + 2 /\ g + 2 # f
  <2>1. CASE g # 0
    <3>1. g \in A /\ g # i
      BY <1>2, <2>1
    <3>2. g + 2 \in Index /\ g + 2 # i /\ g + 2 # i + 1 /\ g + 2 # i + 2
      BY <3>1, ApartFacts
    <3>3. h.array[g + 2] = 0
      BY <1>2, <2>1 DEF Linked
    <3> QED
      BY <3>1, <3>2, <3>3
  <2> QED
    BY <2>1
<1>4. /\ HeapType(s) /\ s.avail = i
      /\ \A w \in Index : s.array[w] =
           IF g # 0 /\ w = g + 2 THEN i
           ELSE IF i # 0 /\ w = i + 2 THEN 0
           ELSE IF w = i + 1 THEN g
           ELSE IF w = i \/ w = f THEN n ELSE h.array[w]
  <2>1. Linkable(g)
    BY <1>3 DEF Linkable
  <2>2. f = LastOf(i, n)
    BY DEF LastOf
  <2>3. i \in Index /\ g = h.avail
    BY <1>1, <1>2
  <2> QED
    <3>1. MadeAvail(h, i, n, f, g, s)
      BY <2>1, <2>2, <2>3 DEF MadeAvail
    <3> QED
      BY <3>1, MakeAvailIs
<1>5. s.array[i] = n /\ s.array[f] = n /\ NextOf(s, i) = g /\ PrevOf(s, i) = 0
  BY <1>1, <1>3, <1>4
<1>6. \A a \in A : NextOf(s, a) = NextOf(h, a) /\ PrevOf(s, a) = IF a = g THEN i ELSE PrevOf(h, a)
  <2> TAKE a \in A
  <2>1. /\ a \in Int /\ a # 0 /\ a + 1 \in Index /\ a + 2 \in Index
        /\ a + 1 # i /\ a + 1 # i + 1 /\ a + 1 # i + 2 /\ a + 2 # i /\ a + 2 # i + 1 /\ a + 2 # i + 2
        /\ a + 1 # f /\ a + 2 # f
    BY ApartFacts
  <2>2. g # 0 => a + 1 # g + 2 /\ (a # g => a + 2 # g + 2)
    BY <1>2, <2>1, ApartFacts
  <2> QED
    BY <1>1, <1>4, <2>1, <2>2
<1>7. /\ rank \in [A -> Nat]
      /\ \A a \in A :
        /\ NextOf(h, a) \in A \cup {0} /\ PrevOf(h, a) \in A \cup {0}
        /\ NextOf(h, a) # 0 => PrevOf(h, NextOf(h, a)) = a /\ rank[a] < rank[NextOf(h, a)]
        /\ PrevOf(h, a) = 0 => g = a
        /\ PrevOf(h, a) # 0 => NextOf(h, PrevOf(h, a)) = a
        /\ a \in Int /\ a # 0
  BY <1>2, ApartFacts DEF Linked
<1>8. g # 0 => PrevOf(h, g) = 0
  BY <1>3
<1>9. new \in [A \cup {i} -> Nat] /\ new[i] = 0 /\ \A a \in A : new[a] = rank[a] + 1 /\ rank[a] \in Nat
  BY <1>7
<1> HIDE DEF new
<1>10. \A a \in A \cup {i} :
        /\ NextOf(s, a) \in A \cup {i} \cup {0} /\ PrevOf(s, a) \in A \cup {i} \cup {0}
        /\ NextOf(s, a) # 0 => PrevOf(s, NextOf(s, a)) = a /\ new[a] < new[NextOf(s, a)]
        /\ PrevOf(s, a) = 0 => s.avail = a
        /\ PrevOf(s, a) # 0 => NextOf(s, PrevOf(s, a)) = a
  <2> TAKE a \in A \cup {i}
  <2>1. CASE a = i
    <3>1. g # 0 => PrevOf(s, g) = i /\ new[i] < new[g]
      BY <1>2, <1>6, <1>9
    <3> QED
      BY <1>2, <1>4, <1>5, <2>1, <3>1
  <2>2. CASE a \in A
    <3>1. NextOf(s, a) = NextOf(h, a) /\ PrevOf(s, a) = IF a = g THEN i ELSE PrevOf(h, a)
      BY <1>6, <2>2
    <3>2. NextOf(h, a) # 0 => NextOf(h, a) # g /\ NextOf(h, a) \in A
      BY <1>7, <1>8, <2>2
    <3>3. NextOf(s, a) # 0 => PrevOf(s, NextOf(s, a)) = a /\ new[a] < new[NextOf(s, a)]
      <4>1. CASE NextOf(h, a) # 0
        <5>1. PICK b \in A : b = NextOf(h, a)
          BY <3>2, <4>1
        <5>2. PrevOf(s, b) = a
          BY <1>6, <1>7, <2>2, <3>2, <4>1, <5>1
        <5>3. new[a] < new[b]
          BY <1>7, <1>9, <2>2, <4>1, <5>1
        <5> QED
          BY <3>1, <5>1, <5>2, <5>3
      <4> QED
        BY <3>1, <4>1
    <3>4. PrevOf(s, a) # 0
      BY <1>1, <1>7, <2>2, <3>1
    <3>5. NextOf(s, PrevOf(s, a)) = a
      BY <1>2, <1>5, <1>6, <1>7, <2>2, <3>1, <3>4
    <3> QED
      BY <1>7, <2>2, <3>1, <3>3, <3>4, <3>5
  <2> QED
    BY <2>1, <2>2
<1>11. Linked(s, A \cup {i}, new)
  BY <1>4, <1>5, <1>9, <1>10 DEF Linked
<1>12. ASSUME NEW w \in Index, w # i, w # f, NoLink(A \cup {i}, w)
       PROVE  s.array[w] = h.array[w]
  BY <1>2, <1>4, <1>12
<1> QED
  BY <1>4, <1>5, <1>11, <1>12 DEF new, Pushed, Written

\* Following the links from the head comes to every block of the list, once, and each
\* leads back to the one before.
Lists(h, A, link) ==
  /\ link \in [0..MaxBlocks -> A \cup {0}] /\ link[0] = h.avail
  /\ \A k \in 1..MaxBlocks : link[k] = Follow(h, link[k - 1])
  /\ \A j, k \in 0..MaxBlocks : link[j] = link[k] /\ link[j] # 0 => j = k
  /\ \A a \in A : \E k \in 0..MaxBlocks : link[k] = a
  /\ \A k \in 0..MaxBlocks : link[k] # 0 => PrevOf(h, link[k]) = IF k = 0 THEN 0 ELSE link[k - 1]

LEMMA FewBlocks ==
  ASSUME NEW A, Apart(A)
  PROVE  IsFiniteSet(A) /\ Cardinality(A) \in Nat /\ Cardinality(A) <= MaxBlocks
<1>m. PICK m \in Int : m = MaxBlocks /\ m >= 2 /\ 4 * m + 3 >= ArrayLen
  <2>1. MaxBlocks \in Int /\ MaxBlocks >= 2 /\ 4 * MaxBlocks + 3 >= ArrayLen
    BY Sizes DEF MaxBlocks
  <2> QED
    BY <2>1
<1> DEFINE f == [a \in A |-> (a - 2) \div 4]
<1>1. m \in Nat /\ 4 * m + 3 >= ArrayLen /\ m >= 2 /\ ArrayLen \in Nat
  BY <1>m, Sizes
<1>2. \A a \in A : a \in Int /\ a >= 2 /\ a <= ArrayLen - 4
  BY Sizes DEF Apart
<1>3. IsFiniteSet(0..m - 1) /\ Cardinality(0..m - 1) = m
  <2>1. PICK b \in Int : b = m - 1
    BY <1>1
  <2>2. IsFiniteSet(0..b) /\ Cardinality(0..b) = b + 1
    <3>1. IsFiniteSet(0..b) /\ Cardinality(0..b) = IF 0 > b THEN 0 ELSE b - 0 + 1
      BY FS_Interval
    <3> QED
      BY <1>1, <2>1, <3>1
  <2> QED
    BY <1>1, <2>1, <2>2
<1>4. f \in [A -> 0..m - 1]
  <2> SUFFICES ASSUME NEW a \in A PROVE (a - 2) \div 4 \in 0..m - 1
    OBVIOUS
  <2>1. PICK x \in Int : x = a /\ x >= 2 /\ x <= ArrayLen - 4
    BY <1>2
  <2>2. (x - 2) \div 4 >= 0 /\ (x - 2) \div 4 <= m - 1 /\ (x - 2) \div 4 \in Int
    BY <1>1, <2>1
  <2> QED
    BY <1>1, <2>1, <2>2
<1>5. \A a, b \in A : f[a] = f[b] => a = b
  <2> SUFFICES ASSUME NEW a \in A, NEW b \in A, (a - 2) \div 4 = (b - 2) \div 4 PROVE a = b
    OBVIOUS
  <2>1. a \in Int /\ b \in Int /\ (a = b \/ a + 4 <= b \/ b + 4 <= a)
    BY <1>2 DEF Apart
  <2> QED
    BY <2>1
<1>6. IsFiniteSet(A)
  <2>1. IsFiniteSet(0..ArrayLen) /\ A \subseteq 0..ArrayLen
    <3>1. IsFiniteSet(0..ArrayLen)
      BY <1>1, FS_Interval
    <3> QED
      BY <1>1, <1>2, <3>1
  <2> QED
    BY <2>1, FS_Subset
<1>7. Cardinality(A) \in Nat
  BY <1>6, FS_CardinalityType
<1>8. Cardinality(A) <= m
  <2> SUFFICES ASSUME Cardinality(0..m - 1) < Cardinality(A) PROVE FALSE
    BY <1>1, <1>3, <1>7
  <2> HIDE DEF f
  <2>1. \E a, b \in A : a # b /\ f[a] = f[b]
    BY <1>3, <1>4, <1>6, FS_PigeonHole
  <2> QED
    BY <1>5, <2>1
<1> QED
  BY <1>m, <1>6, <1>7, <1>8

LEMMA ListReaches ==
  ASSUME NEW h, HeapType(h), NEW A, Apart(A), NEW rank, Linked(h, A, rank)
  PROVE  Lists(h, A, Link(h))
<1> DEFINE S == A \cup {0}
           g == [i \in S |-> Follow(h, i)]
           Walk(f) == f = [k \in 0..MaxBlocks |-> IF k = 0 THEN h.avail ELSE Follow(h, f[k - 1])]
           link == Link(h)
<1>1. MaxBlocks \in Nat
  BY Sizes DEF MaxBlocks
<1>2. h.avail \in S /\ g \in [S -> S]
  BY DEF Linked, Follow
<1>3. Walk(link)
  <2>1. PICK f \in [0..MaxBlocks -> S] : f[0] = h.avail /\ \A k \in 1..MaxBlocks : f[k] = g[f[k - 1]]
    <3> HIDE DEF g, S
    <3>1. Walks(MaxBlocks, S, h.avail, g) # {}
      BY <1>1, <1>2, Recursion
    <3> QED
      BY <3>1 DEF Walks
  <2>2. \A k \in 0..MaxBlocks : f[k] = IF k = 0 THEN h.avail ELSE Follow(h, f[k - 1])
    <3> TAKE k \in 0..MaxBlocks
    <3>1. k # 0 => k \in 1..MaxBlocks /\ k - 1 \in 0..MaxBlocks
      BY <1>1
    <3>2. k # 0 => f[k - 1] \in S
      <4> HIDE DEF S
      <4> QED
        BY <3>1
    <3> QED
      BY <3>1, <3>2, <2>1
  <2>3. Walk(f)
    BY <2>1, <2>2
  <2>4. Walk(CHOOSE e : Walk(e))
    <3> HIDE DEF Walk
    <3> QED
      BY <2>3
  <2> QED
    BY <2>4 DEF Link
<1>4. link[0] = h.avail /\ (\A k \in 1..MaxBlocks : link[k] = Follow(h, link[k - 1])) /\ DOMAIN link = 0..MaxBlocks
      /\ link = [k \in 0..MaxBlocks |-> link[k]]
  <2> HIDE DEF link
  <2> QED
    BY <1>1, <1>3
<1> HIDE DEF link, Walk, g
<1>next. \A k \in Nat : k + 1 <= MaxBlocks => link[k + 1] = Follow(h, link[k])
  <2> SUFFICES ASSUME NEW k \in Nat, k + 1 <= MaxBlocks PROVE link[k + 1] = Follow(h, link[k])
    OBVIOUS
  <2>1. PICK n \in 1..MaxBlocks : n = k + 1 /\ n - 1 = k
    BY <1>1
  <2>2. link[n] = Follow(h, link[n - 1])
    BY <1>4, <2>1
  <2> QED
    BY <2>1, <2>2
<1>5. \A k \in 0..MaxBlocks : link[k] \in S
  <2> DEFINE T == {k \in Nat : k <= MaxBlocks => link[k] \in S}
  <2>1. 0 \in T
    BY <1>2, <1>4
  <2>2. \A k \in Nat : k \in T => k + 1 \in T
    <3> SUFFICES ASSUME NEW k \in Nat, k + 1 <= MaxBlocks, link[k] \in S PROVE link[k + 1] \in S
      BY <1>1
    <3>1. link[k + 1] = Follow(h, link[k])
      BY <1>next
    <3> QED
      BY <3>1, <1>2 DEF g
  <2>3. \A k \in Nat : k \in T
    <3> HIDE DEF T
    <3> QED
      BY <2>1, <2>2, Induction
  <2> QED
    BY <2>3
<1>6. 0 \notin A
  BY ApartFacts
\* Behind the end it stays at 0, and before it the rank grows.
<1> DEFINE Grows(k) == link[k] # 0 => \A j \in 0..k : link[j] # 0 /\ (j < k => rank[link[j]] < rank[link[k]])
           T == {k \in Nat : k <= MaxBlocks => Grows(k)}
<1>7. 0 \in T
  OBVIOUS
<1>8. \A k \in Nat : k \in T => k + 1 \in T
  <2> SUFFICES ASSUME NEW k \in Nat, k + 1 <= MaxBlocks, Grows(k), link[k + 1] # 0 PROVE Grows(k + 1)
    BY <1>1
  <2>1. link[k + 1] = Follow(h, link[k]) /\ link[k] \in S /\ link[k + 1] \in S
    <3>1. k \in 0..MaxBlocks /\ k + 1 \in 0..MaxBlocks
      BY <1>1
    <3> QED
      BY <1>next, <1>5, <3>1
  <2>2. PICK a \in A : a = link[k]
    BY <2>1 DEF Follow
  <2>3. PICK b \in A : b = link[k + 1]
    BY <2>1
  <2>4. b = NextOf(h, a) /\ b # 0 /\ a # 0
    BY <1>6, <2>1, <2>2, <2>3 DEF Follow
  <2>5. rank[a] < rank[b] /\ rank \in [A -> Nat]
    BY <2>4 DEF Linked
  <2>6. \A j \in 0..k : link[j] \in A /\ (j < k => rank[link[j]] < rank[a])
    BY <1>1, <1>5, <2>2, <2>4
  <2>7. \A j \in 0..k : rank[link[j]] \in Nat /\ rank[link[j]] < rank[b]
    <3> TAKE j \in 0..k
    <3>1. rank[link[j]] \in Nat /\ rank[a] \in Nat /\ rank[b] \in Nat
      BY <2>5, <2>6
    <3>2. CASE j = k
      BY <2>2, <2>5, <3>1, <3>2
    <3>3. CASE j < k
      BY <2>5, <2>6, <3>1, <3>3
    <3> QED
      BY <3>1, <3>2, <3>3
  <2> SUFFICES ASSUME NEW j \in 0..k + 1
               PROVE  link[j] # 0 /\ (j < k + 1 => rank[link[j]] < rank[link[k + 1]])
    OBVIOUS
  <2>8. CASE j = k + 1
    BY <2>8
  <2>9. CASE j # k + 1
    <3>1. j \in 0..k
      BY <2>9
    <3> QED
      BY <2>3, <2>6, <2>7, <1>6, <3>1
  <2> QED
    BY <2>8, <2>9
<1>9. \A k \in 0..MaxBlocks : Grows(k)
  <2>1. \A k \in Nat : k \in T
    <3> HIDE DEF T
    <3> QED
      BY <1>7, <1>8, Induction
  <2> QED
    BY <2>1
<1>10. \A j, k \in 0..MaxBlocks : link[j] = link[k] /\ link[j] # 0 => j = k
  <2> SUFFICES ASSUME NEW j \in 0..MaxBlocks, NEW k \in 0..MaxBlocks, link[j] = link[k], link[k] # 0, j < k
               PROVE  FALSE
    BY <1>1
  <2>1. rank[link[j]] < rank[link[k]] /\ rank[link[k]] \in Nat
    <3>1. link[k] \in A /\ rank \in [A -> Nat]
      BY <1>5 DEF Linked
    <3> QED
      BY <1>1, <1>9, <3>1
  <2> QED
    BY <2>1
<1>11. \E k \in 0..MaxBlocks : link[k] = 0
  <2> SUFFICES ASSUME \A k \in 0..MaxBlocks : link[k] # 0 PROVE FALSE
    OBVIOUS
  <2>1. link \in [0..MaxBlocks -> A]
    BY <1>4, <1>5
  <2>2. IsFiniteSet(0..MaxBlocks) /\ Cardinality(0..MaxBlocks) = MaxBlocks + 1
    BY <1>1, FS_Interval
  <2>3. IsFiniteSet(A) /\ Cardinality(A) < Cardinality(0..MaxBlocks)
    BY <1>1, <2>2, FewBlocks
  <2>4. \E j, k \in 0..MaxBlocks : j # k /\ link[j] = link[k]
    BY <2>1, <2>2, <2>3, FS_PigeonHole
  <2> QED
    BY <1>10, <2>4
\* Of those that it misses one would have the least rank; but the one before that is not missed.
<1>12. \A a \in A : \E k \in 0..MaxBlocks : link[k] = a
  <2> DEFINE U == {a \in A : \A k \in 0..MaxBlocks : link[k] # a}
             R == {rank[a] : a \in U}
  <2> SUFFICES ASSUME U # {} PROVE FALSE
    OBVIOUS
  <2>1. rank \in [A -> Nat] /\ R \in SUBSET Nat /\ R # {}
    <3>1. rank \in [A -> Nat]
      BY DEF Linked
    <3> QED
      BY <3>1
  <2>2. PICK m \in R : \A n \in R : m <= n
    <3> HIDE DEF R
    <3> QED
      BY <2>1, Least
  <2>3. PICK a \in U : rank[a] = m
    BY <2>2
  <2>4. PrevOf(h, a) # 0
    BY <1>1, <1>4, <2>3 DEF Linked
  <2>5. PICK p \in A : p = PrevOf(h, a) /\ NextOf(h, p) = a /\ rank[p] < rank[a]
    BY <1>6, <2>3, <2>4 DEF Linked
  <2>6. p \notin U
    BY <2>1, <2>2, <2>3, <2>5
  <2>7. PICK k \in 0..MaxBlocks : link[k] = p
    BY <2>6
  <2>8. k # MaxBlocks
    <3>1. PICK z \in 0..MaxBlocks : link[z] = 0
      BY <1>11
    <3>2. link[k] # 0
      BY <1>6, <2>7
    <3>3. k = MaxBlocks => z \in 0..k
      OBVIOUS
    <3> QED
      BY <1>9, <3>1, <3>2, <3>3
  <2>9. link[k + 1] = a /\ k + 1 \in 0..MaxBlocks
    <3>1. k + 1 \in 0..MaxBlocks /\ k \in Nat /\ k + 1 <= MaxBlocks
      BY <1>1, <2>8
    <3>2. link[k + 1] = Follow(h, p)
      BY <1>next, <2>7, <3>1
    <3> QED
      BY <1>6, <2>5, <3>1, <3>2 DEF Follow
  <2> QED
    BY <2>3, <2>9
<1>13. \A k \in 0..MaxBlocks : link[k] # 0 => PrevOf(h, link[k]) = IF k = 0 THEN 0 ELSE link[k - 1]
  <2> SUFFICES ASSUME NEW k \in 0..MaxBlocks, link[k] # 0 PROVE PrevOf(h, link[k]) = IF k = 0 THEN 0 ELSE link[k - 1]
    OBVIOUS
  <2>1. CASE k = 0
    BY <1>4, <2>1 DEF Linked
  <2>2. CASE k # 0
    <3>1. k \in 1..MaxBlocks /\ k - 1 \in 0..MaxBlocks
      BY <1>1, <2>2
    <3>2. link[k] = Follow(h, link[k - 1]) /\ link[k - 1] \in S
      BY <1>4, <1>5, <3>1
    <3>3. PICK a \in A : a = link[k - 1] /\ link[k] = NextOf(h, a)
      BY <3>2 DEF Follow
    <3> QED
      BY <2>2, <3>3 DEF Linked
  <2> QED
    BY <2>1, <2>2
<1>14. link \in [0..MaxBlocks -> A \cup {0}]
  BY <1>4, <1>5
<1>15. Lists(h, A, link)
  BY <1>4, <1>10, <1>12, <1>13, <1>14 DEF Lists
<1> QED
  BY <1>15 DEF link

-----------------------------------------------------------------------------
(* Cutting the blocks anew *)

LEMMA BlocksApart ==
  ASSUME NEW h, HeapType(h), NEW B, Tagged(h, B), NEW i \in Int, i \in B, NEW j \in Int, j \in B, i # j
  PROVE  /\ \A w \in j..Footer(h, j) : w # i /\ w # Footer(h, i)
         /\ \A w \in j..Footer(h, j) : w \in Index
<1>1. /\ Size(h, i) \in Nat /\ Size(h, i) >= 2 /\ Size(h, j) \in Nat /\ Size(h, j) >= 2
      /\ j >= 0 /\ Footer(h, j) \in Index
  BY BlockFacts
<1>2. i < j => Right(h, i) <= j
  BY Disjoint
<1>3. j < i => Right(h, j) <= i
  BY Disjoint
<1> QED
  BY <1>1, <1>2, <1>3, Sizes DEF Right, Footer

\* The links of an available block are no tags, and in no other block.
LEMMA LinksApart ==
  ASSUME NEW h, HeapType(h), NEW B, Tagged(h, B), NEW a \in Int, a \in Available(h, B), NEW j \in Int, j \in B
  PROVE  /\ j # a => \A w \in j..Footer(h, j) : w # a + 1 /\ w # a + 2
         /\ j # a + 1 /\ j # a + 2 /\ Footer(h, j) # a + 1 /\ Footer(h, j) # a + 2
<1>1. /\ a \in B /\ a # 0 /\ a # End /\ Size(h, a) \in Nat /\ Size(h, a) >= 4
      /\ Size(h, j) \in Nat /\ Size(h, j) >= 2
  <2>1. a \in B /\ IsAvail(h, a)
    BY DEF Available
  <2> QED
    BY <2>1, BlockFacts
<1>2. a < j => Right(h, a) <= j
  BY <1>1, Disjoint
<1>3. j < a => Right(h, j) <= a
  BY <1>1, Disjoint
<1> QED
  BY <1>1, <1>2, <1>3 DEF Right, Footer

\* The blocks N fill the heap up to hi.
Fill(s, N, hi) ==
  \A i \in N : /\ s.array[i] # 0 /\ s.array[Footer(s, i)] = s.array[i] /\ Size(s, i) >= 4
               /\ Right(s, i) \in N \cup {hi}
               /\ \A j \in N : j <= i \/ j >= Right(s, i)

Outside(B, lo, hi) == {i \in B : i < lo \/ i >= hi}
Within(B, lo, hi) == {i \in B : lo <= i /\ i < hi}

SameTags(h, D, s) == \A i \in D : s.array[i] = h.array[i] /\ s.array[Footer(h, i)] = h.array[i]
SameSizes(h, D, s) ==
  \A i \in D : /\ Size(s, i) = Size(h, i) /\ Right(s, i) = Right(h, i) /\ Footer(s, i) = Footer(h, i)
               /\ (IsAvail(s, i) <=> IsAvail(h, i)) /\ (IsTaken(s, i) <=> IsTaken(h, i))

\* Between two of the blocks others take the place of what was there.
LEMMA Retiled ==
  ASSUME NEW h, HeapType(h), NEW B, Tagged(h, B),
         NEW lo \in Int, lo \in B, lo # 0, NEW hi \in Int, hi \in B, lo < hi,
         NEW s, HeapType(s), NEW N, N \subseteq lo..hi - 1, lo \in N,
         Fill(s, N, hi), SameTags(h, Outside(B, lo, hi), s),
         NEW C, C = N \cup Outside(B, lo, hi)
  PROVE  Tagged(s, C) /\ SameSizes(h, Outside(B, lo, hi), s)
<1> USE DEF SameTags, Outside
<1>1. B \subseteq Int /\ B \subseteq 0..End /\ 0 \in B /\ End \in B /\ h.array[0] = -2 /\ h.array[End] = -2
  BY Places
<1>2. hi <= End /\ 0 < lo /\ End \in Nat
  BY <1>1, Sizes
<1>3. \A i \in B : i < lo \/ i >= hi => /\ s.array[i] = h.array[i]
                                        /\ Size(s, i) = Size(h, i) /\ Right(s, i) = Right(h, i)
                                        /\ Footer(s, i) = Footer(h, i)
                                        /\ (IsAvail(s, i) <=> IsAvail(h, i)) /\ (IsTaken(s, i) <=> IsTaken(h, i))
  BY DEF Size, Right, Footer, IsAvail, IsTaken
<1>4. C \subseteq 0..End /\ 0 \in C /\ End \in C /\ s.array[0] = -2 /\ s.array[End] = -2
  <2>1. \A i \in N : i \in 0..End
    BY <1>2
  <2>2. 0 \in C /\ End \in C
    BY <1>1, <1>2
  <2>3. s.array[0] = -2 /\ s.array[End] = -2
    BY <1>1, <1>2, <1>3
  <2> QED
    BY <1>1, <2>1, <2>2, <2>3
<1>5. ASSUME NEW i \in Int, i \in B, i < lo \/ i >= hi
      PROVE  /\ s.array[i] # 0 /\ s.array[Footer(s, i)] = s.array[i]
             /\ i # 0 /\ i # End => Size(s, i) >= 4
             /\ i # End => Right(s, i) \in C
             /\ \A j \in C : j <= i \/ j >= Right(s, i)
  <2>1. /\ s.array[i] = h.array[i] /\ Size(s, i) = Size(h, i) /\ Right(s, i) = Right(h, i) /\ Footer(s, i) = Footer(h, i)
        /\ s.array[Footer(h, i)] = h.array[i]
    BY <1>3, <1>5
  <2>2. /\ h.array[i] # 0 /\ (i # 0 /\ i # End => Size(h, i) >= 4)
        /\ (i # End => Right(h, i) \in B) /\ \A j \in B : j <= i \/ j >= Right(h, i)
    BY <1>5 DEF Tagged
  <2>3. Size(h, i) \in Nat /\ Size(h, i) >= 2 /\ Right(h, i) \in Nat
    BY <1>5, BlockFacts
  <2>4. i < lo => Right(h, i) <= lo
    BY <1>5, Disjoint
  <2>5. i # End => Right(h, i) \in C
    BY <1>1, <1>5, <2>2, <2>3, <2>4 DEF Right
  <2>6. \A j \in C : j <= i \/ j >= Right(h, i)
    BY <1>5, <2>2, <2>3, <2>4
  <2> QED
    BY <2>1, <2>2, <2>5, <2>6
<1>6. ASSUME NEW i \in Int, i \in N
      PROVE  /\ s.array[i] # 0 /\ s.array[Footer(s, i)] = s.array[i]
             /\ i # 0 /\ i # End => Size(s, i) >= 4
             /\ i # End => Right(s, i) \in C
             /\ \A j \in C : j <= i \/ j >= Right(s, i)
  <2>1. Right(s, i) \in N \cup {hi} /\ \A j \in N : j <= i \/ j >= Right(s, i)
    BY <1>6 DEF Fill
  <2>2. Right(s, i) \in Int /\ Right(s, i) <= hi
    <3>1. PICK x \in N \cup {hi} : x = Right(s, i)
      BY <2>1
    <3>2. x \in Int /\ x <= hi
      OBVIOUS
    <3> QED
      BY <3>1, <3>2
  <2>3. Right(s, i) \in C
    BY <2>1
  <2>4. \A j \in C : j <= i \/ j >= Right(s, i)
    BY <1>1, <1>6, <2>1, <2>2
  <2> QED
    BY <1>6, <2>3, <2>4 DEF Fill
<1>7. \A i \in C : i \in Int /\ (i \in N \/ (i \in B /\ (i < lo \/ i >= hi)))
  BY <1>1
<1>8. Tagged(s, C)
  BY <1>4, <1>5, <1>6, <1>7 DEF Tagged
<1>9. SameSizes(h, Outside(B, lo, hi), s)
  BY <1>3 DEF SameSizes
<1> QED
  BY <1>8, <1>9

-----------------------------------------------------------------------------
(* A block that comes back *)

Sound(h, B, rank) ==
  HeapType(h) /\ Tagged(h, B) /\ Joined(h, B) /\ Linked(h, Available(h, B), rank)

\* The taken blocks but those in D, with all their words.
Keeps(h, B, D, s) == \A j \in B \ D : IsTaken(h, j) => \A w \in j..Footer(h, j) : s.array[w] = h.array[w]

NoneBefore(h, B, lo) == \A j \in B : IsAvail(h, j) => Right(h, j) # lo

TakenOf(h, B) == {i \in B : IsTaken(h, i)}

\* From h to s the blocks D are not taken any more, or one more is.
Gains(h, B, D, s) ==
  \E C, r : Sound(s, C, r) /\ TakenOf(s, C) = TakenOf(h, B) \ D /\ Keeps(h, B, D, s)
Grants(h, B, i, s) ==
  \E C, r : Sound(s, C, r) /\ TakenOf(s, C) = TakenOf(h, B) \cup {i} /\ Keeps(h, B, {}, s)

\* From lo to hi the heap becomes one available block, after the available ones in it
\* have left the list.
LEMMA MadeAvailable ==
  ASSUME NEW h, HeapType(h), NEW B, Tagged(h, B), Joined(h, B),
         NEW lo \in Int, lo \in B, lo # 0, NEW hi \in Int, hi \in B, lo + 4 <= hi,
         ~IsAvail(h, hi), NoneBefore(h, B, lo),
         NEW m, HeapType(m), NEW A, A = Outside(Available(h, B), lo, hi),
         NEW rank, Linked(m, A, rank),
         Untouched(h, Available(h, B), m),
         NEW n \in Int, hi = lo + n, NEW s, s = MakeAvail(m, lo, n)
  PROVE  Gains(h, B, Within(B, lo, hi), s)
<1> DEFINE C == {lo} \cup Outside(B, lo, hi)
<1>1. /\ B \subseteq Int /\ B \subseteq 0..End /\ 0 \in B /\ End \in B /\ lo > 0 /\ hi <= End
      /\ \A a \in Available(h, B) : a \in B /\ a \in Int /\ a # End
  BY Places, Sizes, AvailableApart
<1>o. \A a \in A : a \in Available(h, B) /\ a \in B /\ a \in Int /\ (a < lo \/ a >= hi)
  BY <1>1 DEF Outside
<1>2. lo + (hi - lo) - 1 \in Index /\ lo \in Index /\ hi - 1 \in Index /\ hi - lo \in Int /\ hi - lo >= 4
  BY <1>1, Sizes DEF End
<1>3. lo \notin A /\ Apart(A \cup {lo})
  <2>1. Apart(Available(h, B)) /\ \A a \in Available(h, B) : Size(h, a) >= 4 /\ Size(h, a) \in Nat
    <3> SUFFICES ASSUME NEW a \in Available(h, B) PROVE Size(h, a) >= 4 /\ Size(h, a) \in Nat
      BY AvailableApart
    <3>1. a \in Int /\ a \in B /\ a # 0 /\ a # End
      BY AvailableApart
    <3> QED
      BY <3>1, BlockFacts
  <2>2. \A a \in A : a + 4 <= lo \/ lo + 4 <= a
    <3> TAKE a \in A
    <3>1. a \in Int /\ a \in B /\ (a < lo \/ a >= hi) /\ Size(h, a) >= 4 /\ Size(h, a) \in Nat
      BY <1>o, <2>1
    <3>2. a < lo => Right(h, a) <= lo
      BY <3>1, Disjoint
    <3> QED
      BY <3>1, <3>2 DEF Right
  <2>3. lo \in 2..ArrayLen - 4
    <3>1. lo >= 2
      BY BlockFacts
    <3> QED
      BY <1>1, <3>1, Sizes DEF End
  <2>4. lo \notin A
    BY <1>o, <1>2
  <2>5. A \subseteq Available(h, B)
    BY <1>o
  <2> QED
    BY <1>1, <2>1, <2>2, <2>3, <2>4, <2>5 DEF Apart
<1>4. NoLink(A, hi - 1)
  <2> SUFFICES ASSUME NEW a \in A PROVE hi - 1 # a + 1 /\ hi - 1 # a + 2
    BY DEF NoLink
  <2>1. a \in Int /\ (a < lo \/ a >= hi)
    BY <1>o
  <2>2. a + 4 <= lo \/ lo + 4 <= a
    BY <1>3, <2>1 DEF Apart
  <2> QED
    BY <2>1, <2>2
<1>5. PICK f \in Int : f = hi - 1 /\ f = lo + n - 1 /\ f \in Index /\ n >= 4
  BY <1>2
<1>6. /\ HeapType(s) /\ Linked(s, A \cup {lo}, Pushed(A, lo, rank))
      /\ Written(m, A, lo, f, n, s)
  <2>1. NoLink(A, f)
    BY <1>4, <1>5
  <2>3. n >= 4 /\ f \in Index /\ f = lo + n - 1 /\ lo \notin A /\ Apart(A \cup {lo})
    BY <1>3, <1>5
  <2> HIDE DEF C
  <2> QED
    BY <2>1, <2>3, LinkedIn
\* The words of another block that are no links stay.
<1>7. ASSUME NEW j \in Int, j \in B, j < lo \/ j >= hi, NEW w \in Int, w \in j..Footer(h, j),
             j \in Available(h, B) => w = j \/ w = Footer(h, j)
      PROVE  s.array[w] = h.array[w]
  <2>1. w \in Index
    <3>1. Footer(h, j) \in Index /\ j \in 0..End
      BY <1>7, BlockFacts
    <3> QED
      BY <1>7, <3>1, Sizes
  <2>2. NoLink(Available(h, B), w)
    <3> SUFFICES ASSUME NEW a \in Available(h, B) PROVE w # a + 1 /\ w # a + 2
      BY DEF NoLink
    <3>1. a \in Int
      BY <1>1
    <3> QED
      BY <1>7, <3>1, LinksApart
  <2>3. w < lo \/ w >= hi
    <3>1. CASE j < lo
      <4>1. Right(h, j) <= lo /\ Size(h, j) \in Nat
        BY <1>7, <3>1, Disjoint, BlockFacts
      <4> QED
        BY <1>7, <4>1 DEF Right, Footer
    <3>2. CASE j >= hi
      BY <1>7, <3>2
    <3> QED
      BY <1>7, <3>1, <3>2
  <2>4. w # lo /\ w # f /\ w # lo + 1 /\ w # lo + 2
    BY <1>5, <2>3
  <2>5. NoLink(A \cup {lo}, w)
    BY <1>o, <2>2, <2>4 DEF NoLink
  <2> QED
    BY <1>6, <2>1, <2>2, <2>4, <2>5 DEF Written, Untouched
<1>8. Size(s, lo) = n /\ Right(s, lo) = hi /\ Footer(s, lo) = f /\ IsAvail(s, lo) /\ ~IsTaken(s, lo)
  BY <1>5, <1>6 DEF Written, Size, Abs, Right, Footer, IsAvail, IsTaken
<1>9. Tagged(s, C) /\ SameSizes(h, Outside(B, lo, hi), s)
  <2>1. SameTags(h, Outside(B, lo, hi), s)
    <3> SUFFICES ASSUME NEW i \in Int, i \in B, i < lo \/ i >= hi
                 PROVE  s.array[i] = h.array[i] /\ s.array[Footer(h, i)] = h.array[i]
      BY <1>1 DEF SameTags, Outside
    <3>1. i \in i..Footer(h, i) /\ Footer(h, i) \in i..Footer(h, i) /\ Footer(h, i) \in Int
      BY BlockFacts DEF Footer
    <3>2. h.array[Footer(h, i)] = h.array[i]
      BY DEF Tagged
    <3> QED
      BY <1>7, <3>1, <3>2
  <2>n. PICK N : N = {lo}
    OBVIOUS
  <2>2. Fill(s, N, hi)
    BY <2>n, <1>5, <1>6, <1>8 DEF Fill, Written
  <2>3. lo < hi /\ N \subseteq lo..hi - 1 /\ lo \in N
    BY <1>2, <2>n
  <2> HIDE DEF C
  <2>4. C = N \cup Outside(B, lo, hi)
    BY <2>n DEF C
  <2> QED
    BY <1>6, <2>1, <2>2, <2>3, <2>4, Retiled
<1>10. Available(s, C) = A \cup {lo}
  BY <1>1, <1>8, <1>9 DEF Available, SameSizes, Outside
<1>11. TakenOf(s, C) = TakenOf(h, B) \ Within(B, lo, hi)
  <2>1. \A i \in B : i \in Outside(B, lo, hi) <=> i \notin Within(B, lo, hi)
    BY <1>1 DEF Outside, Within
  <2>2. \A i \in Outside(B, lo, hi) : i \in B /\ (IsTaken(s, i) <=> IsTaken(h, i))
    BY <1>9 DEF SameSizes, Outside
  <2>3. lo \in Within(B, lo, hi)
    BY <1>2 DEF Within
  <2> QED
    BY <1>8, <2>1, <2>2, <2>3 DEF TakenOf
<1>12. Joined(s, C)
  <2> SUFFICES ASSUME NEW i \in C, IsAvail(s, i) PROVE ~IsAvail(s, Right(s, i))
    BY DEF Joined
  <2>1. CASE i = lo
    BY <1>1, <1>8, <1>9, <2>1 DEF SameSizes, Outside
  <2>2. CASE i # lo
    <3>1. i \in B /\ (i < lo \/ i >= hi) /\ IsAvail(h, i) /\ Right(s, i) = Right(h, i) /\ i \in Int /\ i # End
      BY <1>1, <1>9, <2>2 DEF Available, SameSizes, Outside
    <3>2. ~IsAvail(h, Right(h, i)) /\ Right(h, i) \in B /\ Right(h, i) # lo
      BY <3>1, BlockFacts DEF Joined, NoneBefore
    <3>3. i < lo => Right(h, i) <= lo
      BY <3>1, Disjoint
    <3>4. Right(h, i) >= i /\ Right(h, i) \in Int
      BY <3>1, BlockFacts DEF Right
    <3>5. Right(h, i) < lo \/ Right(h, i) >= hi
      BY <3>1, <3>2, <3>3, <3>4
    <3> QED
      BY <1>9, <3>1, <3>2, <3>5 DEF SameSizes, Outside
  <2> QED
    BY <2>1, <2>2
<1>13. Keeps(h, B, Within(B, lo, hi), s)
  <2> SUFFICES ASSUME NEW j \in B, j < lo \/ j >= hi, IsTaken(h, j), NEW w \in j..Footer(h, j)
               PROVE  s.array[w] = h.array[w]
    BY <1>1 DEF Keeps, Within
  <2>1. j \in Int
    BY <1>1
  <2>2. j \notin Available(h, B) /\ w \in Int
    <3>1. ~IsAvail(h, j) /\ Footer(h, j) \in Int
      BY <2>1, BlockFacts, Sizes
    <3> QED
      BY <2>1, <3>1 DEF Available
  <2> QED
    BY <1>7, <2>1, <2>2
<1> HIDE DEF C
<1> QED
  BY <1>6, <1>9, <1>10, <1>11, <1>12, <1>13 DEF Sound, Gains

LEMMA Released ==
  ASSUME NEW h, NEW B, NEW rank, Sound(h, B, rank),
         NEW i \in Int, i \in B, i # 0, i # End, IsTaken(h, i), NEW s, s = Release(h, i)
  PROVE  Gains(h, B, {i}, s)
<1>1. HeapType(h) /\ Tagged(h, B) /\ Joined(h, B) /\ Linked(h, Available(h, B), rank) /\ Apart(Available(h, B))
  <2>1. HeapType(h) /\ Tagged(h, B) /\ Joined(h, B) /\ Linked(h, Available(h, B), rank)
    BY DEF Sound
  <2> QED
    BY <2>1, AvailableApart
<1>2. PICK A : A = Available(h, B)
  OBVIOUS
<1>3. PICK l \in Int : l = Left(h, i) /\ l \in B /\ l < i /\ Right(h, l) = i /\ l # End
  BY <1>1, LeftNeighbour
<1>4. PICK r \in Int : r = Right(h, i) /\ r \in B /\ r >= i + 4 /\ Size(h, i) = r - i /\ r # 0
  <2>1. Right(h, i) \in B /\ Size(h, i) \in Nat /\ Size(h, i) >= 4 /\ i >= 0
    BY <1>1, BlockFacts, Sizes
  <2> QED
    BY <2>1 DEF Right
<1>5. PICK lo \in Int : lo = (IF IsAvail(h, l) THEN l ELSE i) /\ lo \in B /\ lo # 0
  <2>1. IsAvail(h, l) => l # 0
    BY <1>1, <1>3, BlockFacts
  <2> QED
    BY <1>3, <2>1
<1>6. PICK hi \in Int : hi = (IF IsAvail(h, r) THEN Right(h, r) ELSE r) /\ hi \in B /\ hi >= r
                        /\ (IsAvail(h, r) => hi = r + Size(h, r))
  <2>1. IsAvail(h, r) => r # End /\ Right(h, r) \in B /\ Right(h, r) \in Int /\ Right(h, r) = r + Size(h, r) /\ Size(h, r) \in Nat
    BY <1>1, <1>4, BlockFacts DEF Right
  <2> QED
    BY <1>4, <2>1
<1>7. PICK n \in Int : hi = lo + n
                       /\ n = Size(h, i) + (IF IsAvail(h, l) THEN Size(h, l) ELSE 0)
                                         + (IF IsAvail(h, r) THEN Size(h, r) ELSE 0)
  <2>1. Size(h, l) \in Nat /\ i = l + Size(h, l)
    BY <1>1, <1>3, BlockFacts DEF Right
  <2>2. Size(h, r) \in Nat
    BY <1>1, <1>4, BlockFacts
  <2> QED
    BY <1>4, <1>5, <1>6, <2>1, <2>2
<1>8. lo <= i /\ lo + 4 <= hi
  BY <1>3, <1>4, <1>5, <1>6
\* From lo to hi there is nothing but the block and its available neighbours.
<1>9. ASSUME NEW j \in Int, j \in B
      PROVE  lo <= j /\ j < hi <=> j = i \/ (j = l /\ IsAvail(h, l)) \/ (j = r /\ IsAvail(h, r))
  <2>1. /\ l < j => i <= j
        /\ i < j => r <= j
        /\ r < j /\ IsAvail(h, r) => hi <= j
    BY <1>1, <1>3, <1>4, <1>6, <1>9, Disjoint
  <2>2. IsAvail(h, r) => r < hi
    <3>1. Size(h, r) \in Nat /\ Size(h, r) >= 2
      BY <1>1, <1>4, BlockFacts
    <3> QED
      BY <1>6, <3>1
  <2> QED
    BY <1>3, <1>4, <1>5, <1>6, <2>1, <2>2
<1>10. ~IsAvail(h, hi)
  BY <1>1, <1>4, <1>6 DEF Joined
<1>11. NoneBefore(h, B, lo)
  <2> SUFFICES ASSUME NEW j \in Int, j \in B, IsAvail(h, j), Right(h, j) = lo PROVE FALSE
    BY <1>1, Places DEF NoneBefore
  <2>1. ~IsAvail(h, lo)
    BY <1>1 DEF Joined
  <2>2. lo = i /\ ~IsAvail(h, l)
    BY <1>5, <2>1
  <2>3. j # l /\ Size(h, j) \in Nat /\ Size(h, j) >= 2
    BY <1>1, <2>2, BlockFacts
  <2>4. j < l => Right(h, j) <= l
    BY <1>1, <1>3, Disjoint
  <2>5. l < j => i <= j
    BY <1>1, <1>3, Disjoint
  <2> QED
    BY <1>3, <2>2, <2>3, <2>4, <2>5 DEF Right
\* What is left of the list.
<1>12. PICK h1, A1, r1 : /\ h1 = (IF IsAvail(h, l) THEN Remove(h, l) ELSE h)
                         /\ A1 = (IF IsAvail(h, l) THEN A \ {l} ELSE A)
                         /\ HeapType(h1) /\ Linked(h1, A1, r1) /\ Untouched(h, A, h1) /\ Apart(A1)
  <2>1. CASE IsAvail(h, l)
    <3>1. PICK x : x = Remove(h, l)
      OBVIOUS
    <3>2. l \in A
      BY <1>2, <1>3, <2>1 DEF Available
    <3>3. HeapType(x) /\ Linked(x, A \ {l}, Less(A, l, rank)) /\ Untouched(h, A \ {l}, x)
      BY <1>1, <1>2, <3>1, <3>2, Unlinked
    <3>4. Untouched(h, A, x) /\ Apart(A \ {l})
      BY <1>1, <1>2, <3>3 DEF Untouched, NoLink, Apart
    <3> QED
      BY <2>1, <3>1, <3>3, <3>4
  <2>2. CASE ~IsAvail(h, l)
    <3>1. Untouched(h, A, h)
      BY DEF Untouched
    <3> QED
      BY <1>1, <1>2, <2>2, <3>1
  <2> QED
    BY <2>1, <2>2
<1>13. PICK h2, A2, r2 : /\ h2 = (IF IsAvail(h, r) THEN Remove(h1, r) ELSE h1)
                         /\ A2 = (IF IsAvail(h, r) THEN A1 \ {r} ELSE A1)
                         /\ HeapType(h2) /\ Linked(h2, A2, r2) /\ Untouched(h, A, h2)
  <2>1. CASE IsAvail(h, r)
    <3>1. PICK x : x = Remove(h1, r)
      OBVIOUS
    <3>2. r \in A1
      BY <1>2, <1>3, <1>4, <1>12, <2>1 DEF Available
    <3>3. HeapType(x) /\ Linked(x, A1 \ {r}, Less(A1, r, r1)) /\ Untouched(h1, A1 \ {r}, x)
      BY <1>12, <3>1, <3>2, Unlinked
    <3>4. A1 \subseteq A
      BY <1>12
    <3>5. Untouched(h, A, x)
      BY <1>12, <3>3, <3>4 DEF Untouched, NoLink
    <3> QED
      BY <2>1, <3>1, <3>3, <3>5
  <2>2. CASE ~IsAvail(h, r)
    BY <1>12, <2>2
  <2> QED
    BY <2>1, <2>2
<1>14. A2 = Outside(A, lo, hi)
  <2>1. \A a \in A : a \in B /\ a \in Int /\ a # i
    <3>1. ~IsAvail(h, i)
      BY <1>1, BlockFacts
    <3> QED
      BY <1>1, <1>2, <3>1, Places DEF Available
  <2>2. \A a \in A : a \in A2 <=> a # i /\ ~(a = l /\ IsAvail(h, l)) /\ ~(a = r /\ IsAvail(h, r))
    BY <1>12, <1>13, <2>1
  <2>3. \A a \in A : a \in A2 <=> a < lo \/ a >= hi
    BY <1>9, <2>1, <2>2
  <2>4. A2 \subseteq A
    BY <1>12, <1>13
  <2> QED
    BY <2>3, <2>4 DEF Outside
<1>15. s = MakeAvail(h2, lo, n)
  BY <1>3, <1>4, <1>5, <1>7, <1>12, <1>13 DEF Release
<1>16. Gains(h, B, Within(B, lo, hi), s)
  <2>1. HeapType(h2) /\ Linked(h2, A2, r2) /\ Untouched(h, Available(h, B), h2) /\ A2 = Outside(Available(h, B), lo, hi)
    BY <1>2, <1>13, <1>14
  <2>2. lo \in B /\ lo # 0 /\ hi \in B /\ lo + 4 <= hi /\ ~IsAvail(h, hi) /\ NoneBefore(h, B, lo) /\ hi = lo + n
    BY <1>5, <1>6, <1>7, <1>8, <1>10, <1>11
  <2>3. HeapType(h) /\ Tagged(h, B) /\ Joined(h, B)
    BY <1>1
  <2> QED
    BY <1>15, <2>1, <2>2, <2>3, MadeAvailable
<1>17. PICK C, rk : /\ Sound(s, C, rk)
                    /\ TakenOf(s, C) = TakenOf(h, B) \ Within(B, lo, hi)
                    /\ Keeps(h, B, Within(B, lo, hi), s)
  BY <1>16 DEF Gains
<1>18. \A j \in TakenOf(h, B) : j \in Within(B, lo, hi) <=> j = i
  <2> SUFFICES ASSUME NEW j \in TakenOf(h, B) PROVE lo <= j /\ j < hi <=> j = i
    BY <1>9 DEF TakenOf, Within
  <2>1. j \in B /\ j \in Int /\ IsTaken(h, j) /\ ~IsAvail(h, j)
    BY <1>1, Places, BlockFacts DEF TakenOf
  <2> QED
    BY <1>9, <2>1
<1>19. TakenOf(s, C) = TakenOf(h, B) \ {i}
  BY <1>17, <1>18
<1>20. Keeps(h, B, {i}, s)
  BY <1>17, <1>18 DEF Keeps, TakenOf
<1> QED
  BY <1>17, <1>19, <1>20 DEF Gains

-----------------------------------------------------------------------------
(* A block that is handed out *)

\* Outside lo to hi all words but links of the blocks in A are the same.
UntouchedBut(h, A, lo, hi, s) == \A w \in Index : (w < lo \/ w >= hi) /\ NoLink(A, w) => s.array[w] = h.array[w]

\* The first of the blocks that take its place is taken, what may follow is available.
CutTo(s, i, N, hi) == IsTaken(s, i) /\ \A x \in N : x # i => IsAvail(s, x) /\ Right(s, x) = hi

LEMMA Cut ==
  ASSUME NEW h, HeapType(h), NEW B, Tagged(h, B), Joined(h, B), NEW i \in Int, i \in Available(h, B),
         NEW hi \in Int, hi = Right(h, i), NEW A, A = Available(h, B) \ {i},
         NEW s, HeapType(s), NEW N, N \subseteq i..hi - 1, i \in N, Fill(s, N, hi), CutTo(s, i, N, hi),
         NEW rank, Linked(s, A \cup (N \ {i}), rank), UntouchedBut(h, A, i, hi, s)
  PROVE  Grants(h, B, i, s)
<1> DEFINE C == N \cup Outside(B, i, hi)
<1>1. /\ B \subseteq Int /\ B \subseteq 0..End
      /\ \A a \in Available(h, B) : a \in B /\ a \in Int /\ a # End
      /\ i \in B /\ i # 0 /\ i # End /\ i < hi /\ hi \in B /\ IsAvail(h, i) /\ ~IsTaken(h, i)
  <2>1. i \in B /\ i # 0 /\ i # End /\ IsAvail(h, i)
    <3>1. i \in B /\ IsAvail(h, i)
      BY DEF Available
    <3>2. i # 0 /\ i # End
      BY AvailableApart
    <3> QED
      BY <3>1, <3>2
  <2>2. hi \in B /\ Size(h, i) \in Nat /\ Size(h, i) >= 2 /\ ~IsTaken(h, i)
    BY <2>1, BlockFacts
  <2> QED
    BY <2>1, <2>2, Places, AvailableApart DEF Right
<1>2. ASSUME NEW j \in Int, j \in B PROVE j \in Outside(B, i, hi) <=> j # i
  <2>1. i < j => hi <= j
    BY <1>1, <1>2, Disjoint
  <2> QED
    BY <1>1, <1>2, <2>1 DEF Outside
<1>3. ~IsAvail(h, hi)
  BY <1>1 DEF Joined
\* The words of another block that are no links stay.
<1>4. ASSUME NEW j \in Int, j \in B, j # i, NEW w \in Int, w \in j..Footer(h, j),
             j \in Available(h, B) => w = j \/ w = Footer(h, j)
      PROVE  s.array[w] = h.array[w]
  <2>1. w \in Index
    <3>1. Footer(h, j) \in Index /\ j \in 0..End
      BY <1>4, BlockFacts
    <3> QED
      BY <1>4, <3>1, Sizes
  <2>2. NoLink(A, w)
    <3> SUFFICES ASSUME NEW a \in Available(h, B) PROVE w # a + 1 /\ w # a + 2
      BY DEF NoLink
    <3>1. a \in Int
      BY <1>1
    <3> QED
      BY <1>4, <3>1, LinksApart
  <2>3. w < i \/ w >= hi
    <3>1. CASE j < i
      <4>1. Right(h, j) <= i /\ Size(h, j) \in Nat
        BY <1>1, <1>4, <3>1, Disjoint, BlockFacts
      <4> QED
        BY <1>4, <4>1 DEF Right, Footer
    <3>2. CASE j > i
      BY <1>1, <1>2, <1>4, <3>2, Disjoint
    <3> QED
      BY <1>4, <3>1, <3>2
  <2> QED
    BY <2>1, <2>2, <2>3 DEF UntouchedBut
<1>5. Tagged(s, C) /\ SameSizes(h, Outside(B, i, hi), s)
  <2>1. SameTags(h, Outside(B, i, hi), s)
    <3> SUFFICES ASSUME NEW j \in Int, j \in B, j # i PROVE s.array[j] = h.array[j] /\ s.array[Footer(h, j)] = h.array[j]
      BY <1>1, <1>2 DEF SameTags, Outside
    <3>1. j \in j..Footer(h, j) /\ Footer(h, j) \in j..Footer(h, j) /\ Footer(h, j) \in Int
      BY BlockFacts DEF Footer
    <3>2. h.array[Footer(h, j)] = h.array[j]
      BY DEF Tagged
    <3> QED
      BY <1>4, <3>1, <3>2
  <2> QED
    BY <1>1, <2>1, Retiled
<1>6. /\ \A j \in Outside(B, i, hi) : /\ j \in B /\ j \in Int /\ j # i
                                      /\ (IsAvail(s, j) <=> IsAvail(h, j)) /\ (IsTaken(s, j) <=> IsTaken(h, j))
                                      /\ Right(s, j) = Right(h, j)
      /\ \A j \in B : j # i => j \in Outside(B, i, hi)
  <2>1. \A j \in Outside(B, i, hi) : j \in B /\ j \in Int
    BY <1>1 DEF Outside
  <2> QED
    BY <1>1, <1>2, <1>5, <2>1 DEF SameSizes
<1>7. /\ IsTaken(s, i) /\ ~IsAvail(s, i)
      /\ \A x \in N : x # i => IsAvail(s, x) /\ ~IsTaken(s, x) /\ Right(s, x) = hi
  <2>1. \A x \in N : x \in Int /\ x \in C
    OBVIOUS
  <2>2. \A x \in N : IsAvail(s, x) <=> ~IsTaken(s, x)
    <3> HIDE DEF C
    <3> QED
      BY <1>5, <2>1, BlockFacts
  <2> QED
    BY <2>2 DEF CutTo
<1>8. Available(s, C) = A \cup (N \ {i})
  <2>1. \A j \in C : j \in Available(s, C) <=> j \in A \cup (N \ {i})
    <3> TAKE j \in C
    <3>1. CASE j \in N
      <4>1. j \notin A
        BY <1>1, <1>2, <3>1 DEF Outside
      <4> QED
        BY <1>7, <3>1, <4>1 DEF Available
    <3>2. CASE j \notin N
      BY <1>6, <3>2 DEF Available
    <3> QED
      BY <3>1, <3>2
  <2>2. \A j \in A \cup (N \ {i}) : j \in C
    BY <1>1, <1>6
  <2> QED
    BY <2>1, <2>2 DEF Available
<1>9. TakenOf(s, C) = TakenOf(h, B) \cup {i}
  <2>1. \A j \in N : IsTaken(s, j) <=> j = i
    BY <1>7
  <2>2. \A j \in TakenOf(s, C) : j \in TakenOf(h, B) \cup {i}
    BY <1>6, <2>1 DEF TakenOf
  <2>3. \A j \in TakenOf(h, B) : j # i /\ j \in TakenOf(s, C)
    BY <1>1, <1>6 DEF TakenOf
  <2>4. i \in TakenOf(s, C)
    BY <1>7 DEF TakenOf
  <2> QED
    BY <2>2, <2>3, <2>4
<1>10. Joined(s, C)
  <2> SUFFICES ASSUME NEW j \in C, IsAvail(s, j) PROVE ~IsAvail(s, Right(s, j))
    BY DEF Joined
  <2>1. hi # i /\ ~IsAvail(s, hi)
    BY <1>1, <1>3, <1>6
  <2>2. CASE j \in N
    BY <1>7, <2>1, <2>2
  <2>3. CASE j \notin N
    <3>1. j \in B /\ j \in Int /\ IsAvail(h, j) /\ Right(s, j) = Right(h, j) /\ j # End
      BY <1>1, <1>6, <2>3 DEF Available
    <3>2. ~IsAvail(h, Right(h, j)) /\ Right(h, j) \in B
      BY <3>1, BlockFacts DEF Joined
    <3> QED
      BY <1>6, <1>7, <3>1, <3>2
  <2> QED
    BY <2>2, <2>3
<1>11. Keeps(h, B, {}, s)
  <2> SUFFICES ASSUME NEW j \in B, IsTaken(h, j), NEW w \in j..Footer(h, j) PROVE s.array[w] = h.array[w]
    BY DEF Keeps
  <2>1. j \in Int /\ j # i
    BY <1>1
  <2>2. j \notin Available(h, B) /\ w \in Int
    <3>1. ~IsAvail(h, j) /\ Footer(h, j) \in Int
      BY <2>1, BlockFacts, Sizes
    <3> QED
      BY <2>1, <3>1 DEF Available
  <2> QED
    BY <1>4, <2>1, <2>2
<1> HIDE DEF C
<1> QED
  BY <1>5, <1>8, <1>9, <1>10, <1>11 DEF Sound, Grants

\* Taking a block hands out its first ints, and not many more.
LEMMA Handed ==
  ASSUME NEW h, NEW B, NEW rank, Sound(h, B, rank), NEW i \in Int, i \in Available(h, B),
         NEW ints \in Int, ints >= 4, ints <= Size(h, i), NEW s, s = Take(h, i, ints)
  PROVE  Grants(h, B, i, s) /\ Size(s, i) \in ints..ints + 3 /\ Size(s, i) <= Size(h, i)
<1>1. HeapType(h) /\ Tagged(h, B) /\ Joined(h, B) /\ Linked(h, Available(h, B), rank) /\ Apart(Available(h, B))
  <2>1. HeapType(h) /\ Tagged(h, B) /\ Joined(h, B) /\ Linked(h, Available(h, B), rank)
    BY DEF Sound
  <2> QED
    BY <2>1, AvailableApart
<1>2. PICK n \in Nat, hi \in Int, f \in Int :
        n = Size(h, i) /\ n >= 4 /\ hi = Right(h, i) /\ hi = i + n /\ hi <= End /\ f = hi - 1 /\ f \in Index
        /\ f = Footer(h, i)
  <2>1. i \in B /\ i # 0 /\ i # End
    <3>1. i \in B
      BY DEF Available
    <3> QED
      BY <1>1, <3>1, AvailableApart
  <2>2. Size(h, i) \in Nat /\ Size(h, i) >= 4 /\ Right(h, i) <= End /\ Footer(h, i) \in Index
    BY <1>1, <2>1, BlockFacts
  <2> QED
    BY <2>2 DEF Right, Footer
<1>3. i \in Index /\ i >= 2
  BY <1>1, ApartFacts
<1>4. PICK A : A = Available(h, B) \ {i}
  OBVIOUS
<1>5. \A a \in A : a \in Int /\ a \in B /\ a # i /\ a \in Available(h, B) /\ (a + 4 <= i \/ hi <= a)
  <2> SUFFICES ASSUME NEW a \in A PROVE a \in Int /\ a \in B /\ a # i /\ a \in Available(h, B) /\ (a + 4 <= i \/ hi <= a)
    OBVIOUS
  <2>1. a \in Int /\ a \in B /\ a # i /\ a \in Available(h, B)
    BY <1>1, <1>4, AvailableApart
  <2>2. i \in B
    BY DEF Available
  <2>3. i < a => hi <= a
    BY <1>1, <1>2, <2>1, <2>2, Disjoint
  <2>4. a < i => a + 4 <= i
    BY <1>1, <2>1 DEF Apart
  <2> QED
    BY <2>1, <2>3, <2>4
<1>6. PICK m : m = Remove(h, i)
  OBVIOUS
<1>7. PICK r : HeapType(m) /\ Linked(m, A, r) /\ Untouched(h, A, m)
  <2>1. HeapType(m) /\ Linked(m, Available(h, B) \ {i}, Less(Available(h, B), i, rank))
        /\ Untouched(h, Available(h, B) \ {i}, m)
    BY <1>1, <1>6, Unlinked
  <2> QED
    BY <1>4, <2>1
<1>8. CASE n - ints >= 4
  <2>1. PICK k \in Int, extra \in Int, g \in Int :
          k = i + ints /\ extra = n - ints /\ extra >= 4 /\ g = k - 1 /\ g \in Index /\ f = k + extra - 1
    BY <1>2, <1>3, <1>8, Sizes
  <2>2. PICK t : t = MakeTaken(m, i, ints)
    OBVIOUS
  <2>3. HeapType(t) /\ t.avail = m.avail
        /\ \A w \in Index : t.array[w] = IF w = i \/ w = g THEN -ints ELSE m.array[w]
    <3>1. g = LastOf(i, ints)
      BY <1>3, <2>1 DEF LastOf
    <3>2. i \in Index /\ g \in Index /\ HeapType(m)
      BY <1>3, <1>7, <2>1
    <3> QED
      BY <2>2, <3>1, <3>2, MakeTakenIs
  <2>4. Linked(t, A, r)
    <3>1. \A a \in A : t.array[a + 1] = m.array[a + 1] /\ t.array[a + 2] = m.array[a + 2]
      <4> TAKE a \in A
      <4>1. a + 1 \in Index /\ a + 2 \in Index
        BY <1>1, <1>5, ApartFacts
      <4>2. a + 1 # i /\ a + 1 # g /\ a + 2 # i /\ a + 2 # g
        BY <1>2, <1>5, <2>1
      <4> QED
        BY <2>3, <4>1, <4>2
    <3> QED
      BY <1>7, <2>3, <3>1, LinksStay
  <2>5. k \notin A /\ Apart(A \cup {k}) /\ NoLink(A, f)
    <3>1. \A a \in A : a + 4 <= k \/ k + 4 <= a
      BY <1>2, <1>5, <2>1
    <3>2. \A a \in A : f # a + 1 /\ f # a + 2
      BY <1>2, <1>5, <2>1
    <3>3. k \in 2..ArrayLen - 4
      BY <1>2, <1>3, <2>1, Sizes DEF End
    <3>4. k \notin A
      BY <1>2, <1>5, <2>1
    <3>5. A \subseteq 2..ArrayLen - 4 /\ \A a, b \in A : a = b \/ a + 4 <= b \/ b + 4 <= a
      BY <1>1, <1>4 DEF Apart
    <3> QED
      BY <3>1, <3>2, <3>3, <3>4, <3>5 DEF Apart, NoLink
  <2>6. s = MakeAvail(t, k, extra)
    BY <1>2, <1>6, <2>1, <2>2 DEF Take
  <2>7. HeapType(s) /\ Linked(s, A \cup {k}, Pushed(A, k, r)) /\ Written(t, A, k, f, extra, s)
    BY <1>2, <2>1, <2>3, <2>4, <2>5, <2>6, LinkedIn
  <2>8. /\ s.array[k] = extra /\ s.array[f] = extra
        /\ s.array[i] = -ints /\ s.array[g] = -ints
    <3>1. ASSUME NEW w \in Index, w = i \/ w = g PROVE s.array[w] = -ints
      <4>1. w # k /\ w # f /\ w < k
        BY <1>2, <2>1, <3>1
      <4>2. NoLink(A \cup {k}, w)
        BY <1>2, <1>5, <2>1, <3>1 DEF NoLink
      <4> QED
        BY <2>3, <2>7, <3>1, <4>1, <4>2 DEF Written
    <3> QED
      BY <1>3, <2>1, <2>7, <3>1 DEF Written
  <2>9. PICK N : N = {i, k}
    OBVIOUS
  <2>10. /\ Size(s, i) = ints /\ Right(s, i) = k /\ Footer(s, i) = g /\ IsTaken(s, i)
         /\ Size(s, k) = extra /\ Right(s, k) = hi /\ Footer(s, k) = f /\ IsAvail(s, k)
    BY <1>2, <2>1, <2>8 DEF Size, Abs, Right, Footer, IsTaken, IsAvail
  <2>11. Fill(s, N, hi) /\ CutTo(s, i, N, hi) /\ N \subseteq i..hi - 1 /\ i \in N
    <3>1. N \subseteq i..hi - 1 /\ i \in N
      BY <1>2, <2>1, <2>9
    <3>2. CutTo(s, i, N, hi)
      BY <2>9, <2>10 DEF CutTo
    <3>3. \A x \in N : /\ s.array[x] # 0 /\ s.array[Footer(s, x)] = s.array[x] /\ Size(s, x) >= 4
                       /\ Right(s, x) \in N \cup {hi}
                       /\ \A y \in N : y <= x \/ y >= Right(s, x)
      BY <1>2, <2>1, <2>8, <2>9, <2>10
    <3> QED
      BY <3>1, <3>2, <3>3 DEF Fill
  <2>12. PICK q : Linked(s, A \cup (N \ {i}), q)
    <3>1. A \cup (N \ {i}) = A \cup {k}
      BY <2>1, <2>9
    <3> QED
      BY <2>7, <3>1
  <2>13. UntouchedBut(h, A, i, hi, s)
    <3> SUFFICES ASSUME NEW w \in Index, w < i \/ w >= hi, NoLink(A, w) PROVE s.array[w] = h.array[w]
      BY DEF UntouchedBut
    <3>1. w # i /\ w # g /\ w # k /\ w # f /\ w # k + 1 /\ w # k + 2
      BY <1>2, <2>1, Sizes
    <3>2. NoLink(A \cup {k}, w)
      BY <3>1 DEF NoLink
    <3>3. s.array[w] = t.array[w]
      BY <2>7, <3>1, <3>2 DEF Written
    <3>4. t.array[w] = m.array[w]
      BY <2>3, <3>1
    <3> QED
      BY <1>7, <3>3, <3>4 DEF Untouched
  <2>14. Grants(h, B, i, s)
    BY <1>1, <1>2, <1>4, <2>7, <2>11, <2>12, <2>13, Cut
  <2> QED
    BY <1>2, <2>10, <2>14
<1>9. CASE ~(n - ints >= 4)
  <2>1. s = MakeTaken(m, i, n)
    BY <1>2, <1>6, <1>9 DEF Take
  <2>2. HeapType(s) /\ s.avail = m.avail
        /\ \A w \in Index : s.array[w] = IF w = i \/ w = f THEN -n ELSE m.array[w]
    <3>1. f = LastOf(i, n)
      BY <1>2, <1>3 DEF LastOf
    <3>2. i \in Index /\ f \in Index /\ HeapType(m) /\ n \in Int
      BY <1>2, <1>3, <1>7
    <3> QED
      BY <2>1, <3>1, <3>2, MakeTakenIs
  <2>3. Linked(s, A, r)
    <3>1. \A a \in A : s.array[a + 1] = m.array[a + 1] /\ s.array[a + 2] = m.array[a + 2]
      <4> TAKE a \in A
      <4>1. a + 1 \in Index /\ a + 2 \in Index
        BY <1>1, <1>5, ApartFacts
      <4>2. a + 1 # i /\ a + 1 # f /\ a + 2 # i /\ a + 2 # f
        BY <1>2, <1>5
      <4> QED
        BY <2>2, <4>1, <4>2
    <3> QED
      BY <1>7, <2>2, <3>1, LinksStay
  <2>4. PICK N : N = {i}
    OBVIOUS
  <2>5. Size(s, i) = n /\ Right(s, i) = hi /\ Footer(s, i) = f /\ IsTaken(s, i) /\ s.array[f] = -n /\ s.array[i] = -n
    BY <1>2, <1>3, <2>2 DEF Size, Abs, Right, Footer, IsTaken
  <2>6. Fill(s, N, hi) /\ CutTo(s, i, N, hi) /\ N \subseteq i..hi - 1 /\ i \in N
    BY <1>2, <2>4, <2>5 DEF Fill, CutTo
  <2>7. PICK q : Linked(s, A \cup (N \ {i}), q)
    <3>1. A \cup (N \ {i}) = A
      BY <2>4
    <3> QED
      BY <2>3, <3>1
  <2>8. UntouchedBut(h, A, i, hi, s)
    <3> SUFFICES ASSUME NEW w \in Index, w < i \/ w >= hi, NoLink(A, w) PROVE s.array[w] = h.array[w]
      BY DEF UntouchedBut
    <3>1. w # i /\ w # f
      BY <1>2, Sizes
    <3> QED
      BY <1>7, <2>2, <3>1 DEF Untouched
  <2>9. Grants(h, B, i, s)
    BY <1>1, <1>2, <1>4, <2>2, <2>6, <2>7, <2>8, Cut
  <2> QED
    BY <1>2, <1>9, <2>5, <2>9
<1> QED
  BY <1>8, <1>9

-----------------------------------------------------------------------------
(* Which block malloc takes *)

LEMMA MinIs ==
  ASSUME NEW T \in SUBSET Nat, T # {}
  PROVE  Min(T) \in T /\ \A x \in T : Min(T) <= x
<1>1. \E x \in T : \A y \in T : x <= y
  BY Least
<1> QED
  BY <1>1 DEF Min

LEMMA IntsForIs ==
  ASSUME NEW bytes \in Nat
  PROVE  IntsFor(bytes) \in Nat /\ IntsFor(bytes) >= 4 /\ 4 * (IntsFor(bytes) - 2) >= bytes
<1>1. PICK x \in Int : x = ((bytes + 3) \div 4) + 2 /\ 4 * (x - 2) >= bytes /\ x >= 0
  <2>1. PICK q \in Int : q = (bytes + 3) \div 4 /\ 4 * q >= bytes /\ q >= 0
    OBVIOUS
  <2> QED
    BY <2>1
<1>2. \E y \in {4, x} : \A z \in {4, x} : y >= z
  <2>1. CASE x >= 4
    BY <2>1
  <2>2. CASE x < 4
    BY <2>2
  <2> QED
    BY <1>1, <2>1, <2>2
<1>3. PICK y : y = Max({4, x}) /\ y \in {4, x} /\ y >= 4 /\ y >= x
  BY <1>2 DEF Max
<1>4. IntsFor(bytes) = y
  BY <1>1, <1>3 DEF IntsFor
<1> QED
  BY <1>1, <1>3, <1>4

\* A block that fits, if there is one.
Serves(h, B, ints, it) ==
  \/ it = 0 /\ \A a \in Available(h, B) : Size(h, a) < ints
  \/ it \in Available(h, B) /\ it \in Int /\ ints <= Size(h, it)

LEMMA BestFitServes ==
  ASSUME NEW h, NEW B, NEW rank, Sound(h, B, rank), NEW ints \in Int
  PROVE  Serves(h, B, ints, BestFit(h, ints))
<1> DEFINE link == Link(h)
           fits == {k \in 0..MaxBlocks : link[k] # 0 /\ Size(h, link[k]) >= ints}
           seen == {k \in fits : Cardinality({j \in fits : j <= k}) <= CountDown}
           best == {k \in seen : \A j \in seen : Size(h, link[k]) <= Size(h, link[j])}
<1>1. PICK A : A = Available(h, B)
  OBVIOUS
<1>2. Lists(h, A, link) /\ MaxBlocks \in Nat
  <2>1. HeapType(h) /\ Tagged(h, B) /\ Linked(h, Available(h, B), rank)
    BY DEF Sound
  <2>2. Apart(Available(h, B))
    BY <2>1, AvailableApart
  <2>3. MaxBlocks \in Nat
    BY Sizes DEF MaxBlocks
  <2> QED
    BY <1>1, <2>1, <2>2, <2>3, ListReaches
<1>3. \A a \in A : a \in Int /\ a # 0 /\ Size(h, a) \in Nat
  <2> SUFFICES ASSUME NEW a \in Available(h, B) PROVE a \in Int /\ a # 0 /\ Size(h, a) \in Nat
    BY <1>1
  <2>1. HeapType(h) /\ Tagged(h, B) /\ a \in B
    BY DEF Sound, Available
  <2>2. a \in Int /\ a # 0
    BY <2>1, AvailableApart
  <2> QED
    BY <2>1, <2>2, BlockFacts
<1>4. BestFit(h, ints) = IF fits = {} THEN 0 ELSE link[Min(best)]
  BY DEF BestFit
<1> HIDE DEF link
<1>5. /\ \A k \in fits : k \in Nat /\ link[k] \in A /\ Size(h, link[k]) >= ints
      /\ \A a \in A : Size(h, a) >= ints => fits # {}
      /\ fits \in SUBSET Nat
  <2>1. \A k \in 0..MaxBlocks : k \in Nat /\ link[k] \in A \cup {0}
    BY <1>2 DEF Lists
  <2>2. \A a \in A : \E k \in 0..MaxBlocks : link[k] = a
    BY <1>2 DEF Lists
  <2> QED
    BY <1>3, <2>1, <2>2
<1>6. CASE fits = {}
  BY <1>1, <1>3, <1>4, <1>5, <1>6 DEF Serves
<1>7. CASE fits # {}
  <2> HIDE DEF fits
  <2>1. PICK x \in fits : \A j \in fits : x <= j
    BY <1>5, <1>7, Least
  <2>2. x \in seen
    <3>1. {j \in fits : j <= x} = {x}
      <4>1. \A j \in fits : j <= x <=> j = x
        BY <1>5, <2>1
      <4> QED
        BY <4>1
    <3>2. Cardinality({x}) = 1 /\ 1 <= CountDown
      BY FS_Singleton, HeapAssumption
    <3>3. Cardinality({j \in fits : j <= x}) <= CountDown
      BY <3>1, <3>2
    <3> QED
      BY <2>1, <3>3
  <2>3. \A k \in seen : k \in fits /\ k \in Nat /\ Size(h, link[k]) \in Nat
    BY <1>3, <1>5
  <2> HIDE DEF seen
  <2> DEFINE T == {Size(h, link[k]) : k \in seen}
  <2>4. T \in SUBSET Nat /\ T # {}
    BY <2>2, <2>3
  <2>5. PICK z \in T : \A y \in T : z <= y
    <3> HIDE DEF T
    <3> QED
      BY <2>4, Least
  <2>6. PICK k \in seen : z = Size(h, link[k])
    BY <2>5
  <2>7. k \in best
    BY <2>5, <2>6
  <2>8. best \in SUBSET Nat /\ best # {}
    BY <2>3, <2>7
  <2>9. PICK m \in best : m = Min(best)
    <3> HIDE DEF best
    <3> QED
      BY <2>8, MinIs
  <2>10. m \in fits
    BY <2>3
  <2>11. BestFit(h, ints) = link[m]
    BY <1>4, <1>7, <2>9
  <2>12. link[m] \in A /\ link[m] \in Int /\ ints <= Size(h, link[m])
    BY <1>3, <1>5, <2>10
  <2> QED
    BY <1>1, <2>11, <2>12 DEF Serves
<1> QED
  BY <1>6, <1>7

-----------------------------------------------------------------------------
(* The best-fit heap always is sound, and users own the taken blocks *)

Owned(h, B, lv) ==
  /\ DOMAIN lv = {i + 1 : i \in TakenOf(h, B) \ {0, End}}
  /\ \A p \in DOMAIN lv : lv[p] \in Nat /\ 4 * (Size(h, p - 1) - 2) >= lv[p]

BestInv == failed \in Nat /\ \E B, rank : Sound(heap, B, rank) /\ Owned(heap, B, live)

LEMMA Holds ==
  ASSUME NEW h, NEW B, NEW rank, Sound(h, B, rank), NEW lv, Owned(h, B, lv)
  PROVE  /\ \A p \in DOMAIN lv : /\ p \in Int /\ p - 1 \in Int /\ p - 1 \in B /\ IsTaken(h, p - 1)
                                 /\ p - 1 # 0 /\ p - 1 # End
         /\ \A i \in TakenOf(h, B) : i \in Int /\ i \in B /\ (i # 0 /\ i # End => i + 1 \in DOMAIN lv)
         /\ 0 \in TakenOf(h, B) /\ End \in TakenOf(h, B)
<1>1. B \subseteq Int /\ 0 \in B /\ End \in B /\ IsTaken(h, 0) /\ IsTaken(h, End)
  <2>1. HeapType(h) /\ Tagged(h, B)
    BY DEF Sound
  <2>2. h.array[0] = -2 /\ h.array[End] = -2
    BY <2>1, Places
  <2> QED
    BY <2>1, <2>2, Places DEF IsTaken
<1> QED
  BY <1>1 DEF Owned, TakenOf

\* An invariant: what the run asks of the blocks and the list.
LEMMA BestSound ==
  ASSUME BestInv
  PROVE  Tiled /\ ListsAvailable
<1>1. PICK B, rank : Sound(heap, B, rank) /\ Owned(heap, B, live)
  BY DEF BestInv
<1>2. HeapType(heap) /\ Tagged(heap, B) /\ Joined(heap, B) /\ Linked(heap, Available(heap, B), rank)
  BY <1>1 DEF Sound
<1>3. Blocks = B
  BY <1>2, BlocksAre
<1>4. Tiled
  <2>1. \A i \in B : /\ i \in Int /\ heap.array[i] # 0 /\ heap.array[Footer(heap, i)] = heap.array[i]
                     /\ IsAvail(heap, i) => Size(heap, i) >= 4 /\ ~IsAvail(heap, Right(heap, i))
    <3> SUFFICES ASSUME NEW i \in B
                 PROVE  /\ i \in Int /\ heap.array[i] # 0 /\ heap.array[Footer(heap, i)] = heap.array[i]
                        /\ IsAvail(heap, i) => Size(heap, i) >= 4 /\ ~IsAvail(heap, Right(heap, i))
      OBVIOUS
    <3>1. i \in Int
      BY <1>2, Places
    <3>2. heap.array[i] # 0 /\ heap.array[Footer(heap, i)] = heap.array[i]
      BY <1>2 DEF Tagged
    <3>3. IsAvail(heap, i) => Size(heap, i) >= 4
      BY <1>2, <3>1, BlockFacts
    <3> QED
      BY <1>2, <3>1, <3>2, <3>3 DEF Joined
  <2>2. {0, End} \subseteq {i \in B : heap.array[i] = -2} /\ End \in B
    BY <1>2, Places
  <2>3. {p - 1 : p \in DOMAIN live} = {i \in B \ {0, End} : IsTaken(heap, i)}
    <3>1. \A p \in DOMAIN live : p - 1 \in B /\ p - 1 # 0 /\ p - 1 # End /\ IsTaken(heap, p - 1)
      BY <1>1, Holds
    <3>2. \A i \in B : IsTaken(heap, i) /\ i # 0 /\ i # End => i + 1 \in DOMAIN live /\ i \in Int /\ (i + 1) - 1 = i
      BY <1>1, <2>1, Holds DEF TakenOf
    <3> QED
      BY <3>1, <3>2
  <2>4. \A p \in DOMAIN live : 4 * (Size(heap, p - 1) - 2) >= live[p]
    BY <1>1 DEF Owned
  <2> QED
    BY <1>3, <2>1, <2>2, <2>3, <2>4 DEF Tiled, End
<1>5. ListsAvailable
  <2> DEFINE link == Link(heap)
             listed == {k \in 0..MaxBlocks : link[k] # 0}
             image == {link[k] : k \in listed}
  <2>1. PICK A : A = Available(heap, B)
    OBVIOUS
  <2>2. Lists(heap, A, link) /\ 0 \notin A
    <3>1. Apart(Available(heap, B))
      BY <1>2, AvailableApart
    <3> QED
      BY <1>2, <2>1, <3>1, ListReaches, ApartFacts
  <2> HIDE DEF link
  <2>3. image = A
    BY <2>2 DEF Lists
  <2>4. A = {i \in Blocks : IsAvail(heap, i)}
    BY <1>3, <2>1 DEF Available
  <2>5. Cardinality(listed) = Cardinality(image)
    <3> DEFINE f == [k \in listed |-> link[k]]
    <3>1. \A j, k \in listed : link[j] = link[k] => j = k
      BY <2>2 DEF Lists
    <3>2. f \in Surjection(listed, image) /\ f \in Injection(listed, image)
      <4>1. f \in [listed -> image] /\ \A t \in image : \E k \in listed : f[k] = t
        OBVIOUS
      <4>2. \A j, k \in DOMAIN f : f[j] = f[k] => j = k
        BY <3>1
      <4> HIDE DEF f, image, listed
      <4> QED
        BY <4>1, <4>2 DEF Surjection, Injection, IsInjective
    <3>3. IsFiniteSet(listed)
      <4>1. MaxBlocks \in Int
        BY Sizes DEF MaxBlocks
      <4>2. IsFiniteSet(0..MaxBlocks)
        BY <4>1, FS_Interval
      <4>3. listed \subseteq 0..MaxBlocks
        OBVIOUS
      <4> HIDE DEF listed
      <4> QED
        BY <4>2, <4>3, FS_Subset
    <3> HIDE DEF f, image, listed
    <3> QED
      BY <3>2, <3>3, FS_Surjection
  <2>6. \A k \in listed : PrevOf(heap, link[k]) = IF k = 0 THEN 0 ELSE link[k - 1]
    BY <2>2 DEF Lists
  <2> QED
    BY <2>3, <2>4, <2>5, <2>6 DEF link, ListsAvailable
<1> QED
  BY <1>4, <1>5

LEMMA BestInit == Init => BestInv
<1> SUFFICES ASSUME Init PROVE BestInv
  OBVIOUS
<1>1. PICK e : e = Empty
  OBVIOUS
<1>2. HeapType(e) /\ e.avail = 0 /\ \A w \in Index : e.array[w] = 0
  BY <1>1 DEF Empty, HeapType
<1>3. PICK n \in Int : n = ArrayLen - 4 /\ n >= 4 /\ End = n + 2 /\ 2 + n - 1 \in Index /\ 0 \in Index /\ 1 \in Index /\ 2 \in Index
                       /\ End \in Index /\ End + 1 \in Index /\ 0 + 2 - 1 = 1 /\ End + 2 - 1 = End + 1 /\ End \in Int
  BY Sizes DEF End
<1>4. PICK a : a = MakeTaken(e, 0, 2)
  OBVIOUS
<1>5. HeapType(a) /\ a.avail = 0 /\ \A w \in Index : a.array[w] = IF w = 0 \/ w = 1 THEN -2 ELSE 0
  <2>1. a = [e EXCEPT !.array[0] = -2, !.array[1] = -2] /\ -2 \in Int
    BY <1>3, <1>4 DEF MakeTaken
  <2> QED
    BY <1>2, <1>3, <2>1 DEF HeapType
<1>6. PICK b : b = MakeAvail(a, 2, n)
  OBVIOUS
<1>7. /\ HeapType(b) /\ b.avail = 2
      /\ \A w \in Index : b.array[w] = IF w = 4 THEN 0 ELSE IF w = 3 THEN 0 ELSE IF w = 2 \/ w = n + 1 THEN n ELSE a.array[w]
  <2>1. PICK i \in Index : i = 2
    BY <1>3
  <2>2. b = MakeAvail(a, i, n) /\ HeapType(a) /\ n >= 4
    BY <1>3, <1>5, <1>6, <2>1
  <2>3. PICK f \in Index : f = LastOf(i, n) /\ f = n + 1
    BY <1>3, <2>1 DEF LastOf
  <2>4. PICK g \in Int : g = a.avail /\ g = 0 /\ Linkable(g)
    BY <1>5 DEF Linkable
  <2>5. /\ HeapType(b) /\ b.avail = i
        /\ \A w \in Index : b.array[w] =
             IF g # 0 /\ w = g + 2 THEN i
             ELSE IF i # 0 /\ w = i + 2 THEN 0
             ELSE IF w = i + 1 THEN g
             ELSE IF w = i \/ w = f THEN n ELSE a.array[w]
    <3>1. MadeAvail(a, i, n, f, g, b)
      BY <2>2, <2>3, <2>4 DEF MadeAvail
    <3> QED
      BY <3>1, MakeAvailIs
  <2> QED
    BY <1>3, <1>5, <2>1, <2>3, <2>4, <2>5
<1>8. heap = MakeTaken(b, End, 2)
  BY <1>1, <1>3, <1>4, <1>6 DEF Init, End
<1>9. HeapType(heap) /\ heap.avail = 2 /\ \A w \in Index : heap.array[w] = IF w = End \/ w = End + 1 THEN -2 ELSE b.array[w]
  <2>1. heap = [b EXCEPT !.array[End] = -2, !.array[End + 1] = -2] /\ -2 \in Int
    BY <1>3, <1>8 DEF MakeTaken
  <2> QED
    BY <1>3, <1>7, <2>1 DEF HeapType
<1>10. /\ heap.array[0] = -2 /\ heap.array[1] = -2 /\ heap.array[End] = -2 /\ heap.array[End + 1] = -2
       /\ heap.array[2] = n /\ heap.array[n + 1] = n /\ heap.array[3] = 0 /\ heap.array[4] = 0
  <2>1. \A w \in Index : w # End /\ w # End + 1 => heap.array[w] = b.array[w]
    BY <1>9
  <2>2. 3 \in Index /\ 4 \in Index /\ n + 1 \in Index
    BY <1>3, Sizes DEF End
  <2>3. b.array[0] = -2 /\ b.array[1] = -2 /\ b.array[2] = n /\ b.array[n + 1] = n /\ b.array[3] = 0 /\ b.array[4] = 0
    BY <1>3, <1>5, <1>7, <2>2
  <2> QED
    BY <1>3, <1>9, <2>1, <2>2, <2>3
<1>11. PICK B : B = {0, 2, End}
  OBVIOUS
<1>12. /\ Size(heap, 0) = 2 /\ Size(heap, 2) = n /\ Size(heap, End) = 2
       /\ Right(heap, 0) = 2 /\ Right(heap, 2) = End /\ Footer(heap, 0) = 1 /\ Footer(heap, 2) = n + 1 /\ Footer(heap, End) = End + 1
       /\ Right(heap, End) = End + 2
       /\ ~IsAvail(heap, 0) /\ IsAvail(heap, 2) /\ ~IsAvail(heap, End)
       /\ IsTaken(heap, 0) /\ ~IsTaken(heap, 2) /\ IsTaken(heap, End)
  <2>1. /\ ~IsAvail(heap, 0) /\ IsAvail(heap, 2) /\ ~IsAvail(heap, End)
        /\ IsTaken(heap, 0) /\ ~IsTaken(heap, 2) /\ IsTaken(heap, End)
    BY <1>3, <1>10 DEF IsAvail, IsTaken
  <2>2. Abs(-2) = 2 /\ Abs(n) = n
    <3>1. \A x \in Int : Abs(x) = IF x < 0 THEN -x ELSE x
      BY DEF Abs
    <3>2. PICK x \in Int : x = -2
      OBVIOUS
    <3>3. Abs(x) = 2 /\ Abs(n) = n
      BY <1>3, <3>1, <3>2
    <3> QED
      BY <3>2, <3>3
  <2>3. Size(heap, 0) = 2 /\ Size(heap, 2) = n /\ Size(heap, End) = 2
    BY <1>10, <2>2 DEF Size
  <2> QED
    BY <1>3, <2>1, <2>3 DEF Right, Footer
<1>13. Tagged(heap, B) /\ Joined(heap, B)
  <2>1. B \subseteq 0..End /\ 0 \in B /\ End \in B
    BY <1>3, <1>11
  <2>2. \A i \in B :
          /\ heap.array[i] # 0 /\ heap.array[Footer(heap, i)] = heap.array[i]
          /\ i # 0 /\ i # End => Size(heap, i) >= 4
          /\ i # End => Right(heap, i) \in B
          /\ \A j \in B : j <= i \/ j >= Right(heap, i)
    BY <1>3, <1>10, <1>11, <1>12
  <2>3. \A i \in B : IsAvail(heap, i) => ~IsAvail(heap, Right(heap, i))
    BY <1>11, <1>12
  <2> QED
    BY <1>10, <2>1, <2>2, <2>3 DEF Tagged, Joined
<1>14. Available(heap, B) = {2} /\ TakenOf(heap, B) = {0, End}
  BY <1>3, <1>11, <1>12 DEF Available, TakenOf
<1>15. PICK rank : rank = [x \in {2} |-> 0]
  OBVIOUS
<1>16. Linked(heap, {2}, rank)
  <2>1. NextOf(heap, 2) = 0 /\ PrevOf(heap, 2) = 0
    BY <1>10 DEF NextOf, PrevOf
  <2>2. rank \in [{2} -> Nat]
    BY <1>15
  <2> QED
    BY <1>9, <2>1, <2>2 DEF Linked
<1>17. Sound(heap, B, rank)
  BY <1>9, <1>13, <1>14, <1>16 DEF Sound
<1>18. Owned(heap, B, live)
  BY <1>14 DEF Init, Owned
<1> QED
  BY <1>17, <1>18 DEF BestInv, Init

\* The words of blocks that users hold.
Covers(h, B, x) == \E b \in TakenOf(h, B) \ {0, End} : x \in b..Footer(h, b)

Unheld(h, B, lo, hi) == \A x \in lo..hi : ~Covers(h, B, x)
Fitting(h, B, n) == \E a \in Available(h, B) : Size(h, a) >= n

\* What lies between the blocks that users hold lies in one available block.
LEMMA Gap ==
  ASSUME NEW h, NEW B, NEW rank, Sound(h, B, rank),
         NEW lo \in Int, NEW hi \in Int, 2 <= lo, lo <= hi, hi < End,
         Unheld(h, B, lo, hi), NEW n \in Int, n = hi - lo + 1
  PROVE  Fitting(h, B, n)
<1> USE DEF Unheld
<1>1. HeapType(h) /\ Tagged(h, B) /\ Joined(h, B)
  BY DEF Sound
<1>2. PICK a \in Int : a \in B /\ a <= lo /\ lo <= Footer(h, a)
  <2>1. lo \in Index
    BY Sizes DEF End
  <2>2. B \subseteq Int
    BY <1>1, Places
  <2> QED
    BY <1>1, <2>1, <2>2, Covered
<1>3. a # 0 /\ a # End /\ Footer(h, a) = a + Size(h, a) - 1 /\ Right(h, a) = a + Size(h, a) /\ Size(h, a) \in Nat
  <2>1. Size(h, a) \in Nat /\ (a = 0 => Size(h, a) = 2)
    BY <1>1, <1>2, BlockFacts
  <2> QED
    BY <1>2, <2>1, Sizes DEF Footer, Right
<1>4. IsAvail(h, a)
  <2> SUFFICES ASSUME ~IsAvail(h, a) PROVE FALSE
    OBVIOUS
  <2>1. a \in TakenOf(h, B) \ {0, End}
    BY <1>1, <1>2, <1>3, BlockFacts DEF TakenOf
  <2>2. lo \in a..Footer(h, a) /\ lo \in lo..hi
    BY <1>2, <1>3
  <2> QED
    BY <2>1, <2>2 DEF Covers
<1>5. PICK r \in Int : r = Right(h, a) /\ r \in B /\ ~IsAvail(h, r) /\ r > lo /\ r # 0
  BY <1>1, <1>2, <1>3, <1>4, BlockFacts DEF Joined
<1>6. r > hi
  <2> SUFFICES ASSUME r <= hi PROVE FALSE
    BY <1>5
  <2>1. r \in TakenOf(h, B) \ {0, End}
    BY <1>1, <1>5, BlockFacts, Sizes DEF TakenOf
  <2>2. r \in r..Footer(h, r) /\ r \in lo..hi
    <3>1. Size(h, r) \in Nat /\ Size(h, r) >= 2
      BY <1>1, <1>5, BlockFacts
    <3> QED
      BY <1>5, <3>1 DEF Footer
  <2> QED
    BY <2>1, <2>2 DEF Covers
<1>7. a \in Available(h, B) /\ Size(h, a) >= n
  BY <1>2, <1>3, <1>4, <1>5, <1>6 DEF Available
<1> QED
  BY <1>7 DEF Fitting

\* The allocator that users see, by the blocks.
LEMMA Mapped ==
  ASSUME NEW h, NEW B, NEW rank, Sound(h, B, rank), NEW lv, Owned(h, B, lv)
  PROVE  {p - 1 : p \in DOMAIN lv} = TakenOf(h, B) \ {0, End}
<1>1. \A p \in DOMAIN lv : p - 1 \in TakenOf(h, B) \ {0, End}
  BY Holds DEF TakenOf
<1>2. \A i \in TakenOf(h, B) \ {0, End} : i + 1 \in DOMAIN lv /\ (i + 1) - 1 = i
  BY Holds
<1> QED
  BY <1>1, <1>2

LEMMA UsedIs ==
  ASSUME NEW B, NEW rank, Sound(heap, B, rank), Owned(heap, B, live)
  PROVE  \A x : x \in AsAllocator!Used <=> Covers(heap, B, x)
<1>1. {p - 1 : p \in DOMAIN live} = TakenOf(heap, B) \ {0, End}
  BY Mapped
<1>2. \A b \in TakenOf(heap, B) : Footer(heap, b) = b + Size(heap, b) - 1
  BY DEF Footer
<1> QED
  BY <1>1, <1>2 DEF AsAllocator!Used, Covers

\* The blocks that stay taken are as long as before.
LEMMA SizesStay ==
  ASSUME NEW h, NEW B, NEW rank, Sound(h, B, rank), NEW D, NEW s, Keeps(h, B, D, s)
  PROVE  \A j \in TakenOf(h, B) \ D : Size(s, j) = Size(h, j) /\ Footer(s, j) = Footer(h, j)
<1> SUFFICES ASSUME NEW j \in TakenOf(h, B) \ D PROVE Size(s, j) = Size(h, j) /\ Footer(s, j) = Footer(h, j)
  OBVIOUS
<1>1. HeapType(h) /\ Tagged(h, B) /\ j \in B /\ j \in Int /\ IsTaken(h, j)
  <2>1. HeapType(h) /\ Tagged(h, B)
    BY DEF Sound
  <2> QED
    BY <2>1, Places DEF TakenOf
<1>2. Size(h, j) \in Nat /\ Size(h, j) >= 2
  BY <1>1, BlockFacts
<1>3. j \in j..Footer(h, j)
  BY <1>1, <1>2 DEF Footer
<1>4. s.array[j] = h.array[j]
  BY <1>1, <1>3 DEF Keeps
<1> QED
  BY <1>4 DEF Size, Footer

\* What users hold stays where it is, for those who hold it before and after.
LEMMA Payload ==
  ASSUME NEW h, NEW B, NEW rank, Sound(h, B, rank), NEW lv, Owned(h, B, lv), NEW D, NEW s, Keeps(h, B, D, s)
  PROVE  \A p \in DOMAIN lv : p - 1 \notin D => \A w \in p..Footer(h, p - 1) - 1 : s.array[w] = h.array[w]
<1> SUFFICES ASSUME NEW p \in DOMAIN lv, p - 1 \notin D, NEW w \in p..Footer(h, p - 1) - 1
             PROVE  s.array[w] = h.array[w]
  OBVIOUS
<1>1. PICK j \in Int : j = p - 1 /\ j \in B /\ IsTaken(h, j) /\ p \in Int /\ p = j + 1
  BY Holds
<1>2. Footer(h, j) \in Int
  <2>1. HeapType(h) /\ Tagged(h, B)
    BY DEF Sound
  <2> QED
    BY <1>1, <2>1, BlockFacts, Sizes
<1>3. w \in j..Footer(h, j)
  BY <1>1, <1>2
<1> QED
  BY <1>1, <1>3 DEF Keeps

LEMMA BestMalloc ==
  ASSUME BestInv, NEW bytes \in Nat, Malloc(bytes)
  PROVE  BestInv' /\ KeepsPayload /\ AsAllocator!Next
<1>1. PICK B, rank : Sound(heap, B, rank) /\ Owned(heap, B, live)
  BY DEF BestInv
<1>2. PICK ints \in Nat : ints = IntsFor(bytes) /\ ints >= 4 /\ 4 * (ints - 2) >= bytes
  BY IntsForIs
<1>3. PICK it : it = BestFit(heap, ints)
  OBVIOUS
<1>4. Serves(heap, B, ints, it)
  BY <1>1, <1>3, BestFitServes
<1>5. IF it # 0
        THEN /\ heap' = Take(heap, it, ints)
             /\ live' = [p \in DOMAIN live \cup {it + 1} |-> IF p = it + 1 THEN bytes ELSE live[p]]
             /\ failed' = 0
        ELSE failed' = ints /\ heap' = heap /\ live' = live
  BY <1>2, <1>3 DEF Malloc
<1>6. HeapType(heap) /\ Tagged(heap, B)
  BY <1>1 DEF Sound
<1>7. PICK U : U = TakenOf(heap, B) \ {0, End}
  OBVIOUS
<1>8. {p - 1 : p \in DOMAIN live} = U
  BY <1>1, <1>7, Mapped
<1>9. CASE it = 0
  <2>1. failed' = ints /\ heap' = heap /\ live' = live /\ \A a \in Available(heap, B) : Size(heap, a) < ints
    <3>1. 0 \notin Available(heap, B)
      BY <1>6, AvailableApart
    <3> QED
      BY <1>4, <1>5, <1>9, <3>1 DEF Serves
  <2>2. BestInv' /\ KeepsPayload
    BY <1>1, <2>1 DEF BestInv, KeepsPayload
  <2>3. \A b \in 2..ArrayLen - 3 - ints + 1 : (b..b + ints - 1) \cap AsAllocator!Used # {}
    <3> SUFFICES ASSUME NEW b \in 2..ArrayLen - 3 - ints + 1, (b..b + ints - 1) \cap AsAllocator!Used = {}
                 PROVE  FALSE
      OBVIOUS
    <3>1. PICK last \in Int : last = b + ints - 1 /\ b <= last /\ last < End /\ 2 <= b /\ ints = last - b + 1
      BY <1>2, Sizes DEF End
    <3>2. Unheld(heap, B, b, last)
      BY <1>1, <3>1, UsedIs DEF Unheld
    <3>3. Fitting(heap, B, ints)
      BY <1>1, <3>1, <3>2, Gap
    <3>4. \A a \in Available(heap, B) : Size(heap, a) \in Int
      <4> SUFFICES ASSUME NEW a \in Available(heap, B) PROVE Size(heap, a) \in Int
        OBVIOUS
      <4>1. a \in B /\ a \in Int
        BY <1>6, AvailableApart
      <4> QED
        BY <1>6, <4>1, BlockFacts
    <3> QED
      BY <2>1, <3>3, <3>4 DEF Fitting
  <2>4. AsAllocator!GiveUp
    BY <1>2, <2>1, <2>3 DEF AsAllocator!GiveUp
  <2> QED
    BY <2>2, <2>4 DEF AsAllocator!Next
<1>10. CASE it # 0
  <2>1. it \in Available(heap, B) /\ it \in Int /\ ints <= Size(heap, it)
    BY <1>4, <1>10 DEF Serves
  <2>2. /\ heap' = Take(heap, it, ints) /\ failed' = 0
        /\ live' = [p \in DOMAIN live \cup {it + 1} |-> IF p = it + 1 THEN bytes ELSE live[p]]
    BY <1>5, <1>10
  <2>3. /\ it \in B /\ it >= 2 /\ it # End /\ it # 0 /\ IsAvail(heap, it) /\ Size(heap, it) \in Nat
        /\ it + Size(heap, it) <= End /\ it \notin U
    <3>1. it \in B /\ it >= 2 /\ it # End
      BY <1>6, <2>1, AvailableApart
    <3>2. IsAvail(heap, it)
      BY <2>1 DEF Available
    <3> QED
      BY <1>6, <1>7, <2>1, <3>1, <3>2, BlockFacts DEF TakenOf, Right
  <2>4. Grants(heap, B, it, heap') /\ Size(heap', it) \in ints..ints + 3 /\ Size(heap', it) <= Size(heap, it)
    BY <1>1, <1>2, <2>1, <2>2, Handed
  <2>5. PICK C, r : Sound(heap', C, r) /\ TakenOf(heap', C) = TakenOf(heap, B) \cup {it} /\ Keeps(heap, B, {}, heap')
    BY <2>4 DEF Grants
  <2>6. \A j \in U : Size(heap', j) = Size(heap, j) /\ j # it
    BY <1>1, <1>7, <2>3, <2>5, SizesStay
  <2>7. Owned(heap', C, live')
    <3>1. DOMAIN live' = {i + 1 : i \in TakenOf(heap', C) \ {0, End}}
      <4>1. DOMAIN live = {i + 1 : i \in TakenOf(heap, B) \ {0, End}}
        BY <1>1 DEF Owned
      <4>2. TakenOf(heap', C) \ {0, End} = (TakenOf(heap, B) \ {0, End}) \cup {it}
        BY <2>3, <2>5
      <4> QED
        BY <2>2, <4>1, <4>2
    <3>2. ASSUME NEW p \in DOMAIN live' PROVE live'[p] \in Nat /\ 4 * (Size(heap', p - 1) - 2) >= live'[p]
      <4>1. CASE p = it + 1
        <5>1. PICK z \in Int : z = Size(heap', it) /\ z >= ints
          BY <2>4
        <5>2. live'[p] = bytes /\ p - 1 = it
          BY <2>1, <2>2, <4>1
        <5> QED
          BY <1>2, <5>1, <5>2
      <4>2. CASE p # it + 1
        <5>1. p \in DOMAIN live /\ live'[p] = live[p]
          BY <2>2, <4>2
        <5>2. p - 1 \in U
          BY <1>8, <5>1
        <5> QED
          BY <1>1, <2>6, <5>1, <5>2 DEF Owned
      <4> QED
        BY <4>1, <4>2
    <3> QED
      BY <3>1, <3>2 DEF Owned
  <2>8. BestInv'
    BY <2>2, <2>5, <2>7 DEF BestInv
  <2>9. KeepsPayload
    BY <1>1, <2>5, Payload DEF KeepsPayload
  <2>10. PICK n \in Int : n = Size(heap', it) /\ n \in ints..ints + 3 /\ it + n - 1 <= ArrayLen - 3
    BY <1>2, <2>1, <2>3, <2>4, Sizes DEF End
  <2>11. {p - 1 : p \in DOMAIN live'} = U \cup {it}
    <3>1. \A p \in DOMAIN live : p \in Int
      BY <1>1, Holds
    <3>2. DOMAIN live' = DOMAIN live \cup {it + 1} /\ (it + 1) - 1 = it
      BY <2>1, <2>2
    <3> QED
      BY <1>8, <3>2
  <2>12. (it..it + n - 1) \cap AsAllocator!Used = {}
    <3> SUFFICES ASSUME NEW x \in Int, x \in it..it + n - 1, Covers(heap, B, x) PROVE FALSE
      BY <1>1, UsedIs
    <3>1. PICK b \in TakenOf(heap, B) \ {0, End} : x \in b..Footer(heap, b)
      BY DEF Covers
    <3>2. b \in B /\ b \in Int /\ b # it /\ Size(heap, b) \in Nat
      <4>1. b \in B /\ b \in Int /\ b # it
        BY <1>1, <1>7, <2>3, Holds
      <4> QED
        BY <1>6, <4>1, BlockFacts
    <3>3. (b < it => Right(heap, b) <= it) /\ (it < b => Right(heap, it) <= b)
      BY <1>6, <2>1, <2>3, <3>2, Disjoint
    <3> QED
      BY <2>1, <2>3, <2>4, <2>10, <3>1, <3>2, <3>3 DEF Right, Footer
  <2>13. PICK M : M = [b \in U |-> Size(heap, b)]
    OBVIOUS
  <2>14. [b \in U \cup {it} |-> Size(heap', b)] = [c \in U \cup {it} |-> IF c = it THEN n ELSE M[c]]
    BY <2>6, <2>10, <2>13
  <2>15. ints \in 1..ArrayLen - 3 /\ it \in 2..ArrayLen - 3
    BY <1>2, <2>1, <2>3, Sizes DEF End
  <2>16. AsAllocator!Malloc(ints)
    BY <1>8, <2>2, <2>3, <2>10, <2>11, <2>12, <2>13, <2>14, <2>15 DEF AsAllocator!Malloc
  <2> QED
    BY <2>8, <2>9, <2>15, <2>16 DEF AsAllocator!Next
<1> QED
  BY <1>9, <1>10

LEMMA BestFree ==
  ASSUME BestInv, NEW p \in DOMAIN live, Free(p)
  PROVE  BestInv' /\ KeepsPayload /\ AsAllocator!Next
<1>1. PICK B, rank : Sound(heap, B, rank) /\ Owned(heap, B, live)
  BY DEF BestInv
<1>2. PICK i \in Int : i = p - 1 /\ p = i + 1 /\ i \in B /\ i # 0 /\ i # End /\ IsTaken(heap, i)
  BY <1>1, Holds
<1>3. heap' = Release(heap, i) /\ live' = [q \in DOMAIN live \ {p} |-> live[q]] /\ failed' = 0
  BY <1>2 DEF Free
<1>4. Gains(heap, B, {i}, heap')
  BY <1>1, <1>2, <1>3, Released
<1>5. PICK C, r : Sound(heap', C, r) /\ TakenOf(heap', C) = TakenOf(heap, B) \ {i} /\ Keeps(heap, B, {i}, heap')
  BY <1>4 DEF Gains
<1>6. PICK U : U = TakenOf(heap, B) \ {0, End}
  OBVIOUS
<1>7. {q - 1 : q \in DOMAIN live} = U /\ \A q \in DOMAIN live : q \in Int /\ q - 1 \in U /\ (q - 1 = i <=> q = p)
  BY <1>1, <1>2, <1>6, Mapped, Holds
<1>8. \A j \in U \ {i} : Size(heap', j) = Size(heap, j)
  BY <1>1, <1>5, <1>6, SizesStay
<1>9. {q - 1 : q \in DOMAIN live'} = U \ {i}
  <2>1. DOMAIN live' = DOMAIN live \ {p}
    BY <1>3
  <2> QED
    BY <1>7, <2>1
<1>10. Owned(heap', C, live')
  <2>1. DOMAIN live' = {j + 1 : j \in TakenOf(heap', C) \ {0, End}}
    <3>1. TakenOf(heap', C) \ {0, End} = U \ {i}
      BY <1>2, <1>5, <1>6
    <3>2. \A q \in DOMAIN live : (q - 1) + 1 = q
      BY <1>7
    <3>3. \A j \in U : j + 1 \in DOMAIN live /\ (j + 1) - 1 = j
      BY <1>1, <1>6, Holds
    <3> QED
      BY <1>3, <1>7, <3>1, <3>2, <3>3
  <2>2. \A q \in DOMAIN live' : live'[q] \in Nat /\ 4 * (Size(heap', q - 1) - 2) >= live'[q]
    <3> SUFFICES ASSUME NEW q \in DOMAIN live' PROVE live'[q] \in Nat /\ 4 * (Size(heap', q - 1) - 2) >= live'[q]
      OBVIOUS
    <3>1. q \in DOMAIN live /\ q # p /\ live'[q] = live[q]
      BY <1>3
    <3>2. q - 1 \in U \ {i}
      BY <1>7, <3>1
    <3> QED
      BY <1>1, <1>8, <3>1, <3>2 DEF Owned
  <2> QED
    BY <2>1, <2>2 DEF Owned
<1>11. BestInv'
  BY <1>3, <1>5, <1>10 DEF BestInv
<1>12. KeepsPayload
  <2> SUFFICES ASSUME NEW q \in DOMAIN live, q \in DOMAIN live' PROVE \A w \in q..Footer(heap, q - 1) - 1 : heap'.array[w] = heap.array[w]
    BY DEF KeepsPayload
  <2>1. q - 1 \notin {i}
    BY <1>3, <1>7
  <2> QED
    BY <1>1, <1>5, <2>1, Payload
<1>13. AsAllocator!Free(i)
  <2>1. [b \in U \ {i} |-> Size(heap', b)] = [c \in U \ {i} |-> [b \in U |-> Size(heap, b)][c]]
    BY <1>8
  <2> QED
    BY <1>3, <1>7, <1>9, <2>1 DEF AsAllocator!Free
<1>14. i \in {q - 1 : q \in DOMAIN live}
  BY <1>2
<1>15. i \in DOMAIN [b \in {q - 1 : q \in DOMAIN live} |-> Size(heap, b)]
  BY <1>14
<1> QED
  BY <1>11, <1>12, <1>13, <1>15 DEF AsAllocator!Next

-----------------------------------------------------------------------------
(* The first-fit heap: what a heap is.  It has no guards: behind the last block *)
(* the words are over.                                                          *)

Bound == Words + 1
FirstIndex == 1..Words

FirstType(h) == h \in [word : [FirstIndex -> Int], freehead : Int]

After(h, i) == i + F!payload(h, i) + 2

FirstTagged(h, B) ==
  /\ B \subseteq 1..Words /\ 1 \in B
  /\ \A i \in B :
       /\ F!payload(h, i) >= 2 /\ h.word[F!findFooter(h, i)] = h.word[i]
       /\ After(h, i) \in B \cup {Bound}
       /\ \A j \in B : j <= i \/ j >= After(h, i)

FreeOf(h, B) == {i \in B : F!isfree(h, i)}
FirstJoined(h, B) == \A i \in FreeOf(h, B) : After(h, i) \notin FreeOf(h, B)

FirstLinked(h, A, rank) ==
  /\ rank \in [A -> Nat]
  /\ h.freehead \in A \cup {0}
  /\ h.freehead # 0 => F!prevFree(h, h.freehead) = 0
  /\ \A a \in A :
       /\ F!nextFree(h, a) \in A \cup {0} /\ F!prevFree(h, a) \in A \cup {0}
       /\ F!nextFree(h, a) # 0 => F!prevFree(h, F!nextFree(h, a)) = a /\ rank[a] < rank[F!nextFree(h, a)]
       /\ F!prevFree(h, a) = 0 => h.freehead = a
       /\ F!prevFree(h, a) # 0 => F!nextFree(h, F!prevFree(h, a)) = a

FirstApart(A) ==
  /\ A \subseteq 1..Words - 3
  /\ \A a, b \in A : a = b \/ a + 4 <= b \/ b + 4 <= a

LEMMA FirstSizes == Words \in Nat /\ Words >= 4 /\ Bound \in Nat /\ Bound = Words + 1
                    /\ \A w : w \in FirstIndex <=> w \in Nat /\ w >= 1 /\ w <= Words
BY WordsAssumption DEF Bound, FirstIndex

FootOf(i, n) == i + (IF n < 0 THEN -n ELSE n) + 1

\* SetSize writes the header and the footer.
LEMMA SetSizeIs ==
  ASSUME NEW h, FirstType(h), NEW i \in FirstIndex, NEW n \in Int, NEW f \in FirstIndex,
         f = FootOf(i, n),
         NEW s, s = F!SetSize(h, i, n)
  PROVE  /\ FirstType(s) /\ s.freehead = h.freehead
         /\ \A w \in FirstIndex : s.word[w] = IF w = i \/ w = f THEN n ELSE h.word[w]
BY DEF FirstType, F!SetSize, FootOf

LEMMA UnlinkIs ==
  ASSUME NEW h, FirstType(h), NEW i \in Int,
         NEW p \in Int, p = F!prevFree(h, i), p = 0 \/ p + 2 \in FirstIndex,
         NEW n \in Int, n = F!nextFree(h, i), n = 0 \/ n + 1 \in FirstIndex,
         NEW s, s = F!Unlink(h, i)
  PROVE  /\ FirstType(s) /\ s.freehead = IF p = 0 THEN n ELSE h.freehead
         /\ \A w \in FirstIndex : s.word[w] = IF n # 0 /\ w = n + 1 THEN p
                                              ELSE IF p # 0 /\ w = p + 2 THEN n ELSE h.word[w]
<1>1. PICK ahead : ahead = IF p = 0 THEN [h EXCEPT !.freehead = n] ELSE F!SetNext(h, p, n)
  OBVIOUS
<1>2. /\ FirstType(ahead) /\ ahead.freehead = IF p = 0 THEN n ELSE h.freehead
      /\ \A w \in FirstIndex : ahead.word[w] = IF p # 0 /\ w = p + 2 THEN n ELSE h.word[w]
  <2>1. CASE p = 0
    BY <1>1, <2>1 DEF FirstType
  <2>2. CASE p # 0
    BY <1>1, <2>2 DEF F!SetNext, F!null, FirstType
  <2> QED
    BY <2>1, <2>2
<1>3. s = F!SetPrev(ahead, n, p)
  BY <1>1 DEF F!Unlink, F!null
<1>4. /\ FirstType(s) /\ s.freehead = ahead.freehead
      /\ \A w \in FirstIndex : s.word[w] = IF n # 0 /\ w = n + 1 THEN p ELSE ahead.word[w]
  BY <1>2, <1>3 DEF F!SetPrev, F!null, FirstType
<1> QED
  BY <1>2, <1>4

\* What free does before it merges.
Inserted(h, i) ==
  LET freed == F!SetSize(h, i, -F!size(h, i))
      linked == F!SetPrev(F!SetNext(F!SetPrev(freed, i, F!null), i, h.freehead), h.freehead, i)
  IN  [linked EXCEPT !.freehead = i]

LEMMA InsertedIs ==
  ASSUME NEW h, FirstType(h), NEW i \in FirstIndex, NEW n \in Int, n = h.word[i], n >= 2,
         NEW f \in FirstIndex, f = i + n + 1, i + 1 \in FirstIndex, i + 2 \in FirstIndex,
         h.freehead = 0 \/ h.freehead + 1 \in FirstIndex,
         NEW s, s = Inserted(h, i)
  PROVE  /\ FirstType(s) /\ s.freehead = i
         /\ \A w \in FirstIndex : s.word[w] =
                  IF h.freehead # 0 /\ w = h.freehead + 1 THEN i
                  ELSE IF w = i + 2 THEN h.freehead
                  ELSE IF w = i + 1 THEN 0
                  ELSE IF w = i \/ w = f THEN -n ELSE h.word[w]
<1>1. h.freehead \in Int /\ i \in Int /\ i # 0 /\ 0 \in Int /\ -n \in Int /\ f = FootOf(i, -n)
  BY FirstSizes DEF FirstType, FootOf
<1>2. PICK sized : sized = F!SetSize(h, i, -n)
  OBVIOUS
<1>3. /\ FirstType(sized) /\ sized.freehead = h.freehead
      /\ \A w \in FirstIndex : sized.word[w] = IF w = i \/ w = f THEN -n ELSE h.word[w]
  <2>1. PICK k \in Int : k = -n /\ f = FootOf(i, k)
    BY <1>1
  <2>2. sized = F!SetSize(h, i, k)
    BY <1>2, <2>1
  <2>3. /\ FirstType(sized) /\ sized.freehead = h.freehead
        /\ \A w \in FirstIndex : sized.word[w] = IF w = i \/ w = f THEN k ELSE h.word[w]
    BY <2>1, <2>2, SetSizeIs
  <2> QED
    BY <2>1, <2>3
<1>4. PICK t : t = F!SetPrev(sized, i, 0)
  OBVIOUS
<1>5. /\ FirstType(t) /\ t.freehead = sized.freehead
      /\ \A w \in FirstIndex : t.word[w] = IF w = i + 1 THEN 0 ELSE sized.word[w]
  BY <1>1, <1>3, <1>4 DEF F!SetPrev, F!null, FirstType
<1>6. PICK u : u = F!SetNext(t, i, h.freehead)
  OBVIOUS
<1>7. /\ FirstType(u) /\ u.freehead = t.freehead
      /\ \A w \in FirstIndex : u.word[w] = IF w = i + 2 THEN h.freehead ELSE t.word[w]
  BY <1>1, <1>5, <1>6 DEF F!SetNext, F!null, FirstType
<1>8. PICK v : v = F!SetPrev(u, h.freehead, i)
  OBVIOUS
<1>9. /\ FirstType(v) /\ v.freehead = u.freehead
      /\ \A w \in FirstIndex : v.word[w] = IF h.freehead # 0 /\ w = h.freehead + 1 THEN i ELSE u.word[w]
  BY <1>1, <1>7, <1>8 DEF F!SetPrev, F!null, FirstType
<1>10. s = [v EXCEPT !.freehead = i]
  BY <1>2, <1>4, <1>6, <1>8 DEF Inserted, F!size, F!null
<1>11. FirstType(s) /\ s.freehead = i /\ s.word = v.word
  BY <1>1, <1>9, <1>10 DEF FirstType
<1> QED
  BY <1>3, <1>5, <1>7, <1>9, <1>11

-----------------------------------------------------------------------------
(* Where its blocks are *)

LEMMA FirstFacts ==
  ASSUME NEW h, FirstType(h), NEW B, FirstTagged(h, B), NEW i, i \in B
  PROVE  /\ i \in Int /\ i >= 1 /\ h.word[i] \in Int /\ i \in FirstIndex
         /\ F!payload(h, i) \in Nat /\ F!payload(h, i) >= 2
         /\ F!findFooter(h, i) = i + F!payload(h, i) + 1 /\ F!findFooter(h, i) \in FirstIndex
         /\ After(h, i) = i + F!payload(h, i) + 2 /\ After(h, i) <= Bound /\ After(h, i) \in Nat
         /\ After(h, i) \in B \cup {Bound}
         /\ F!payload(h, i) = IF F!isfree(h, i) THEN -h.word[i] ELSE h.word[i]
         /\ F!isfree(h, i) <=> ~(h.word[i] > 0)
<1>1. i \in 1..Words /\ i \in FirstIndex /\ h.word[i] \in Int /\ i \in Int
  BY FirstSizes DEF FirstTagged, FirstType
<1>2. F!payload(h, i) = IF F!isfree(h, i) THEN -h.word[i] ELSE h.word[i]
  BY DEF F!payload, F!size
<1>3. F!payload(h, i) >= 2 /\ After(h, i) \in B \cup {Bound}
  BY DEF FirstTagged
<1>4. F!payload(h, i) \in Nat /\ (F!isfree(h, i) <=> ~(h.word[i] > 0))
  BY <1>1, <1>2, <1>3 DEF F!isfree, F!size
<1>5. \A j \in B : j \in Int /\ j <= Bound
  BY FirstSizes DEF FirstTagged
<1>6. After(h, i) = i + F!payload(h, i) + 2 /\ After(h, i) <= Bound /\ After(h, i) \in Nat
  BY <1>1, <1>3, <1>4, <1>5, FirstSizes DEF After
<1>7. F!findFooter(h, i) = i + F!payload(h, i) + 1
  BY DEF F!findFooter
<1>8. F!findFooter(h, i) \in FirstIndex
  BY <1>1, <1>4, <1>6, <1>7, FirstSizes
<1> QED
  BY <1>1, <1>2, <1>3, <1>4, <1>6, <1>7, <1>8

LEMMA FirstDisjoint ==
  ASSUME NEW h, NEW B, FirstTagged(h, B), NEW i \in Int, i \in B, NEW j \in Int, j \in B, i < j
  PROVE  After(h, i) <= j
<1>1. j <= i \/ j >= After(h, i)
  BY DEF FirstTagged
<1> QED
  BY <1>1

LEMMA FirstCovered ==
  ASSUME NEW h, FirstType(h), NEW B, FirstTagged(h, B), NEW w \in Int, w \in FirstIndex
  PROVE  \E i \in B : i <= w /\ w <= F!findFooter(h, i)
<1> DEFINE T == {i \in B : i <= w}
<1>1. T \in SUBSET Int /\ 1 \in T /\ (\A i \in T : i <= w)
  <2>1. B \subseteq Int /\ 1 \in B
    BY DEF FirstTagged
  <2>2. 1 <= w
    BY FirstSizes
  <2> QED
    BY <2>1, <2>2
<1>2. PICK i \in T : \A j \in T : j <= i
  <2> HIDE DEF T
  <2> QED
    BY <1>1, Greatest
<1>3. i \in B /\ i <= w /\ i \in Int
  BY <1>1, <1>2
<1>4. After(h, i) = F!findFooter(h, i) + 1 /\ After(h, i) \in B \cup {Bound} /\ After(h, i) > i /\ After(h, i) \in Int
  BY <1>3, FirstFacts
<1>5. After(h, i) > w
  <2>1. CASE After(h, i) = Bound
    BY <2>1, FirstSizes
  <2>2. CASE After(h, i) \in B
    BY <1>2, <1>3, <1>4, <2>2
  <2> QED
    BY <1>4, <2>1, <2>2
<1> QED
  BY <1>3, <1>4, <1>5, FirstFacts

\* What next() and prev() find.
LEMMA Neighbours ==
  ASSUME NEW h, FirstType(h), NEW B, FirstTagged(h, B), NEW i \in Int, i \in B
  PROVE  /\ F!next(h, i) = IF After(h, i) = Bound THEN 0 ELSE After(h, i)
         /\ i = 1 => F!prev(h, i) = 0
         /\ i # 1 => F!prev(h, i) \in B /\ After(h, F!prev(h, i)) = i
<1>1. F!next(h, i) = IF After(h, i) = Bound THEN 0 ELSE After(h, i)
  <2>1. F!size(h, i) # 0 /\ After(h, i) = i + F!payload(h, i) + 2 /\ After(h, i) \in Nat /\ After(h, i) <= Bound
    BY FirstFacts DEF F!size, F!isfree
  <2> QED
    BY <2>1, FirstSizes DEF F!next, F!null
<1>2. ASSUME i # 1 PROVE F!prev(h, i) \in B /\ After(h, F!prev(h, i)) = i
  <2>1. i - 1 \in Int /\ i - 1 \in FirstIndex
    BY <1>2, FirstFacts, FirstSizes
  <2>2. PICK l \in B : l <= i - 1 /\ i - 1 <= F!findFooter(h, l)
    BY <2>1, FirstCovered
  <2>3. l \in Int /\ l >= 1 /\ F!findFooter(h, l) = l + F!payload(h, l) + 1 /\ F!payload(h, l) \in Nat
        /\ After(h, l) = l + F!payload(h, l) + 2 /\ F!payload(h, l) >= 2
    BY FirstFacts
  <2>4. After(h, l) <= i
    BY <2>2, <2>3, FirstDisjoint
  <2>5. After(h, l) = i /\ F!findFooter(h, l) = i - 1
    BY <2>2, <2>3, <2>4
  <2>6. h.word[i - 1] = h.word[l]
    BY <2>5 DEF FirstTagged
  <2>7. F!payload(h, i - 1) = F!payload(h, l) /\ h.word[l] # 0
    <3>1. F!payload(h, i - 1) = F!payload(h, l)
      BY <2>6 DEF F!payload, F!isfree, F!size
    <3>2. h.word[l] # 0
      BY <2>3, FirstFacts DEF F!isfree, F!size
    <3> QED
      BY <3>1, <3>2
  <2>8. i - F!payload(h, i - 1) - 2 = l
    BY <2>3, <2>5, <2>7
  <2>9. F!prev(h, i) = l
    BY <1>2, <2>3, <2>6, <2>7, <2>8 DEF F!prev, F!null
  <2> QED
    BY <2>2, <2>5, <2>9
<1>3. i = 1 => F!prev(h, i) = 0
  BY DEF F!prev, F!null
<1> QED
  BY <1>1, <1>2, <1>3

LEMMA FreeApart ==
  ASSUME NEW h, FirstType(h), NEW B, FirstTagged(h, B)
  PROVE  FirstApart(B)
<1>1. \A a \in B : a \in Int /\ a >= 1 /\ After(h, a) >= a + 4 /\ After(h, a) <= Bound /\ After(h, a) \in Int
  <2> TAKE a \in B
  <2> QED
    BY FirstFacts
<1>2. \A a \in B : a \in 1..Words - 3
  BY <1>1, FirstSizes
<1>3. \A a, b \in B : a = b \/ a + 4 <= b \/ b + 4 <= a
  <2> SUFFICES ASSUME NEW a \in B, NEW b \in B, a < b PROVE a + 4 <= b
    BY <1>1
  <2>1. After(h, a) <= b
    BY <1>1, FirstDisjoint
  <2> QED
    BY <1>1, <2>1
<1> QED
  BY <1>2, <1>3 DEF FirstApart

Step(h, i) == IF i = 0 THEN 0 ELSE F!next(h, i)

\* The walk over the sizes comes to every block: none is shorter than 4 words, so it has
\* enough steps.
LEMMA FirstBlocksAre ==
  ASSUME FirstType(heap), NEW B, FirstTagged(heap, B)
  PROVE  F!Blocks = B
<1> DEFINE S == B \cup {0}
           g == [i \in S |-> Step(heap, i)]
           Walk(f) == f = [k \in 0..Words \div 4 |-> IF k = 0 THEN 1 ELSE Step(heap, f[k - 1])]
           at == CHOOSE f : Walk(f)
<1>m. PICK M \in Nat : M = Words \div 4 /\ 4 * M + 3 >= Words
  BY FirstSizes
<1>1. \A i \in B : i \in Int /\ i >= 1
  BY FirstFacts
<1>2. 1 \in S /\ g \in [S -> S]
  <2>1. \A i \in S : Step(heap, i) \in S
    <3> TAKE i \in S
    <3>1. CASE i = 0
      BY <3>1 DEF Step
    <3>2. CASE i # 0
      <4>1. i \in B /\ i \in Int
        BY <1>1, <3>2
      <4> QED
        BY <3>2, <4>1, Neighbours, FirstFacts DEF Step
    <3> QED
      BY <3>1, <3>2
  <2> QED
    BY <2>1 DEF FirstTagged
<1>3. Walk(at)
  <2>1. PICK f \in [0..M -> S] : f[0] = 1 /\ \A k \in 1..M : f[k] = g[f[k - 1]]
    <3> HIDE DEF g, at, Walk, S
    <3>1. Walks(M, S, 1, g) # {}
      BY <1>2, Recursion
    <3> QED
      BY <3>1 DEF Walks
  <2>2. \A k \in 0..M : k # 0 => f[k - 1] \in S
    <3> TAKE k \in 0..M
    <3>1. k # 0 => k - 1 \in 0..M
      OBVIOUS
    <3> HIDE DEF at, Walk, g, S
    <3> QED
      BY <3>1
  <2>3. \A k \in 0..M : f[k] = IF k = 0 THEN 1 ELSE Step(heap, f[k - 1])
    <3> TAKE k \in 0..M
    <3>1. k # 0 => k \in 1..M
      OBVIOUS
    <3> HIDE DEF at, Walk, S
    <3> QED
      BY <3>1, <2>1, <2>2
  <2>4. Walk(f)
    BY <2>1, <2>3, <1>m
  <2> HIDE DEF Walk
  <2> QED
    BY <2>4
<1>4. at[0] = 1 /\ (\A k \in 1..M : at[k] = Step(heap, at[k - 1])) /\ DOMAIN at = 0..M
  <2> HIDE DEF at
  <2> QED
    BY <1>m, <1>3
<1>5. F!Blocks = {at[k] : k \in 0..M} \ {0}
  BY <1>4 DEF F!Blocks, F!null, Step
<1> HIDE DEF at, Walk, g
\* The first k steps lead to blocks and pass none.
<1> DEFINE Passed(k) == /\ at[k] \in S
                        /\ at[k] = 0 \/ at[k] >= 4 * k + 1
                        /\ \A i \in B : at[k] = 0 \/ i <= at[k] => \E j \in 0..k : at[j] = i
           T == {k \in Nat : k <= M => Passed(k)}
<1>6. 0 \in T
  BY <1>1, <1>2, <1>4
<1>7. \A k \in Nat : k \in T => k + 1 \in T
  <2> SUFFICES ASSUME NEW k \in Nat, k + 1 <= M, Passed(k) PROVE Passed(k + 1)
    BY <1>m
  <2>1. at[k + 1] = Step(heap, at[k])
    <3>1. PICK n \in 1..M : n = k + 1 /\ n - 1 = k
      BY <1>m
    <3>2. at[n] = Step(heap, at[n - 1])
      BY <1>4
    <3> QED
      BY <3>1, <3>2
  <2>2. PICK i \in Int : i = at[k] /\ (i = 0 \/ i \in B)
    BY <1>1
  <2>3. CASE i = 0
    BY <2>1, <2>2, <2>3 DEF Step
  <2>4. CASE i # 0
    <3>1. /\ i \in B /\ i >= 4 * k + 1 /\ After(heap, i) >= i + 4 /\ After(heap, i) \in Nat
          /\ After(heap, i) \in B \cup {Bound} /\ Bound # 0
          /\ at[k + 1] = IF After(heap, i) = Bound THEN 0 ELSE After(heap, i)
          /\ \A j \in B : j <= i \/ j >= After(heap, i)
      <4>1. i \in B /\ i >= 4 * k + 1
        BY <2>2, <2>4
      <4>2. After(heap, i) >= i + 4 /\ After(heap, i) \in Nat /\ After(heap, i) \in B \cup {Bound}
        BY <4>1, FirstFacts
      <4>3. at[k + 1] = F!next(heap, i)
        BY <2>1, <2>2, <2>4 DEF Step
      <4>4. F!next(heap, i) = IF After(heap, i) = Bound THEN 0 ELSE After(heap, i)
        BY <4>1, Neighbours
      <4>5. \A j \in B : j <= i \/ j >= After(heap, i)
        BY <4>1 DEF FirstTagged
      <4>6. Bound # 0
        BY FirstSizes
      <4> QED
        BY <4>1, <4>2, <4>3, <4>4, <4>5, <4>6
    <3>2. \A j \in B : j <= Bound - 1
      BY FirstSizes DEF FirstTagged
    <3>3. \A j \in B : at[k + 1] = 0 \/ j <= at[k + 1] => \E m \in 0..k + 1 : at[m] = j
      <4> SUFFICES ASSUME NEW j \in B, at[k + 1] = 0 \/ j <= at[k + 1] PROVE \E m \in 0..k + 1 : at[m] = j
        OBVIOUS
      <4>1. CASE j <= i
        BY <2>2, <4>1
      <4>2. CASE j >= After(heap, i)
        <5>1. j = at[k + 1]
          BY <1>1, <3>1, <3>2, <4>2, FirstSizes
        <5> QED
          BY <5>1
      <4> QED
        BY <3>1, <4>1, <4>2
    <3>4. at[k + 1] \in S /\ (at[k + 1] = 0 \/ at[k + 1] >= 4 * (k + 1) + 1)
      BY <3>1
    <3> QED
      BY <3>3, <3>4
  <2> QED
    BY <2>3, <2>4
<1>8. \A k \in 0..M : Passed(k)
  <2>1. \A k \in Nat : k \in T
    <3> HIDE DEF T
    <3> QED
      BY <1>6, <1>7, Induction
  <2> QED
    BY <2>1
<1>9. at[M] = 0
  <2>1. Passed(M)
    BY <1>m, <1>8
  <2>2. \A i \in B : i <= Words - 3 /\ i \in Int
    BY FreeApart, FirstSizes DEF FirstApart
  <2> QED
    BY <1>m, <2>1, <2>2, FirstSizes
<1>10. \A i \in B : i \in F!Blocks
  <2>1. Passed(M)
    BY <1>m, <1>8
  <2> QED
    BY <1>1, <1>5, <1>9, <2>1
<1>11. \A i \in F!Blocks : i \in B
  BY <1>5, <1>8
<1> QED
  BY <1>10, <1>11

-----------------------------------------------------------------------------
(* Its list of free blocks *)

LEMMA FirstApartFacts ==
  ASSUME NEW A, FirstApart(A)
  PROVE  /\ 0 \notin A
         /\ \A a \in A : a \in Int /\ a >= 1 /\ a \in FirstIndex /\ a + 2 \in FirstIndex /\ a + 1 \in FirstIndex /\ a + 3 \in FirstIndex
         /\ \A a, b \in A : a # b => /\ a + 2 # b + 2 /\ a + 2 # b + 1 /\ a + 1 # b + 2 /\ a + 1 # b + 1
                                     /\ a # b + 2 /\ a # b + 1
BY FirstSizes DEF FirstApart

\* All words but links of the blocks in A are the same.
FirstUntouched(h, A, s) == \A w \in FirstIndex : NoLink(A, w) => s.word[w] = h.word[w]

\* Words that free writes before it merges, with those of A in the list.
FirstWritten(h, A, i, f, n, s) ==
  /\ s.word[i] = n /\ s.word[f] = n
  /\ \A w \in FirstIndex : w # i /\ w # f /\ NoLink(A \cup {i}, w) => s.word[w] = h.word[w]

\* A write elsewhere does not matter to it.
LEMMA FirstLinksStay ==
  ASSUME NEW h, NEW A, NEW rank, FirstLinked(h, A, rank),
         NEW s, s.freehead = h.freehead,
         \A a \in A : s.word[a + 2] = h.word[a + 2] /\ s.word[a + 1] = h.word[a + 1]
  PROVE  FirstLinked(s, A, rank)
<1>1. \A a \in A : F!nextFree(s, a) = F!nextFree(h, a) /\ F!prevFree(s, a) = F!prevFree(h, a)
  BY DEF F!nextFree, F!prevFree
<1> QED
  BY <1>1 DEF FirstLinked

\* Unlink takes one block out of it, and writes but links of the others.
LEMMA FirstUnlinked ==
  ASSUME NEW h, FirstType(h), NEW A, FirstApart(A), NEW rank, FirstLinked(h, A, rank),
         NEW i \in Int, i \in A, NEW s, s = F!Unlink(h, i)
  PROVE  /\ FirstType(s) /\ FirstLinked(s, A \ {i}, Less(A, i, rank))
         /\ FirstUntouched(h, A \ {i}, s)
<1> USE DEF F!nextFree, F!prevFree, NoLink, FirstUntouched
<1>1. PICK p \in Int : p = F!prevFree(h, i) /\ (p = 0 \/ p \in A)
  BY FirstApartFacts DEF FirstLinked
<1>2. PICK n \in Int : n = F!nextFree(h, i) /\ (n = 0 \/ n \in A)
  BY FirstApartFacts DEF FirstLinked
<1>3. (p # 0 => p + 2 \in FirstIndex) /\ (n # 0 => n + 1 \in FirstIndex)
  BY <1>1, <1>2, FirstApartFacts
<1>4. /\ FirstType(s) /\ s.freehead = IF p = 0 THEN n ELSE h.freehead
      /\ \A w \in FirstIndex : s.word[w] = IF n # 0 /\ w = n + 1 THEN p
                                       ELSE IF p # 0 /\ w = p + 2 THEN n ELSE h.word[w]
  BY <1>1, <1>2, <1>3, UnlinkIs
<1>5. /\ n # 0 => h.word[n + 1] = i /\ rank[i] < rank[n]
      /\ p # 0 => h.word[p + 2] = i /\ rank[p] < rank[i]
      /\ p = 0 => h.freehead = i
      /\ p # 0 => h.freehead # i
      /\ h.freehead \in A \cup {0} /\ (h.freehead # 0 => h.word[h.freehead + 1] = 0)
      /\ rank \in [A -> Nat]
  BY <1>1, <1>2, FirstApartFacts DEF FirstLinked
<1>6. n # i /\ p # i /\ (n = p => n = 0)
  BY <1>1, <1>2, <1>5, FirstApartFacts
<1>7. \A a \in A \ {i} :
        /\ s.word[a + 2] = IF a = p THEN n ELSE h.word[a + 2]
        /\ s.word[a + 1] = IF a = n THEN p ELSE h.word[a + 1]
  <2> TAKE a \in A \ {i}
  <2>1. a \in Int /\ a # 0 /\ a + 2 \in FirstIndex /\ a + 1 \in FirstIndex
    BY FirstApartFacts
  <2>2. (n # 0 => a + 2 # n + 1 /\ (a # n => a + 1 # n + 1)) /\ (p # 0 => a + 1 # p + 2 /\ (a # p => a + 2 # p + 2))
    BY <1>1, <1>2, <2>1, FirstApartFacts
  <2> QED
    BY <1>4, <2>1, <2>2
<1>8. \A a \in A \ {i} :
        /\ F!nextFree(h, a) \in A \cup {0} /\ F!prevFree(h, a) \in A \cup {0}
        /\ F!nextFree(h, a) # 0 => F!prevFree(h, F!nextFree(h, a)) = a /\ rank[a] < rank[F!nextFree(h, a)]
        /\ F!prevFree(h, a) = 0 => h.freehead = a
        /\ F!prevFree(h, a) # 0 => F!nextFree(h, F!prevFree(h, a)) = a
        /\ F!nextFree(h, a) = i => a = p
        /\ F!prevFree(h, a) = i => a = n
        /\ a \in Int /\ a # 0
  BY <1>1, <1>2, FirstApartFacts DEF FirstLinked
<1>9. \A a \in A \ {i} :
        /\ F!nextFree(s, a) \in (A \ {i}) \cup {0} /\ F!prevFree(s, a) \in (A \ {i}) \cup {0}
        /\ F!nextFree(s, a) # 0 => F!prevFree(s, F!nextFree(s, a)) = a /\ rank[a] < rank[F!nextFree(s, a)]
        /\ F!prevFree(s, a) = 0 => s.freehead = a
        /\ F!prevFree(s, a) # 0 => F!nextFree(s, F!prevFree(s, a)) = a
  <2> TAKE a \in A \ {i}
  <2>1. F!nextFree(s, a) = IF a = p THEN n ELSE F!nextFree(h, a)
    BY <1>7
  <2>2. F!prevFree(s, a) = IF a = n THEN p ELSE F!prevFree(h, a)
    BY <1>7
  <2>3. F!nextFree(s, a) \in (A \ {i}) \cup {0} /\ F!prevFree(s, a) \in (A \ {i}) \cup {0}
    BY <1>1, <1>2, <1>6, <1>8, <2>1, <2>2
  <2>4. F!nextFree(s, a) # 0 => F!prevFree(s, F!nextFree(s, a)) = a /\ rank[a] < rank[F!nextFree(s, a)]
    <3>1. CASE a = p
      <4>1. rank[p] \in Nat /\ rank[i] \in Nat /\ (n # 0 => rank[n] \in Nat)
        BY <1>1, <1>2, <1>5, <3>1
      <4> QED
        BY <1>2, <1>5, <1>6, <1>7, <1>8, <2>1, <3>1, <4>1
    <3>2. CASE a # p
      <4>1. F!nextFree(s, a) = F!nextFree(h, a)
        BY <2>1, <3>2
      <4>2. F!nextFree(h, a) = n => n = 0
        BY <1>5, <1>8, <3>2
      <4>3. CASE F!nextFree(h, a) # 0
        <5>1. PICK b \in A \ {i} : b = F!nextFree(h, a)
          BY <2>3, <4>1, <4>3
        <5>2. b # n /\ F!prevFree(h, b) = a /\ rank[a] < rank[b]
          BY <1>8, <4>2, <4>3, <5>1
        <5>3. F!prevFree(s, b) = F!prevFree(h, b)
          BY <1>7, <5>2
        <5> QED
          BY <4>1, <5>1, <5>2, <5>3
      <4> QED
        BY <4>1, <4>3
    <3> QED
      BY <3>1, <3>2
  <2>5. F!prevFree(s, a) = 0 => s.freehead = a
    BY <1>4, <1>5, <1>8, <2>2
  <2>6. F!prevFree(s, a) # 0 => F!nextFree(s, F!prevFree(s, a)) = a
    <3>1. CASE a = n
      BY <1>1, <1>6, <1>7, <2>2, <3>1
    <3>2. CASE a # n
      <4>1. F!prevFree(s, a) = F!prevFree(h, a)
        BY <2>2, <3>2
      <4>2. F!prevFree(h, a) = p => p = 0
        BY <1>5, <1>8, <3>2
      <4>3. CASE F!prevFree(h, a) # 0
        <5>1. PICK b \in A \ {i} : b = F!prevFree(h, a)
          BY <2>3, <4>1, <4>3
        <5>2. b # p /\ F!nextFree(h, b) = a
          BY <1>8, <4>2, <4>3, <5>1
        <5>3. F!nextFree(s, b) = F!nextFree(h, b)
          BY <1>7, <5>2
        <5> QED
          BY <4>1, <5>1, <5>2, <5>3
      <4> QED
        BY <4>1, <4>3
    <3> QED
      BY <3>1, <3>2
  <2> QED
    BY <2>3, <2>4, <2>5, <2>6
<1>10. s.freehead \in (A \ {i}) \cup {0} /\ (s.freehead # 0 => F!prevFree(s, s.freehead) = 0)
  <2>1. CASE p = 0
    BY <1>2, <1>4, <1>6, <1>7, <2>1
  <2>2. CASE p # 0
    <3>1. s.freehead = h.freehead /\ h.freehead # i /\ h.freehead \in A \cup {0}
      BY <1>4, <1>5, <2>2
    <3>2. h.freehead # n \/ n = 0
      <4>1. i # 0 /\ (n # 0 => h.word[n + 1] = i)
        BY <1>5, FirstApartFacts
      <4> QED
        BY <1>5, <4>1
    <3> QED
      BY <1>5, <1>7, <3>1, <3>2
  <2> QED
    BY <2>1, <2>2
<1>11. [a \in A \ {i} |-> rank[a]] \in [A \ {i} -> Nat]
  BY <1>5
<1>12. FirstLinked(s, A \ {i}, [a \in A \ {i} |-> rank[a]])
  BY <1>9, <1>10, <1>11 DEF FirstLinked
<1>13. ASSUME NEW w \in FirstIndex, NoLink(A \ {i}, w) PROVE s.word[w] = h.word[w]
  BY <1>1, <1>2, <1>4, <1>6, <1>13
<1> QED
  BY <1>4, <1>12, <1>13 DEF Less

\* free puts one in front, and writes but its tags and links and links of others.
LEMMA FirstLinkedIn ==
  ASSUME NEW h, FirstType(h), NEW A, NEW rank, FirstLinked(h, A, rank),
         NEW i \in Int, i \notin A, FirstApart(A \cup {i}), NEW n \in Int, n = h.word[i], n >= 2,
         NEW f \in Int, f = i + n + 1, f \in FirstIndex, NoLink(A, f),
         NEW m \in Int, m = -n, NEW s, s = Inserted(h, i)
  PROVE  /\ FirstType(s) /\ FirstLinked(s, A \cup {i}, Pushed(A, i, rank))
         /\ FirstWritten(h, A, i, f, m, s)
<1> USE DEF F!nextFree, F!prevFree, NoLink
<1> DEFINE new == [a \in A \cup {i} |-> IF a = i THEN 0 ELSE rank[a] + 1]
<1>1. i # 0 /\ i \in FirstIndex /\ i + 2 \in FirstIndex /\ i + 1 \in FirstIndex /\ i >= 1
  BY FirstApartFacts
<1>2. PICK g \in Int : g = h.freehead /\ (g = 0 \/ g \in A)
  BY FirstApartFacts DEF FirstLinked
<1>3. g # 0 => g + 1 \in FirstIndex /\ h.word[g + 1] = 0 /\ g + 1 # i /\ g + 1 # i + 2 /\ g + 1 # i + 1 /\ g + 1 # f
  <2>1. CASE g # 0
    <3>1. g \in A /\ g # i
      BY <1>2, <2>1
    <3>2. g + 1 \in FirstIndex /\ g + 1 # i /\ g + 1 # i + 2 /\ g + 1 # i + 1
      BY <3>1, FirstApartFacts
    <3>3. h.word[g + 1] = 0
      BY <1>2, <2>1 DEF FirstLinked
    <3> QED
      BY <3>1, <3>2, <3>3
  <2> QED
    BY <2>1
<1>4. /\ FirstType(s) /\ s.freehead = i
      /\ \A w \in FirstIndex : s.word[w] =
           IF g # 0 /\ w = g + 1 THEN i
           ELSE IF w = i + 2 THEN g
           ELSE IF w = i + 1 THEN 0
           ELSE IF w = i \/ w = f THEN m ELSE h.word[w]
  BY <1>1, <1>2, <1>3, InsertedIs
<1>5. s.word[i] = m /\ s.word[f] = m /\ F!nextFree(s, i) = g /\ F!prevFree(s, i) = 0
  BY <1>1, <1>3, <1>4
<1>6. \A a \in A : F!nextFree(s, a) = F!nextFree(h, a) /\ F!prevFree(s, a) = IF a = g THEN i ELSE F!prevFree(h, a)
  <2> TAKE a \in A
  <2>1. /\ a \in Int /\ a # 0 /\ a + 2 \in FirstIndex /\ a + 1 \in FirstIndex
        /\ a + 2 # i /\ a + 2 # i + 2 /\ a + 2 # i + 1 /\ a + 1 # i /\ a + 1 # i + 2 /\ a + 1 # i + 1
        /\ a + 2 # f /\ a + 1 # f
    BY FirstApartFacts
  <2>2. g # 0 => a + 2 # g + 1 /\ (a # g => a + 1 # g + 1)
    BY <1>2, <2>1, FirstApartFacts
  <2> QED
    BY <1>1, <1>4, <2>1, <2>2
<1>7. /\ rank \in [A -> Nat]
      /\ \A a \in A :
        /\ F!nextFree(h, a) \in A \cup {0} /\ F!prevFree(h, a) \in A \cup {0}
        /\ F!nextFree(h, a) # 0 => F!prevFree(h, F!nextFree(h, a)) = a /\ rank[a] < rank[F!nextFree(h, a)]
        /\ F!prevFree(h, a) = 0 => g = a
        /\ F!prevFree(h, a) # 0 => F!nextFree(h, F!prevFree(h, a)) = a
        /\ a \in Int /\ a # 0
  BY <1>2, FirstApartFacts DEF FirstLinked
<1>8. g # 0 => F!prevFree(h, g) = 0
  BY <1>3
<1>9. new \in [A \cup {i} -> Nat] /\ new[i] = 0 /\ \A a \in A : new[a] = rank[a] + 1 /\ rank[a] \in Nat
  BY <1>7
<1> HIDE DEF new
<1>10. \A a \in A \cup {i} :
        /\ F!nextFree(s, a) \in A \cup {i} \cup {0} /\ F!prevFree(s, a) \in A \cup {i} \cup {0}
        /\ F!nextFree(s, a) # 0 => F!prevFree(s, F!nextFree(s, a)) = a /\ new[a] < new[F!nextFree(s, a)]
        /\ F!prevFree(s, a) = 0 => s.freehead = a
        /\ F!prevFree(s, a) # 0 => F!nextFree(s, F!prevFree(s, a)) = a
  <2> TAKE a \in A \cup {i}
  <2>1. CASE a = i
    <3>1. g # 0 => F!prevFree(s, g) = i /\ new[i] < new[g]
      BY <1>2, <1>6, <1>9
    <3> QED
      BY <1>2, <1>4, <1>5, <2>1, <3>1
  <2>2. CASE a \in A
    <3>1. F!nextFree(s, a) = F!nextFree(h, a) /\ F!prevFree(s, a) = IF a = g THEN i ELSE F!prevFree(h, a)
      BY <1>6, <2>2
    <3>2. F!nextFree(h, a) # 0 => F!nextFree(h, a) # g /\ F!nextFree(h, a) \in A
      BY <1>7, <1>8, <2>2
    <3>3. F!nextFree(s, a) # 0 => F!prevFree(s, F!nextFree(s, a)) = a /\ new[a] < new[F!nextFree(s, a)]
      <4>1. CASE F!nextFree(h, a) # 0
        <5>1. PICK b \in A : b = F!nextFree(h, a)
          BY <3>2, <4>1
        <5>2. F!prevFree(s, b) = a
          BY <1>6, <1>7, <2>2, <3>2, <4>1, <5>1
        <5>3. new[a] < new[b]
          BY <1>7, <1>9, <2>2, <4>1, <5>1
        <5> QED
          BY <3>1, <5>1, <5>2, <5>3
      <4> QED
        BY <3>1, <4>1
    <3>4. F!prevFree(s, a) # 0
      BY <1>1, <1>7, <2>2, <3>1
    <3>5. F!nextFree(s, F!prevFree(s, a)) = a
      BY <1>2, <1>5, <1>6, <1>7, <2>2, <3>1, <3>4
    <3> QED
      BY <1>7, <2>2, <3>1, <3>3, <3>4, <3>5
  <2> QED
    BY <2>1, <2>2
<1>11. FirstLinked(s, A \cup {i}, new)
  BY <1>4, <1>5, <1>9, <1>10 DEF FirstLinked
<1>12. ASSUME NEW w \in FirstIndex, w # i, w # f, NoLink(A \cup {i}, w)
       PROVE  s.word[w] = h.word[w]
  BY <1>2, <1>4, <1>12
<1> QED
  BY <1>4, <1>5, <1>11, <1>12 DEF new, Pushed, FirstWritten

Most == Words \div 4
\* Following the links from the head comes to every block of the list, once, and each
\* leads back to the one before.
FirstLists(h, A, link) ==
  /\ link \in [0..Most -> A \cup {0}] /\ link[0] = h.freehead
  /\ \A k \in 1..Most : link[k] = F!Follow(h, link[k - 1])
  /\ \A j, k \in 0..Most : link[j] = link[k] /\ link[j] # 0 => j = k
  /\ \A a \in A : \E k \in 0..Most : link[k] = a
  /\ \A k \in 0..Most : link[k] # 0 => F!prevFree(h, link[k]) = IF k = 0 THEN 0 ELSE link[k - 1]

LEMMA FewFree ==
  ASSUME NEW A, FirstApart(A)
  PROVE  IsFiniteSet(A) /\ Cardinality(A) \in Nat /\ Cardinality(A) <= Most
<1>m. PICK m \in Int : m = Most /\ m >= 1 /\ 4 * m + 3 >= Words
  <2>1. Most \in Int /\ Most >= 1 /\ 4 * Most + 3 >= Words
    BY FirstSizes DEF Most
  <2> QED
    BY <2>1
<1> DEFINE f == [a \in A |-> (a - 1) \div 4]
<1>1. m \in Nat /\ 4 * m + 3 >= Words /\ m >= 1 /\ Words \in Nat
  BY <1>m, FirstSizes
<1>2. \A a \in A : a \in Int /\ a >= 1 /\ a <= Words - 3
  BY FirstSizes DEF FirstApart
<1>3. IsFiniteSet(0..m - 1) /\ Cardinality(0..m - 1) = m
  <2>1. PICK b \in Int : b = m - 1
    BY <1>1
  <2>2. IsFiniteSet(0..b) /\ Cardinality(0..b) = b + 1
    <3>1. IsFiniteSet(0..b) /\ Cardinality(0..b) = IF 0 > b THEN 0 ELSE b - 0 + 1
      BY FS_Interval
    <3> QED
      BY <1>1, <2>1, <3>1
  <2> QED
    BY <1>1, <2>1, <2>2
<1>4. f \in [A -> 0..m - 1]
  <2> SUFFICES ASSUME NEW a \in A PROVE (a - 1) \div 4 \in 0..m - 1
    OBVIOUS
  <2>1. PICK x \in Int : x = a /\ x >= 1 /\ x <= Words - 3
    BY <1>2
  <2>2. (x - 1) \div 4 >= 0 /\ (x - 1) \div 4 <= m - 1 /\ (x - 1) \div 4 \in Int
    BY <1>1, <2>1
  <2> QED
    BY <1>1, <2>1, <2>2
<1>5. \A a, b \in A : f[a] = f[b] => a = b
  <2> SUFFICES ASSUME NEW a \in A, NEW b \in A, (a - 1) \div 4 = (b - 1) \div 4 PROVE a = b
    OBVIOUS
  <2>1. a \in Int /\ b \in Int /\ (a = b \/ a + 4 <= b \/ b + 4 <= a)
    BY <1>2 DEF FirstApart
  <2> QED
    BY <2>1
<1>6. IsFiniteSet(A)
  <2>1. IsFiniteSet(0..Words) /\ A \subseteq 0..Words
    <3>1. IsFiniteSet(0..Words)
      BY <1>1, FS_Interval
    <3> QED
      BY <1>1, <1>2, <3>1
  <2> QED
    BY <2>1, FS_Subset
<1>7. Cardinality(A) \in Nat
  BY <1>6, FS_CardinalityType
<1>8. Cardinality(A) <= m
  <2> SUFFICES ASSUME Cardinality(0..m - 1) < Cardinality(A) PROVE FALSE
    BY <1>1, <1>3, <1>7
  <2> HIDE DEF f
  <2>1. \E a, b \in A : a # b /\ f[a] = f[b]
    BY <1>3, <1>4, <1>6, FS_PigeonHole
  <2> QED
    BY <1>5, <2>1
<1> QED
  BY <1>m, <1>6, <1>7, <1>8

LEMMA FirstListReaches ==
  ASSUME NEW h, FirstType(h), NEW A, FirstApart(A), NEW rank, FirstLinked(h, A, rank)
  PROVE  FirstLists(h, A, F!Listed(h))
<1> DEFINE S == A \cup {0}
           g == [i \in S |-> F!Follow(h, i)]
           Walk(f) == f = [k \in 0..Most |-> IF k = 0 THEN h.freehead ELSE F!Follow(h, f[k - 1])]
           link == F!Listed(h)
<1>1. Most \in Nat
  BY FirstSizes DEF Most
<1>2. h.freehead \in S /\ g \in [S -> S]
  BY DEF FirstLinked, F!Follow, F!null
<1>3. Walk(link)
  <2>1. PICK f \in [0..Most -> S] : f[0] = h.freehead /\ \A k \in 1..Most : f[k] = g[f[k - 1]]
    <3> HIDE DEF g, S
    <3>1. Walks(Most, S, h.freehead, g) # {}
      BY <1>1, <1>2, Recursion
    <3> QED
      BY <3>1 DEF Walks
  <2>2. \A k \in 0..Most : f[k] = IF k = 0 THEN h.freehead ELSE F!Follow(h, f[k - 1])
    <3> TAKE k \in 0..Most
    <3>1. k # 0 => k \in 1..Most /\ k - 1 \in 0..Most
      BY <1>1
    <3>2. k # 0 => f[k - 1] \in S
      <4> HIDE DEF S
      <4> QED
        BY <3>1
    <3> QED
      BY <3>1, <3>2, <2>1
  <2>3. Walk(f)
    BY <2>1, <2>2
  <2>4. Walk(CHOOSE e : Walk(e))
    <3> HIDE DEF Walk
    <3> QED
      BY <2>3
  <2> QED
    BY <2>4 DEF F!Listed, Most, F!null
<1>4. link[0] = h.freehead /\ (\A k \in 1..Most : link[k] = F!Follow(h, link[k - 1])) /\ DOMAIN link = 0..Most
      /\ link = [k \in 0..Most |-> link[k]]
  <2> HIDE DEF link
  <2> QED
    BY <1>1, <1>3
<1> HIDE DEF link, Walk, g
<1>next. \A k \in Nat : k + 1 <= Most => link[k + 1] = F!Follow(h, link[k])
  <2> SUFFICES ASSUME NEW k \in Nat, k + 1 <= Most PROVE link[k + 1] = F!Follow(h, link[k])
    OBVIOUS
  <2>1. PICK n \in 1..Most : n = k + 1 /\ n - 1 = k
    BY <1>1
  <2>2. link[n] = F!Follow(h, link[n - 1])
    BY <1>4, <2>1
  <2> QED
    BY <2>1, <2>2
<1>5. \A k \in 0..Most : link[k] \in S
  <2> DEFINE T == {k \in Nat : k <= Most => link[k] \in S}
  <2>1. 0 \in T
    BY <1>2, <1>4
  <2>2. \A k \in Nat : k \in T => k + 1 \in T
    <3> SUFFICES ASSUME NEW k \in Nat, k + 1 <= Most, link[k] \in S PROVE link[k + 1] \in S
      BY <1>1
    <3>1. link[k + 1] = F!Follow(h, link[k])
      BY <1>next
    <3> QED
      BY <3>1, <1>2 DEF g
  <2>3. \A k \in Nat : k \in T
    <3> HIDE DEF T
    <3> QED
      BY <2>1, <2>2, Induction
  <2> QED
    BY <2>3
<1>6. 0 \notin A
  BY FirstApartFacts
\* Behind the end it stays at 0, and before it the rank grows.
<1> DEFINE Grows(k) == link[k] # 0 => \A j \in 0..k : link[j] # 0 /\ (j < k => rank[link[j]] < rank[link[k]])
           T == {k \in Nat : k <= Most => Grows(k)}
<1>7. 0 \in T
  OBVIOUS
<1>8. \A k \in Nat : k \in T => k + 1 \in T
  <2> SUFFICES ASSUME NEW k \in Nat, k + 1 <= Most, Grows(k), link[k + 1] # 0 PROVE Grows(k + 1)
    BY <1>1
  <2>1. link[k + 1] = F!Follow(h, link[k]) /\ link[k] \in S /\ link[k + 1] \in S
    <3>1. k \in 0..Most /\ k + 1 \in 0..Most
      BY <1>1
    <3> QED
      BY <1>next, <1>5, <3>1
  <2>2. PICK a \in A : a = link[k]
    BY <2>1 DEF F!Follow, F!null
  <2>3. PICK b \in A : b = link[k + 1]
    BY <2>1
  <2>4. b = F!nextFree(h, a) /\ b # 0 /\ a # 0
    BY <1>6, <2>1, <2>2, <2>3 DEF F!Follow, F!null
  <2>5. rank[a] < rank[b] /\ rank \in [A -> Nat]
    BY <2>4 DEF FirstLinked
  <2>6. \A j \in 0..k : link[j] \in A /\ (j < k => rank[link[j]] < rank[a])
    BY <1>1, <1>5, <2>2, <2>4
  <2>7. \A j \in 0..k : rank[link[j]] \in Nat /\ rank[link[j]] < rank[b]
    <3> TAKE j \in 0..k
    <3>1. rank[link[j]] \in Nat /\ rank[a] \in Nat /\ rank[b] \in Nat
      BY <2>5, <2>6
    <3>2. CASE j = k
      BY <2>2, <2>5, <3>1, <3>2
    <3>3. CASE j < k
      BY <2>5, <2>6, <3>1, <3>3
    <3> QED
      BY <3>1, <3>2, <3>3
  <2> SUFFICES ASSUME NEW j \in 0..k + 1
               PROVE  link[j] # 0 /\ (j < k + 1 => rank[link[j]] < rank[link[k + 1]])
    OBVIOUS
  <2>8. CASE j = k + 1
    BY <2>8
  <2>9. CASE j # k + 1
    <3>1. j \in 0..k
      BY <2>9
    <3> QED
      BY <2>3, <2>6, <2>7, <1>6, <3>1
  <2> QED
    BY <2>8, <2>9
<1>9. \A k \in 0..Most : Grows(k)
  <2>1. \A k \in Nat : k \in T
    <3> HIDE DEF T
    <3> QED
      BY <1>7, <1>8, Induction
  <2> QED
    BY <2>1
<1>10. \A j, k \in 0..Most : link[j] = link[k] /\ link[j] # 0 => j = k
  <2> SUFFICES ASSUME NEW j \in 0..Most, NEW k \in 0..Most, link[j] = link[k], link[k] # 0, j < k
               PROVE  FALSE
    BY <1>1
  <2>1. rank[link[j]] < rank[link[k]] /\ rank[link[k]] \in Nat
    <3>1. link[k] \in A /\ rank \in [A -> Nat]
      BY <1>5 DEF FirstLinked
    <3> QED
      BY <1>1, <1>9, <3>1
  <2> QED
    BY <2>1
<1>11. \E k \in 0..Most : link[k] = 0
  <2> SUFFICES ASSUME \A k \in 0..Most : link[k] # 0 PROVE FALSE
    OBVIOUS
  <2>1. link \in [0..Most -> A]
    BY <1>4, <1>5
  <2>2. IsFiniteSet(0..Most) /\ Cardinality(0..Most) = Most + 1
    BY <1>1, FS_Interval
  <2>3. IsFiniteSet(A) /\ Cardinality(A) < Cardinality(0..Most)
    BY <1>1, <2>2, FewFree
  <2>4. \E j, k \in 0..Most : j # k /\ link[j] = link[k]
    BY <2>1, <2>2, <2>3, FS_PigeonHole
  <2> QED
    BY <1>10, <2>4
\* Of those that it misses one would have the least rank; but the one before that is not missed.
<1>12. \A a \in A : \E k \in 0..Most : link[k] = a
  <2> DEFINE U == {a \in A : \A k \in 0..Most : link[k] # a}
             R == {rank[a] : a \in U}
  <2> SUFFICES ASSUME U # {} PROVE FALSE
    OBVIOUS
  <2>1. rank \in [A -> Nat] /\ R \in SUBSET Nat /\ R # {}
    <3>1. rank \in [A -> Nat]
      BY DEF FirstLinked
    <3> QED
      BY <3>1
  <2>2. PICK m \in R : \A n \in R : m <= n
    <3> HIDE DEF R
    <3> QED
      BY <2>1, Least
  <2>3. PICK a \in U : rank[a] = m
    BY <2>2
  <2>4. F!prevFree(h, a) # 0
    BY <1>1, <1>4, <2>3 DEF FirstLinked
  <2>5. PICK p \in A : p = F!prevFree(h, a) /\ F!nextFree(h, p) = a /\ rank[p] < rank[a]
    BY <1>6, <2>3, <2>4 DEF FirstLinked
  <2>6. p \notin U
    BY <2>1, <2>2, <2>3, <2>5
  <2>7. PICK k \in 0..Most : link[k] = p
    BY <2>6
  <2>8. k # Most
    <3>1. PICK z \in 0..Most : link[z] = 0
      BY <1>11
    <3>2. link[k] # 0
      BY <1>6, <2>7
    <3>3. k = Most => z \in 0..k
      OBVIOUS
    <3> QED
      BY <1>9, <3>1, <3>2, <3>3
  <2>9. link[k + 1] = a /\ k + 1 \in 0..Most
    <3>1. k + 1 \in 0..Most /\ k \in Nat /\ k + 1 <= Most
      BY <1>1, <2>8
    <3>2. link[k + 1] = F!Follow(h, p)
      BY <1>next, <2>7, <3>1
    <3> QED
      BY <1>6, <2>5, <3>1, <3>2 DEF F!Follow, F!null
  <2> QED
    BY <2>3, <2>9
<1>13. \A k \in 0..Most : link[k] # 0 => F!prevFree(h, link[k]) = IF k = 0 THEN 0 ELSE link[k - 1]
  <2> SUFFICES ASSUME NEW k \in 0..Most, link[k] # 0 PROVE F!prevFree(h, link[k]) = IF k = 0 THEN 0 ELSE link[k - 1]
    OBVIOUS
  <2>1. CASE k = 0
    BY <1>4, <2>1 DEF FirstLinked
  <2>2. CASE k # 0
    <3>1. k \in 1..Most /\ k - 1 \in 0..Most
      BY <1>1, <2>2
    <3>2. link[k] = F!Follow(h, link[k - 1]) /\ link[k - 1] \in S
      BY <1>4, <1>5, <3>1
    <3>3. PICK a \in A : a = link[k - 1] /\ link[k] = F!nextFree(h, a)
      BY <3>2 DEF F!Follow, F!null
    <3> QED
      BY <2>2, <3>3 DEF FirstLinked
  <2> QED
    BY <2>1, <2>2
<1>14. link \in [0..Most -> A \cup {0}]
  BY <1>4, <1>5
<1>15. FirstLists(h, A, link)
  BY <1>4, <1>10, <1>12, <1>13, <1>14 DEF FirstLists
<1> QED
  BY <1>15 DEF link

-----------------------------------------------------------------------------
(* Cutting its blocks anew *)

\* The links of a free block are no tags, and in no other block.
LEMMA FirstLinksApart ==
  ASSUME NEW h, FirstType(h), NEW B, FirstTagged(h, B), NEW a \in FreeOf(h, B), NEW j, j \in B
  PROVE  /\ j # a => \A w \in j..F!findFooter(h, j) : w # a + 1 /\ w # a + 2
         /\ j # a + 1 /\ j # a + 2 /\ F!findFooter(h, j) # a + 1 /\ F!findFooter(h, j) # a + 2
<1>1. /\ a \in B /\ a \in Int /\ F!payload(h, a) \in Nat /\ F!payload(h, a) >= 2
      /\ After(h, a) = a + F!payload(h, a) + 2 /\ F!findFooter(h, a) = a + F!payload(h, a) + 1
  <2>1. a \in B
    BY DEF FreeOf
  <2> QED
    BY <2>1, FirstFacts
<1>2. /\ j \in Int /\ F!payload(h, j) \in Nat /\ F!payload(h, j) >= 2
      /\ After(h, j) = j + F!payload(h, j) + 2 /\ F!findFooter(h, j) = j + F!payload(h, j) + 1
  BY FirstFacts
<1>3. a < j => After(h, a) <= j
  BY <1>1, <1>2, FirstDisjoint
<1>4. j < a => After(h, j) <= a
  BY <1>1, <1>2, FirstDisjoint
<1> QED
  BY <1>1, <1>2, <1>3, <1>4

\* The blocks N fill the heap up to hi.
FirstFill(s, N, hi) ==
  \A i \in N : /\ F!payload(s, i) >= 2 /\ s.word[F!findFooter(s, i)] = s.word[i]
               /\ After(s, i) \in N \cup {hi}
               /\ \A j \in N : j <= i \/ j >= After(s, i)

\* Outside of lo to hi but links of free blocks are written.
Elsewhere(h, B, lo, hi, s) ==
  \A w \in FirstIndex : (w < lo \/ w >= hi) /\ NoLink(FreeOf(h, B), w) => s.word[w] = h.word[w]

FirstSameSizes(h, D, s) ==
  \A i \in D : /\ s.word[i] = h.word[i] /\ F!payload(s, i) = F!payload(h, i)
               /\ After(s, i) = After(h, i) /\ F!findFooter(s, i) = F!findFooter(h, i)
               /\ (F!isfree(s, i) <=> F!isfree(h, i))

\* The taken blocks but those in D, with all their words.
FirstKeeps(h, B, D, s) ==
  \A j \in B \ D : ~F!isfree(h, j) => \A w \in j..F!findFooter(h, j) : s.word[w] = h.word[w]

\* Between two of the blocks others take the place of what was there.
LEMMA Recut ==
  ASSUME NEW h, FirstType(h), NEW B, FirstTagged(h, B),
         NEW lo \in Int, lo \in B, NEW hi \in Int, hi \in B \cup {Bound}, lo < hi,
         NEW s, FirstType(s), NEW N, N \subseteq lo..hi - 1, lo \in N,
         FirstFill(s, N, hi), Elsewhere(h, B, lo, hi, s),
         NEW C, C = N \cup Outside(B, lo, hi)
  PROVE  FirstTagged(s, C) /\ FirstSameSizes(h, Outside(B, lo, hi), s) /\ FirstKeeps(h, B, Within(B, lo, hi), s)
<1>1. /\ lo >= 1 /\ hi <= Bound /\ 1 \in B /\ Bound \in Nat /\ Bound = Words + 1 /\ Words \in Nat
      /\ \A i \in B : i \in Int /\ i >= 1 /\ i <= Words
  BY FirstSizes DEF FirstTagged
\* The words of another block that are no links stay.
<1>2. ASSUME NEW j \in B, j < lo \/ j >= hi, NEW w \in j..F!findFooter(h, j),
             F!isfree(h, j) => w = j \/ w = F!findFooter(h, j)
      PROVE  s.word[w] = h.word[w]
  <2>1. /\ j \in Int /\ j >= 1 /\ F!findFooter(h, j) \in FirstIndex /\ F!findFooter(h, j) \in Int
        /\ F!findFooter(h, j) + 1 = After(h, j) /\ F!payload(h, j) \in Nat
    BY FirstFacts
  <2>2. w \in Int /\ w \in FirstIndex /\ j <= w /\ w < After(h, j)
    BY <2>1, FirstSizes
  <2>3. w < lo \/ w >= hi
    <3>1. j < lo => After(h, j) <= lo
      BY <2>1, FirstDisjoint
    <3>2. After(h, j) \in Int
      BY <2>1
    <3> QED
      BY <1>2, <2>2, <3>1, <3>2
  <2>4. NoLink(FreeOf(h, B), w)
    <3> SUFFICES ASSUME NEW a \in FreeOf(h, B) PROVE w # a + 1 /\ w # a + 2
      BY DEF NoLink
    <3>1. CASE a = j
      BY <1>2, <3>1, FirstLinksApart DEF FreeOf
    <3>2. CASE a # j
      BY <3>2, FirstLinksApart
    <3> QED
      BY <3>1, <3>2
  <2> QED
    BY <2>2, <2>3, <2>4 DEF Elsewhere
<1>3. ASSUME NEW i \in B, i < lo \/ i >= hi
      PROVE  /\ s.word[i] = h.word[i] /\ s.word[F!findFooter(h, i)] = h.word[i]
             /\ F!payload(s, i) = F!payload(h, i) /\ After(s, i) = After(h, i)
             /\ F!findFooter(s, i) = F!findFooter(h, i) /\ (F!isfree(s, i) <=> F!isfree(h, i))
  <2>1. i \in Int /\ i \in i..F!findFooter(h, i) /\ F!findFooter(h, i) \in i..F!findFooter(h, i)
    <3>1. i \in Int /\ F!findFooter(h, i) = i + F!payload(h, i) + 1 /\ F!payload(h, i) \in Nat
      BY FirstFacts
    <3> QED
      BY <3>1
  <2>2. s.word[i] = h.word[i]
    BY <1>2, <1>3, <2>1
  <2>3. s.word[F!findFooter(h, i)] = h.word[F!findFooter(h, i)] /\ h.word[F!findFooter(h, i)] = h.word[i]
    BY <1>2, <1>3, <2>1 DEF FirstTagged
  <2>4. F!payload(s, i) = F!payload(h, i) /\ (F!isfree(s, i) <=> F!isfree(h, i))
    BY <2>2 DEF F!payload, F!isfree, F!size
  <2> QED
    BY <2>2, <2>3, <2>4 DEF After, F!findFooter
<1>4. C \subseteq 1..Words /\ 1 \in C
  <2>1. \A i \in N : i \in 1..Words
    BY <1>1
  <2>2. \A i \in Outside(B, lo, hi) : i \in 1..Words
    BY <1>1 DEF Outside
  <2>3. 1 \in C
    <3>1. CASE lo = 1
      BY <3>1
    <3>2. CASE lo # 1
      BY <1>1, <3>2 DEF Outside
    <3> QED
      BY <3>1, <3>2
  <2> QED
    BY <2>1, <2>2, <2>3
<1>5. ASSUME NEW i \in B, i < lo \/ i >= hi
      PROVE  /\ F!payload(s, i) >= 2 /\ s.word[F!findFooter(s, i)] = s.word[i]
             /\ After(s, i) \in C \cup {Bound}
             /\ \A j \in C : j <= i \/ j >= After(s, i)
  <2>1. /\ F!payload(h, i) >= 2 /\ After(h, i) \in B \cup {Bound} /\ After(h, i) \in Int /\ After(h, i) > i /\ i \in Int
        /\ \A j \in B : j <= i \/ j >= After(h, i)
    <3>1. /\ F!payload(h, i) >= 2 /\ After(h, i) \in B \cup {Bound} /\ i \in Int
          /\ After(h, i) = i + F!payload(h, i) + 2 /\ F!payload(h, i) \in Nat
      BY FirstFacts
    <3>2. \A j \in B : j <= i \/ j >= After(h, i)
      BY DEF FirstTagged
    <3> QED
      BY <3>1, <3>2
  <2>2. i < lo => After(h, i) <= lo
    BY <2>1, FirstDisjoint
  <2>3. After(h, i) \in C \cup {Bound}
    <3>1. CASE After(h, i) = Bound \/ After(h, i) = lo
      BY <3>1
    <3>2. CASE After(h, i) # Bound /\ After(h, i) # lo
      BY <1>5, <2>1, <2>2, <3>2 DEF Outside
    <3> QED
      BY <3>1, <3>2
  <2>4. \A j \in C : j <= i \/ j >= After(h, i)
    BY <1>5, <2>1, <2>2 DEF Outside
  <2> QED
    BY <1>3, <1>5, <2>1, <2>3, <2>4
<1>6. ASSUME NEW i \in N
      PROVE  /\ F!payload(s, i) >= 2 /\ s.word[F!findFooter(s, i)] = s.word[i]
             /\ After(s, i) \in C \cup {Bound}
             /\ \A j \in C : j <= i \/ j >= After(s, i)
  <2>1. After(s, i) \in N \cup {hi} /\ \A j \in N : j <= i \/ j >= After(s, i)
    BY DEF FirstFill
  <2>2. i \in Int /\ lo <= i /\ After(s, i) \in Int /\ After(s, i) <= hi
    <3>1. PICK x \in N \cup {hi} : x = After(s, i)
      BY <2>1
    <3>2. x \in Int /\ x <= hi
      OBVIOUS
    <3> QED
      BY <3>1, <3>2
  <2>3. After(s, i) \in C \cup {Bound}
    BY <2>1 DEF Outside
  <2>4. \A j \in C : j <= i \/ j >= After(s, i)
    BY <1>1, <2>1, <2>2 DEF Outside
  <2> QED
    BY <2>3, <2>4 DEF FirstFill
<1>7. \A i \in C : i \in N \/ (i \in B /\ (i < lo \/ i >= hi))
  BY DEF Outside
<1>8. FirstTagged(s, C)
  BY <1>4, <1>5, <1>6, <1>7 DEF FirstTagged
<1>9. FirstSameSizes(h, Outside(B, lo, hi), s)
  BY <1>3 DEF FirstSameSizes, Outside
<1>10. FirstKeeps(h, B, Within(B, lo, hi), s)
  <2> SUFFICES ASSUME NEW j \in B, j \notin Within(B, lo, hi), ~F!isfree(h, j), NEW w \in j..F!findFooter(h, j)
               PROVE  s.word[w] = h.word[w]
    BY DEF FirstKeeps
  <2>1. j < lo \/ j >= hi
    BY <1>1 DEF Within
  <2> QED
    BY <1>2, <2>1
<1> QED
  BY <1>8, <1>9, <1>10

-----------------------------------------------------------------------------
(* A block that comes back to it *)

FirstChain(h, B, rank) == FirstType(h) /\ FirstTagged(h, B) /\ FirstLinked(h, FreeOf(h, B), rank)
FirstSound(h, B, rank) == FirstChain(h, B, rank) /\ FirstJoined(h, B)

FirstTakenOf(h, B) == {i \in B : ~F!isfree(h, i)}

LEMMA Alone ==
  ASSUME NEW h, FirstType(h), NEW B, FirstTagged(h, B), NEW i \in B
  PROVE  Within(B, i, After(h, i)) = {i} /\ B = {i} \cup Outside(B, i, After(h, i))
<1>1. /\ i \in Int /\ After(h, i) \in Int /\ i < After(h, i) /\ \A j \in B : j \in Int /\ (j <= i \/ j >= After(h, i))
  <2>1. i \in Int /\ After(h, i) = i + F!payload(h, i) + 2 /\ F!payload(h, i) \in Nat
    BY FirstFacts
  <2>2. \A j \in B : j \in Int
    BY FirstFacts
  <2>3. \A j \in B : j <= i \/ j >= After(h, i)
    BY DEF FirstTagged
  <2> QED
    BY <2>1, <2>2, <2>3
<1>2. \A j \in B : j \in Within(B, i, After(h, i)) <=> j = i
  BY <1>1 DEF Within
<1>3. \A j \in B : j \in Outside(B, i, After(h, i)) <=> j # i
  BY <1>1 DEF Outside
<1>4. Within(B, i, After(h, i)) \subseteq B /\ Outside(B, i, After(h, i)) \subseteq B
  BY DEF Within, Outside
<1> QED
  BY <1>2, <1>3, <1>4

\* free puts a taken block at the head of the list.
LEMMA IntoList ==
  ASSUME NEW h, NEW B, NEW rank, FirstChain(h, B, rank), NEW i \in B, ~F!isfree(h, i),
         NEW s, s = Inserted(h, i)
  PROVE  /\ \E q : FirstChain(s, B, q)
         /\ FreeOf(s, B) = FreeOf(h, B) \cup {i}
         /\ FirstTakenOf(s, B) = FirstTakenOf(h, B) \ {i}
         /\ FirstKeeps(h, B, {i}, s)
         /\ \A j \in B : After(s, j) = After(h, j)
<1> USE DEF FirstChain
<1>1. PICK A : A = FreeOf(h, B)
  OBVIOUS
<1>2. PICK n \in Int : n = h.word[i] /\ n >= 2 /\ F!payload(h, i) = n
  BY FirstFacts
<1>3. PICK f \in Int : /\ f = F!findFooter(h, i) /\ f = i + n + 1 /\ f \in FirstIndex
                       /\ i \in Int /\ i >= 1 /\ i \in FirstIndex
  BY <1>2, FirstFacts
<1>4. PICK hi \in Int : hi = After(h, i) /\ hi = f + 1 /\ hi \in B \cup {Bound}
  BY <1>2, <1>3, FirstFacts
<1>5. PICK m \in Int : m = -n
  OBVIOUS
<1>6. i \notin A /\ A \subseteq B /\ FirstApart(A \cup {i})
  <2>1. i \notin A /\ A \subseteq B
    BY <1>1 DEF FreeOf
  <2>2. FirstApart(B)
    BY FreeApart
  <2> QED
    BY <2>1, <2>2 DEF FirstApart
<1>7. NoLink(A, f)
  <2> SUFFICES ASSUME NEW a \in A PROVE f # a + 1 /\ f # a + 2
    BY DEF NoLink
  <2> QED
    BY <1>1, <1>3, FirstLinksApart
<1>8. /\ FirstType(s) /\ FirstLinked(s, A \cup {i}, Pushed(A, i, rank))
      /\ FirstWritten(h, A, i, f, m, s)
  <2>1. FirstLinked(h, A, rank) /\ n = h.word[i] /\ f = i + n + 1
    BY <1>1, <1>2, <1>3
  <2> QED
    BY <1>2, <1>3, <1>5, <1>6, <1>7, <2>1, FirstLinkedIn
<1>9. /\ F!payload(s, i) = n /\ F!findFooter(s, i) = f /\ After(s, i) = hi /\ F!isfree(s, i)
      /\ s.word[i] = m /\ s.word[f] = m
  BY <1>2, <1>3, <1>4, <1>5, <1>8 DEF FirstWritten, F!payload, F!findFooter, F!isfree, F!size, After
<1>10. Elsewhere(h, B, i, hi, s)
  <2> SUFFICES ASSUME NEW w \in FirstIndex, w < i \/ w >= hi, NoLink(A, w) PROVE s.word[w] = h.word[w]
    BY <1>1 DEF Elsewhere
  <2>1. w \in Int /\ w # i /\ w # f /\ w # i + 1 /\ w # i + 2
    BY <1>2, <1>3, <1>4, FirstSizes
  <2>2. NoLink(A \cup {i}, w)
    BY <2>1 DEF NoLink
  <2> QED
    BY <1>8, <2>1, <2>2 DEF FirstWritten
<1>11. PICK N : N = {i}
  OBVIOUS
<1>12. FirstFill(s, N, hi) /\ i < hi /\ N \subseteq i..hi - 1
  BY <1>2, <1>3, <1>4, <1>9, <1>11 DEF FirstFill
<1>13. B = N \cup Outside(B, i, hi) /\ Within(B, i, hi) = {i}
  <2>1. B = {i} \cup Outside(B, i, After(h, i)) /\ Within(B, i, After(h, i)) = {i}
    BY Alone
  <2> QED
    BY <1>4, <1>11, <2>1
<1>14. FirstTagged(s, B) /\ FirstSameSizes(h, Outside(B, i, hi), s) /\ FirstKeeps(h, B, {i}, s)
  <2>1. /\ FirstTagged(s, B) /\ FirstSameSizes(h, Outside(B, i, hi), s)
        /\ FirstKeeps(h, B, Within(B, i, hi), s)
    BY <1>3, <1>4, <1>8, <1>10, <1>11, <1>12, <1>13, Recut
  <2> QED
    BY <1>13, <2>1
<1>15. \A j \in B : j # i => j \in Outside(B, i, hi)
  BY <1>11, <1>13
<1>16. FreeOf(s, B) = A \cup {i} /\ FirstTakenOf(s, B) = FirstTakenOf(h, B) \ {i}
  BY <1>1, <1>9, <1>14, <1>15 DEF FreeOf, FirstTakenOf, FirstSameSizes
<1>17. \A j \in B : After(s, j) = After(h, j)
  BY <1>4, <1>9, <1>14, <1>15 DEF FirstSameSizes
<1> QED
  BY <1>1, <1>8, <1>14, <1>16, <1>17

JointSize(h, i, b) == h.word[i] + h.word[b] - 2

\* A free block swallows its free right neighbour, which leaves the list.
LEMMA Swallowed ==
  ASSUME NEW h, NEW B, NEW rank, FirstChain(h, B, rank), NEW i \in FreeOf(h, B),
         NEW b \in FreeOf(h, B), b = After(h, i),
         NEW n \in Int, n = JointSize(h, i, b),
         NEW s, s = F!SetSize(F!Unlink(h, b), i, n), NEW C, C = B \ {b}
  PROVE  /\ \E q : FirstChain(s, C, q)
         /\ FreeOf(s, C) = FreeOf(h, B) \ {b}
         /\ FirstTakenOf(s, C) = FirstTakenOf(h, B)
         /\ FirstKeeps(h, B, {}, s)
         /\ After(s, i) = After(h, b) /\ \A j \in C : j # i => After(s, j) = After(h, j)
<1> USE DEF FirstChain
<1>1. PICK A : A = FreeOf(h, B)
  OBVIOUS
<1>2. /\ i \in B /\ b \in B /\ F!isfree(h, i) /\ F!isfree(h, b) /\ i \in A /\ b \in A
      /\ A \subseteq B
  BY <1>1 DEF FreeOf
<1>3. /\ i \in Int /\ i >= 1 /\ i \in FirstIndex /\ b \in Int /\ h.word[i] \in Int /\ h.word[b] \in Int
      /\ h.word[i] <= -2 /\ h.word[b] <= -2 /\ b = i - h.word[i] + 2
  <2>1. /\ i \in Int /\ i >= 1 /\ i \in FirstIndex /\ h.word[i] \in Int /\ F!payload(h, i) = -h.word[i]
        /\ F!payload(h, i) >= 2 /\ After(h, i) = i + F!payload(h, i) + 2
    BY <1>2, FirstFacts
  <2>2. b \in Int /\ h.word[b] \in Int /\ F!payload(h, b) = -h.word[b] /\ F!payload(h, b) >= 2
    BY <1>2, FirstFacts
  <2> QED
    BY <2>1, <2>2
<1>n. n = h.word[i] + h.word[b] - 2
  BY DEF JointSize
<1>4. PICK f \in Int : f = F!findFooter(h, b) /\ f = i - n + 1 /\ f \in FirstIndex
  <2>1. F!findFooter(h, b) = b + F!payload(h, b) + 1 /\ F!payload(h, b) = -h.word[b] /\ F!findFooter(h, b) \in FirstIndex
    BY <1>2, FirstFacts
  <2> QED
    BY <1>n, <1>3, <2>1
<1>5. PICK hi \in Int : hi = After(h, b) /\ hi = f + 1 /\ hi \in B \cup {Bound}
  BY <1>2, <1>3, <1>4, FirstFacts
<1>6. FirstApart(A) /\ FirstApart(B)
  <2>1. FirstApart(B)
    BY FreeApart
  <2> QED
    BY <1>2, <2>1 DEF FirstApart
<1>7. PICK u : u = F!Unlink(h, b)
  OBVIOUS
<1>8. /\ FirstType(u) /\ FirstLinked(u, A \ {b}, Less(A, b, rank))
      /\ FirstUntouched(h, A \ {b}, u)
  BY <1>1, <1>2, <1>3, <1>6, <1>7, FirstUnlinked
<1>9. n <= -6 /\ f = FootOf(i, n)
  BY <1>n, <1>3, <1>4 DEF FootOf
<1>10. /\ FirstType(s) /\ s.freehead = u.freehead
       /\ \A w \in FirstIndex : s.word[w] = IF w = i \/ w = f THEN n ELSE u.word[w]
  BY <1>3, <1>4, <1>7, <1>8, <1>9, SetSizeIs
<1>11. FirstLinked(s, A \ {b}, Less(A, b, rank))
  <2> SUFFICES \A a \in A \ {b} : s.word[a + 2] = u.word[a + 2] /\ s.word[a + 1] = u.word[a + 1]
    BY <1>8, <1>10, FirstLinksStay
  <2> TAKE a \in A \ {b}
  <2>1. a + 1 \in FirstIndex /\ a + 2 \in FirstIndex
    BY <1>6, FirstApartFacts
  <2>2. i # a + 1 /\ i # a + 2 /\ f # a + 1 /\ f # a + 2
    BY <1>1, <1>2, <1>4, FirstLinksApart
  <2> QED
    BY <1>10, <2>1, <2>2
<1>12. /\ s.word[i] = n /\ s.word[f] = n /\ F!payload(s, i) = -n /\ F!findFooter(s, i) = f
       /\ After(s, i) = hi /\ F!isfree(s, i)
  <2>1. s.word[i] = n /\ s.word[f] = n
    BY <1>3, <1>4, <1>10
  <2>2. F!payload(s, i) = -n /\ F!isfree(s, i)
    BY <1>9, <2>1 DEF F!payload, F!isfree, F!size
  <2>3. F!findFooter(s, i) = i + F!payload(s, i) + 1 /\ After(s, i) = i + F!payload(s, i) + 2
    BY DEF F!findFooter, After
  <2> QED
    BY <1>3, <1>4, <1>5, <2>1, <2>2, <2>3
<1>13. Elsewhere(h, B, i, hi, s)
  <2> SUFFICES ASSUME NEW w \in FirstIndex, w < i \/ w >= hi, NoLink(A, w) PROVE s.word[w] = h.word[w]
    BY <1>1 DEF Elsewhere
  <2>1. w \in Int /\ w # i /\ w # f
    BY <1>3, <1>4, <1>5, <1>9, FirstSizes
  <2>2. u.word[w] = h.word[w]
    BY <1>8 DEF FirstUntouched, NoLink
  <2> QED
    BY <1>10, <2>1, <2>2
<1>14. PICK N : N = {i}
  OBVIOUS
<1>15. FirstFill(s, N, hi) /\ i < hi /\ N \subseteq i..hi - 1
  BY <1>3, <1>4, <1>5, <1>9, <1>12, <1>14 DEF FirstFill
<1>16. C = N \cup Outside(B, i, hi) /\ Within(B, i, hi) = {i, b}
  <2>1. \A j \in B : j \in Int /\ (j <= i \/ j >= b) /\ (j <= b \/ j >= hi)
    <3>1. \A j \in B : j \in Int
      BY FirstFacts
    <3>2. \A j \in B : j <= i \/ j >= After(h, i)
      BY <1>2 DEF FirstTagged
    <3>3. \A j \in B : j <= b \/ j >= After(h, b)
      BY <1>2 DEF FirstTagged
    <3> QED
      BY <1>5, <3>1, <3>2, <3>3
  <2>2. i < b /\ b < hi
    BY <1>n, <1>3, <1>4, <1>5
  <2> QED
    BY <1>2, <1>3, <1>14, <2>1, <2>2 DEF Outside, Within
<1>17. FirstTagged(s, C) /\ FirstSameSizes(h, Outside(B, i, hi), s) /\ FirstKeeps(h, B, {i, b}, s)
  <2>1. /\ FirstTagged(s, C) /\ FirstSameSizes(h, Outside(B, i, hi), s)
        /\ FirstKeeps(h, B, Within(B, i, hi), s)
    BY <1>2, <1>3, <1>5, <1>10, <1>13, <1>14, <1>15, <1>16, Recut
  <2> QED
    BY <1>16, <2>1
<1>18. i \in C /\ \A j \in C : j # i => j \in Outside(B, i, hi) /\ j \in B
  <2>1. i # b
    BY <1>3
  <2> QED
    BY <1>2, <1>14, <1>16, <2>1 DEF Outside
<1>19. FreeOf(s, C) = A \ {b} /\ FirstTakenOf(s, C) = FirstTakenOf(h, B)
  BY <1>1, <1>2, <1>12, <1>17, <1>18 DEF FreeOf, FirstTakenOf, FirstSameSizes
<1>20. FirstKeeps(h, B, {}, s)
  BY <1>2, <1>17 DEF FirstKeeps
<1> QED
  BY <1>1, <1>5, <1>10, <1>11, <1>12, <1>17, <1>18, <1>19, <1>20 DEF FirstSameSizes

LEMMA FirstKeepsOn ==
  ASSUME NEW h, FirstType(h), NEW B, FirstTagged(h, B), NEW D, NEW m, FirstKeeps(h, B, D, m),
         NEW C, FirstTakenOf(m, C) = FirstTakenOf(h, B) \ D, NEW s, FirstKeeps(m, C, {}, s)
  PROVE  FirstKeeps(h, B, D, s)
<1> SUFFICES ASSUME NEW j \in B \ D, ~F!isfree(h, j), NEW w \in j..F!findFooter(h, j)
             PROVE  s.word[w] = h.word[w]
  BY DEF FirstKeeps
<1>1. m.word[w] = h.word[w]
  BY DEF FirstKeeps
<1>2. m.word[j] = h.word[j]
  <2>1. j \in Int /\ F!findFooter(h, j) = j + F!payload(h, j) + 1 /\ F!payload(h, j) \in Nat
    BY FirstFacts
  <2>2. j \in j..F!findFooter(h, j)
    BY <2>1
  <2> QED
    BY <2>2 DEF FirstKeeps
<1>3. F!findFooter(m, j) = F!findFooter(h, j)
  BY <1>2 DEF F!findFooter, F!payload, F!isfree, F!size
<1>4. j \in C /\ ~F!isfree(m, j)
  <2>1. j \in FirstTakenOf(m, C)
    BY DEF FirstTakenOf
  <2> QED
    BY <2>1 DEF FirstTakenOf
<1>5. s.word[w] = m.word[w]
  BY <1>3, <1>4 DEF FirstKeeps
<1> QED
  BY <1>1, <1>5

\* Free blocks touch at i only; to its left only.
MeetsAt(h, B, i) ==
  \A a \in FreeOf(h, B) : After(h, a) \in FreeOf(h, B) => a = i \/ After(h, a) = i
MeetsBefore(h, B, i) ==
  \A a \in FreeOf(h, B) : After(h, a) \in FreeOf(h, B) => After(h, a) = i

\* From h to s the free blocks are cut anew.
Regrouped(h, B, s, C) == FirstTakenOf(s, C) = FirstTakenOf(h, B) /\ FirstKeeps(h, B, {}, s)

MergedRight(h, B, i, s) ==
  \E C, q : FirstChain(s, C, q) /\ Regrouped(h, B, s, C) /\ i \in FreeOf(s, C) /\ MeetsBefore(s, C, i)
Merged(h, B, s) == \E C, q : FirstSound(s, C, q) /\ Regrouped(h, B, s, C)

FirstGains(h, B, D, s) ==
  \E C, q : /\ FirstSound(s, C, q) /\ FirstTakenOf(s, C) = FirstTakenOf(h, B) \ D
            /\ FirstKeeps(h, B, D, s)

LEMMA Unmoved == ASSUME NEW h, NEW B PROVE Regrouped(h, B, h, B)
BY DEF Regrouped, FirstKeeps

LEMMA RightMerged ==
  ASSUME NEW h, NEW B, NEW rank, FirstChain(h, B, rank), NEW i \in FreeOf(h, B), MeetsAt(h, B, i),
         NEW s, s = F!MergeRight(h, i)
  PROVE  MergedRight(h, B, i, s)
<1>1. FirstType(h) /\ FirstTagged(h, B) /\ i \in B /\ i \in Int /\ F!isfree(h, i)
  <2>1. FirstType(h) /\ FirstTagged(h, B) /\ i \in B /\ F!isfree(h, i)
    BY DEF FirstChain, FreeOf
  <2> QED
    BY <2>1, FirstFacts
<1>2. /\ F!next(h, i) = IF After(h, i) = Bound THEN 0 ELSE After(h, i)
      /\ After(h, i) \in B \cup {Bound} /\ \A j \in B : j \in Int /\ j >= 1 /\ j # Bound
  <2>1. \A j \in B : j \in Int /\ j >= 1 /\ j # Bound
    <3>1. \A j \in B : j \in 1..Words
      BY <1>1 DEF FirstTagged
    <3>2. Words \in Int /\ Bound = Words + 1
      BY FirstSizes
    <3> QED
      BY <3>1, <3>2
  <2>2. After(h, i) \in B \cup {Bound}
    BY <1>1, FirstFacts
  <2> QED
    BY <1>1, <2>1, <2>2, Neighbours
<1>3. CASE After(h, i) \in FreeOf(h, B)
  <2>1. PICK b : b = After(h, i) /\ b \in FreeOf(h, B) /\ b \in B /\ b \in Int /\ b # 0 /\ b # Bound /\ F!isfree(h, b)
    BY <1>2, <1>3 DEF FreeOf
  <2>2. PICK n \in Int : n = JointSize(h, i, b)
    <3>1. h.word[i] \in Int /\ h.word[b] \in Int
      BY <1>1, <2>1, FirstFacts
    <3> QED
      BY <3>1 DEF JointSize
  <2>3. s = F!SetSize(F!Unlink(h, b), i, n)
    BY <1>2, <2>1, <2>2 DEF F!MergeRight, F!null, F!size, JointSize
  <2>4. PICK C : C = B \ {b}
    OBVIOUS
  <2>5. /\ \E q : FirstChain(s, C, q)
        /\ FreeOf(s, C) = FreeOf(h, B) \ {b}
        /\ FirstTakenOf(s, C) = FirstTakenOf(h, B)
        /\ FirstKeeps(h, B, {}, s)
        /\ After(s, i) = After(h, b) /\ \A j \in C : j # i => After(s, j) = After(h, j)
    BY <2>1, <2>2, <2>3, <2>4, Swallowed
  <2>6. i < b /\ b < After(h, b) /\ After(h, b) \in Int
    <3>1. After(h, i) = i + F!payload(h, i) + 2 /\ F!payload(h, i) \in Nat
      BY <1>1, FirstFacts
    <3>2. After(h, b) = b + F!payload(h, b) + 2 /\ F!payload(h, b) \in Nat
      BY <1>1, <2>1, FirstFacts
    <3> QED
      BY <1>1, <2>1, <3>1, <3>2
  <2>7. MeetsBefore(s, C, i)
    <3> SUFFICES ASSUME NEW a \in FreeOf(s, C), After(s, a) \in FreeOf(s, C) PROVE After(s, a) = i
      BY DEF MeetsBefore
    <3>1. CASE a = i
      <4>1. After(h, b) \in FreeOf(h, B)
        BY <2>5, <3>1
      <4> QED
        BY <1>1, <2>1, <2>6, <4>1 DEF MeetsAt
    <3>2. CASE a # i
      <4>1. After(s, a) = After(h, a) /\ a \in FreeOf(h, B) /\ After(h, a) \in FreeOf(h, B)
        BY <2>4, <2>5, <3>2 DEF FreeOf
      <4> QED
        BY <3>2, <4>1 DEF MeetsAt
    <3> QED
      BY <3>1, <3>2
  <2>8. i \in FreeOf(s, C)
    BY <1>1, <2>5, <2>6
  <2> QED
    BY <2>5, <2>7, <2>8 DEF MergedRight, Regrouped
<1>4. CASE After(h, i) \notin FreeOf(h, B)
  <2>1. s = h
    <3>1. F!next(h, i) = 0 \/ ~F!isfree(h, F!next(h, i))
      BY <1>2, <1>4 DEF FreeOf
    <3> QED
      BY <3>1 DEF F!MergeRight, F!null
  <2>2. MeetsBefore(h, B, i)
    BY <1>4 DEF MeetsBefore, MeetsAt
  <2> QED
    BY <2>1, <2>2, Unmoved DEF MergedRight
<1> QED
  BY <1>3, <1>4

LEMMA LeftMerged ==
  ASSUME NEW h, NEW B, NEW rank, FirstChain(h, B, rank), NEW i \in FreeOf(h, B), MeetsBefore(h, B, i),
         NEW s, s = F!MergeLeft(h, i)
  PROVE  Merged(h, B, s)
<1>1. FirstType(h) /\ FirstTagged(h, B) /\ i \in B /\ i \in Int /\ F!isfree(h, i)
  <2>1. FirstType(h) /\ FirstTagged(h, B) /\ i \in B /\ F!isfree(h, i)
    BY DEF FirstChain, FreeOf
  <2> QED
    BY <2>1, FirstFacts
<1>2. /\ i = 1 => F!prev(h, i) = 0
      /\ i # 1 => F!prev(h, i) \in B /\ After(h, F!prev(h, i)) = i
      /\ \A j \in B : j \in Int /\ j >= 1
  <2>1. \A j \in B : j \in Int /\ j >= 1
    BY <1>1, FirstFacts
  <2> QED
    BY <1>1, <2>1, Neighbours
<1>3. CASE i # 1 /\ F!isfree(h, F!prev(h, i))
  <2>1. PICK l : l = F!prev(h, i) /\ l \in FreeOf(h, B) /\ l \in B /\ l \in Int /\ l # 0 /\ After(h, l) = i /\ F!isfree(h, l)
    BY <1>2, <1>3 DEF FreeOf
  <2>2. PICK n \in Int : n = JointSize(h, l, i)
    <3>1. h.word[i] \in Int /\ h.word[l] \in Int
      BY <1>1, <2>1, FirstFacts
    <3> QED
      BY <3>1 DEF JointSize
  <2>3. s = F!SetSize(F!Unlink(h, i), l, n)
    BY <2>1, <2>2 DEF F!MergeLeft, F!null, F!size, JointSize
  <2>4. PICK C : C = B \ {i}
    OBVIOUS
  <2>5. /\ \E q : FirstChain(s, C, q)
        /\ FreeOf(s, C) = FreeOf(h, B) \ {i}
        /\ FirstTakenOf(s, C) = FirstTakenOf(h, B)
        /\ FirstKeeps(h, B, {}, s)
        /\ After(s, l) = After(h, i) /\ \A j \in C : j # l => After(s, j) = After(h, j)
    BY <2>1, <2>2, <2>3, <2>4, Swallowed
  <2>6. FirstJoined(s, C)
    <3> SUFFICES ASSUME NEW a \in FreeOf(s, C), After(s, a) \in FreeOf(s, C) PROVE FALSE
      BY DEF FirstJoined
    <3>1. CASE a = l
      <4>1. After(h, i) \in FreeOf(h, B)
        BY <2>5, <3>1
      <4>2. After(h, i) = i + F!payload(h, i) + 2 /\ F!payload(h, i) \in Nat
        BY <1>1, FirstFacts
      <4> QED
        BY <1>1, <4>1, <4>2 DEF MeetsBefore
    <3>2. CASE a # l
      <4>1. After(s, a) = After(h, a) /\ a \in FreeOf(h, B) /\ After(h, a) \in FreeOf(h, B) /\ After(s, a) # i
        BY <2>4, <2>5, <3>2 DEF FreeOf
      <4> QED
        BY <4>1 DEF MeetsBefore
    <3> QED
      BY <3>1, <3>2
  <2> QED
    BY <2>5, <2>6 DEF Merged, Regrouped, FirstSound
<1>4. CASE i = 1 \/ ~F!isfree(h, F!prev(h, i))
  <2>1. s = h
    BY <1>2, <1>4 DEF F!MergeLeft, F!null
  <2>2. FirstJoined(h, B)
    <3> SUFFICES ASSUME NEW a \in FreeOf(h, B), After(h, a) \in FreeOf(h, B) PROVE FALSE
      BY DEF FirstJoined
    <3>1. After(h, a) = i /\ a \in B /\ F!isfree(h, a)
      BY DEF MeetsBefore, FreeOf
    <3>2. a \in Int /\ After(h, a) = a + F!payload(h, a) + 2 /\ F!payload(h, a) \in Nat /\ a >= 1
      BY <1>1, <3>1, FirstFacts
    <3>3. i # 1
      BY <1>1, <3>1, <3>2
    <3>4. PICK l : l = F!prev(h, i) /\ l \in B /\ After(h, l) = i /\ ~F!isfree(h, l)
      BY <1>2, <1>4, <3>3
    <3>5. l \in Int /\ After(h, l) = l + F!payload(h, l) + 2 /\ F!payload(h, l) \in Nat
      BY <1>1, <3>4, FirstFacts
    <3>6. ~(a < l)
      <4>1. a < l => After(h, a) <= l
        BY <1>1, <3>1, <3>2, <3>4, <3>5, FirstDisjoint
      <4>2. l < i
        BY <1>1, <3>4, <3>5
      <4> QED
        BY <1>1, <3>1, <3>5, <4>1, <4>2
    <3>7. ~(l < a)
      <4>1. l < a => After(h, l) <= a
        BY <1>1, <3>1, <3>2, <3>4, <3>5, FirstDisjoint
      <4>2. a < i
        BY <1>1, <3>1, <3>2
      <4> QED
        BY <1>1, <3>2, <3>4, <4>1, <4>2
    <3>9. a = l
      BY <3>2, <3>5, <3>6, <3>7
    <3> QED
      BY <3>1, <3>4, <3>9
  <2> QED
    BY <2>1, <2>2, Unmoved DEF Merged, FirstSound
<1> QED
  BY <1>3, <1>4

\* What free does: into the list, and one with its free neighbours.
LEMMA Freed ==
  ASSUME NEW h, NEW B, NEW rank, FirstSound(h, B, rank), NEW i \in B, ~F!isfree(h, i),
         NEW s, s = F!merge(Inserted(h, i), i)
  PROVE  FirstGains(h, B, {i}, s)
<1>1. FirstChain(h, B, rank) /\ FirstJoined(h, B) /\ FirstType(h) /\ FirstTagged(h, B)
  BY DEF FirstSound, FirstChain
<1>2. PICK u : u = Inserted(h, i)
  OBVIOUS
<1>3. /\ \E q : FirstChain(u, B, q)
      /\ FreeOf(u, B) = FreeOf(h, B) \cup {i}
      /\ FirstTakenOf(u, B) = FirstTakenOf(h, B) \ {i}
      /\ FirstKeeps(h, B, {i}, u)
      /\ \A j \in B : After(u, j) = After(h, j)
  BY <1>1, <1>2, IntoList
<1>4. PICK q : FirstChain(u, B, q)
  BY <1>3
<1>5. i \in FreeOf(u, B) /\ MeetsAt(u, B, i)
  BY <1>1, <1>3 DEF MeetsAt, FirstJoined, FreeOf
<1>6. PICK v : v = F!MergeRight(u, i)
  OBVIOUS
<1>7. MergedRight(u, B, i, v)
  BY <1>4, <1>5, <1>6, RightMerged
<1>8. PICK C, r : FirstChain(v, C, r) /\ Regrouped(u, B, v, C) /\ i \in FreeOf(v, C) /\ MeetsBefore(v, C, i)
  BY <1>7 DEF MergedRight
<1>9. s = F!MergeLeft(v, i)
  BY <1>2, <1>6 DEF F!merge
<1>10. Merged(v, C, s)
  BY <1>8, <1>9, LeftMerged
<1>11. PICK E, t : FirstSound(s, E, t) /\ Regrouped(v, C, s, E)
  BY <1>10 DEF Merged
<1>12. FirstTakenOf(v, C) = FirstTakenOf(h, B) \ {i} /\ FirstTakenOf(s, E) = FirstTakenOf(h, B) \ {i}
  BY <1>3, <1>8, <1>11 DEF Regrouped
<1>13. FirstKeeps(h, B, {i}, v)
  <2>1. FirstKeeps(u, B, {}, v)
    BY <1>8 DEF Regrouped
  <2> QED
    BY <1>1, <1>3, <2>1, FirstKeepsOn
<1>14. FirstKeeps(h, B, {i}, s)
  <2>1. FirstKeeps(v, C, {}, s)
    BY <1>11 DEF Regrouped
  <2> QED
    BY <1>1, <1>12, <1>13, <2>1, FirstKeepsOn
<1> QED
  BY <1>11, <1>12, <1>14 DEF FirstGains

-----------------------------------------------------------------------------
(* A block that it hands out *)

\* From h to s the block at, with a payload of n words, is taken.
FirstGrants(h, B, at, n, s) ==
  /\ \E C, q : /\ FirstSound(s, C, q) /\ FirstTakenOf(s, C) = FirstTakenOf(h, B) \cup {at}
               /\ FirstKeeps(h, B, {}, s)
  /\ F!payload(s, at) = n

\* The whole block, which leaves the list.
LEMMA WholeHanded ==
  ASSUME NEW h, NEW B, NEW rank, FirstSound(h, B, rank), NEW i \in FreeOf(h, B),
         NEW n \in Int, n = F!payload(h, i), NEW s, s = F!SetSize(F!Unlink(h, i), i, n)
  PROVE  FirstGrants(h, B, i, n, s)
<1>1. PICK A : A = FreeOf(h, B)
  OBVIOUS
<1>2. /\ FirstType(h) /\ FirstTagged(h, B) /\ FirstLinked(h, A, rank) /\ FirstJoined(h, B)
      /\ i \in B /\ F!isfree(h, i) /\ i \in A /\ A \subseteq B
  BY <1>1 DEF FreeOf, FirstSound, FirstChain
<1>3. i \in Int /\ i >= 1 /\ i \in FirstIndex /\ h.word[i] \in Int /\ n >= 2 /\ n \in Nat
  BY <1>2, FirstFacts
<1>4. PICK f \in Int : f = F!findFooter(h, i) /\ f = i + n + 1 /\ f \in FirstIndex
  BY <1>2, <1>3, FirstFacts
<1>5. PICK hi \in Int : hi = After(h, i) /\ hi = f + 1 /\ hi \in B \cup {Bound}
  BY <1>2, <1>3, <1>4, FirstFacts
<1>6. FirstApart(A)
  <2>1. FirstApart(B)
    BY <1>2, FreeApart
  <2> QED
    BY <1>2, <2>1 DEF FirstApart
<1>7. PICK u : u = F!Unlink(h, i)
  OBVIOUS
<1>8. /\ FirstType(u) /\ FirstLinked(u, A \ {i}, Less(A, i, rank))
      /\ FirstUntouched(h, A \ {i}, u)
  BY <1>2, <1>3, <1>6, <1>7, FirstUnlinked
<1>9. f = FootOf(i, n)
  BY <1>3, <1>4 DEF FootOf
<1>10. /\ FirstType(s) /\ s.freehead = u.freehead
       /\ \A w \in FirstIndex : s.word[w] = IF w = i \/ w = f THEN n ELSE u.word[w]
  <2>1. s = F!SetSize(u, i, n)
    BY <1>7
  <2>2. i \in FirstIndex /\ f \in FirstIndex /\ FirstType(u)
    BY <1>3, <1>4, <1>8
  <2> QED
    BY <1>9, <2>1, <2>2, SetSizeIs
<1>11. FirstLinked(s, A \ {i}, Less(A, i, rank))
  <2> SUFFICES \A a \in A \ {i} : s.word[a + 2] = u.word[a + 2] /\ s.word[a + 1] = u.word[a + 1]
    BY <1>8, <1>10, FirstLinksStay
  <2> TAKE a \in A \ {i}
  <2>1. a + 1 \in FirstIndex /\ a + 2 \in FirstIndex
    BY <1>6, FirstApartFacts
  <2>2. i # a + 1 /\ i # a + 2 /\ f # a + 1 /\ f # a + 2
    BY <1>1, <1>2, <1>4, FirstLinksApart
  <2> QED
    BY <1>10, <2>1, <2>2
<1>12. /\ s.word[i] = n /\ s.word[f] = n /\ F!payload(s, i) = n /\ F!findFooter(s, i) = f
       /\ After(s, i) = hi /\ ~F!isfree(s, i)
  <2>1. s.word[i] = n /\ s.word[f] = n
    BY <1>3, <1>4, <1>10
  <2>2. F!payload(s, i) = n /\ ~F!isfree(s, i)
    BY <1>3, <2>1 DEF F!payload, F!isfree, F!size
  <2>3. F!findFooter(s, i) = i + F!payload(s, i) + 1 /\ After(s, i) = i + F!payload(s, i) + 2
    BY DEF F!findFooter, After
  <2> QED
    BY <1>3, <1>4, <1>5, <2>1, <2>2, <2>3
<1>13. Elsewhere(h, B, i, hi, s)
  <2> SUFFICES ASSUME NEW w \in FirstIndex, w < i \/ w >= hi, NoLink(A, w) PROVE s.word[w] = h.word[w]
    BY <1>1 DEF Elsewhere
  <2>1. w \in Int /\ w # i /\ w # f
    BY <1>3, <1>4, <1>5, FirstSizes
  <2>2. u.word[w] = h.word[w]
    BY <1>8 DEF FirstUntouched, NoLink
  <2> QED
    BY <1>10, <2>1, <2>2
<1>14. PICK N : N = {i}
  OBVIOUS
<1>15. FirstFill(s, N, hi) /\ i < hi /\ N \subseteq i..hi - 1
  BY <1>3, <1>4, <1>5, <1>12, <1>14 DEF FirstFill
<1>16. B = N \cup Outside(B, i, hi) /\ Within(B, i, hi) = {i}
  <2>1. B = {i} \cup Outside(B, i, After(h, i)) /\ Within(B, i, After(h, i)) = {i}
    BY <1>2, Alone
  <2> QED
    BY <1>5, <1>14, <2>1
<1>17. FirstTagged(s, B) /\ FirstSameSizes(h, Outside(B, i, hi), s) /\ FirstKeeps(h, B, {i}, s)
  <2>1. /\ FirstTagged(s, B) /\ FirstSameSizes(h, Outside(B, i, hi), s)
        /\ FirstKeeps(h, B, Within(B, i, hi), s)
    BY <1>2, <1>3, <1>5, <1>10, <1>13, <1>14, <1>15, <1>16, Recut
  <2> QED
    BY <1>16, <2>1
<1>18. \A j \in B : j # i => j \in Outside(B, i, hi)
  BY <1>14, <1>16
<1>19. FreeOf(s, B) = A \ {i} /\ FirstTakenOf(s, B) = FirstTakenOf(h, B) \cup {i}
  BY <1>1, <1>2, <1>12, <1>17, <1>18 DEF FreeOf, FirstTakenOf, FirstSameSizes
<1>20. FirstKeeps(h, B, {}, s)
  BY <1>2, <1>17 DEF FirstKeeps
<1>21. FirstJoined(s, B)
  <2> SUFFICES ASSUME NEW a \in FreeOf(s, B), After(s, a) \in FreeOf(s, B) PROVE FALSE
    BY DEF FirstJoined
  <2>1. a \in FreeOf(h, B) /\ After(s, a) \in FreeOf(h, B) /\ a \in B /\ a # i
    BY <1>1, <1>2, <1>19
  <2>2. After(s, a) = After(h, a)
    BY <1>17, <1>18, <2>1 DEF FirstSameSizes
  <2> QED
    BY <1>2, <2>1, <2>2 DEF FirstJoined
<1> QED
  BY <1>10, <1>11, <1>12, <1>17, <1>19, <1>20, <1>21 DEF FirstGrants, FirstSound, FirstChain

Rest(h, i, words) == F!payload(h, i) - words - 2
Cutoff(h, i, words) == i + Rest(h, i, words) + 2

\* Its right end: the rest stays where it is in the list.
LEMMA EndHanded ==
  ASSUME NEW h, NEW B, NEW rank, FirstSound(h, B, rank), NEW i \in FreeOf(h, B),
         NEW words \in Int, words >= 2, NEW r \in Int, r = Rest(h, i, words), r >= 3,
         NEW at \in Int, at = Cutoff(h, i, words),
         NEW m \in Int, m = -r, NEW s, s = F!SetSize(F!SetSize(h, i, m), at, words)
  PROVE  FirstGrants(h, B, at, words, s) /\ at \notin B
<1>1. PICK A : A = FreeOf(h, B)
  OBVIOUS
<1>2. /\ FirstType(h) /\ FirstTagged(h, B) /\ FirstLinked(h, A, rank) /\ FirstJoined(h, B)
      /\ i \in B /\ F!isfree(h, i) /\ i \in A /\ A \subseteq B
  BY <1>1 DEF FreeOf, FirstSound, FirstChain
<1>3. PICK p \in Int : /\ p = F!payload(h, i) /\ p >= 2 /\ r = p - words - 2 /\ at = i + r + 2
                       /\ i \in Int /\ i >= 1 /\ i \in FirstIndex
  <2>1. F!payload(h, i) \in Int /\ F!payload(h, i) >= 2 /\ i \in Int /\ i >= 1 /\ i \in FirstIndex
    BY <1>2, FirstFacts
  <2> QED
    BY <2>1 DEF Rest, Cutoff
<1>4. PICK f \in Int : f = F!findFooter(h, i) /\ f = i + p + 1 /\ f \in FirstIndex
  BY <1>2, <1>3, FirstFacts
<1>5. PICK hi \in Int : hi = After(h, i) /\ hi = f + 1 /\ hi \in B \cup {Bound}
  BY <1>2, <1>3, <1>4, FirstFacts
<1>6. FirstApart(A)
  <2>1. FirstApart(B)
    BY <1>2, FreeApart
  <2> QED
    BY <1>2, <2>1 DEF FirstApart
<1>7. PICK g \in Int : g = i + r + 1 /\ at = g + 1 /\ f = at + words + 1 /\ g \in FirstIndex /\ at \in FirstIndex /\ g > i + 2
  BY <1>3, <1>4, FirstSizes
<1>8. PICK u : u = F!SetSize(h, i, m)
  OBVIOUS
<1>9. g = FootOf(i, m) /\ f = FootOf(at, words)
  BY <1>7 DEF FootOf
<1>10. /\ FirstType(u) /\ u.freehead = h.freehead
       /\ \A w \in FirstIndex : u.word[w] = IF w = i \/ w = g THEN m ELSE h.word[w]
  <2>1. i \in FirstIndex /\ g \in FirstIndex /\ FirstType(h)
    BY <1>2, <1>3, <1>7
  <2> QED
    BY <1>8, <1>9, <2>1, SetSizeIs
<1>11. /\ FirstType(s) /\ s.freehead = u.freehead
       /\ \A w \in FirstIndex : s.word[w] = IF w = at \/ w = f THEN words ELSE u.word[w]
  <2>1. s = F!SetSize(u, at, words)
    BY <1>8
  <2>2. at \in FirstIndex /\ f \in FirstIndex /\ FirstType(u)
    BY <1>4, <1>7, <1>10
  <2> QED
    BY <1>9, <2>1, <2>2, SetSizeIs
<1>12. /\ s.word[i] = m /\ s.word[g] = m /\ s.word[at] = words /\ s.word[f] = words
       /\ \A w \in FirstIndex : w # i /\ w # g /\ w # at /\ w # f => s.word[w] = h.word[w]
  BY <1>3, <1>4, <1>7, <1>10, <1>11
<1>13. FirstLinked(s, A, rank)
  <2> SUFFICES \A a \in A : s.word[a + 2] = h.word[a + 2] /\ s.word[a + 1] = h.word[a + 1]
    BY <1>2, <1>10, <1>11, FirstLinksStay
  <2> TAKE a \in A
  <2>1. a + 1 \in FirstIndex /\ a + 2 \in FirstIndex
    BY <1>6, FirstApartFacts
  <2>2. CASE a = i
    BY <1>3, <1>4, <1>7, <1>12, <2>1, <2>2
  <2>3. CASE a # i
    <3>1. \A w \in i..F!findFooter(h, i) : w # a + 1 /\ w # a + 2
      BY <1>1, <1>2, <2>3, FirstLinksApart
    <3>2. i \in i..f /\ g \in i..f /\ at \in i..f /\ f \in i..f
      BY <1>3, <1>4, <1>7
    <3> QED
      BY <1>4, <1>12, <2>1, <3>1, <3>2
  <2> QED
    BY <2>2, <2>3
<1>14. /\ F!payload(s, i) = r /\ F!findFooter(s, i) = g /\ After(s, i) = at /\ F!isfree(s, i)
       /\ F!payload(s, at) = words /\ F!findFooter(s, at) = f /\ After(s, at) = hi /\ ~F!isfree(s, at)
  <2>1. F!payload(s, i) = r /\ F!isfree(s, i) /\ F!payload(s, at) = words /\ ~F!isfree(s, at)
    BY <1>12 DEF F!payload, F!isfree, F!size
  <2>2. \A j \in {i, at} : F!findFooter(s, j) = j + F!payload(s, j) + 1 /\ After(s, j) = j + F!payload(s, j) + 2
    BY DEF F!findFooter, After
  <2> QED
    BY <1>3, <1>4, <1>5, <1>7, <2>1, <2>2
<1>15. Elsewhere(h, B, i, hi, s)
  <2> SUFFICES ASSUME NEW w \in FirstIndex, w < i \/ w >= hi, NoLink(A, w) PROVE s.word[w] = h.word[w]
    BY <1>1 DEF Elsewhere
  <2>1. w \in Int /\ w # i /\ w # f /\ w # g /\ w # at
    BY <1>3, <1>4, <1>5, <1>7, FirstSizes
  <2> QED
    BY <1>12, <2>1
<1>16. PICK N : N = {i, at}
  OBVIOUS
<1>17. FirstFill(s, N, hi) /\ i < hi /\ N \subseteq i..hi - 1 /\ i \in N
  <2>1. N \subseteq i..hi - 1 /\ i < hi
    BY <1>3, <1>4, <1>5, <1>7, <1>16
  <2>2. FirstFill(s, N, hi)
    BY <1>3, <1>4, <1>5, <1>7, <1>12, <1>14, <1>16 DEF FirstFill
  <2> QED
    BY <1>16, <2>1, <2>2
<1>18. B = {i} \cup Outside(B, i, hi) /\ Within(B, i, hi) = {i}
  <2>1. B = {i} \cup Outside(B, i, After(h, i)) /\ Within(B, i, After(h, i)) = {i}
    BY <1>2, Alone
  <2> QED
    BY <1>5, <2>1
<1>19. at \notin B
  <2>1. at \notin Outside(B, i, hi) /\ at # i
    BY <1>3, <1>4, <1>5, <1>7 DEF Outside
  <2> QED
    BY <1>18, <2>1
<1>20. PICK C : C = B \cup {at}
  OBVIOUS
<1>21. C = N \cup Outside(B, i, hi)
  BY <1>16, <1>18, <1>20
<1>22. FirstTagged(s, C) /\ FirstSameSizes(h, Outside(B, i, hi), s) /\ FirstKeeps(h, B, {i}, s)
  <2>1. /\ FirstTagged(s, C) /\ FirstSameSizes(h, Outside(B, i, hi), s)
        /\ FirstKeeps(h, B, Within(B, i, hi), s)
    BY <1>2, <1>3, <1>5, <1>11, <1>15, <1>17, <1>21, Recut
  <2> QED
    BY <1>18, <2>1
<1>23. \A j \in B : j # i => j \in Outside(B, i, hi)
  BY <1>18
<1>24. FreeOf(s, C) = A /\ FirstTakenOf(s, C) = FirstTakenOf(h, B) \cup {at}
  <2>1. \A j \in B : F!isfree(s, j) <=> F!isfree(h, j)
    BY <1>2, <1>14, <1>22, <1>23 DEF FirstSameSizes
  <2> QED
    BY <1>1, <1>14, <1>20, <2>1 DEF FreeOf, FirstTakenOf
<1>25. FirstKeeps(h, B, {}, s)
  BY <1>2, <1>22 DEF FirstKeeps
<1>26. FirstJoined(s, C)
  <2> SUFFICES ASSUME NEW a \in A, After(s, a) \in A PROVE FALSE
    BY <1>24 DEF FirstJoined
  <2>1. CASE a = i
    BY <1>2, <1>14, <1>19, <2>1
  <2>2. CASE a # i
    <3>1. After(s, a) = After(h, a)
      BY <1>2, <1>22, <1>23, <2>2 DEF FirstSameSizes
    <3> QED
      BY <1>1, <1>2, <3>1 DEF FirstJoined
  <2> QED
    BY <2>1, <2>2
<1> QED
  BY <1>11, <1>13, <1>14, <1>19, <1>22, <1>24, <1>25, <1>26 DEF FirstGrants, FirstSound, FirstChain

LEMMA FirstHanded ==
  ASSUME NEW h, NEW B, NEW rank, FirstSound(h, B, rank), NEW i \in FreeOf(h, B),
         NEW words \in Int, words >= 2, words <= F!payload(h, i),
         NEW done, done = F!HandOut(h, i, words)
  PROVE  \E at, n \in Int :
           /\ done.at = at /\ FirstGrants(h, B, at, n, done.heap)
           /\ words <= n /\ n <= words + 4 /\ at \notin FirstTakenOf(h, B)
           /\ i <= at /\ at + n + 1 <= F!findFooter(h, i)
<1>1. FirstType(h) /\ FirstTagged(h, B) /\ i \in B /\ F!isfree(h, i)
  BY DEF FirstSound, FirstChain, FreeOf
<1>2. PICK p \in Int : p = F!payload(h, i) /\ F!findFooter(h, i) = i + p + 1 /\ i \in Int
  BY <1>1, FirstFacts
<1>3. CASE p - words <= 4
  <2>1. done.heap = F!SetSize(F!Unlink(h, i), i, p) /\ done.at = i
    BY <1>2, <1>3 DEF F!HandOut
  <2>2. FirstGrants(h, B, i, p, done.heap)
    BY <1>2, <2>1, WholeHanded
  <2>3. i \notin FirstTakenOf(h, B)
    BY <1>1 DEF FirstTakenOf
  <2> QED
    BY <1>2, <1>3, <2>1, <2>2, <2>3
<1>4. CASE p - words > 4
  <2>1. PICK r \in Int : r = Rest(h, i, words) /\ r = p - words - 2 /\ r >= 3
    BY <1>2, <1>4 DEF Rest
  <2>2. PICK at \in Int : at = Cutoff(h, i, words) /\ at = i + r + 2
    BY <1>2, <2>1 DEF Cutoff
  <2>3. PICK m \in Int : m = -r
    BY <2>1
  <2>4. done.heap = F!SetSize(F!SetSize(h, i, m), at, words) /\ done.at = at
    <3>1. ~(p - words <= 4)
      BY <1>2, <1>4
    <3> QED
      BY <1>2, <2>1, <2>2, <2>3, <3>1 DEF F!HandOut
  <2>5. FirstGrants(h, B, at, words, done.heap) /\ at \notin B
    BY <2>1, <2>2, <2>3, <2>4, EndHanded
  <2>6. at \notin FirstTakenOf(h, B)
    BY <2>5 DEF FirstTakenOf
  <2> QED
    BY <1>2, <2>1, <2>2, <2>4, <2>5, <2>6
<1> QED
  BY <1>2, <1>3, <1>4

-----------------------------------------------------------------------------
(* Which block its malloc takes *)

LEMMA FirstMinIs ==
  ASSUME NEW T \in SUBSET Nat, T # {}
  PROVE  F!Min(T) \in T /\ \A x \in T : F!Min(T) <= x
<1>1. \E x \in T : \A y \in T : x <= y
  BY Least
<1> QED
  BY <1>1 DEF F!Min

LEMMA WordSizeIs ==
  ASSUME NEW bytes \in Nat
  PROVE  F!WordSize(bytes) \in Nat /\ F!WordSize(bytes) >= 2 /\ 4 * F!WordSize(bytes) >= bytes
<1>1. PICK x \in Int : x = (bytes + 3) \div 4 /\ 4 * x >= bytes /\ x >= 0
  OBVIOUS
<1>2. \E y \in {2, x} : \A z \in {2, x} : y >= z
  <2>1. CASE x >= 2
    BY <2>1
  <2>2. CASE x < 2
    BY <2>2
  <2> QED
    BY <1>1, <2>1, <2>2
<1>3. PICK y : y = F!Max({2, x}) /\ y \in {2, x} /\ y >= 2 /\ y >= x
  BY <1>2 DEF F!Max
<1>4. F!WordSize(bytes) = y
  BY <1>1, <1>3 DEF F!WordSize
<1> QED
  BY <1>1, <1>3, <1>4

\* A block that fits, if there is one.
FirstServes(h, B, words, it) ==
  \/ it = 0 /\ \A a \in FreeOf(h, B) : F!payload(h, a) < words
  \/ it \in FreeOf(h, B) /\ words <= F!payload(h, it)

LEMMA FinderServes ==
  ASSUME NEW h, NEW B, NEW rank, FirstSound(h, B, rank), NEW words \in Int
  PROVE  FirstServes(h, B, words, F!Finder(h, words))
<1> DEFINE at == F!Listed(h)
           fits == {k \in 0..Most : at[k] # 0 /\ F!payload(h, at[k]) >= words}
<1>1. PICK A : A = FreeOf(h, B)
  OBVIOUS
<1>2. FirstLists(h, A, at) /\ Most \in Nat /\ 0 \notin A
  <2>1. FirstType(h) /\ FirstTagged(h, B) /\ FirstLinked(h, A, rank)
    BY <1>1 DEF FirstSound, FirstChain
  <2>2. FirstApart(A)
    <3>1. FirstApart(B)
      BY <2>1, FreeApart
    <3> QED
      BY <1>1, <3>1 DEF FirstApart, FreeOf
  <2>3. Most \in Nat
    BY FirstSizes DEF Most
  <2> QED
    BY <2>1, <2>2, <2>3, FirstListReaches, FirstApartFacts
<1>3. \A a \in A : F!payload(h, a) \in Int
  <2> SUFFICES ASSUME NEW a \in FreeOf(h, B) PROVE F!payload(h, a) \in Int
    BY <1>1
  <2>1. FirstType(h) /\ FirstTagged(h, B) /\ a \in B
    BY DEF FirstSound, FirstChain, FreeOf
  <2> QED
    BY <2>1, FirstFacts
<1>4. F!Finder(h, words) = IF fits = {} THEN 0 ELSE at[F!Min(fits)]
  <2>1. DOMAIN at = 0..Most
    BY <1>2 DEF FirstLists
  <2> HIDE DEF at
  <2>2. F!Finder(h, words) = LET S == {k \in DOMAIN at : at[k] # 0 /\ F!payload(h, at[k]) >= words}
                          IN  IF S = {} THEN 0 ELSE at[F!Min(S)]
    BY DEF at, F!Finder, F!null
  <2> QED
    BY <2>1, <2>2
<1> HIDE DEF at
<1>5. /\ \A k \in fits : k \in Nat /\ at[k] \in A /\ F!payload(h, at[k]) >= words
      /\ \A a \in A : F!payload(h, a) >= words => fits # {}
      /\ fits \in SUBSET Nat
  <2>1. \A k \in 0..Most : k \in Nat /\ at[k] \in A \cup {0}
    BY <1>2 DEF FirstLists
  <2>2. \A a \in A : \E k \in 0..Most : at[k] = a
    BY <1>2 DEF FirstLists
  <2> QED
    BY <1>2, <2>1, <2>2
<1>6. CASE fits = {}
  <2>1. \A a \in A : F!payload(h, a) < words
    BY <1>3, <1>5, <1>6
  <2> QED
    BY <1>1, <1>4, <1>6, <2>1 DEF FirstServes
<1>7. CASE fits # {}
  <2>1. PICK k \in fits : k = F!Min(fits)
    <3> HIDE DEF fits
    <3> QED
      BY <1>5, <1>7, FirstMinIs
  <2>2. F!Finder(h, words) = at[k]
    BY <1>4, <1>7, <2>1
  <2>3. at[k] \in A /\ words <= F!payload(h, at[k])
    BY <1>3, <1>5
  <2> QED
    BY <1>1, <2>2, <2>3 DEF FirstServes
<1> QED
  BY <1>6, <1>7

-----------------------------------------------------------------------------
(* It always is sound too, and users own the taken blocks *)

FirstOwned(h, B, lv) ==
  /\ DOMAIN lv = FirstTakenOf(h, B)
  /\ \A i \in DOMAIN lv : lv[i] \in Nat /\ 4 * F!payload(h, i) >= lv[i]

FirstInv == failed \in Nat /\ \E B, rank : FirstSound(heap, B, rank) /\ FirstOwned(heap, B, live)

LEMMA CountIs == ASSUME NEW S PROVE F!Cardinality(S) = Cardinality(S)
BY DEF F!Cardinality, Cardinality

\* An invariant: what the run asks of the blocks and the list.
LEMMA FirstIsSound ==
  ASSUME FirstInv
  PROVE  F!Tiled /\ F!ListsFree
<1>1. PICK B, rank : FirstSound(heap, B, rank) /\ FirstOwned(heap, B, live)
  BY DEF FirstInv
<1>2. FirstType(heap) /\ FirstTagged(heap, B) /\ FirstJoined(heap, B) /\ FirstLinked(heap, FreeOf(heap, B), rank)
  BY <1>1 DEF FirstSound, FirstChain
<1>3. F!Blocks = B
  BY <1>2, FirstBlocksAre
<1>4. F!goFromLeftToRight
  <2>1. Words \in Int /\ Words \in FirstIndex
    BY FirstSizes
  <2>2. PICK i \in B : i <= Words /\ Words <= F!findFooter(heap, i)
    BY <1>2, <2>1, FirstCovered
  <2>3. F!findFooter(heap, i) \in FirstIndex
    BY <1>2, FirstFacts
  <2>4. F!findFooter(heap, i) = Words
    BY <2>1, <2>2, <2>3, FirstSizes
  <2> QED
    BY <1>3, <2>4 DEF F!goFromLeftToRight
<1>5. F!Tiled
  <2>1. \A i \in B : F!payload(heap, i) >= 2 /\ heap.word[F!findFooter(heap, i)] = F!size(heap, i)
    BY <1>2 DEF FirstTagged, F!size
  <2>2. \A i \in B : ~(F!isfree(heap, i) /\ \E j \in B : j = F!next(heap, i) /\ F!isfree(heap, j))
    <3> SUFFICES ASSUME NEW i \in B, F!isfree(heap, i), NEW j \in B, j = F!next(heap, i), F!isfree(heap, j) PROVE FALSE
      OBVIOUS
    <3>1. i \in Int /\ j \in Int /\ j >= 1
      BY <1>2, FirstFacts
    <3>2. j = After(heap, i)
      <4>1. F!next(heap, i) = IF After(heap, i) = Bound THEN 0 ELSE After(heap, i)
        BY <1>2, <3>1, Neighbours
      <4> QED
        BY <3>1, <4>1
    <3> QED
      BY <1>2, <3>2 DEF FirstJoined, FreeOf
  <2>3. DOMAIN live = {i \in B : ~F!isfree(heap, i)} /\ \A i \in DOMAIN live : 4 * F!payload(heap, i) >= live[i]
    BY <1>1 DEF FirstOwned, FirstTakenOf
  <2> QED
    BY <1>3, <1>4, <2>1, <2>2, <2>3 DEF F!Tiled
<1>6. F!ListsFree
  <2> DEFINE at == F!Listed(heap)
             used == {k \in 0..Most : at[k] # 0}
             image == {at[k] : k \in used}
  <2>1. PICK A : A = FreeOf(heap, B)
    OBVIOUS
  <2>2. FirstLists(heap, A, at) /\ 0 \notin A
    <3>1. FirstApart(A)
      <4>1. FirstApart(B)
        BY <1>2, FreeApart
      <4> QED
        BY <2>1, <4>1 DEF FirstApart, FreeOf
    <3> QED
      BY <1>2, <2>1, <3>1, FirstListReaches, FirstApartFacts
  <2>3. DOMAIN at = 0..Most
    BY <2>2 DEF FirstLists
  <2> HIDE DEF at
  <2>4. image = A
    BY <2>2 DEF FirstLists
  <2>5. A = {i \in F!Blocks : F!isfree(heap, i)}
    BY <1>3, <2>1 DEF FreeOf
  <2>6. Cardinality(used) = Cardinality(image)
    <3> DEFINE f == [k \in used |-> at[k]]
    <3>1. \A j, k \in used : at[j] = at[k] => j = k
      BY <2>2 DEF FirstLists
    <3>2. f \in Surjection(used, image) /\ f \in Injection(used, image)
      <4>1. f \in [used -> image] /\ \A t \in image : \E k \in used : f[k] = t
        OBVIOUS
      <4>2. \A j, k \in DOMAIN f : f[j] = f[k] => j = k
        BY <3>1
      <4> HIDE DEF f, image, used
      <4> QED
        BY <4>1, <4>2 DEF Surjection, Injection, IsInjective
    <3>3. IsFiniteSet(used)
      <4>1. Most \in Int
        BY FirstSizes DEF Most
      <4>2. IsFiniteSet(0..Most)
        BY <4>1, FS_Interval
      <4>3. used \subseteq 0..Most
        OBVIOUS
      <4> HIDE DEF used
      <4> QED
        BY <4>2, <4>3, FS_Subset
    <3> HIDE DEF f, image, used
    <3> QED
      BY <3>2, <3>3, FS_Surjection
  <2>7. \A k \in used : F!prevFree(heap, at[k]) = IF k = 0 THEN 0 ELSE at[k - 1]
    BY <2>2 DEF FirstLists
  <2>8. \A a \in A : F!size(heap, a) \in -4 * Words..0
    <3> SUFFICES ASSUME NEW a \in FreeOf(heap, B) PROVE F!size(heap, a) \in -4 * Words..0
      BY <2>1
    <3>1. a \in B /\ F!isfree(heap, a)
      BY DEF FreeOf
    <3>2. /\ heap.word[a] \in Int /\ F!payload(heap, a) = -heap.word[a] /\ F!payload(heap, a) >= 2 /\ a >= 1 /\ a \in Int
          /\ After(heap, a) = a + F!payload(heap, a) + 2 /\ After(heap, a) <= Bound
      BY <1>2, <3>1, FirstFacts
    <3> QED
      BY <3>2, FirstSizes DEF F!size
  <2>9. \A k \in 0..Most : at[k] # 0 => F!size(heap, at[k]) \in -4 * Words..0
    BY <2>4, <2>8
  <2>10. F!checkfreenodes
    BY <2>3, <2>9 DEF at, F!checkfreenodes, F!null
  <2> HIDE DEF used, image
  <2>11. F!ListsFree <=>
           LET S == {k \in DOMAIN at : at[k] # 0}
           IN  /\ F!checkfreenodes
               /\ {at[k] : k \in S} = {i \in F!Blocks : F!isfree(heap, i)}
               /\ Cardinality(S) = Cardinality({at[k] : k \in S})
               /\ \A k \in S : F!prevFree(heap, at[k]) = IF k = 0 THEN 0 ELSE at[k - 1]
    BY CountIs DEF at, F!ListsFree, F!null
  <2>12. used = {k \in DOMAIN at : at[k] # 0}
    BY <2>3 DEF used
  <2> QED
    BY <2>4, <2>5, <2>6, <2>7, <2>10, <2>11, <2>12 DEF image
<1> QED
  BY <1>5, <1>6

LEMMA FirstInit == F!Init => FirstInv
<1> SUFFICES ASSUME F!Init PROVE FirstInv
  OBVIOUS
<1>1. PICK e : e = [word |-> [i \in 1..Words |-> 0], freehead |-> 1]
  OBVIOUS
<1>2. FirstType(e) /\ e.freehead = 1 /\ \A w \in FirstIndex : e.word[w] = 0
  BY <1>1 DEF FirstIndex, FirstType
<1>3. PICK n \in Int : /\ n = Words - 2 /\ n >= 2 /\ 1 + n + 1 = Words /\ Words \in FirstIndex /\ 1 \in FirstIndex
                       /\ 2 \in FirstIndex /\ 3 \in FirstIndex /\ Words > 3 /\ Bound = 1 + n + 2 /\ Words \in Int
  BY FirstSizes
<1>4. PICK m \in Int : m = -n
  OBVIOUS
<1>5. heap = F!SetSize(e, 1, m)
  <2>1. m = -(Words - 2)
    BY <1>3, <1>4
  <2> QED
    BY <1>1, <2>1 DEF F!Init
<1>6. Words = FootOf(1, m)
  BY <1>3, <1>4 DEF FootOf
<1>7. /\ FirstType(heap) /\ heap.freehead = 1
      /\ \A w \in FirstIndex : heap.word[w] = IF w = 1 \/ w = Words THEN m ELSE 0
  <2>1. /\ FirstType(heap) /\ heap.freehead = e.freehead
        /\ \A w \in FirstIndex : heap.word[w] = IF w = 1 \/ w = Words THEN m ELSE e.word[w]
    BY <1>2, <1>3, <1>5, <1>6, SetSizeIs
  <2> QED
    BY <1>2, <2>1
<1>8. heap.word[1] = m /\ heap.word[Words] = m /\ heap.word[2] = 0 /\ heap.word[3] = 0
  BY <1>3, <1>7
<1>9. PICK B : B = {1}
  OBVIOUS
<1>10. F!payload(heap, 1) = n /\ F!isfree(heap, 1)
  BY <1>3, <1>4, <1>8 DEF F!payload, F!isfree, F!size
<1>11. F!findFooter(heap, 1) = Words /\ After(heap, 1) = Bound
  BY <1>3, <1>10 DEF F!findFooter, After
<1>12. FirstTagged(heap, B)
  BY <1>3, <1>8, <1>9, <1>10, <1>11 DEF FirstTagged
<1>13. FreeOf(heap, B) = {1} /\ FirstTakenOf(heap, B) = {}
  BY <1>9, <1>10 DEF FreeOf, FirstTakenOf
<1>14. FirstJoined(heap, B)
  BY <1>3, <1>11, <1>13 DEF FirstJoined
<1>15. PICK rank : rank = [x \in {1} |-> 0]
  OBVIOUS
<1>16. FirstLinked(heap, {1}, rank)
  <2>1. F!nextFree(heap, 1) = 0 /\ F!prevFree(heap, 1) = 0
    BY <1>8 DEF F!nextFree, F!prevFree
  <2>2. rank \in [{1} -> Nat]
    BY <1>15
  <2> QED
    BY <1>7, <2>1, <2>2 DEF FirstLinked
<1>17. FirstSound(heap, B, rank)
  BY <1>7, <1>12, <1>13, <1>14, <1>16 DEF FirstSound, FirstChain
<1>18. FirstOwned(heap, B, live) /\ failed \in Nat
  BY <1>13 DEF F!Init, FirstOwned
<1> QED
  BY <1>17, <1>18 DEF FirstInv

LEMMA FirstHolds ==
  ASSUME NEW h, NEW B, NEW rank, FirstSound(h, B, rank), NEW j \in FirstTakenOf(h, B)
  PROVE  /\ FirstType(h) /\ FirstTagged(h, B) /\ j \in B /\ j \in Int /\ j >= 1 /\ ~F!isfree(h, j)
         /\ F!payload(h, j) \in Nat /\ F!payload(h, j) >= 2
         /\ F!findFooter(h, j) = j + F!payload(h, j) + 1 /\ After(h, j) = j + F!payload(h, j) + 2
         /\ F!findFooter(h, j) \in Int
<1>1. FirstType(h) /\ FirstTagged(h, B) /\ j \in B /\ ~F!isfree(h, j)
  BY DEF FirstSound, FirstChain, FirstTakenOf
<1>2. /\ j \in Int /\ j >= 1 /\ F!payload(h, j) \in Nat /\ F!payload(h, j) >= 2
      /\ F!findFooter(h, j) = j + F!payload(h, j) + 1 /\ After(h, j) = j + F!payload(h, j) + 2
  BY <1>1, FirstFacts
<1> QED
  BY <1>1, <1>2

\* The words of blocks that users hold.
FirstCovers(h, B, x) == \E b \in FirstTakenOf(h, B) : x \in b..F!findFooter(h, b)
FirstUnheld(h, B, lo, hi) == \A x \in lo..hi : ~FirstCovers(h, B, x)
FirstFitting(h, B, n) == \E a \in FreeOf(h, B) : F!payload(h, a) + 2 >= n

\* What lies between the blocks that users hold lies in one free block.
LEMMA FirstGap ==
  ASSUME NEW h, NEW B, NEW rank, FirstSound(h, B, rank),
         NEW lo \in Int, NEW hi \in Int, 1 <= lo, lo <= hi, hi <= Words,
         FirstUnheld(h, B, lo, hi), NEW n \in Int, n = hi - lo + 1
  PROVE  FirstFitting(h, B, n)
<1> USE DEF FirstUnheld
<1>1. FirstType(h) /\ FirstTagged(h, B) /\ FirstJoined(h, B)
  BY DEF FirstSound, FirstChain
<1>2. PICK a \in Int : a \in B /\ a <= lo /\ lo <= F!findFooter(h, a)
  <2>1. lo \in FirstIndex
    BY FirstSizes
  <2>2. PICK a \in B : a <= lo /\ lo <= F!findFooter(h, a)
    BY <1>1, <2>1, FirstCovered
  <2>3. a \in Int
    BY <1>1, FirstFacts
  <2> QED
    BY <2>2, <2>3
<1>3. PICK p \in Nat : /\ p = F!payload(h, a) /\ F!findFooter(h, a) = a + p + 1 /\ After(h, a) = a + p + 2
                       /\ After(h, a) \in B \cup {Bound}
  BY <1>1, <1>2, FirstFacts
<1>4. F!isfree(h, a)
  <2> SUFFICES ASSUME ~F!isfree(h, a) PROVE FALSE
    OBVIOUS
  <2>1. a \in FirstTakenOf(h, B)
    BY <1>2 DEF FirstTakenOf
  <2>2. lo \in a..F!findFooter(h, a) /\ lo \in lo..hi
    BY <1>2, <1>3
  <2> QED
    BY <2>1, <2>2 DEF FirstCovers
<1>5. PICK r \in Int : r = After(h, a) /\ r > lo /\ r = a + p + 2
  BY <1>2, <1>3
<1>6. r > hi
  <2> SUFFICES ASSUME r <= hi PROVE FALSE
    BY <1>5
  <2>1. r \in B
    BY <1>3, <1>5, FirstSizes
  <2>2. r \in FirstTakenOf(h, B)
    BY <1>1, <1>2, <1>4, <1>5, <2>1 DEF FirstTakenOf, FirstJoined, FreeOf
  <2>3. r \in r..F!findFooter(h, r) /\ r \in lo..hi
    <3>1. F!findFooter(h, r) = r + F!payload(h, r) + 1 /\ F!payload(h, r) \in Nat
      BY <2>2, FirstHolds
    <3> QED
      BY <1>5, <3>1
  <2> QED
    BY <2>2, <2>3 DEF FirstCovers
<1>7. a \in FreeOf(h, B) /\ F!payload(h, a) + 2 >= n
  BY <1>2, <1>3, <1>4, <1>5, <1>6 DEF FreeOf
<1> QED
  BY <1>7 DEF FirstFitting

LEMMA FirstUsedIs ==
  ASSUME NEW B, NEW rank, FirstSound(heap, B, rank), FirstOwned(heap, B, live)
  PROVE  \A x : x \in F!AsAllocator!Used <=> FirstCovers(heap, B, x)
<1>1. DOMAIN live = FirstTakenOf(heap, B)
  BY DEF FirstOwned
<1>2. \A b \in FirstTakenOf(heap, B) : b..b + (F!payload(heap, b) + 2) - 1 = b..F!findFooter(heap, b)
  <2> SUFFICES ASSUME NEW b \in FirstTakenOf(heap, B)
               PROVE  b..b + (F!payload(heap, b) + 2) - 1 = b..F!findFooter(heap, b)
    OBVIOUS
  <2>1. b \in Int /\ F!payload(heap, b) \in Nat /\ F!findFooter(heap, b) = b + F!payload(heap, b) + 1
    BY FirstHolds
  <2>2. b + (F!payload(heap, b) + 2) - 1 = F!findFooter(heap, b)
    BY <2>1
  <2> QED
    BY <2>2
<1>3. F!AsAllocator!Used = UNION {b..b + (F!payload(heap, b) + 2) - 1 : b \in FirstTakenOf(heap, B)}
  BY <1>1 DEF F!AsAllocator!Used
<1> QED
  BY <1>2, <1>3 DEF FirstCovers

\* The blocks that stay taken are as long as before.
LEMMA FirstSizesStay ==
  ASSUME NEW h, NEW B, NEW rank, FirstSound(h, B, rank), NEW D, NEW s, FirstKeeps(h, B, D, s)
  PROVE  \A j \in FirstTakenOf(h, B) \ D :
           /\ F!payload(s, j) = F!payload(h, j)
           /\ \A w \in j + 1..F!findFooter(h, j) - 1 : s.word[w] = h.word[w]
<1> SUFFICES ASSUME NEW j \in FirstTakenOf(h, B) \ D
             PROVE  /\ F!payload(s, j) = F!payload(h, j)
                    /\ \A w \in j + 1..F!findFooter(h, j) - 1 : s.word[w] = h.word[w]
  OBVIOUS
<1>1. /\ j \in B /\ j \in Int /\ ~F!isfree(h, j) /\ F!payload(h, j) \in Nat /\ F!findFooter(h, j) \in Int
      /\ F!findFooter(h, j) = j + F!payload(h, j) + 1
  BY FirstHolds
<1>2. \A w \in j..F!findFooter(h, j) : s.word[w] = h.word[w]
  BY <1>1 DEF FirstKeeps
<1>3. s.word[j] = h.word[j]
  BY <1>1, <1>2
<1>4. F!payload(s, j) = F!payload(h, j)
  BY <1>3 DEF F!payload, F!isfree, F!size
<1>5. \A w \in j + 1..F!findFooter(h, j) - 1 : w \in j..F!findFooter(h, j)
  BY <1>1
<1> QED
  BY <1>2, <1>4, <1>5

LEMMA FirstMalloc ==
  ASSUME FirstInv, NEW bytes \in Nat, F!malloc(bytes)
  PROVE  FirstInv' /\ F!KeepsPayload /\ F!AsAllocator!Next
<1>1. PICK B, rank : FirstSound(heap, B, rank) /\ FirstOwned(heap, B, live)
  BY DEF FirstInv
<1>2. PICK words \in Nat : words = F!WordSize(bytes) /\ words >= 2 /\ 4 * words >= bytes
  BY WordSizeIs
<1>3. PICK it : it = F!Finder(heap, words)
  OBVIOUS
<1>4. FirstServes(heap, B, words, it)
  BY <1>1, <1>3, FinderServes
<1>5. PICK done : done = F!HandOut(heap, it, words)
  OBVIOUS
<1>6. IF bytes <= 4 * Words /\ it # 0
        THEN /\ heap' = done.heap
             /\ live' = [p \in DOMAIN live \cup {done.at} |-> IF p = done.at THEN bytes ELSE live[p]]
             /\ failed' = 0
        ELSE failed' = words + 2 /\ heap' = heap /\ live' = live
  BY <1>2, <1>3, <1>5 DEF F!malloc, F!null
<1>7. FirstType(heap) /\ FirstTagged(heap, B)
  BY <1>1 DEF FirstSound, FirstChain
<1>8. PICK U : U = FirstTakenOf(heap, B) /\ DOMAIN live = U
  BY <1>1 DEF FirstOwned
<1>9. CASE ~(bytes <= 4 * Words /\ it # 0)
  <2>1. failed' = words + 2 /\ heap' = heap /\ live' = live
    BY <1>6, <1>9
  <2>2. FirstInv' /\ F!KeepsPayload
    BY <1>1, <1>2, <2>1 DEF FirstInv, F!KeepsPayload
  <2>3. PICK ints \in Nat : ints = words + 2 /\ ints # 0 /\ failed' = ints
    BY <1>2, <2>1
  <2>4. \A b \in 1..Words - ints + 1 : (b..b + ints - 1) \cap F!AsAllocator!Used # {}
    <3> SUFFICES ASSUME NEW b \in 1..Words - ints + 1, (b..b + ints - 1) \cap F!AsAllocator!Used = {}
                 PROVE  FALSE
      OBVIOUS
    <3>1. PICK last \in Int : last = b + ints - 1 /\ b <= last /\ last <= Words /\ 1 <= b /\ ints = last - b + 1
      BY <1>2, <2>3, FirstSizes
    <3>2. FirstUnheld(heap, B, b, last)
      BY <1>1, <3>1, FirstUsedIs DEF FirstUnheld
    <3>3. FirstFitting(heap, B, ints)
      BY <1>1, <3>1, <3>2, FirstGap
    <3>4. PICK a \in FreeOf(heap, B) : F!payload(heap, a) + 2 >= ints
      BY <3>3 DEF FirstFitting
    <3>5. a \in B /\ a # 0 /\ F!payload(heap, a) \in Int /\ F!payload(heap, a) >= words
      <4>1. a \in B
        BY DEF FreeOf
      <4>2. a >= 1 /\ a \in Int /\ F!payload(heap, a) \in Int
        BY <1>7, <4>1, FirstFacts
      <4> QED
        BY <2>3, <3>4, <4>1, <4>2
    <3>6. it # 0
      <4> SUFFICES ASSUME it = 0 PROVE FALSE
        OBVIOUS
      <4>1. 0 \notin FreeOf(heap, B)
        <5>1. \A j \in B : j # 0
          BY <1>7, FirstSizes DEF FirstTagged
        <5> QED
          BY <5>1 DEF FreeOf
      <4>2. F!payload(heap, a) < words
        BY <1>4, <4>1 DEF FirstServes
      <4> QED
        BY <3>5, <4>2
    <3>7. bytes > 4 * Words
      BY <1>9, <3>6, FirstSizes
    <3>8. words <= Words
      BY <2>3, <3>1, FirstSizes
    <3>9. bytes <= 4 * Words
      BY <1>2, <3>8, FirstSizes
    <3> QED
      BY <3>7, <3>9, FirstSizes
  <2>5. F!AsAllocator!GiveUp
    <3>1. [i \in DOMAIN live' |-> F!payload(heap', i) + 2] = [i \in DOMAIN live |-> F!payload(heap, i) + 2]
      BY <2>1
    <3> QED
      BY <2>3, <2>4, <3>1 DEF F!AsAllocator!GiveUp
  <2> QED
    BY <2>2, <2>5 DEF F!AsAllocator!Next
<1>10. CASE bytes <= 4 * Words /\ it # 0
  <2>1. it \in FreeOf(heap, B) /\ words <= F!payload(heap, it) /\ words \in Int
    BY <1>2, <1>4, <1>10 DEF FirstServes
  <2>2. /\ heap' = done.heap /\ failed' = 0
        /\ live' = [p \in DOMAIN live \cup {done.at} |-> IF p = done.at THEN bytes ELSE live[p]]
    BY <1>6, <1>10
  <2>3. PICK at, n \in Int :
           /\ done.at = at /\ FirstGrants(heap, B, at, n, heap')
           /\ words <= n /\ n <= words + 4 /\ at \notin U
           /\ it <= at /\ at + n + 1 <= F!findFooter(heap, it)
    BY <1>1, <1>2, <1>5, <1>8, <2>1, <2>2, FirstHanded
  <2>4. PICK C, r : /\ FirstSound(heap', C, r) /\ FirstTakenOf(heap', C) = U \cup {at}
                    /\ FirstKeeps(heap, B, {}, heap') /\ F!payload(heap', at) = n
    BY <1>8, <2>3 DEF FirstGrants
  <2>5. /\ it \in B /\ it \in Int /\ it >= 1 /\ F!isfree(heap, it)
        /\ F!findFooter(heap, it) \in FirstIndex /\ After(heap, it) = F!findFooter(heap, it) + 1
    <3>1. it \in B /\ F!isfree(heap, it)
      BY <2>1 DEF FreeOf
    <3> QED
      BY <1>7, <3>1, FirstFacts
  <2>6. \A j \in U : F!payload(heap', j) = F!payload(heap, j) /\ j # at
    BY <1>1, <1>8, <2>3, <2>4, FirstSizesStay
  <2>7. DOMAIN live' = U \cup {at}
    BY <1>8, <2>2, <2>3
  <2>8. FirstOwned(heap', C, live')
    <3>1. ASSUME NEW p \in DOMAIN live' PROVE live'[p] \in Nat /\ 4 * F!payload(heap', p) >= live'[p]
      <4>1. CASE p = at
        BY <1>2, <2>2, <2>3, <2>4, <4>1
      <4>2. CASE p # at
        <5>1. p \in U /\ live'[p] = live[p]
          BY <1>8, <2>2, <2>3, <4>2
        <5> QED
          BY <1>1, <1>8, <2>6, <5>1 DEF FirstOwned
      <4> QED
        BY <4>1, <4>2
    <3> QED
      BY <2>4, <2>7, <3>1 DEF FirstOwned
  <2>9. FirstInv'
    BY <2>2, <2>4, <2>8 DEF FirstInv
  <2>10. F!KeepsPayload
    BY <1>1, <1>8, <2>4, FirstSizesStay DEF F!KeepsPayload
  <2>11. PICK k \in Int : /\ k = n + 2 /\ words + 2 <= k /\ k <= words + 2 + 4 /\ at + k - 1 <= Words
                          /\ at >= 1 /\ at <= Words /\ words + 2 <= Words
    <3>1. F!findFooter(heap, it) <= Words /\ F!findFooter(heap, it) \in Int
      BY <2>5, FirstSizes
    <3> QED
      BY <1>2, <2>3, <2>5, <3>1, FirstSizes
  <2>12. (at..at + k - 1) \cap F!AsAllocator!Used = {}
    <3> SUFFICES ASSUME NEW x \in Int, x \in at..at + k - 1, FirstCovers(heap, B, x) PROVE FALSE
      BY <1>1, FirstUsedIs
    <3>1. PICK b \in FirstTakenOf(heap, B) : x \in b..F!findFooter(heap, b)
      BY DEF FirstCovers
    <3>2. /\ b \in B /\ b \in Int /\ ~F!isfree(heap, b) /\ F!findFooter(heap, b) \in Int
          /\ F!findFooter(heap, b) + 1 = After(heap, b)
      <4>1. /\ b \in B /\ b \in Int /\ ~F!isfree(heap, b) /\ F!findFooter(heap, b) \in Int
            /\ F!findFooter(heap, b) = b + F!payload(heap, b) + 1 /\ After(heap, b) = b + F!payload(heap, b) + 2
            /\ F!payload(heap, b) \in Nat
        BY <1>1, FirstHolds
      <4> QED
        BY <4>1
    <3>3. b < it => After(heap, b) <= it
      BY <1>7, <2>5, <3>2, FirstDisjoint
    <3>4. it < b => After(heap, it) <= b
      BY <1>7, <2>5, <3>2, FirstDisjoint
    <3>5. b # it
      BY <2>5, <3>2
    <3>6. F!findFooter(heap, it) \in Int
      BY <2>5, FirstSizes
    <3> QED
      BY <2>3, <2>5, <2>11, <3>1, <3>2, <3>3, <3>4, <3>5, <3>6
  <2>13. PICK M : M = [i \in U |-> F!payload(heap, i) + 2]
    OBVIOUS
  <2>14. [i \in U \cup {at} |-> F!payload(heap', i) + 2] = [c \in U \cup {at} |-> IF c = at THEN k ELSE M[c]]
    BY <2>4, <2>6, <2>11, <2>13
  <2>15. PICK ints \in 1..Words : ints = words + 2 /\ k \in ints..ints + 4 /\ at \in 1..Words
    BY <1>2, <2>11, FirstSizes
  <2>16. F!AsAllocator!Malloc(ints)
    BY <1>8, <2>2, <2>3, <2>7, <2>11, <2>12, <2>13, <2>14, <2>15 DEF F!AsAllocator!Malloc
  <2> QED
    BY <2>9, <2>10, <2>16 DEF F!AsAllocator!Next
<1> QED
  BY <1>9, <1>10

LEMMA FirstFree ==
  ASSUME FirstInv, NEW i \in DOMAIN live, F!free(i)
  PROVE  FirstInv' /\ F!KeepsPayload /\ F!AsAllocator!Next
<1>1. PICK B, rank : FirstSound(heap, B, rank) /\ FirstOwned(heap, B, live)
  BY DEF FirstInv
<1>2. PICK U : U = FirstTakenOf(heap, B) /\ DOMAIN live = U
  BY <1>1 DEF FirstOwned
<1>3. i \in B /\ ~F!isfree(heap, i) /\ i \in U
  BY <1>2 DEF FirstTakenOf
<1>4. heap' = F!merge(Inserted(heap, i), i) /\ live' = [p \in DOMAIN live \ {i} |-> live[p]] /\ failed' = 0
  BY DEF F!free, Inserted
<1>5. FirstGains(heap, B, {i}, heap')
  BY <1>1, <1>3, <1>4, Freed
<1>6. PICK C, r : /\ FirstSound(heap', C, r) /\ FirstTakenOf(heap', C) = U \ {i} /\ FirstKeeps(heap, B, {i}, heap')
  BY <1>2, <1>5 DEF FirstGains
<1>7. \A j \in U \ {i} : F!payload(heap', j) = F!payload(heap, j)
  BY <1>1, <1>2, <1>6, FirstSizesStay
<1>8. DOMAIN live' = U \ {i}
  BY <1>2, <1>4
<1>9. FirstOwned(heap', C, live')
  <2>1. ASSUME NEW q \in DOMAIN live' PROVE live'[q] \in Nat /\ 4 * F!payload(heap', q) >= live'[q]
    <3>1. q \in U \ {i} /\ live'[q] = live[q]
      BY <1>2, <1>4
    <3> QED
      BY <1>1, <1>2, <1>7, <3>1 DEF FirstOwned
  <2> QED
    BY <1>6, <1>8, <2>1 DEF FirstOwned
<1>10. FirstInv'
  BY <1>4, <1>6, <1>9 DEF FirstInv
<1>11. F!KeepsPayload
  BY <1>1, <1>2, <1>6, <1>8, FirstSizesStay DEF F!KeepsPayload
<1>12. F!AsAllocator!Free(i)
  <2>1. [b \in U \ {i} |-> F!payload(heap', b) + 2] = [c \in U \ {i} |-> [b \in U |-> F!payload(heap, b) + 2][c]]
    BY <1>7
  <2> QED
    BY <1>2, <1>4, <1>8, <2>1 DEF F!AsAllocator!Free
<1>13. i \in DOMAIN [b \in DOMAIN live |-> F!payload(heap, b) + 2]
  OBVIOUS
<1> QED
  BY <1>10, <1>11, <1>12, <1>13 DEF F!AsAllocator!Next

-----------------------------------------------------------------------------
(* Calls a write at a time: what sequences of writes amount to *)

Effect(d, h, w) == IF d = "best" THEN BS!Written(h, w) ELSE FS!Written(h, w)

\* The writes ws, one after the other, make s of the heap h.
Leads(d, h, ws, s) ==
  \E S, g : /\ ws \in Seq(S)
            /\ g[0] = h /\ g[Len(ws)] = s
            /\ \A k \in 1..Len(ws) : g[k] = Effect(d, g[k - 1], ws[k])

LEMMA LeadsNowhere ==
  ASSUME NEW d, NEW h, NEW s
  PROVE  Leads(d, h, <<>>, s) <=> s = h
<1>1. ASSUME s = h PROVE Leads(d, h, <<>>, s)
  <2>1. PICK g : g = [k \in 0..0 |-> h]
    OBVIOUS
  <2>2. <<>> \in Seq({}) /\ Len(<<>>) = 0 /\ g[0] = h
    BY <2>1
  <2> QED
    BY <1>1, <2>2 DEF Leads
<1>2. ASSUME Leads(d, h, <<>>, s) PROVE s = h
  <2>1. Len(<<>>) = 0
    OBVIOUS
  <2> QED
    BY <1>2, <2>1 DEF Leads
<1> QED
  BY <1>1, <1>2

LEMMA LeadsOnce ==
  ASSUME NEW d, NEW h, NEW w, NEW s, s = Effect(d, h, w)
  PROVE  Leads(d, h, <<w>>, s)
<1>1. PICK g : g = [k \in 0..1 |-> IF k = 0 THEN h ELSE s]
  OBVIOUS
<1>2. <<w>> \in Seq({w}) /\ Len(<<w>>) = 1 /\ <<w>>[1] = w
  OBVIOUS
<1>3. g[0] = h /\ g[1] = s
  BY <1>1
<1>4. \A k \in 1..1 : g[k] = Effect(d, g[k - 1], <<w>>[k])
  BY <1>2, <1>3
<1> QED
  BY <1>2, <1>3, <1>4 DEF Leads

LEMMA LeadsOn ==
  ASSUME NEW d, NEW h, NEW a, NEW t, Leads(d, h, a, t), NEW b, NEW s, Leads(d, t, b, s)
  PROVE  Leads(d, h, a \o b, s)
<1>1. PICK A, f : /\ a \in Seq(A) /\ f[0] = h /\ f[Len(a)] = t
                  /\ \A k \in 1..Len(a) : f[k] = Effect(d, f[k - 1], a[k])
  BY DEF Leads
<1>2. PICK B, g : /\ b \in Seq(B) /\ g[0] = t /\ g[Len(b)] = s
                  /\ \A k \in 1..Len(b) : g[k] = Effect(d, g[k - 1], b[k])
  BY DEF Leads
<1>3. PICK m \in Nat, n \in Nat : m = Len(a) /\ n = Len(b)
  BY <1>1, <1>2
<1>c. PICK C : C = A \cup B
  OBVIOUS
<1>4. PICK e : e = [k \in 0..m + n |-> IF k <= m THEN f[k] ELSE g[k - m]]
  OBVIOUS
<1>5. a \in Seq(C) /\ b \in Seq(C)
  BY <1>1, <1>2, <1>c
<1>6. PICK c : c = a \o b
  OBVIOUS
<1>7. c \in Seq(C) /\ Len(c) = m + n /\ \A k \in 1..m + n : c[k] = IF k <= m THEN a[k] ELSE b[k - m]
  BY <1>3, <1>5, <1>6
<1>8. e[0] = h /\ e[m] = t /\ e[m + n] = s
  <2>1. n = 0 => s = t
    BY <1>2, <1>3
  <2>2. n # 0 => e[m + n] = g[n]
    BY <1>4
  <2>3. e[0] = f[0] /\ e[m] = f[m] /\ (n = 0 => m + n = m)
    BY <1>4
  <2>4. f[0] = h /\ f[m] = t /\ g[0] = t /\ g[n] = s
    BY <1>1, <1>2, <1>3
  <2> QED
    BY <2>1, <2>2, <2>3, <2>4
<1>9. \A k \in 1..m + n : e[k] = Effect(d, e[k - 1], c[k])
  <2> SUFFICES ASSUME NEW k \in 1..m + n PROVE e[k] = Effect(d, e[k - 1], c[k])
    OBVIOUS
  <2>1. CASE k <= m
    <3>1. k \in 1..m /\ e[k] = f[k] /\ e[k - 1] = f[k - 1] /\ c[k] = a[k]
      BY <1>4, <1>7, <2>1
    <3> QED
      BY <1>1, <1>3, <3>1
  <2>2. CASE k > m
    <3>1. PICK j \in 1..n : j = k - m
      BY <2>2
    <3>2. e[k] = g[j] /\ c[k] = b[j]
      BY <1>4, <1>7, <2>2, <3>1
    <3>3. e[k - 1] = g[j - 1]
      <4>1. CASE j = 1
        <5>1. k - 1 = m
          BY <3>1, <4>1
        <5> QED
          BY <1>2, <1>8, <4>1, <5>1
      <4>2. CASE j # 1
        <5>1. k - 1 \in 0..m + n /\ ~(k - 1 <= m) /\ (k - 1) - m = j - 1
          BY <3>1, <4>2
        <5> QED
          BY <1>4, <5>1
      <4> QED
        BY <4>1, <4>2
    <3> QED
      BY <1>2, <1>3, <3>1, <3>2, <3>3
  <2> QED
    BY <2>1, <2>2
<1>10. Leads(d, h, c, s)
  <2>1. e[Len(c)] = s /\ \A k \in 1..Len(c) : e[k] = Effect(d, e[k - 1], c[k])
    BY <1>7, <1>8, <1>9
  <2> QED
    BY <1>7, <1>8, <2>1 DEF Leads
<1> QED
  BY <1>6, <1>10

\* One of them is made.
LEMMA LeadsLess ==
  ASSUME NEW d, NEW h, NEW ws, ws # <<>>, NEW s, Leads(d, h, ws, s)
  PROVE  Leads(d, Effect(d, h, Head(ws)), Tail(ws), s)
<1>1. PICK S, g : /\ ws \in Seq(S) /\ g[0] = h /\ g[Len(ws)] = s
                  /\ \A k \in 1..Len(ws) : g[k] = Effect(d, g[k - 1], ws[k])
  BY DEF Leads
<1>2. PICK n \in Nat : n = Len(ws) /\ n >= 1
  BY <1>1
<1>3. PICK v : v = Tail(ws)
  OBVIOUS
<1>4. v \in Seq(S) /\ Len(v) = n - 1 /\ Head(ws) = ws[1] /\ \A k \in 1..n - 1 : v[k] = ws[k + 1]
  BY <1>1, <1>2, <1>3
<1>5. PICK e : e = [k \in 0..n - 1 |-> g[k + 1]]
  OBVIOUS
<1>6. e[0] = Effect(d, h, Head(ws)) /\ e[n - 1] = s
  BY <1>1, <1>2, <1>4, <1>5
<1>7. \A k \in 1..n - 1 : e[k] = Effect(d, e[k - 1], v[k])
  <2> SUFFICES ASSUME NEW k \in 1..n - 1 PROVE e[k] = Effect(d, e[k - 1], v[k])
    OBVIOUS
  <2>1. e[k] = g[k + 1] /\ e[k - 1] = g[k] /\ v[k] = ws[k + 1] /\ k + 1 \in 1..n /\ (k + 1) - 1 = k
    BY <1>4, <1>5
  <2>2. PICK j \in 1..n : j = k + 1
    BY <2>1
  <2>3. g[j] = Effect(d, g[j - 1], ws[j])
    BY <1>1, <1>2
  <2> QED
    BY <2>1, <2>2, <2>3
<1> QED
  BY <1>3, <1>4, <1>6, <1>7 DEF Leads

-----------------------------------------------------------------------------
(* Inside BestFitSteps, Heap stands twice, for the heap as it is and as it was *)

LEMMA StepsRead ==
  ASSUME NEW h, NEW i
  PROVE  /\ BS!H!Size(h, i) = Size(h, i) /\ BS!H!Left(h, i) = Left(h, i) /\ BS!H!Right(h, i) = Right(h, i)
         /\ BS!H!NextOf(h, i) = NextOf(h, i) /\ BS!H!PrevOf(h, i) = PrevOf(h, i)
         /\ BS!H!IsAvail(h, i) = IsAvail(h, i) /\ BS!H!IsTaken(h, i) = IsTaken(h, i)
         /\ BS!H!Abs(i) = Abs(i) /\ BS!H!IntsFor(i) = IntsFor(i)
<1>1. BS!H!Abs(i) = Abs(i) /\ BS!H!Size(h, i) = Size(h, i) /\ BS!H!Size(h, i - 1) = Size(h, i - 1)
  BY DEF BS!H!Abs, BS!H!Size, Abs, Size
<1>2. BS!H!IntsFor(i) = IntsFor(i)
  BY DEF BS!H!IntsFor, BS!H!Max, IntsFor, Max
<1> QED
  BY <1>1, <1>2 DEF BS!H!Left, BS!H!Right, BS!H!NextOf, BS!H!PrevOf, BS!H!IsAvail, BS!H!IsTaken,
                    Left, Right, NextOf, PrevOf, IsAvail, IsTaken

LEMMA WholeReads ==
  ASSUME NEW h, NEW i
  PROVE  /\ BS!Whole!Size(h, i) = Size(h, i) /\ BS!Whole!Left(h, i) = Left(h, i) /\ BS!Whole!Right(h, i) = Right(h, i)
         /\ BS!Whole!NextOf(h, i) = NextOf(h, i) /\ BS!Whole!PrevOf(h, i) = PrevOf(h, i)
         /\ BS!Whole!IsAvail(h, i) = IsAvail(h, i) /\ BS!Whole!IsTaken(h, i) = IsTaken(h, i)
         /\ BS!Whole!IntsFor(i) = IntsFor(i)
<1>1. BS!Whole!Abs(i) = Abs(i) /\ BS!Whole!Size(h, i) = Size(h, i) /\ BS!Whole!Size(h, i - 1) = Size(h, i - 1)
  BY DEF BS!Whole!Abs, BS!Whole!Size, Abs, Size
<1>2. BS!Whole!IntsFor(i) = IntsFor(i)
  BY DEF BS!Whole!IntsFor, BS!Whole!Max, IntsFor, Max
<1> QED
  BY <1>1, <1>2 DEF BS!Whole!Left, BS!Whole!Right, BS!Whole!NextOf, BS!Whole!PrevOf, BS!Whole!IsAvail, BS!Whole!IsTaken,
                    Left, Right, NextOf, PrevOf, IsAvail, IsTaken

LEMMA WholeWrites ==
  ASSUME NEW h, NEW i, NEW n
  PROVE  /\ BS!Whole!MakeTaken(h, i, n) = MakeTaken(h, i, n) /\ BS!Whole!MakeAvail(h, i, n) = MakeAvail(h, i, n)
         /\ BS!Whole!Remove(h, i) = Remove(h, i)
<1>1. BS!Whole!MakeTaken(h, i, n) = MakeTaken(h, i, n)
  BY DEF BS!Whole!MakeTaken, MakeTaken
<1>2. BS!Whole!MakeAvail(h, i, n) = MakeAvail(h, i, n)
  BY DEF BS!Whole!MakeAvail, BS!Whole!SetPrev, BS!Whole!SetNext, MakeAvail, SetPrev, SetNext
<1>3. BS!Whole!Remove(h, i) = Remove(h, i)
  BY WholeReads DEF BS!Whole!Remove, BS!Whole!SetPrev, BS!Whole!SetNext, Remove, SetPrev, SetNext
<1> QED
  BY <1>1, <1>2, <1>3

LEMMA WholeTakes ==
  ASSUME NEW h, NEW i, NEW n
  PROVE  BS!Whole!Take(h, i, n) = Take(h, i, n) /\ BS!Whole!Release(h, i) = Release(h, i)
<1>1. BS!Whole!Take(h, i, n) = Take(h, i, n)
  BY WholeReads, WholeWrites DEF BS!Whole!Take, Take
<1>2. BS!Whole!Release(h, i) = Release(h, i)
  BY WholeReads, WholeWrites DEF BS!Whole!Release, Release
<1> QED
  BY <1>1, <1>2

LEMMA WholeFinds ==
  ASSUME NEW h, NEW n
  PROVE  BS!Whole!BestFit(h, n) = BestFit(h, n)
<1>1. BS!Whole!MaxBlocks = MaxBlocks
  BY DEF BS!Whole!MaxBlocks, MaxBlocks
<1>2. \A i : BS!Whole!Follow(h, i) = Follow(h, i)
  BY WholeReads DEF BS!Whole!Follow, Follow
<1>3. BS!Whole!Link(h) = Link(h)
  BY <1>1, <1>2 DEF BS!Whole!Link, Link
<1>4. \A S : BS!Whole!Cardinality(S) = Cardinality(S)
  BY DEF BS!Whole!Cardinality, Cardinality
<1>5. \A S : BS!Whole!Min(S) = Min(S)
  BY DEF BS!Whole!Min, Min
<1>6. \A i : BS!Whole!Size(h, i) = Size(h, i)
  BY WholeReads
<1> DEFINE link == Link(h)
           fits == {k \in 0..MaxBlocks : link[k] # 0 /\ Size(h, link[k]) >= n}
           seen == {k \in fits : Cardinality({j \in fits : j <= k}) <= CountDown}
           best == {k \in seen : \A j \in seen : Size(h, link[k]) <= Size(h, link[j])}
           fits1 == {k \in 0..BS!Whole!MaxBlocks : BS!Whole!Link(h)[k] # 0 /\ BS!Whole!Size(h, BS!Whole!Link(h)[k]) >= n}
           seen1 == {k \in fits1 : BS!Whole!Cardinality({j \in fits1 : j <= k}) <= CountDown}
           best1 == {k \in seen1 : \A j \in seen1 : BS!Whole!Size(h, BS!Whole!Link(h)[k]) <= BS!Whole!Size(h, BS!Whole!Link(h)[j])}
<1>7. fits1 = fits
  BY <1>1, <1>3, <1>6
<1>8. seen1 = seen
  <2> HIDE DEF fits, fits1
  <2> QED
    BY <1>4, <1>7
<1>9. best1 = best
  <2> HIDE DEF seen, seen1
  <2> QED
    BY <1>3, <1>6, <1>8
<1>10. BestFit(h, n) = IF fits = {} THEN 0 ELSE link[Min(best)]
  BY DEF BestFit
<1>11. BS!Whole!BestFit(h, n) = IF fits1 = {} THEN 0 ELSE BS!Whole!Link(h)[BS!Whole!Min(best1)]
  BY DEF BS!Whole!BestFit
<1> HIDE DEF link, fits, seen, best, fits1, seen1, best1
<1>12. BS!Whole!Link(h) = link /\ BS!Whole!Min(best1) = Min(best)
  BY <1>3, <1>5, <1>9 DEF link
<1> QED
  BY <1>7, <1>10, <1>11, <1>12

-----------------------------------------------------------------------------
(* What the sequences of writes of the best-fit heap lead to *)

LEMMA BestWrite ==
  ASSUME NEW h, NEW i, NEW v
  PROVE  /\ Effect("best", h, BS!Write(i, v)) = [h EXCEPT !.array[i] = v]
         /\ Effect("best", h, BS!WriteAvail(v)) = [h EXCEPT !.avail = v]
BY DEF Effect, BS!Write, BS!WriteAvail, BS!Written

LEMMA LinkWrite ==
  ASSUME NEW h, NEW i, NEW x
  PROVE  /\ Leads("best", h, <<BS!setNext(i, x)>>, SetNext(h, i, x))
         /\ i # 0 => Leads("best", h, <<BS!setPrev(i, x)>>, SetPrev(h, i, x))
<1>1. SetNext(h, i, x) = Effect("best", h, BS!setNext(i, x))
  BY BestWrite DEF SetNext, BS!setNext
<1>2. i # 0 => SetPrev(h, i, x) = Effect("best", h, BS!setPrev(i, x))
  BY BestWrite DEF SetPrev, BS!setPrev
<1> QED
  BY <1>1, <1>2, LeadsOnce

LEMMA HeadWrite ==
  ASSUME NEW h, NEW x
  PROVE  Leads("best", h, <<BS!WriteAvail(x)>>, [h EXCEPT !.avail = x])
<1>1. [h EXCEPT !.avail = x] = Effect("best", h, BS!WriteAvail(x))
  BY BestWrite
<1> QED
  BY <1>1, LeadsOnce

\* Two writes in a row.
LEMMA LeadsTwice ==
  ASSUME NEW d, NEW h, NEW v, NEW t, t = Effect(d, h, v), NEW w, NEW s, s = Effect(d, t, w)
  PROVE  Leads(d, h, <<v, w>>, s)
<1>1. Leads(d, h, <<v>>, t) /\ Leads(d, t, <<w>>, s)
  BY LeadsOnce
<1>2. <<v, w>> = <<v>> \o <<w>>
  OBVIOUS
<1> QED
  BY <1>1, <1>2, LeadsOn

LEMMA EndsWrites ==
  ASSUME NEW h, NEW i, NEW v, NEW f, f = i + Abs(v) - 1
  PROVE  Leads("best", h, BS!Ends(i, v), [h EXCEPT !.array[i] = v, !.array[f] = v])
<1>1. PICK t : t = [h EXCEPT !.array[i] = v]
  OBVIOUS
<1>2. PICK s : s = [t EXCEPT !.array[f] = v]
  OBVIOUS
<1>3. [h EXCEPT !.array[i] = v, !.array[f] = v] = s
  BY <1>1, <1>2
<1>4. t = Effect("best", h, BS!Write(i, v))
  BY <1>1, BestWrite
<1>6. s = Effect("best", t, BS!Write(f, v))
  BY <1>2, BestWrite
<1>5. BS!Ends(i, v) = <<BS!Write(i, v), BS!Write(f, v)>>
  BY StepsRead DEF BS!Ends
<1>7. Leads("best", h, <<BS!Write(i, v), BS!Write(f, v)>>, s)
  BY <1>4, <1>6, LeadsTwice
<1> QED
  BY <1>3, <1>5, <1>7

LEMMA TakenWrites ==
  ASSUME NEW h, NEW i, NEW n \in Nat
  PROVE  Leads("best", h, BS!makeTaken(i, n), MakeTaken(h, i, n))
<1>1. PICK v : v = -n
  OBVIOUS
<1>2. PICK f : f = i + n - 1
  OBVIOUS
<1>3. Abs(v) = n
  BY <1>1 DEF Abs
<1>4. f = i + Abs(v) - 1
  BY <1>2, <1>3
<1>5. BS!makeTaken(i, n) = BS!Ends(i, v) /\ MakeTaken(h, i, n) = [h EXCEPT !.array[i] = v, !.array[f] = v]
  BY <1>1, <1>2 DEF BS!makeTaken, MakeTaken
<1>6. Leads("best", h, BS!Ends(i, v), [h EXCEPT !.array[i] = v, !.array[f] = v])
  BY <1>4, EndsWrites
<1> QED
  BY <1>5, <1>6

\* remove(i) of heap, whatever else has been written since it was decided on.
LEMMA RemoveWrites ==
  ASSUME NEW i
  PROVE  Leads("best", heap, BS!remove(i), Remove(heap, i))
<1>1. PICK p : p = PrevOf(heap, i)
  OBVIOUS
<1>2. PICK n : n = NextOf(heap, i)
  OBVIOUS
<1>3. PICK ahead : ahead = IF p = 0 THEN [heap EXCEPT !.avail = n] ELSE SetNext(heap, p, n)
  OBVIOUS
<1>4. PICK first : first = IF p = 0 THEN BS!WriteAvail(n) ELSE BS!setNext(p, n)
  OBVIOUS
<1>5. Leads("best", heap, <<first>>, ahead)
  <2>1. CASE p = 0
    BY <1>3, <1>4, <2>1, HeadWrite
  <2>2. CASE p # 0
    BY <1>3, <1>4, <2>2, LinkWrite
  <2> QED
    BY <2>1, <2>2
<1>6. PICK second : second = IF n = 0 THEN <<>> ELSE <<BS!setPrev(n, p)>>
  OBVIOUS
<1>7. Leads("best", ahead, second, SetPrev(ahead, n, p))
  <2>1. CASE n = 0
    BY <1>6, <2>1, LeadsNowhere DEF SetPrev
  <2>2. CASE n # 0
    BY <1>6, <2>2, LinkWrite
  <2> QED
    BY <2>1, <2>2
<1>8. Remove(heap, i) = SetPrev(ahead, n, p)
  BY <1>1, <1>2, <1>3 DEF Remove
<1>9. BS!remove(i) = <<first>> \o second
  <2>1. BS!prev(i) = p /\ BS!next(i) = n
    BY <1>1, <1>2, StepsRead DEF BS!prev, BS!next
  <2> QED
    BY <1>4, <1>6, <2>1 DEF BS!remove
<1> QED
  BY <1>5, <1>7, <1>8, <1>9, LeadsOn

\* makeAvail(i, n) was decided on when the first of the list was g; since then it has
\* not changed.
LEMMA AvailWrites ==
  ASSUME NEW h, h.avail = heap.avail, NEW i, i # 0, NEW n \in Nat
  PROVE  Leads("best", h, BS!makeAvail(i, n), MakeAvail(h, i, n))
<1>1. PICK g : g = heap.avail
  OBVIOUS
<1>2. PICK f : f = i + n - 1
  OBVIOUS
<1>3. Abs(n) = n
  BY DEF Abs
<1>4. PICK sized : sized = [h EXCEPT !.array[i] = n, !.array[f] = n]
  OBVIOUS
<1>5. Leads("best", h, BS!Ends(i, n), sized)
  BY <1>2, <1>3, <1>4, EndsWrites
<1>6. PICK t : t = SetNext(sized, i, g)
  OBVIOUS
<1>7. PICK linked : linked = SetPrev(t, i, 0)
  OBVIOUS
<1>8. Leads("best", sized, <<BS!setNext(i, g), BS!setPrev(i, 0)>>, linked)
  <2>1. t = Effect("best", sized, BS!setNext(i, g))
    BY <1>6, BestWrite DEF SetNext, BS!setNext
  <2>2. linked = Effect("best", t, BS!setPrev(i, 0))
    BY <1>7, BestWrite DEF SetPrev, BS!setPrev
  <2> QED
    BY <2>1, <2>2, LeadsTwice
<1>9. PICK back : back = IF g = 0 THEN <<>> ELSE <<BS!setPrev(g, i)>>
  OBVIOUS
<1>10. PICK u : u = SetPrev(linked, g, i)
  OBVIOUS
<1>11. Leads("best", linked, back, u)
  <2>1. CASE g = 0
    BY <1>9, <1>10, <2>1, LeadsNowhere DEF SetPrev
  <2>2. CASE g # 0
    BY <1>9, <1>10, <2>2, LinkWrite
  <2> QED
    BY <2>1, <2>2
<1>12. PICK s : s = [u EXCEPT !.avail = i]
  OBVIOUS
<1>13. Leads("best", u, <<BS!WriteAvail(i)>>, s)
  BY <1>12, HeadWrite
<1>14. MakeAvail(h, i, n) = s
  BY <1>1, <1>2, <1>4, <1>6, <1>7, <1>10, <1>12 DEF MakeAvail
<1>15. Leads("best", h, BS!Ends(i, n) \o <<BS!setNext(i, g), BS!setPrev(i, 0)>>, linked)
  BY <1>5, <1>8, LeadsOn
<1>16. Leads("best", h, BS!Ends(i, n) \o <<BS!setNext(i, g), BS!setPrev(i, 0)>> \o back, u)
  BY <1>11, <1>15, LeadsOn
<1>17. Leads("best", h, BS!Ends(i, n) \o <<BS!setNext(i, g), BS!setPrev(i, 0)>> \o back \o <<BS!WriteAvail(i)>>, s)
  BY <1>13, <1>16, LeadsOn
<1>18. BS!makeAvail(i, n) = BS!Ends(i, n) \o <<BS!setNext(i, g), BS!setPrev(i, 0)>> \o back \o <<BS!WriteAvail(i)>>
  BY <1>1, <1>9 DEF BS!makeAvail
<1> QED
  BY <1>14, <1>17, <1>18

-----------------------------------------------------------------------------
(* A call leaves a heap that users own *)

BestHeap(h, lv) == \E B, rank : Sound(h, B, rank) /\ Owned(h, B, lv)

LEMMA Granted ==
  ASSUME NEW h, NEW lv, BestHeap(h, lv), NEW bytes \in Nat, NEW it, it # 0, it = BestFit(h, IntsFor(bytes)),
         NEW s, s = Take(h, it, IntsFor(bytes)),
         NEW lw, lw = [p \in DOMAIN lv \cup {it + 1} |-> IF p = it + 1 THEN bytes ELSE lv[p]]
  PROVE  BestHeap(s, lw)
<1>1. PICK B, rank : Sound(h, B, rank) /\ Owned(h, B, lv)
  BY DEF BestHeap
<1>2. PICK ints \in Nat : ints = IntsFor(bytes) /\ ints >= 4 /\ 4 * (ints - 2) >= bytes
  BY IntsForIs
<1>3. Serves(h, B, ints, it)
  BY <1>1, <1>2, BestFitServes
<1>4. it \in Available(h, B) /\ it \in Int /\ ints <= Size(h, it)
  BY <1>3 DEF Serves
<1>5. HeapType(h) /\ Tagged(h, B)
  BY <1>1 DEF Sound
<1>6. it \in B /\ it # End /\ IsAvail(h, it)
  <2>1. it \in B /\ it # End
    BY <1>4, <1>5, AvailableApart
  <2> QED
    BY <1>4, <2>1 DEF Available
<1>7. it \notin TakenOf(h, B)
  BY <1>4, <1>5, <1>6, BlockFacts DEF TakenOf
<1>8. Grants(h, B, it, s) /\ Size(s, it) \in ints..ints + 3
  BY <1>1, <1>2, <1>4, Handed
<1>9. PICK C, r : Sound(s, C, r) /\ TakenOf(s, C) = TakenOf(h, B) \cup {it} /\ Keeps(h, B, {}, s)
  BY <1>8 DEF Grants
<1>10. \A j \in TakenOf(h, B) : Size(s, j) = Size(h, j)
  BY <1>1, <1>9, SizesStay
<1>11. DOMAIN lw = {i + 1 : i \in TakenOf(s, C) \ {0, End}}
  <2>1. DOMAIN lv = {i + 1 : i \in TakenOf(h, B) \ {0, End}}
    BY <1>1 DEF Owned
  <2>2. TakenOf(s, C) \ {0, End} = (TakenOf(h, B) \ {0, End}) \cup {it}
    BY <1>6, <1>9
  <2> QED
    BY <2>1, <2>2
<1>12. ASSUME NEW p \in DOMAIN lw PROVE lw[p] \in Nat /\ 4 * (Size(s, p - 1) - 2) >= lw[p]
  <2>1. CASE p = it + 1
    <3>1. PICK z \in Int : z = Size(s, it) /\ z >= ints
      BY <1>8
    <3>2. lw[p] = bytes /\ p - 1 = it
      BY <1>4, <2>1
    <3> QED
      BY <1>2, <3>1, <3>2
  <2>2. CASE p # it + 1
    <3>1. p \in DOMAIN lv /\ lw[p] = lv[p]
      BY <2>2
    <3>2. p - 1 \in TakenOf(h, B)
      BY <1>1, <3>1, Holds DEF TakenOf
    <3> QED
      BY <1>1, <1>10, <3>1, <3>2 DEF Owned
  <2> QED
    BY <2>1, <2>2
<1>13. Owned(s, C, lw)
  BY <1>11, <1>12 DEF Owned
<1> QED
  BY <1>9, <1>13 DEF BestHeap

LEMMA Reclaimed ==
  ASSUME NEW h, NEW lv, BestHeap(h, lv), NEW p \in DOMAIN lv, NEW s, s = Release(h, p - 1),
         NEW lw, lw = [q \in DOMAIN lv \ {p} |-> lv[q]]
  PROVE  BestHeap(s, lw)
<1>1. PICK B, rank : Sound(h, B, rank) /\ Owned(h, B, lv)
  BY DEF BestHeap
<1>2. PICK i \in Int : i = p - 1 /\ p = i + 1 /\ i \in B /\ i # 0 /\ i # End /\ IsTaken(h, i)
  BY <1>1, Holds
<1>3. Gains(h, B, {i}, s)
  BY <1>1, <1>2, Released
<1>4. PICK C, r : Sound(s, C, r) /\ TakenOf(s, C) = TakenOf(h, B) \ {i} /\ Keeps(h, B, {i}, s)
  BY <1>3 DEF Gains
<1>5. PICK U : U = TakenOf(h, B) \ {0, End}
  OBVIOUS
<1>6. {q - 1 : q \in DOMAIN lv} = U /\ \A q \in DOMAIN lv : q \in Int /\ q - 1 \in U /\ (q - 1 = i <=> q = p)
  BY <1>1, <1>2, <1>5, Mapped, Holds
<1>7. \A j \in U \ {i} : Size(s, j) = Size(h, j)
  BY <1>1, <1>4, <1>5, SizesStay
<1>8. DOMAIN lw = {j + 1 : j \in TakenOf(s, C) \ {0, End}}
  <2>1. TakenOf(s, C) \ {0, End} = U \ {i}
    BY <1>2, <1>4, <1>5
  <2>2. \A q \in DOMAIN lv : (q - 1) + 1 = q
    BY <1>6
  <2>3. \A j \in U : j + 1 \in DOMAIN lv /\ (j + 1) - 1 = j
    BY <1>1, <1>5, Holds
  <2> QED
    BY <1>6, <2>1, <2>2, <2>3
<1>9. \A q \in DOMAIN lw : lw[q] \in Nat /\ 4 * (Size(s, q - 1) - 2) >= lw[q]
  <2> SUFFICES ASSUME NEW q \in DOMAIN lw PROVE lw[q] \in Nat /\ 4 * (Size(s, q - 1) - 2) >= lw[q]
    OBVIOUS
  <2>1. q \in DOMAIN lv /\ q # p /\ lw[q] = lv[q]
    OBVIOUS
  <2>2. q - 1 \in U \ {i}
    BY <1>6, <2>1
  <2> QED
    BY <1>1, <1>7, <2>1, <2>2 DEF Owned
<1>10. Owned(s, C, lw)
  BY <1>8, <1>9 DEF Owned
<1> QED
  BY <1>4, <1>10 DEF BestHeap

-----------------------------------------------------------------------------
(* Where a list ends, and how far a search has come *)

\* A walk that comes to 0 stays there.
Stays(M, link) == \A k \in 1..M : link[k - 1] = 0 => link[k] = 0

LEMMA ZeroStays ==
  ASSUME NEW M \in Nat, NEW link, Stays(M, link), NEW j \in 0..M, link[j] = 0
  PROVE  \A k \in j..M : link[k] = 0
<1> DEFINE T == {n \in Nat : j + n <= M => link[j + n] = 0}
<1>1. 0 \in T
  OBVIOUS
<1>2. \A n \in Nat : n \in T => n + 1 \in T
  <2> SUFFICES ASSUME NEW n \in Nat, n \in T, j + (n + 1) <= M PROVE link[j + (n + 1)] = 0
    OBVIOUS
  <2>1. PICK k \in 1..M : k = j + (n + 1) /\ k - 1 = j + n
    OBVIOUS
  <2>2. link[k - 1] = 0
    BY <2>1
  <2> QED
    BY <2>1, <2>2 DEF Stays
<1>3. \A n \in Nat : n \in T
  <2> HIDE DEF T
  <2> QED
    BY <1>1, <1>2, Induction
<1> QED
  <2> SUFFICES ASSUME NEW k \in j..M PROVE link[k] = 0
    OBVIOUS
  <2>1. PICK n \in Nat : k = j + n
    <3>1. k - j \in Nat /\ k = j + (k - j)
      OBVIOUS
    <3> QED
      BY <3>1
  <2> QED
    BY <1>3, <2>1

\* It has come there when it is longer than there are blocks.
Short(M, A, link) ==
  /\ link \in [0..M -> A \cup {0}] /\ 0 \notin A
  /\ IsFiniteSet(A) /\ Cardinality(A) \in Nat /\ Cardinality(A) <= M
  /\ \A j, k \in 0..M : link[j] = link[k] /\ link[j] # 0 => j = k

LEMMA ListEnds ==
  ASSUME NEW M \in Nat, NEW A, NEW link, Short(M, A, link), Stays(M, link)
  PROVE  link[M] = 0
<1> SUFFICES ASSUME link[M] # 0 PROVE FALSE
  OBVIOUS
<1>1. \A j \in 0..M : link[j] # 0
  <2> SUFFICES ASSUME NEW j \in 0..M, link[j] = 0 PROVE FALSE
    OBVIOUS
  <2>1. \A k \in j..M : link[k] = 0
    BY ZeroStays
  <2> QED
    BY <2>1
<1>2. link \in [0..M -> A]
  BY <1>1 DEF Short
<1>3. IsFiniteSet(0..M) /\ Cardinality(0..M) = M + 1
  BY FS_Interval
<1>4. IsFiniteSet(A) /\ Cardinality(A) < Cardinality(0..M)
  BY <1>3 DEF Short
<1>5. \E j, k \in 0..M : j # k /\ link[j] = link[k]
  BY <1>2, <1>3, <1>4, FS_PigeonHole
<1> QED
  BY <1>1, <1>5 DEF Short

\* What the search for a block goes by.
Chained(h) ==
  /\ MaxBlocks \in Nat /\ Link(h)[0] = h.avail /\ Link(h)[MaxBlocks] = 0
  /\ \A k \in 0..MaxBlocks : Link(h)[k] # 0 =>
       /\ Size(h, Link(h)[k]) \in Nat /\ Size(h, Link(h)[k]) < BS!Huge
       /\ k + 1 \in 0..MaxBlocks /\ NextOf(h, Link(h)[k]) = Link(h)[k + 1]
  /\ Stays(MaxBlocks, Link(h))

LEMMA BestChained ==
  ASSUME NEW h, NEW B, NEW rank, Sound(h, B, rank)
  PROVE  Chained(h)
<1>1. HeapType(h) /\ Tagged(h, B) /\ Linked(h, Available(h, B), rank)
  BY DEF Sound
<1>2. PICK A : A = Available(h, B)
  OBVIOUS
<1>3. Apart(A) /\ 0 \notin A
  <2>1. Apart(A)
    BY <1>1, <1>2, AvailableApart
  <2> QED
    BY <2>1, ApartFacts
<1>4. PICK link : link = Link(h)
  OBVIOUS
<1>5. Lists(h, A, link)
  BY <1>1, <1>2, <1>3, <1>4, ListReaches
<1>6. MaxBlocks \in Nat
  BY Sizes DEF MaxBlocks
<1>7. Stays(MaxBlocks, link)
  BY <1>5 DEF Lists, Stays, Follow
<1>8. link[MaxBlocks] = 0
  <2>1. IsFiniteSet(A) /\ Cardinality(A) \in Nat /\ Cardinality(A) <= MaxBlocks
    BY <1>3, FewBlocks
  <2>2. Short(MaxBlocks, A, link)
    BY <1>3, <1>5, <2>1 DEF Lists, Short
  <2> QED
    BY <1>6, <1>7, <2>2, ListEnds
<1>9. \A a \in A : Size(h, a) \in Nat /\ Size(h, a) < BS!Huge
  <2> SUFFICES ASSUME NEW a \in Available(h, B) PROVE Size(h, a) \in Nat /\ Size(h, a) < BS!Huge
    BY <1>2
  <2>1. a \in B /\ a \in Int /\ a >= 2 /\ a # End
    BY <1>1, AvailableApart
  <2>2. Size(h, a) \in Nat /\ Right(h, a) <= End
    BY <1>1, <2>1, BlockFacts
  <2>3. PICK z \in Nat : z = Size(h, a) /\ a + z <= End
    BY <2>2 DEF Right
  <2> QED
    BY <2>1, <2>3, Sizes DEF BS!Huge, End
<1>10. ASSUME NEW k \in 0..MaxBlocks, link[k] # 0
       PROVE  /\ Size(h, link[k]) \in Nat /\ Size(h, link[k]) < BS!Huge
              /\ k + 1 \in 0..MaxBlocks /\ NextOf(h, link[k]) = link[k + 1]
  <2>1. link[k] \in A
    BY <1>5, <1>10 DEF Lists
  <2>2. k # MaxBlocks
    BY <1>8, <1>10
  <2>3. PICK j \in 1..MaxBlocks : j = k + 1 /\ j - 1 = k
    BY <1>6, <2>2
  <2>4. link[j] = Follow(h, link[j - 1])
    BY <1>5 DEF Lists
  <2>5. link[k + 1] = NextOf(h, link[k])
    BY <1>10, <2>3, <2>4 DEF Follow
  <2> QED
    BY <1>9, <2>1, <2>3, <2>5
<1> QED
  BY <1>4, <1>5, <1>6, <1>7, <1>8, <1>10 DEF Chained, Lists

\* The blocks of the list that fit, by their place in it, and those the search has passed.
FitsAt(h, n) == {k \in 0..MaxBlocks : Link(h)[k] # 0 /\ Size(h, Link(h)[k]) >= n}
Passed(h, n, k) == {j \in FitsAt(h, n) : j < k}

\* The first of the smallest of them.
FirstBest(h, S, m) ==
  /\ m \in S
  /\ \A j \in S : /\ Size(h, Link(h)[m]) <= Size(h, Link(h)[j])
                  /\ j < m => Size(h, Link(h)[m]) < Size(h, Link(h)[j])
Best(h, S, it, mx) ==
  IF S = {} THEN it = 0 /\ mx = BS!Huge
            ELSE \E m \in S : FirstBest(h, S, m) /\ it = Link(h)[m] /\ mx = Size(h, it)

SearchAt(h, n, l) ==
  \E k \in 0..MaxBlocks :
    /\ l.countDown \in Nat /\ Cardinality(Passed(h, n, k)) + l.countDown = CountDown
    /\ l.countDown # 0 => l.p = Link(h)[k]
    /\ Best(h, Passed(h, n, k), l.it, l.mx)

LEMMA PassedFacts ==
  ASSUME NEW h, Chained(h), NEW n, NEW k \in Int
  PROVE  /\ Passed(h, n, k) \in SUBSET Nat /\ IsFiniteSet(Passed(h, n, k)) /\ Cardinality(Passed(h, n, k)) \in Nat
         /\ FitsAt(h, n) \in SUBSET Nat /\ IsFiniteSet(FitsAt(h, n))
         /\ \A j \in FitsAt(h, n) : j \in 0..MaxBlocks /\ Size(h, Link(h)[j]) \in Nat /\ Size(h, Link(h)[j]) < BS!Huge
<1>1. MaxBlocks \in Nat
  BY DEF Chained
<1>2. IsFiniteSet(0..MaxBlocks) /\ FitsAt(h, n) \in SUBSET (0..MaxBlocks)
  BY <1>1, FS_Interval DEF FitsAt
<1>3. IsFiniteSet(FitsAt(h, n)) /\ Passed(h, n, k) \in SUBSET FitsAt(h, n)
  BY <1>2, FS_Subset DEF Passed
<1>4. IsFiniteSet(Passed(h, n, k))
  BY <1>3, FS_Subset
<1>5. \A j \in FitsAt(h, n) : Size(h, Link(h)[j]) \in Nat /\ Size(h, Link(h)[j]) < BS!Huge
  BY DEF Chained, FitsAt
<1> QED
  BY <1>1, <1>2, <1>3, <1>4, <1>5, FS_CardinalityType

LEMMA SearchStarts ==
  ASSUME NEW h, Chained(h), NEW n, NEW l, l.p = h.avail, l.it = 0, l.mx = BS!Huge, l.countDown = CountDown
  PROVE  SearchAt(h, n, l)
<1>1. 0 \in 0..MaxBlocks /\ Link(h)[0] = h.avail
  BY DEF Chained
<1>2. Passed(h, n, 0) = {}
  <2>1. \A j \in FitsAt(h, n) : j \in 0..MaxBlocks
    BY DEF FitsAt
  <2> QED
    BY <2>1 DEF Passed
<1>3. Cardinality({}) = 0 /\ CountDown \in Nat
  BY FS_EmptySet, HeapAssumption
<1>4. Best(h, Passed(h, n, 0), l.it, l.mx)
  BY <1>2 DEF Best
<1> QED
  BY <1>1, <1>2, <1>3, <1>4 DEF SearchAt

\* One more block of the list.
Better(h, n, l) == Size(h, l.p) >= n /\ Size(h, l.p) < l.mx
Looked(h, n, l, s) ==
  /\ s.p = IF Size(h, l.p) >= n /\ l.countDown = 1 THEN l.p ELSE NextOf(h, l.p)
  /\ s.it = (IF Better(h, n, l) THEN l.p ELSE l.it)
  /\ s.mx = (IF Better(h, n, l) THEN Size(h, l.p) ELSE l.mx)
  /\ s.countDown = l.countDown - IF Size(h, l.p) >= n THEN 1 ELSE 0

LEMMA SearchGoesOn ==
  ASSUME NEW h, Chained(h), NEW n \in Int, NEW l, SearchAt(h, n, l), l.p # 0, l.countDown # 0,
         NEW s, Looked(h, n, l, s)
  PROVE  SearchAt(h, n, s)
<1>1. PICK k \in 0..MaxBlocks : /\ l.countDown \in Nat /\ Cardinality(Passed(h, n, k)) + l.countDown = CountDown
                                /\ l.p = Link(h)[k]
                                /\ Best(h, Passed(h, n, k), l.it, l.mx)
  BY DEF SearchAt
<1>2. PICK z \in Nat : z = Size(h, Link(h)[k]) /\ z < BS!Huge
  BY <1>1 DEF Chained
<1>3. PICK k2 \in 0..MaxBlocks : k2 = k + 1 /\ NextOf(h, Link(h)[k]) = Link(h)[k2]
  BY <1>1 DEF Chained
<1>4. PICK S : S = Passed(h, n, k)
  OBVIOUS
<1>5. PICK S2 : S2 = Passed(h, n, k2)
  OBVIOUS
<1>6. /\ S \in SUBSET Nat /\ IsFiniteSet(S) /\ Cardinality(S) \in Nat /\ k \notin S
      /\ \A j \in S : j < k /\ Size(h, Link(h)[j]) \in Nat
  <2>1. k \in Int
    OBVIOUS
  <2>2. S \in SUBSET Nat /\ IsFiniteSet(S) /\ Cardinality(S) \in Nat
    BY <1>4, <2>1, PassedFacts
  <2>3. \A j \in S : j < k /\ Size(h, Link(h)[j]) \in Nat
    BY <1>4, <2>1, PassedFacts DEF Passed
  <2> QED
    BY <2>1, <2>2, <2>3
<1>7. \A j \in FitsAt(h, n) : j \in Nat
  <2>1. MaxBlocks \in Nat
    BY DEF Chained
  <2> QED
    BY <2>1 DEF FitsAt
<1>8. CASE ~(z >= n)
  <2>1. k \notin FitsAt(h, n)
    BY <1>2, <1>8 DEF FitsAt
  <2>2. S2 = S
    BY <1>3, <1>4, <1>5, <1>7, <2>1 DEF Passed
  <2>3. s.p = Link(h)[k2] /\ s.it = l.it /\ s.mx = l.mx /\ s.countDown = l.countDown
    <3>1. ~Better(h, n, l) /\ ~(Size(h, l.p) >= n)
      BY <1>1, <1>2, <1>8 DEF Better
    <3> QED
      BY <1>1, <1>3, <3>1 DEF Looked
  <2> QED
    BY <1>1, <1>4, <1>5, <2>2, <2>3 DEF SearchAt
<1>9. CASE z >= n
  <2>1. k \in FitsAt(h, n)
    BY <1>1, <1>2, <1>9 DEF FitsAt
  <2>2. S2 = S \cup {k}
    <3>1. \A j \in FitsAt(h, n) : j < k2 <=> j < k \/ j = k
      BY <1>3, <1>7
    <3>2. k < k2
      BY <1>3
    <3> QED
      BY <1>4, <1>5, <2>1, <3>1, <3>2 DEF Passed
  <2>3. Cardinality(S2) = Cardinality(S) + 1
    BY <1>6, <2>2, FS_AddElement
  <2>4. s.countDown = l.countDown - 1 /\ s.countDown \in Nat /\ Cardinality(S2) + s.countDown = CountDown
    <3>1. s.countDown = l.countDown - 1
      BY <1>1, <1>2, <1>9 DEF Looked
    <3> QED
      BY <1>1, <1>4, <1>6, <2>3, <3>1
  <2>5. s.countDown # 0 => s.p = Link(h)[k2]
    <3>1. s.countDown # 0 => l.countDown # 1
      BY <2>4
    <3> QED
      BY <1>1, <1>3, <3>1 DEF Looked
  <2>6. Best(h, S2, s.it, s.mx)
    <3>1. CASE Better(h, n, l)
      <4>1. s.it = Link(h)[k] /\ s.mx = z
        BY <1>1, <1>2, <3>1 DEF Looked
      <4>2. \A j \in S : z < Size(h, Link(h)[j])
        <5>1. CASE S = {}
          BY <5>1
        <5>2. CASE S # {}
          <6>1. PICK m \in S : FirstBest(h, S, m) /\ l.mx = Size(h, Link(h)[m])
            BY <1>1, <1>4, <5>2 DEF Best
          <6>2. z < l.mx
            BY <1>1, <1>2, <3>1 DEF Better
          <6>3. \A j \in S : l.mx <= Size(h, Link(h)[j])
            BY <6>1 DEF FirstBest
          <6> QED
            BY <1>6, <6>1, <6>2, <6>3
        <5> QED
          BY <5>1, <5>2
      <4>3. FirstBest(h, S2, k)
        <5>1. \A j \in S2 : j = k \/ j \in S
          BY <2>2
        <5>2. k \in S2 /\ Size(h, Link(h)[k]) = z /\ ~(k < k)
          BY <1>2, <2>2
        <5> QED
          BY <1>6, <4>2, <5>1, <5>2 DEF FirstBest
      <4> QED
        BY <1>2, <2>2, <4>1, <4>3 DEF Best
    <3>2. CASE ~Better(h, n, l)
      <4>1. s.it = l.it /\ s.mx = l.mx /\ ~(z < l.mx)
        BY <1>1, <1>2, <1>9, <3>2 DEF Looked, Better
      <4>2. S # {}
        <5>1. S = {} => l.mx = BS!Huge
          BY <1>1, <1>4 DEF Best
        <5> QED
          BY <1>2, <4>1, <5>1
      <4>3. PICK m \in S : FirstBest(h, S, m) /\ l.it = Link(h)[m] /\ l.mx = Size(h, l.it)
        BY <1>1, <1>4, <4>2 DEF Best
      <4>4. FirstBest(h, S2, m)
        <5>1. \A j \in S2 : j = k \/ j \in S
          BY <2>2
        <5>2. m \in S2 /\ m < k /\ Size(h, Link(h)[m]) \in Nat /\ Size(h, Link(h)[m]) <= z /\ m \in Nat
          BY <1>6, <2>2, <4>1, <4>3
        <5>3. ~(k < m)
          BY <5>2
        <5> QED
          BY <1>2, <4>3, <5>1, <5>2, <5>3 DEF FirstBest
      <4>5. S2 # {} /\ m \in S2
        BY <2>2
      <4> QED
        BY <4>1, <4>3, <4>4, <4>5 DEF Best
    <3> QED
      BY <3>1, <3>2
  <2> QED
    BY <1>5, <2>4, <2>5, <2>6 DEF SearchAt
<1> QED
  BY <1>8, <1>9

\* It is over: at the end of the list, or as many fit as it may look at.
LEMMA SearchEnds ==
  ASSUME NEW h, Chained(h), NEW n \in Int, NEW l, SearchAt(h, n, l), l.p = 0 \/ l.countDown = 0
  PROVE  l.it = BestFit(h, n) /\ (l.it # 0 => l.mx = Size(h, l.it))
<1> DEFINE link == Link(h)
           fits == {k \in 0..MaxBlocks : link[k] # 0 /\ Size(h, link[k]) >= n}
           seen == {k \in fits : Cardinality({j \in fits : j <= k}) <= CountDown}
           best == {k \in seen : \A j \in seen : Size(h, link[k]) <= Size(h, link[j])}
<1>1. PICK k \in 0..MaxBlocks : /\ l.countDown \in Nat /\ Cardinality(Passed(h, n, k)) + l.countDown = CountDown
                                /\ l.countDown # 0 => l.p = Link(h)[k]
                                /\ Best(h, Passed(h, n, k), l.it, l.mx)
  BY DEF SearchAt
<1>2. PICK S : S = Passed(h, n, k)
  OBVIOUS
<1>3. BestFit(h, n) = IF fits = {} THEN 0 ELSE link[Min(best)]
  BY DEF BestFit
<1>4. fits = FitsAt(h, n)
  BY DEF FitsAt
<1> HIDE DEF link, fits
<1>5. /\ S \in SUBSET Nat /\ IsFiniteSet(S) /\ Cardinality(S) \in Nat /\ k \in Nat
      /\ fits \in SUBSET Nat /\ IsFiniteSet(fits)
      /\ \A j \in fits : Size(h, link[j]) \in Nat
      /\ \A j : j \in S <=> j \in fits /\ j < k
  <2>1. k \in Nat
    BY DEF Chained
  <2>2. \A j : j \in S <=> j \in fits /\ j < k
    BY <1>2, <1>4 DEF Passed
  <2> QED
    BY <1>2, <1>4, <2>1, <2>2, PassedFacts DEF link
<1>6. \A j \in S : Cardinality({i \in fits : i <= j}) <= Cardinality(S)
  <2> SUFFICES ASSUME NEW j \in S PROVE Cardinality({i \in fits : i <= j}) <= Cardinality(S)
    OBVIOUS
  <2>1. PICK P : P = {i \in fits : i <= j}
    OBVIOUS
  <2>2. \A i \in fits : i <= j => i \in S
    BY <1>5
  <2>3. P \in SUBSET S
    BY <2>1, <2>2
  <2> QED
    BY <1>5, <2>1, <2>3, FS_Subset
<1>7. l.countDown = 0 => \A j \in fits : j \notin S => Cardinality({i \in fits : i <= j}) > CountDown
  <2> SUFFICES ASSUME l.countDown = 0, NEW j \in fits, j \notin S PROVE Cardinality({i \in fits : i <= j}) > CountDown
    OBVIOUS
  <2>1. PICK P : P = {i \in fits : i <= j}
    OBVIOUS
  <2>2. Cardinality(S) = CountDown
    BY <1>1, <1>2, <1>5
  <2>3. \A i \in S : i \in fits /\ i <= j
    BY <1>5
  <2>4. S \cup {j} \in SUBSET P
    BY <1>5, <2>1, <2>3
  <2>5. IsFiniteSet(P)
    BY <1>5, <2>1, FS_Subset
  <2>6. Cardinality(S \cup {j}) = Cardinality(S) + 1
    BY <1>5, FS_AddElement
  <2>7. Cardinality(S \cup {j}) <= Cardinality(P) /\ Cardinality(P) \in Nat
    BY <2>4, <2>5, FS_Subset, FS_CardinalityType
  <2> QED
    BY <1>5, <2>1, <2>2, <2>6, <2>7
<1>8. l.countDown # 0 => fits = S
  <2> SUFFICES ASSUME l.countDown # 0, NEW j \in fits, ~(j < k) PROVE FALSE
    BY <1>5
  <2>1. link[k] = 0 /\ MaxBlocks \in Nat /\ Stays(MaxBlocks, link)
    BY <1>1 DEF Chained, link
  <2>2. j \in k..MaxBlocks /\ link[j] # 0
    BY <1>5, <2>1 DEF fits
  <2> QED
    BY <2>1, <2>2, ZeroStays
<1>9. seen = S
  <2>1. \A j \in S : j \in fits /\ Cardinality({i \in fits : i <= j}) <= CountDown
    <3> SUFFICES ASSUME NEW j \in S PROVE j \in fits /\ Cardinality({i \in fits : i <= j}) <= CountDown
      OBVIOUS
    <3>1. PICK P : P = {i \in fits : i <= j}
      OBVIOUS
    <3>2. Cardinality(P) <= Cardinality(S) /\ IsFiniteSet(P)
      BY <1>5, <1>6, <3>1, FS_Subset
    <3>3. Cardinality(P) \in Nat
      BY <3>2, FS_CardinalityType
    <3> QED
      BY <1>1, <1>2, <1>5, <3>1, <3>2, <3>3, HeapAssumption
  <2>2. \A j \in fits : j \notin S => ~(Cardinality({i \in fits : i <= j}) <= CountDown)
    <3> SUFFICES ASSUME NEW j \in fits, j \notin S PROVE ~(Cardinality({i \in fits : i <= j}) <= CountDown)
      OBVIOUS
    <3>1. PICK P : P = {i \in fits : i <= j}
      OBVIOUS
    <3>2. IsFiniteSet(P)
      BY <1>5, <3>1, FS_Subset
    <3>3. Cardinality(P) \in Nat /\ Cardinality(P) > CountDown
      BY <1>7, <1>8, <3>1, <3>2, FS_CardinalityType
    <3> QED
      BY <3>1, <3>3, HeapAssumption
  <2> QED
    BY <2>1, <2>2
<1> HIDE DEF seen
<1>10. CASE S = {}
  <2>1. l.it = 0
    BY <1>1, <1>2, <1>10 DEF Best
  <2>2. l.countDown # 0
    BY <1>1, <1>2, <1>10, FS_EmptySet, HeapAssumption
  <2> QED
    BY <1>3, <1>8, <1>10, <2>1, <2>2
<1>11. CASE S # {}
  <2>1. PICK m \in S : FirstBest(h, S, m) /\ l.it = link[m] /\ l.mx = Size(h, l.it)
    BY <1>1, <1>2, <1>11 DEF Best, link
  <2>2. /\ \A j \in S : Size(h, link[m]) <= Size(h, link[j])
        /\ \A j \in S : j < m => Size(h, link[m]) < Size(h, link[j])
    BY <2>1 DEF FirstBest, link
  <2>3. m \in best /\ best \in SUBSET Nat
    BY <1>5, <1>9, <2>2
  <2>4. \A x \in best : m <= x
    <3> SUFFICES ASSUME NEW x \in best, x < m PROVE FALSE
      BY <1>5, <2>3
    <3>1. x \in S /\ Size(h, link[x]) <= Size(h, link[m])
      BY <1>9
    <3>2. Size(h, link[m]) < Size(h, link[x])
      BY <2>2, <3>1
    <3>3. Size(h, link[x]) \in Nat /\ Size(h, link[m]) \in Nat
      BY <1>5, <3>1
    <3> QED
      BY <3>1, <3>2, <3>3
  <2> HIDE DEF best
  <2>5. Min(best) \in best /\ \A x \in best : Min(best) <= x
    BY <2>3, MinIs
  <2>6. Min(best) = m
    <3>1. Min(best) <= m /\ m <= Min(best) /\ m \in Nat /\ Min(best) \in Nat
      BY <2>3, <2>4, <2>5
    <3> QED
      BY <3>1
  <2>7. fits # {}
    BY <1>5
  <2> QED
    BY <1>3, <2>1, <2>6, <2>7
<1> QED
  BY <1>10, <1>11

-----------------------------------------------------------------------------
(* free, up to each of its looks at the array *)

AfterLeft(h, i) == IF IsAvail(h, Left(h, i)) THEN Remove(h, Left(h, i)) ELSE h
AfterRight(h, i) == IF IsAvail(h, Right(h, i)) THEN Remove(AfterLeft(h, i), Right(h, i)) ELSE AfterLeft(h, i)

\* Where the block starts and how long it is with its available neighbours.
StartOf(h, i) == IF IsAvail(h, Left(h, i)) THEN Left(h, i) ELSE i
WithLeft(h, i) == Size(h, i) + IF IsAvail(h, Left(h, i)) THEN Size(h, Left(h, i)) ELSE 0
WithBoth(h, i) == WithLeft(h, i) + IF IsAvail(h, Right(h, i)) THEN Size(h, Right(h, i)) ELSE 0

\* The right neighbour is read after the left one has left the list: it looks the same.
SameRight(h, i, s) ==
  /\ Right(s, i) = Right(h, i)
  /\ IsAvail(s, Right(h, i)) <=> IsAvail(h, Right(h, i))
  /\ Size(s, Right(h, i)) = Size(h, Right(h, i))

LEMMA MergingFacts ==
  ASSUME NEW h, NEW B, NEW rank, Sound(h, B, rank), NEW i \in Int, i \in B, i # 0, i # End, IsTaken(h, i)
  PROVE  /\ SameRight(h, i, AfterLeft(h, i))
         /\ StartOf(h, i) # 0 /\ Size(h, i) \in Nat /\ WithLeft(h, i) \in Nat /\ WithBoth(h, i) \in Nat
         /\ Release(h, i) = MakeAvail(AfterRight(h, i), StartOf(h, i), WithBoth(h, i))
<1>1. HeapType(h) /\ Tagged(h, B) /\ Linked(h, Available(h, B), rank)
  BY DEF Sound
<1>2. PICK l \in Int : l = Left(h, i) /\ l \in B /\ l # i /\ l # End
  BY <1>1, LeftNeighbour
<1>3. PICK r \in Int : r = Right(h, i) /\ r \in B
  <2>1. Right(h, i) \in B /\ Right(h, i) \in Nat
    BY <1>1, BlockFacts
  <2> QED
    BY <2>1
<1>4. Size(h, i) \in Nat /\ Size(h, l) \in Nat /\ Size(h, r) \in Nat /\ (IsAvail(h, l) => l # 0) /\ i \in Index /\ r \in Index
  <2>1. Size(h, i) \in Nat /\ Size(h, l) \in Nat /\ Size(h, r) \in Nat
    BY <1>1, <1>2, <1>3, BlockFacts
  <2>2. IsAvail(h, l) => l # 0
    BY <1>1, <1>2, BlockFacts
  <2>3. i \in 0..End /\ r \in 0..End
    BY <1>1, <1>3, BlockFacts
  <2> QED
    BY <2>1, <2>2, <2>3, Sizes DEF End
<1>5. PICK s : s = AfterLeft(h, i)
  OBVIOUS
<1>6. s.array[i] = h.array[i] /\ s.array[r] = h.array[r]
  <2>1. CASE IsAvail(h, l)
    <3>1. PICK A : A = Available(h, B)
      OBVIOUS
    <3>2. l \in A /\ Apart(A) /\ s = Remove(h, l)
      BY <1>1, <1>2, <1>5, <2>1, <3>1, AvailableApart DEF Available, AfterLeft
    <3>3. Untouched(h, A \ {l}, s)
      BY <1>1, <3>1, <3>2, Unlinked
    <3>4. NoLink(A \ {l}, i) /\ NoLink(A \ {l}, r)
      <4>1. \A a \in A : a \in Int /\ a \in Available(h, B)
        BY <3>1, <3>2, ApartFacts
      <4>2. \A a \in A : i # a + 1 /\ i # a + 2 /\ r # a + 1 /\ r # a + 2
        BY <1>1, <1>3, <4>1, LinksApart
      <4> QED
        BY <4>2 DEF NoLink
    <3> QED
      BY <1>4, <3>3, <3>4 DEF Untouched
  <2>2. CASE ~IsAvail(h, l)
    BY <1>2, <1>5, <2>2 DEF AfterLeft
  <2> QED
    BY <2>1, <2>2
<1>7. SameRight(h, i, s)
  BY <1>3, <1>6 DEF SameRight, Right, IsAvail, Size
<1>8. StartOf(h, i) # 0 /\ WithLeft(h, i) \in Nat /\ WithBoth(h, i) \in Nat
  BY <1>2, <1>3, <1>4 DEF StartOf, WithLeft, WithBoth
<1>9. Release(h, i) = MakeAvail(AfterRight(h, i), StartOf(h, i), WithBoth(h, i))
  BY DEF Release, AfterRight, AfterLeft, StartOf, WithBoth, WithLeft
<1> QED
  BY <1>4, <1>5, <1>7, <1>8, <1>9

-----------------------------------------------------------------------------
(* Inside a call: what the heap was, what it will be and what the caller has seen *)

\* The heap when the writes that are decided on are made.
BestTarget(h, where, a, l) ==
  CASE where = "cut"         -> Remove(h, l.it)
    [] where = "found"       -> Take(h, l.it, IntsFor(a))
    [] where = "merge right" -> AfterLeft(h, a - 1)
    [] where = "merged"      -> AfterRight(h, a - 1)
    [] where = "freed"       -> Release(h, a - 1)
    [] OTHER                 -> h

InMalloc(h, where, a, l) ==
  /\ a \in Bytes /\ a # 0
  /\ \/ where = "malloc" /\ l = BS!Fresh
     \/ where = "find" /\ SearchAt(h, IntsFor(a), l)
     \/ where \in {"cut", "found"} /\ l.it # 0 /\ l.it = BestFit(h, IntsFor(a)) /\ l.mx = Size(h, l.it)
     \/ where = "failed" /\ BestFit(h, IntsFor(a)) = 0
InFree(h, lv, where, a, l) ==
  /\ a \in DOMAIN lv
  /\ \/ where = "free"
     \/ where = "merge left" /\ l.it = a - 1 /\ l.mx = Size(h, a - 1)
     \/ where = "merge right" /\ l.it = StartOf(h, a - 1) /\ l.mx = WithLeft(h, a - 1)
     \/ where \in {"merged", "freed"} /\ l.it = StartOf(h, a - 1) /\ l.mx = WithBoth(h, a - 1)

BestInside(h, b, lv, where, a, l, t) ==
  /\ InMalloc(b, where, a, l) \/ InFree(b, lv, where, a, l)
  /\ Leads("best", h, t, BestTarget(b, where, a, l))

IsLocal(l) == l = [p |-> l.p, it |-> l.it, mx |-> l.mx, countDown |-> l.countDown]
PerCaller(f) == f = [c \in Caller |-> f[c]]

\* Whoever is inside holds the lock, so nobody else is.
OneInside(where, lock) ==
  /\ \A c \in Caller : where[c] # "out" => lock
  /\ \A c, d \in Caller : where[c] # "out" /\ where[d] # "out" => c = d

BestCaller(h, b, lv, where, a, l, t) ==
  /\ IsLocal(l)
  /\ where = "out" => t = <<>> /\ l = BS!Fresh
  /\ where # "out" => BestInside(h, b, lv, where, a, l, t)

BestStepsInv ==
  /\ BestHeap(before, live)
  /\ PerCaller(pc) /\ PerCaller(arg) /\ PerCaller(local) /\ PerCaller(todo)
  /\ OneInside(pc, taken)
  /\ \A c \in Caller : BestCaller(heap, before, live, pc[c], arg[c], local[c], todo[c])
  /\ (\A c \in Caller : pc[c] = "out") => heap = before

-----------------------------------------------------------------------------
(* Steps inside a call of the best-fit heap *)

\* The others stay where they are.
Moves(c) ==
  /\ PerCaller(pc') /\ PerCaller(arg') /\ PerCaller(local') /\ PerCaller(todo')
  /\ \A d \in Caller \ {c} : pc'[d] = pc[d] /\ arg'[d] = arg[d] /\ local'[d] = local[d] /\ todo'[d] = todo[d]

LEMMA BestGoesOn ==
  ASSUME BestStepsInv, NEW c \in Caller, pc[c] # "out" \/ ~taken, Moves(c), BestHeap(before', live'),
         pc'[c] # "out" => taken', pc'[c] = "out" => heap' = before',
         BestCaller(heap', before', live', pc'[c], arg'[c], local'[c], todo'[c])
  PROVE  BestStepsInv'
<1>1. \A d \in Caller \ {c} : pc[d] = "out"
  BY DEF BestStepsInv, OneInside
<1>2. \A d \in Caller \ {c} : pc'[d] = "out"
  BY <1>1 DEF Moves
<1>3. OneInside(pc', taken')
  BY <1>2 DEF OneInside
<1>4. \A d \in Caller : BestCaller(heap', before', live', pc'[d], arg'[d], local'[d], todo'[d])
  <2> SUFFICES ASSUME NEW d \in Caller, d # c
               PROVE  BestCaller(heap', before', live', pc'[d], arg'[d], local'[d], todo'[d])
    OBVIOUS
  <2>1. BestCaller(heap, before, live, pc[d], arg[d], local[d], todo[d]) /\ pc[d] = "out" /\ pc'[d] = "out"
    BY <1>1, <1>2 DEF BestStepsInv
  <2>2. IsLocal(local'[d]) /\ todo'[d] = <<>> /\ local'[d] = BS!Fresh
    BY <2>1 DEF BestCaller, Moves
  <2> QED
    BY <2>1, <2>2 DEF BestCaller
<1>5. (\A d \in Caller : pc'[d] = "out") => heap' = before'
  OBVIOUS
<1>6. PerCaller(pc') /\ PerCaller(arg') /\ PerCaller(local') /\ PerCaller(todo')
  BY DEF Moves
<1> QED
  BY <1>3, <1>4, <1>5, <1>6 DEF BestStepsInv

\* What is known of the caller, once the writes that were decided on are made.
LEMMA BestAt ==
  ASSUME BestStepsInv, NEW c \in Caller, NEW where, where # "out", BS!At(c, where)
  PROVE  /\ pc[c] = where /\ taken /\ IsLocal(local[c])
         /\ InMalloc(before, where, arg[c], local[c]) \/ InFree(before, live, where, arg[c], local[c])
         /\ heap = BestTarget(before, where, arg[c], local[c])
<1>1. pc[c] = where /\ todo[c] = <<>>
  BY DEF BS!At
<1>2. BestCaller(heap, before, live, pc[c], arg[c], local[c], todo[c]) /\ taken
  BY <1>1 DEF BestStepsInv, OneInside
<1>3. BestInside(heap, before, live, where, arg[c], local[c], <<>>) /\ IsLocal(local[c])
  BY <1>1, <1>2 DEF BestCaller
<1>4. Leads("best", heap, <<>>, BestTarget(before, where, arg[c], local[c]))
  BY <1>3 DEF BestInside
<1>5. heap = BestTarget(before, where, arg[c], local[c])
  BY <1>4, LeadsNowhere
<1> QED
  BY <1>1, <1>2, <1>3, <1>5 DEF BestInside

\* Such a step looks at the heap and decides on writes.
Decides(c, where, l, t) ==
  /\ pc' = [pc EXCEPT ![c] = where] /\ todo' = [todo EXCEPT ![c] = t] /\ local' = [local EXCEPT ![c] = l]
  /\ heap' = heap /\ live' = live /\ failed' = failed /\ taken' = taken /\ arg' = arg /\ before' = before

LEMMA BestDecides ==
  ASSUME BestStepsInv, NEW c \in Caller, pc[c] # "out", NEW where, where # "out", NEW l, NEW t, Decides(c, where, l, t),
         IsLocal(l), BestInside(heap, before, live, where, arg[c], l, t)
  PROVE  BestStepsInv' /\ UNCHANGED <<before, live, failed>>
<1>1. PerCaller(pc) /\ PerCaller(arg) /\ PerCaller(local) /\ PerCaller(todo) /\ taken /\ BestHeap(before, live)
  BY DEF BestStepsInv, OneInside
<1>2. pc'[c] = where /\ todo'[c] = t /\ local'[c] = l /\ arg'[c] = arg[c]
  BY <1>1 DEF Decides, PerCaller
<1>3. Moves(c)
  BY <1>1 DEF Decides, PerCaller, Moves
<1>4. heap' = heap /\ live' = live /\ failed' = failed /\ taken' = taken /\ before' = before
  BY DEF Decides
<1>5. BestCaller(heap', before', live', pc'[c], arg'[c], local'[c], todo'[c])
  BY <1>2, <1>4 DEF BestCaller
<1>6. BestStepsInv'
  BY <1>1, <1>2, <1>3, <1>4, <1>5, BestGoesOn
<1> QED
  BY <1>4, <1>6

LEMMA BestStore ==
  ASSUME BestStepsInv, NEW c \in Caller, BS!Store(c)
  PROVE  BestStepsInv' /\ UNCHANGED <<before, live, failed>>
<1>1. PerCaller(pc) /\ PerCaller(arg) /\ PerCaller(local) /\ PerCaller(todo) /\ BestHeap(before, live)
  BY DEF BestStepsInv
<1>2. /\ todo[c] # <<>> /\ heap' = BS!Written(heap, Head(todo[c])) /\ todo' = [todo EXCEPT ![c] = Tail(@)]
      /\ live' = live /\ failed' = failed /\ taken' = taken /\ pc' = pc /\ arg' = arg /\ local' = local /\ before' = before
  BY DEF BS!Store
<1>3. BestCaller(heap, before, live, pc[c], arg[c], local[c], todo[c])
  BY DEF BestStepsInv
<1>4. pc[c] # "out"
  BY <1>2, <1>3 DEF BestCaller
<1>5. taken /\ IsLocal(local[c]) /\ BestInside(heap, before, live, pc[c], arg[c], local[c], todo[c])
  BY <1>3, <1>4 DEF BestCaller, BestStepsInv, OneInside
<1>6. todo'[c] = Tail(todo[c])
  BY <1>1, <1>2 DEF PerCaller
<1>7. heap' = Effect("best", heap, Head(todo[c]))
  BY <1>2 DEF Effect
<1>8. PICK s : s = BestTarget(before, pc[c], arg[c], local[c])
  OBVIOUS
<1>9. Leads("best", heap, todo[c], s)
  BY <1>5, <1>8 DEF BestInside
<1>10. Leads("best", heap', todo'[c], s)
  BY <1>2, <1>6, <1>7, <1>9, LeadsLess
<1>11. BestInside(heap', before, live, pc[c], arg[c], local[c], todo'[c])
  BY <1>5, <1>8, <1>10 DEF BestInside
<1>12. BestCaller(heap', before', live', pc'[c], arg'[c], local'[c], todo'[c])
  BY <1>2, <1>4, <1>5, <1>11 DEF BestCaller
<1>13. Moves(c)
  BY <1>1, <1>2 DEF PerCaller, Moves
<1>14. BestStepsInv'
  BY <1>1, <1>2, <1>4, <1>5, <1>12, <1>13, BestGoesOn
<1> QED
  BY <1>2, <1>14

\* The caller that finds the lock free finds the heap as it was left.
LEMMA BestLock ==
  ASSUME BestStepsInv, NEW c \in Caller, NEW where, NEW x, BS!Lock(c, where, x),
         \/ where = "malloc" /\ x \in Bytes /\ x # 0
         \/ where = "free" /\ x \in DOMAIN live
  PROVE  BestStepsInv' /\ UNCHANGED <<before, live, failed>>
<1>1. PerCaller(pc) /\ PerCaller(arg) /\ PerCaller(local) /\ PerCaller(todo) /\ BestHeap(before, live)
  BY DEF BestStepsInv
<1>2. /\ pc[c] = "out" /\ ~taken /\ taken' = TRUE /\ arg' = [arg EXCEPT ![c] = x]
      /\ pc' = [pc EXCEPT ![c] = where] /\ todo' = [todo EXCEPT ![c] = <<>>]
      /\ heap' = heap /\ live' = live /\ failed' = failed /\ local' = local /\ before' = before
  BY DEF BS!Lock, BS!At, BS!Go
<1>3. \A d \in Caller : pc[d] = "out"
  BY <1>2 DEF BestStepsInv, OneInside
<1>4. heap = before /\ local[c] = BS!Fresh /\ IsLocal(local[c])
  BY <1>3 DEF BestStepsInv, BestCaller
<1>5. pc'[c] = where /\ arg'[c] = x /\ todo'[c] = <<>> /\ where # "out"
  BY <1>1, <1>2 DEF PerCaller
<1>6. BestTarget(before, where, x, local[c]) = before
  BY DEF BestTarget
<1>7. Leads("best", heap, <<>>, BestTarget(before, where, x, local[c]))
  BY <1>4, <1>6, LeadsNowhere
<1>8. InMalloc(before, where, x, local[c]) \/ InFree(before, live, where, x, local[c])
  BY <1>4 DEF InMalloc, InFree
<1>9. BestInside(heap, before, live, where, x, local[c], <<>>)
  BY <1>7, <1>8 DEF BestInside
<1>10. BestCaller(heap', before', live', pc'[c], arg'[c], local'[c], todo'[c])
  BY <1>2, <1>4, <1>5, <1>9 DEF BestCaller
<1>11. Moves(c)
  BY <1>1, <1>2 DEF PerCaller, Moves
<1>12. BestStepsInv'
  BY <1>1, <1>2, <1>5, <1>10, <1>11, BestGoesOn
<1> QED
  BY <1>2, <1>12

\* The caller knows what it has asked for.
LEMMA Asked ==
  ASSUME NEW h, NEW where, NEW a, NEW l, InMalloc(h, where, a, l)
  PROVE  a \in Nat /\ a # 0 /\ a \in Bytes /\ IntsFor(a) \in Nat /\ IntsFor(a) >= 4 /\ BS!H!IntsFor(a) = IntsFor(a)
<1>1. a \in Nat /\ a # 0 /\ a \in Bytes
  BY HeapAssumption DEF InMalloc
<1> QED
  BY <1>1, IntsForIs, StepsRead

LEMMA BestSearch ==
  ASSUME BestStepsInv, NEW c \in Caller, BS!Search(c)
  PROVE  BestStepsInv' /\ UNCHANGED <<before, live, failed>>
<1>1. BS!At(c, "malloc") /\ pc[c] = "malloc"
  BY DEF BS!Search, BS!At
<1>2. /\ InMalloc(before, "malloc", arg[c], local[c]) \/ InFree(before, live, "malloc", arg[c], local[c])
      /\ heap = BestTarget(before, "malloc", arg[c], local[c])
  BY <1>1, BestAt
<1>3. InMalloc(before, "malloc", arg[c], local[c]) /\ local[c] = BS!Fresh /\ heap = before
  BY <1>2 DEF InMalloc, InFree, BestTarget
<1>4. PICK l : l = [local[c] EXCEPT !.p = heap.avail]
  OBVIOUS
<1>5. l.p = before.avail /\ l.it = 0 /\ l.mx = BS!Huge /\ l.countDown = CountDown /\ IsLocal(l)
  BY <1>3, <1>4 DEF BS!Fresh, IsLocal
<1>6. Chained(before)
  BY BestChained DEF BestStepsInv, BestHeap
<1>7. SearchAt(before, IntsFor(arg[c]), l)
  BY <1>5, <1>6, SearchStarts
<1>8. InMalloc(before, "find", arg[c], l)
  BY <1>3, <1>7 DEF InMalloc
<1>9. Leads("best", heap, <<>>, BestTarget(before, "find", arg[c], l))
  BY <1>3, LeadsNowhere DEF BestTarget
<1>10. BestInside(heap, before, live, "find", arg[c], l, <<>>)
  BY <1>8, <1>9 DEF BestInside
<1>11. Decides(c, "find", l, <<>>)
  BY <1>4 DEF BS!Search, BS!Go, BS!Look, Decides
<1> QED
  BY <1>1, <1>5, <1>10, <1>11, BestDecides

\* What whoever is in the search knows.
LEMMA Searching ==
  ASSUME BestStepsInv, NEW c \in Caller, BS!At(c, "find")
  PROVE  /\ pc[c] = "find" /\ IsLocal(local[c]) /\ Chained(before) /\ heap = before
         /\ InMalloc(before, "find", arg[c], local[c]) /\ SearchAt(before, IntsFor(arg[c]), local[c])
<1>1. /\ InMalloc(before, "find", arg[c], local[c]) \/ InFree(before, live, "find", arg[c], local[c])
      /\ heap = BestTarget(before, "find", arg[c], local[c])
      /\ pc[c] = "find" /\ IsLocal(local[c])
  BY BestAt
<1>2. Chained(before)
  BY BestChained DEF BestStepsInv, BestHeap
<1> QED
  BY <1>1, <1>2 DEF InMalloc, InFree, BestTarget

LEMMA BestFind ==
  ASSUME BestStepsInv, NEW c \in Caller, BS!Find(c)
  PROVE  BestStepsInv' /\ UNCHANGED <<before, live, failed>>
<1> DEFINE l == local[c]
           sz == BS!size(l.p)
           fits == sz >= BS!ints(c)
           better == fits /\ sz < l.mx
<1>1. BS!At(c, "find") /\ l.p # 0 /\ l.countDown # 0
  BY DEF BS!Find, BS!Over
<1>2. /\ pc[c] = "find" /\ IsLocal(l) /\ Chained(before) /\ heap = before
      /\ InMalloc(before, "find", arg[c], l) /\ SearchAt(before, IntsFor(arg[c]), l)
  BY <1>1, Searching
<1>3. PICK n \in Nat : n = IntsFor(arg[c]) /\ n = BS!ints(c)
  BY <1>2, Asked DEF BS!ints
<1>4. sz = Size(before, l.p) /\ BS!next(l.p) = NextOf(before, l.p)
  BY <1>2, StepsRead DEF BS!size, BS!next
<1>5. PICK s : s = [p |-> IF fits /\ l.countDown = 1 THEN l.p ELSE BS!next(l.p),
                    it |-> IF better THEN l.p ELSE l.it, mx |-> IF better THEN sz ELSE l.mx,
                    countDown |-> l.countDown - IF fits THEN 1 ELSE 0]
  OBVIOUS
<1>6. Looked(before, n, l, s) /\ IsLocal(s)
  BY <1>3, <1>4, <1>5 DEF Looked, Better, IsLocal
<1>7. Decides(c, "find", s, <<>>)
  <2>1. local' = [local EXCEPT ![c] = s]
    BY <1>5 DEF BS!Find
  <2>2. pc' = pc /\ todo' = todo /\ BS!Look /\ todo[c] = <<>> /\ PerCaller(pc) /\ PerCaller(todo)
    BY <1>1 DEF BS!Find, BS!At, BestStepsInv
  <2>3. pc' = [pc EXCEPT ![c] = "find"] /\ todo' = [todo EXCEPT ![c] = <<>>]
    BY <1>2, <2>2 DEF PerCaller
  <2> QED
    BY <2>1, <2>2, <2>3 DEF Decides, BS!Look
<1> HIDE DEF l, sz, fits, better
<1>8. SearchAt(before, n, s)
  BY <1>1, <1>2, <1>3, <1>6, SearchGoesOn
<1>9. InMalloc(before, "find", arg[c], s)
  BY <1>2, <1>3, <1>8 DEF InMalloc
<1>10. Leads("best", heap, <<>>, BestTarget(before, "find", arg[c], s))
  BY <1>2, LeadsNowhere DEF BestTarget
<1>11. BestInside(heap, before, live, "find", arg[c], s, <<>>)
  BY <1>9, <1>10 DEF BestInside
<1> QED
  BY <1>2, <1>6, <1>7, <1>11, BestDecides

\* A step that leaves the locals alone.
LEMMA SameLocal ==
  ASSUME BestStepsInv, NEW c \in Caller, NEW where, NEW t, BS!Go(c, where, t), local' = local, BS!Look
  PROVE  Decides(c, where, local[c], t)
<1>1. PerCaller(local)
  BY DEF BestStepsInv
<1>2. local' = [local EXCEPT ![c] = local[c]]
  BY <1>1 DEF PerCaller
<1> QED
  BY <1>2 DEF BS!Go, BS!Look, Decides

LEMMA BestFound ==
  ASSUME BestStepsInv, NEW c \in Caller, BS!Found(c)
  PROVE  BestStepsInv' /\ UNCHANGED <<before, live, failed>>
<1>1. PICK l : l = local[c]
  OBVIOUS
<1>2. BS!At(c, "find") /\ (l.p = 0 \/ l.countDown = 0) /\ l.it # 0
  BY <1>1 DEF BS!Found, BS!Over
<1>3. /\ pc[c] = "find" /\ IsLocal(l) /\ Chained(before) /\ heap = before
      /\ InMalloc(before, "find", arg[c], l) /\ SearchAt(before, IntsFor(arg[c]), l)
  BY <1>1, <1>2, Searching
<1>4. PICK n \in Int : n = IntsFor(arg[c])
  BY <1>3, Asked
<1>5. l.it = BestFit(before, n) /\ l.mx = Size(before, l.it)
  BY <1>2, <1>3, <1>4, SearchEnds
<1>6. InMalloc(before, "cut", arg[c], l)
  BY <1>2, <1>3, <1>4, <1>5 DEF InMalloc
<1>7. Leads("best", heap, BS!remove(l.it), BestTarget(before, "cut", arg[c], l))
  BY <1>3, RemoveWrites DEF BestTarget
<1>8. BestInside(heap, before, live, "cut", arg[c], l, BS!remove(l.it))
  BY <1>6, <1>7 DEF BestInside
<1>9. Decides(c, "cut", l, BS!remove(l.it))
  BY <1>1, SameLocal DEF BS!Found
<1> QED
  BY <1>3, <1>8, <1>9, BestDecides

LEMMA BestNotFound ==
  ASSUME BestStepsInv, NEW c \in Caller, BS!NotFound(c)
  PROVE  BestStepsInv' /\ UNCHANGED <<before, live, failed>>
<1>1. PICK l : l = local[c]
  OBVIOUS
<1>2. BS!At(c, "find") /\ (l.p = 0 \/ l.countDown = 0) /\ l.it = 0
  BY <1>1 DEF BS!NotFound, BS!Over
<1>3. /\ pc[c] = "find" /\ IsLocal(l) /\ Chained(before) /\ heap = before
      /\ InMalloc(before, "find", arg[c], l) /\ SearchAt(before, IntsFor(arg[c]), l)
  BY <1>1, <1>2, Searching
<1>4. PICK n \in Int : n = IntsFor(arg[c])
  BY <1>3, Asked
<1>5. BestFit(before, n) = 0
  BY <1>2, <1>3, <1>4, SearchEnds
<1>6. InMalloc(before, "failed", arg[c], l)
  BY <1>3, <1>4, <1>5 DEF InMalloc
<1>7. Leads("best", heap, <<>>, BestTarget(before, "failed", arg[c], l))
  BY <1>3, LeadsNowhere DEF BestTarget
<1>8. BestInside(heap, before, live, "failed", arg[c], l, <<>>)
  BY <1>6, <1>7 DEF BestInside
<1>9. Decides(c, "failed", l, <<>>)
  BY <1>1, SameLocal DEF BS!NotFound
<1> QED
  BY <1>3, <1>8, <1>9, BestDecides

\* The block that was found.
LEMMA FoundFacts ==
  ASSUME NEW h, NEW lv, BestHeap(h, lv), NEW n \in Int, NEW it, it # 0, it = BestFit(h, n)
  PROVE  /\ it \in Int /\ it >= 2 /\ Size(h, it) \in Nat /\ n <= Size(h, it)
         /\ HeapType(Remove(h, it))
<1>1. PICK B, rank : Sound(h, B, rank)
  BY DEF BestHeap
<1>2. HeapType(h) /\ Tagged(h, B) /\ Linked(h, Available(h, B), rank)
  BY <1>1 DEF Sound
<1>3. it \in Available(h, B) /\ it \in Int /\ n <= Size(h, it)
  <2>1. Serves(h, B, n, it)
    BY <1>1, BestFitServes
  <2> QED
    BY <2>1 DEF Serves
<1>4. it \in B /\ it >= 2 /\ Apart(Available(h, B))
  BY <1>2, <1>3, AvailableApart
<1>5. Size(h, it) \in Nat
  BY <1>2, <1>3, <1>4, BlockFacts
<1>6. HeapType(Remove(h, it))
  BY <1>2, <1>3, <1>4, Unlinked
<1> QED
  BY <1>3, <1>4, <1>5, <1>6

LEMMA BestCut ==
  ASSUME BestStepsInv, NEW c \in Caller, BS!Cut(c)
  PROVE  BestStepsInv' /\ UNCHANGED <<before, live, failed>>
<1>1. PICK l : l = local[c]
  OBVIOUS
<1>2. BS!At(c, "cut")
  BY DEF BS!Cut
<1>3. /\ InMalloc(before, "cut", arg[c], l) \/ InFree(before, live, "cut", arg[c], l)
      /\ heap = BestTarget(before, "cut", arg[c], l) /\ pc[c] = "cut" /\ IsLocal(l)
  BY <1>1, <1>2, BestAt
<1>4. PICK it : it = l.it
  OBVIOUS
<1>5. InMalloc(before, "cut", arg[c], l) /\ heap = Remove(before, it)
  BY <1>3, <1>4 DEF InFree, BestTarget
<1>6. PICK n \in Nat : n = IntsFor(arg[c]) /\ n >= 4 /\ BS!ints(c) = n
  BY <1>5, Asked DEF BS!ints
<1>7. it # 0 /\ it = BestFit(before, n) /\ l.mx = Size(before, it)
  BY <1>4, <1>5, <1>6 DEF InMalloc
<1>8. it \in Int /\ it >= 2 /\ Size(before, it) \in Nat /\ n <= Size(before, it) /\ HeapType(heap)
  BY <1>5, <1>6, <1>7, FoundFacts DEF BestStepsInv
<1>9. PICK mx \in Nat : mx = l.mx /\ mx = Size(before, it) /\ n <= mx
  BY <1>7, <1>8
<1>10. PICK extra \in Nat : extra = mx - n
  BY <1>9
<1>11. PICK t : t = IF extra >= 4 THEN BS!makeTaken(it, n) \o BS!makeAvail(it + n, extra) ELSE BS!makeTaken(it, mx)
  OBVIOUS
<1>12. Leads("best", heap, t, Take(before, it, n))
  <2>1. CASE extra >= 4
    <3>1. PICK m : m = MakeTaken(heap, it, n)
      OBVIOUS
    <3>2. Leads("best", heap, BS!makeTaken(it, n), m)
      BY <3>1, TakenWrites
    <3>3. m.avail = heap.avail
      BY <1>8, <3>1 DEF HeapType, MakeTaken
    <3>4. PICK i : i = it + n /\ i # 0
      BY <1>6, <1>8
    <3>5. Leads("best", m, BS!makeAvail(i, extra), MakeAvail(m, i, extra))
      BY <3>3, <3>4, AvailWrites
    <3>6. Leads("best", heap, BS!makeTaken(it, n) \o BS!makeAvail(i, extra), MakeAvail(m, i, extra))
      BY <3>2, <3>5, LeadsOn
    <3>7. Take(before, it, n) = MakeAvail(m, i, extra)
      BY <1>5, <1>9, <1>10, <2>1, <3>1, <3>4 DEF Take
    <3> QED
      BY <1>11, <2>1, <3>4, <3>6, <3>7
  <2>2. CASE ~(extra >= 4)
    <3>1. Leads("best", heap, BS!makeTaken(it, mx), MakeTaken(heap, it, mx))
      BY TakenWrites
    <3>2. Take(before, it, n) = MakeTaken(heap, it, mx)
      BY <1>5, <1>9, <1>10, <2>2 DEF Take
    <3> QED
      BY <1>11, <2>2, <3>1, <3>2
  <2> QED
    BY <2>1, <2>2
<1>13. InMalloc(before, "found", arg[c], l)
  BY <1>4, <1>5, <1>6, <1>7 DEF InMalloc
<1>14. BestTarget(before, "found", arg[c], l) = Take(before, it, n)
  BY <1>4, <1>6 DEF BestTarget
<1>15. BestInside(heap, before, live, "found", arg[c], l, t)
  BY <1>12, <1>13, <1>14 DEF BestInside
<1>16. Decides(c, "found", l, t)
  <2>1. BS!Go(c, "found", t) /\ local' = local /\ BS!Look
    BY <1>1, <1>4, <1>6, <1>9, <1>10, <1>11 DEF BS!Cut
  <2> QED
    BY <1>1, <2>1, SameLocal
<1> QED
  BY <1>3, <1>15, <1>16, BestDecides

\* The block that is freed.
FreeFacts(h, i) ==
  /\ i \in Int /\ SameRight(h, i, AfterLeft(h, i))
  /\ StartOf(h, i) # 0 /\ Size(h, i) \in Nat /\ WithLeft(h, i) \in Nat /\ WithBoth(h, i) \in Nat
  /\ Release(h, i) = MakeAvail(AfterRight(h, i), StartOf(h, i), WithBoth(h, i))
  /\ IsTaken(h, i)

LEMMA Freeing ==
  ASSUME NEW h, NEW lv, BestHeap(h, lv), NEW a \in DOMAIN lv
  PROVE  FreeFacts(h, a - 1)
<1>1. PICK B, rank : Sound(h, B, rank) /\ Owned(h, B, lv)
  BY DEF BestHeap
<1>2. PICK i \in Int : i = a - 1 /\ i \in B /\ i # 0 /\ i # End /\ IsTaken(h, i)
  BY <1>1, Holds
<1>3. /\ SameRight(h, i, AfterLeft(h, i))
      /\ StartOf(h, i) # 0 /\ Size(h, i) \in Nat /\ WithLeft(h, i) \in Nat /\ WithBoth(h, i) \in Nat
      /\ Release(h, i) = MakeAvail(AfterRight(h, i), StartOf(h, i), WithBoth(h, i))
  BY <1>1, <1>2, MergingFacts
<1> QED
  BY <1>2, <1>3 DEF FreeFacts

LEMMA BestMeasure ==
  ASSUME BestStepsInv, NEW c \in Caller, BS!Measure(c)
  PROVE  BestStepsInv' /\ UNCHANGED <<before, live, failed>>
<1>1. BS!At(c, "free")
  BY DEF BS!Measure
<1>2. /\ InMalloc(before, "free", arg[c], local[c]) \/ InFree(before, live, "free", arg[c], local[c])
      /\ heap = BestTarget(before, "free", arg[c], local[c]) /\ pc[c] = "free" /\ IsLocal(local[c])
  BY <1>1, BestAt
<1>3. arg[c] \in DOMAIN live /\ heap = before
  BY <1>2 DEF InMalloc, InFree, BestTarget
<1>4. PICK i : i = arg[c] - 1
  OBVIOUS
<1>5. BS!size(i) = Size(before, i)
  BY <1>3, StepsRead DEF BS!size
<1>6. PICK l : l = [local[c] EXCEPT !.it = i, !.mx = BS!size(i)]
  OBVIOUS
<1>7. l.it = i /\ l.mx = Size(before, i) /\ IsLocal(l)
  BY <1>2, <1>5, <1>6 DEF IsLocal
<1>8. InFree(before, live, "merge left", arg[c], l)
  BY <1>3, <1>4, <1>7 DEF InFree
<1>9. Leads("best", heap, <<>>, BestTarget(before, "merge left", arg[c], l))
  BY <1>3, LeadsNowhere DEF BestTarget
<1>10. BestInside(heap, before, live, "merge left", arg[c], l, <<>>)
  BY <1>8, <1>9 DEF BestInside
<1>11. Decides(c, "merge left", l, <<>>)
  <2>1. local' = [local EXCEPT ![c] = l]
    BY <1>4, <1>6 DEF BS!Measure
  <2> QED
    BY <2>1 DEF BS!Measure, BS!Go, BS!Look, Decides
<1> QED
  BY <1>2, <1>7, <1>10, <1>11, BestDecides

\* A neighbour at n, if it is available, leaves the list.
Joins(c, to, n, idx, l, t) ==
  /\ Decides(c, to, l, t)
  /\ IF IsAvail(heap, n)
       THEN l = [local[c] EXCEPT !.it = idx, !.mx = @ + Size(heap, n)] /\ t = BS!remove(n)
       ELSE l = local[c] /\ t = <<>>

LEMMA MergeIs ==
  ASSUME BestStepsInv, NEW c \in Caller, NEW from, NEW to, NEW n, NEW idx, BS!Merge(c, from, to, n, idx)
  PROVE  \E l, t : Joins(c, to, n, idx, l, t)
<1>1. BS!isAvail(n) = IsAvail(heap, n) /\ BS!size(n) = Size(heap, n)
  BY StepsRead DEF BS!isAvail, BS!size
<1>2. BS!Look
  BY DEF BS!Merge
<1>3. CASE IsAvail(heap, n)
  <2>1. PICK l : l = [local[c] EXCEPT !.it = idx, !.mx = @ + Size(heap, n)]
    OBVIOUS
  <2>2. local' = [local EXCEPT ![c] = l] /\ BS!Go(c, to, BS!remove(n))
    <3>1. local' = [local EXCEPT ![c].it = idx, ![c].mx = @ + BS!size(n)] /\ BS!Go(c, to, BS!remove(n))
      BY <1>1, <1>3 DEF BS!Merge
    <3>2. PerCaller(local)
      BY DEF BestStepsInv
    <3> QED
      BY <1>1, <2>1, <3>1, <3>2 DEF PerCaller
  <2>3. Decides(c, to, l, BS!remove(n))
    BY <1>2, <2>2 DEF BS!Go, BS!Look, Decides
  <2> QED
    BY <1>3, <2>1, <2>3 DEF Joins
<1>4. CASE ~IsAvail(heap, n)
  <2>1. local' = local /\ BS!Go(c, to, <<>>)
    BY <1>1, <1>4 DEF BS!Merge
  <2>2. Decides(c, to, local[c], <<>>)
    BY <1>2, <2>1, SameLocal
  <2> QED
    BY <1>4, <2>2 DEF Joins
<1> QED
  BY <1>3, <1>4

LEMMA BestMergeLeft ==
  ASSUME BestStepsInv, NEW c \in Caller, BS!MergeLeft(c)
  PROVE  BestStepsInv' /\ UNCHANGED <<before, live, failed>>
<1>1. PICK a : a = arg[c]
  OBVIOUS
<1>2. BS!At(c, "merge left")
  BY DEF BS!MergeLeft, BS!Merge
<1>3. /\ InMalloc(before, "merge left", a, local[c]) \/ InFree(before, live, "merge left", a, local[c])
      /\ heap = BestTarget(before, "merge left", a, local[c]) /\ pc[c] = "merge left" /\ IsLocal(local[c])
  BY <1>1, <1>2, BestAt
<1>4. a \in DOMAIN live /\ local[c].it = a - 1 /\ local[c].mx = Size(before, a - 1) /\ heap = before
  BY <1>3 DEF InMalloc, InFree, BestTarget
<1>5. PICK i \in Int : i = a - 1
  <2>1. FreeFacts(before, a - 1)
    BY <1>4, Freeing DEF BestStepsInv
  <2> QED
    BY <2>1 DEF FreeFacts
<1>6. PICK n : n = Left(before, i)
  OBVIOUS
<1>7. BS!Merge(c, "merge left", "merge right", n, n)
  <2>1. BS!left(arg[c] - 1) = n
    BY <1>1, <1>4, <1>5, <1>6, StepsRead DEF BS!left
  <2> QED
    BY <2>1 DEF BS!MergeLeft
<1>8. PICK l, t : Joins(c, "merge right", n, n, l, t)
  BY <1>7, MergeIs
<1>9. /\ IsLocal(l) /\ l.it = StartOf(before, i) /\ l.mx = WithLeft(before, i)
      /\ Leads("best", heap, t, AfterLeft(before, i))
  <2>1. CASE IsAvail(before, n)
    <3>1. l = [local[c] EXCEPT !.it = n, !.mx = @ + Size(before, n)] /\ t = BS!remove(n)
      BY <1>4, <1>8, <2>1 DEF Joins
    <3>2. l.it = n /\ l.mx = Size(before, i) + Size(before, n) /\ IsLocal(l)
      BY <1>3, <1>4, <1>5, <3>1 DEF IsLocal
    <3>3. Leads("best", heap, t, Remove(before, n))
      BY <1>4, <3>1, RemoveWrites
    <3> QED
      BY <1>6, <2>1, <3>2, <3>3 DEF StartOf, WithLeft, AfterLeft
  <2>2. CASE ~IsAvail(before, n)
    <3>1. l = local[c] /\ t = <<>>
      BY <1>4, <1>8, <2>2 DEF Joins
    <3>2. Size(before, i) + 0 = Size(before, i)
      <4>1. FreeFacts(before, i)
        BY <1>4, <1>5, Freeing DEF BestStepsInv
      <4> QED
        BY <4>1 DEF FreeFacts
    <3>3. Leads("best", heap, t, before)
      BY <1>4, <3>1, LeadsNowhere
    <3> QED
      BY <1>3, <1>4, <1>5, <1>6, <2>2, <3>1, <3>2, <3>3 DEF StartOf, WithLeft, AfterLeft
  <2> QED
    BY <2>1, <2>2
<1>10. InFree(before, live, "merge right", a, l)
  BY <1>4, <1>5, <1>9 DEF InFree
<1>11. BestTarget(before, "merge right", a, l) = AfterLeft(before, i)
  BY <1>5 DEF BestTarget
<1>12. BestInside(heap, before, live, "merge right", arg[c], l, t)
  BY <1>1, <1>9, <1>10, <1>11 DEF BestInside
<1> QED
  BY <1>3, <1>8, <1>9, <1>12, BestDecides DEF Joins

LEMMA BestMergeRight ==
  ASSUME BestStepsInv, NEW c \in Caller, BS!MergeRight(c)
  PROVE  BestStepsInv' /\ UNCHANGED <<before, live, failed>>
<1>1. PICK a : a = arg[c]
  OBVIOUS
<1>2. BS!At(c, "merge right")
  BY DEF BS!MergeRight, BS!Merge
<1>3. /\ InMalloc(before, "merge right", a, local[c]) \/ InFree(before, live, "merge right", a, local[c])
      /\ heap = BestTarget(before, "merge right", a, local[c]) /\ pc[c] = "merge right" /\ IsLocal(local[c])
  BY <1>1, <1>2, BestAt
<1>4. a \in DOMAIN live /\ local[c].it = StartOf(before, a - 1) /\ local[c].mx = WithLeft(before, a - 1)
  BY <1>3 DEF InMalloc, InFree
<1>5. PICK i \in Int : i = a - 1 /\ FreeFacts(before, i)
  <2>1. FreeFacts(before, a - 1)
    BY <1>4, Freeing DEF BestStepsInv
  <2> QED
    BY <2>1 DEF FreeFacts
<1>6. heap = AfterLeft(before, i)
  BY <1>3, <1>5 DEF BestTarget
<1>7. PICK n : n = Right(before, i)
  OBVIOUS
<1>8. Right(heap, i) = n /\ (IsAvail(heap, n) <=> IsAvail(before, n)) /\ Size(heap, n) = Size(before, n)
  BY <1>5, <1>6, <1>7 DEF FreeFacts, SameRight
<1>9. BS!Merge(c, "merge right", "merged", n, local[c].it)
  <2>1. BS!right(arg[c] - 1) = n
    BY <1>1, <1>5, <1>8, StepsRead DEF BS!right
  <2> QED
    BY <2>1 DEF BS!MergeRight
<1>10. PICK l, t : Joins(c, "merged", n, local[c].it, l, t)
  BY <1>9, MergeIs
<1>11. /\ IsLocal(l) /\ l.it = StartOf(before, i) /\ l.mx = WithBoth(before, i)
       /\ Leads("best", heap, t, AfterRight(before, i))
  <2>1. CASE IsAvail(before, n)
    <3>1. l = [local[c] EXCEPT !.it = local[c].it, !.mx = @ + Size(before, n)] /\ t = BS!remove(n)
      BY <1>8, <1>10, <2>1 DEF Joins
    <3>2. l.it = local[c].it /\ l.mx = local[c].mx + Size(before, n) /\ IsLocal(l)
      BY <1>3, <3>1 DEF IsLocal
    <3>3. Leads("best", heap, t, Remove(heap, n))
      BY <3>1, RemoveWrites
    <3> QED
      BY <1>4, <1>5, <1>6, <1>7, <2>1, <3>2, <3>3 DEF WithBoth, AfterRight
  <2>2. CASE ~IsAvail(before, n)
    <3>1. l = local[c] /\ t = <<>>
      BY <1>8, <1>10, <2>2 DEF Joins
    <3>2. WithLeft(before, i) + 0 = WithLeft(before, i)
      BY <1>5 DEF FreeFacts
    <3>3. Leads("best", heap, t, heap)
      BY <3>1, LeadsNowhere
    <3> QED
      BY <1>3, <1>4, <1>5, <1>6, <1>7, <2>2, <3>1, <3>2, <3>3 DEF WithBoth, AfterRight
  <2> QED
    BY <2>1, <2>2
<1>12. InFree(before, live, "merged", a, l)
  BY <1>4, <1>5, <1>11 DEF InFree
<1>13. BestTarget(before, "merged", a, l) = AfterRight(before, i)
  BY <1>5 DEF BestTarget
<1>14. BestInside(heap, before, live, "merged", arg[c], l, t)
  BY <1>1, <1>11, <1>12, <1>13 DEF BestInside
<1> QED
  BY <1>3, <1>10, <1>11, <1>14, BestDecides DEF Joins

LEMMA BestMerged ==
  ASSUME BestStepsInv, NEW c \in Caller, BS!Merged(c)
  PROVE  BestStepsInv' /\ UNCHANGED <<before, live, failed>>
<1>1. PICK a, l : a = arg[c] /\ l = local[c]
  OBVIOUS
<1>2. BS!At(c, "merged")
  BY DEF BS!Merged
<1>3. /\ InMalloc(before, "merged", a, l) \/ InFree(before, live, "merged", a, l)
      /\ heap = BestTarget(before, "merged", a, l) /\ pc[c] = "merged" /\ IsLocal(l)
  BY <1>1, <1>2, BestAt
<1>4. a \in DOMAIN live /\ l.it = StartOf(before, a - 1) /\ l.mx = WithBoth(before, a - 1)
  BY <1>3 DEF InMalloc, InFree
<1>5. PICK i \in Int : i = a - 1 /\ FreeFacts(before, i)
  <2>1. FreeFacts(before, a - 1)
    BY <1>4, Freeing DEF BestStepsInv
  <2> QED
    BY <2>1 DEF FreeFacts
<1>6. heap = AfterRight(before, i)
  BY <1>3, <1>5 DEF BestTarget
<1>7. PICK it, mx : it = l.it /\ mx = l.mx /\ it # 0 /\ mx \in Nat /\ it = StartOf(before, i) /\ mx = WithBoth(before, i)
  BY <1>4, <1>5 DEF FreeFacts
<1>8. Leads("best", heap, BS!makeAvail(it, mx), MakeAvail(heap, it, mx))
  BY <1>7, AvailWrites
<1>9. BestTarget(before, "freed", a, l) = MakeAvail(heap, it, mx)
  BY <1>5, <1>6, <1>7 DEF BestTarget, FreeFacts
<1>10. InFree(before, live, "freed", a, l)
  BY <1>4 DEF InFree
<1>11. BestInside(heap, before, live, "freed", arg[c], l, BS!makeAvail(it, mx))
  BY <1>1, <1>8, <1>9, <1>10 DEF BestInside
<1>12. Decides(c, "freed", l, BS!makeAvail(it, mx))
  BY <1>1, <1>7, SameLocal DEF BS!Merged
<1> QED
  BY <1>3, <1>11, <1>12, BestDecides

\* The lock is given back: that is the step of the call.
LEMMA BestUnlock ==
  ASSUME BestStepsInv, NEW c \in Caller, BS!Unlock(c)
  PROVE  BestStepsInv' /\ (BS!Whole!Next \/ UNCHANGED <<before, live, failed>>)
<1>1. PICK a, l, where : a = arg[c] /\ l = local[c] /\ where = pc[c]
  OBVIOUS
<1>2. /\ where \in {"found", "failed", "freed"} /\ BS!At(c, where)
      /\ taken' = FALSE /\ before' = heap /\ heap' = heap
      /\ live' = CASE where = "found"  -> [q \in DOMAIN live \cup {l.it + 1} |-> IF q = l.it + 1 THEN a ELSE live[q]]
                   [] where = "freed"  -> [q \in DOMAIN live \ {a} |-> live[q]]
                   [] where = "failed" -> live
      /\ failed' = IF where = "failed" THEN BS!ints(c) ELSE 0
      /\ pc' = [pc EXCEPT ![c] = "out"] /\ todo' = [todo EXCEPT ![c] = <<>>]
      /\ arg' = [arg EXCEPT ![c] = 0] /\ local' = [local EXCEPT ![c] = BS!Fresh]
  BY <1>1 DEF BS!Unlock, BS!At, BS!Go
<1>3. /\ InMalloc(before, where, a, l) \/ InFree(before, live, where, a, l)
      /\ heap = BestTarget(before, where, a, l) /\ pc[c] = where
  BY <1>1, <1>2, BestAt
<1>4. BestHeap(before, live) /\ PerCaller(pc) /\ PerCaller(arg) /\ PerCaller(local) /\ PerCaller(todo)
  BY DEF BestStepsInv
<1>5. BestHeap(before', live') /\ BS!Whole!Next
  <2>1. CASE where = "found"
    <3>1. /\ a \in Nat /\ a # 0 /\ a \in Bytes /\ l.it # 0 /\ l.it = BestFit(before, IntsFor(a))
          /\ before' = Take(before, l.it, IntsFor(a))
      <4>1. InMalloc(before, where, a, l)
        BY <1>3, <2>1 DEF InFree
      <4>2. a \in Nat /\ a # 0 /\ a \in Bytes
        BY <4>1, Asked
      <4> QED
        BY <1>2, <1>3, <2>1, <4>1, <4>2 DEF InMalloc, BestTarget
    <3>2. /\ live' = [q \in DOMAIN live \cup {l.it + 1} |-> IF q = l.it + 1 THEN a ELSE live[q]]
          /\ failed' = 0
      BY <1>2, <2>1
    <3>3. BestHeap(before', live')
      BY <1>4, <3>1, <3>2, Granted
    <3>4. BS!Whole!Malloc(a)
      <4>1. BS!Whole!IntsFor(a) = IntsFor(a)
        BY WholeReads
      <4>2. BS!Whole!BestFit(before, IntsFor(a)) = l.it
        BY <3>1, WholeFinds
      <4>3. BS!Whole!Take(before, l.it, IntsFor(a)) = before'
        BY <3>1, WholeTakes
      <4>4. a > 0
        BY <3>1
      <4> QED
        BY <3>1, <3>2, <4>1, <4>2, <4>3, <4>4 DEF BS!Whole!Malloc
    <3> QED
      BY <3>1, <3>3, <3>4 DEF BS!Whole!Next
  <2>2. CASE where = "failed"
    <3>1. a \in Nat /\ a # 0 /\ a \in Bytes /\ BestFit(before, IntsFor(a)) = 0 /\ before' = before
      <4>1. InMalloc(before, where, a, l)
        BY <1>3, <2>2 DEF InFree
      <4>2. a \in Nat /\ a # 0 /\ a \in Bytes
        BY <4>1, Asked
      <4> QED
        BY <1>2, <1>3, <2>2, <4>1, <4>2 DEF InMalloc, BestTarget
    <3>2. live' = live /\ failed' = IntsFor(a)
      <4>1. BS!ints(c) = IntsFor(a)
        BY <1>1, StepsRead DEF BS!ints
      <4> QED
        BY <1>2, <2>2, <4>1
    <3>3. BestHeap(before', live')
      BY <1>4, <3>1, <3>2
    <3>4. BS!Whole!Malloc(a)
      <4>1. BS!Whole!IntsFor(a) = IntsFor(a)
        BY WholeReads
      <4>2. BS!Whole!BestFit(before, IntsFor(a)) = 0
        BY <3>1, WholeFinds
      <4>3. a > 0
        BY <3>1
      <4> QED
        BY <3>1, <3>2, <4>1, <4>2, <4>3 DEF BS!Whole!Malloc
    <3> QED
      BY <3>1, <3>3, <3>4 DEF BS!Whole!Next
  <2>3. CASE where = "freed"
    <3>1. a \in DOMAIN live /\ before' = Release(before, a - 1)
      BY <1>2, <1>3, <2>3 DEF InMalloc, InFree, BestTarget
    <3>2. live' = [q \in DOMAIN live \ {a} |-> live[q]] /\ failed' = 0
      BY <1>2, <2>3
    <3>3. BestHeap(before', live')
      BY <1>4, <3>1, <3>2, Reclaimed
    <3>4. BS!Whole!Free(a)
      <4>1. IsTaken(before, a - 1)
        BY <1>4, <3>1, Freeing DEF FreeFacts
      <4>2. BS!Whole!IsTaken(before, a - 1)
        BY <4>1, WholeReads
      <4>3. BS!Whole!Release(before, a - 1) = before'
        BY <3>1, WholeTakes
      <4> QED
        BY <3>2, <4>2, <4>3 DEF BS!Whole!Free
    <3> QED
      BY <3>1, <3>3, <3>4 DEF BS!Whole!Next
  <2> QED
    BY <1>2, <2>1, <2>2, <2>3
<1>6. pc'[c] = "out" /\ todo'[c] = <<>> /\ local'[c] = BS!Fresh
  BY <1>2, <1>4 DEF PerCaller
<1>7. IsLocal(local'[c])
  BY <1>6 DEF IsLocal, BS!Fresh
<1>8. BestCaller(heap', before', live', pc'[c], arg'[c], local'[c], todo'[c])
  BY <1>6, <1>7 DEF BestCaller
<1>9. Moves(c)
  BY <1>2, <1>4 DEF PerCaller, Moves
<1>10. BestStepsInv'
  BY <1>2, <1>3, <1>5, <1>6, <1>8, <1>9, BestGoesOn
<1> QED
  BY <1>5, <1>10

\* An inductive invariant, under which every step is one of the whole calls or none.
LEMMA BestStepsGoOn ==
  ASSUME BestStepsInv, BS!Next
  PROVE  BestStepsInv' /\ (BS!Whole!Next \/ UNCHANGED <<before, live, failed>>)
<1>1. PICK c \in Caller : BS!Step(c)
  BY DEF BS!Next
<1>2. CASE BS!Store(c)
  BY <1>2, BestStore
<1>3. CASE BS!malloc(c)
  <2>1. PICK x \in Bytes : x # 0 /\ BS!Lock(c, "malloc", x)
    BY <1>3 DEF BS!malloc
  <2> QED
    BY <2>1, BestLock
<1>4. CASE BS!free(c)
  <2>1. PICK x \in DOMAIN live : BS!Lock(c, "free", x)
    BY <1>4 DEF BS!free
  <2> QED
    BY <2>1, BestLock
<1>5. CASE BS!Search(c)
  BY <1>5, BestSearch
<1>6. CASE BS!Find(c)
  BY <1>6, BestFind
<1>7. CASE BS!Found(c)
  BY <1>7, BestFound
<1>8. CASE BS!NotFound(c)
  BY <1>8, BestNotFound
<1>9. CASE BS!Cut(c)
  BY <1>9, BestCut
<1>10. CASE BS!Measure(c)
  BY <1>10, BestMeasure
<1>11. CASE BS!MergeLeft(c)
  BY <1>11, BestMergeLeft
<1>12. CASE BS!MergeRight(c)
  BY <1>12, BestMergeRight
<1>13. CASE BS!Merged(c)
  BY <1>13, BestMerged
<1>14. CASE BS!Unlock(c)
  BY <1>14, BestUnlock
<1> QED
  BY <1>1, <1>2, <1>3, <1>4, <1>5, <1>6, <1>7, <1>8, <1>9, <1>10, <1>11, <1>12, <1>13, <1>14 DEF BS!Step

\* What is left alone stays.
LEMMA BestStepsStay ==
  ASSUME BestStepsInv, UNCHANGED <<vars, stepped>>
  PROVE  BestStepsInv'
BY DEF vars, stepped, BestStepsInv

LEMMA BestStepsStart ==
  ASSUME BS!Init
  PROVE  BestStepsInv /\ BS!Whole!Init
<1>1. Init /\ before = heap
  BY DEF BS!Init, BS!H!Init, BS!H!Empty, BS!H!Index, BS!H!MakeTaken, BS!H!MakeAvail, BS!H!SetNext, BS!H!SetPrev,
         Init, Empty, Index, MakeTaken, MakeAvail, SetNext, SetPrev
<1>2. BS!Whole!Init
  BY <1>1 DEF BS!Whole!Init, BS!Whole!Empty, BS!Whole!Index, BS!Whole!MakeTaken, BS!Whole!MakeAvail, BS!Whole!SetNext,
              BS!Whole!SetPrev, Init, Empty, Index, MakeTaken, MakeAvail, SetNext, SetPrev
<1>3. BestHeap(before, live)
  BY <1>1, BestInit DEF BestInv, BestHeap
<1>4. /\ taken = FALSE /\ pc = [c \in Caller |-> "out"] /\ arg = [c \in Caller |-> 0]
      /\ local = [c \in Caller |-> BS!Fresh] /\ todo = [c \in Caller |-> <<>>]
  BY DEF BS!Init
<1>5. PerCaller(pc) /\ PerCaller(arg) /\ PerCaller(local) /\ PerCaller(todo) /\ OneInside(pc, taken)
  BY <1>4 DEF PerCaller, OneInside
<1>6. IsLocal(BS!Fresh)
  BY DEF IsLocal, BS!Fresh
<1>7. \A c \in Caller : BestCaller(heap, before, live, pc[c], arg[c], local[c], todo[c])
  BY <1>4, <1>6 DEF BestCaller
<1> QED
  BY <1>1, <1>2, <1>3, <1>5, <1>7 DEF BestStepsInv

-----------------------------------------------------------------------------
(* Inside FirstFitSteps, FirstFit stands twice, for the heap as it is and as it was *)

LEMMA FirstStepsRead ==
  ASSUME NEW h, NEW i
  PROVE  /\ FS!F!size(h, i) = F!size(h, i) /\ FS!F!isfree(h, i) = F!isfree(h, i)
         /\ FS!F!next(h, i) = F!next(h, i) /\ FS!F!prev(h, i) = F!prev(h, i)
         /\ FS!F!nextFree(h, i) = F!nextFree(h, i) /\ FS!F!prevFree(h, i) = F!prevFree(h, i)
         /\ FS!F!WordSize(i) = F!WordSize(i) /\ FS!F!null = 0 /\ FS!null = 0
<1>1. \A j : FS!F!size(h, j) = F!size(h, j) /\ FS!F!isfree(h, j) = F!isfree(h, j)
  BY DEF FS!F!size, FS!F!isfree, F!size, F!isfree
<1>2. \A j : FS!F!payload(h, j) = F!payload(h, j)
  BY <1>1 DEF FS!F!payload, F!payload
<1>3. FS!F!null = 0 /\ FS!null = 0 /\ F!null = 0
  BY DEF FS!F!null, FS!null, F!null
<1>4. FS!F!next(h, i) = F!next(h, i) /\ FS!F!prev(h, i) = F!prev(h, i)
  BY <1>1, <1>2, <1>3 DEF FS!F!next, FS!F!prev, F!next, F!prev
<1>5. FS!F!nextFree(h, i) = F!nextFree(h, i) /\ FS!F!prevFree(h, i) = F!prevFree(h, i)
  BY DEF FS!F!nextFree, FS!F!prevFree, F!nextFree, F!prevFree
<1>6. FS!F!WordSize(i) = F!WordSize(i)
  BY DEF FS!F!WordSize, FS!F!Max, F!WordSize, F!Max
<1> QED
  BY <1>1, <1>3, <1>4, <1>5, <1>6

LEMMA FirstWholeReads ==
  ASSUME NEW h, NEW i
  PROVE  /\ FS!Whole!size(h, i) = F!size(h, i) /\ FS!Whole!isfree(h, i) = F!isfree(h, i)
         /\ FS!Whole!payload(h, i) = F!payload(h, i)
         /\ FS!Whole!next(h, i) = F!next(h, i) /\ FS!Whole!prev(h, i) = F!prev(h, i)
         /\ FS!Whole!nextFree(h, i) = F!nextFree(h, i) /\ FS!Whole!prevFree(h, i) = F!prevFree(h, i)
         /\ FS!Whole!WordSize(i) = F!WordSize(i) /\ FS!Whole!null = 0 /\ F!null = 0
<1>1. \A j : FS!Whole!size(h, j) = F!size(h, j) /\ FS!Whole!isfree(h, j) = F!isfree(h, j)
  BY DEF FS!Whole!size, FS!Whole!isfree, F!size, F!isfree
<1>2. \A j : FS!Whole!payload(h, j) = F!payload(h, j)
  BY <1>1 DEF FS!Whole!payload, F!payload
<1>3. FS!Whole!null = 0 /\ F!null = 0
  BY DEF FS!Whole!null, F!null
<1>4. FS!Whole!next(h, i) = F!next(h, i) /\ FS!Whole!prev(h, i) = F!prev(h, i)
  BY <1>1, <1>2, <1>3 DEF FS!Whole!next, FS!Whole!prev, F!next, F!prev
<1>5. FS!Whole!nextFree(h, i) = F!nextFree(h, i) /\ FS!Whole!prevFree(h, i) = F!prevFree(h, i)
  BY DEF FS!Whole!nextFree, FS!Whole!prevFree, F!nextFree, F!prevFree
<1>6. FS!Whole!WordSize(i) = F!WordSize(i)
  BY DEF FS!Whole!WordSize, FS!Whole!Max, F!WordSize, F!Max
<1> QED
  BY <1>1, <1>2, <1>3, <1>4, <1>5, <1>6

LEMMA FirstWholeWrites ==
  ASSUME NEW h, NEW i, NEW n
  PROVE  /\ FS!Whole!SetSize(h, i, n) = F!SetSize(h, i, n) /\ FS!Whole!Unlink(h, i) = F!Unlink(h, i)
         /\ FS!Whole!SetPrev(h, i, n) = F!SetPrev(h, i, n) /\ FS!Whole!SetNext(h, i, n) = F!SetNext(h, i, n)
<1>1. FS!Whole!SetSize(h, i, n) = F!SetSize(h, i, n)
  BY DEF FS!Whole!SetSize, F!SetSize
<1>2. \A g, j, x : FS!Whole!SetPrev(g, j, x) = F!SetPrev(g, j, x) /\ FS!Whole!SetNext(g, j, x) = F!SetNext(g, j, x)
  BY DEF FS!Whole!SetPrev, FS!Whole!SetNext, FS!Whole!null, F!SetPrev, F!SetNext, F!null
<1>3. FS!Whole!Unlink(h, i) = F!Unlink(h, i)
  BY <1>2, FirstWholeReads DEF FS!Whole!Unlink, F!Unlink
<1> QED
  BY <1>1, <1>2, <1>3

LEMMA FirstWholeHands ==
  ASSUME NEW h, NEW i, NEW n
  PROVE  /\ FS!Whole!HandOut(h, i, n) = F!HandOut(h, i, n) /\ FS!Whole!merge(h, i) = F!merge(h, i)
<1>1. FS!Whole!HandOut(h, i, n) = F!HandOut(h, i, n)
  BY FirstWholeReads, FirstWholeWrites DEF FS!Whole!HandOut, F!HandOut
<1>2. \A g : FS!Whole!MergeRight(g, i) = F!MergeRight(g, i)
  <2> TAKE g
  <2>1. PICK r : r = F!next(g, i)
    OBVIOUS
  <2> QED
    BY <2>1, FirstWholeReads, FirstWholeWrites DEF FS!Whole!MergeRight, F!MergeRight
<1>3. \A g : FS!Whole!MergeLeft(g, i) = F!MergeLeft(g, i)
  <2> TAKE g
  <2>1. PICK l : l = F!prev(g, i)
    OBVIOUS
  <2> QED
    BY <2>1, FirstWholeReads, FirstWholeWrites DEF FS!Whole!MergeLeft, F!MergeLeft
<1>4. FS!Whole!merge(h, i) = F!merge(h, i)
  BY <1>2, <1>3 DEF FS!Whole!merge, F!merge
<1> QED
  BY <1>1, <1>4

LEMMA FirstWholeFinds ==
  ASSUME NEW h, NEW n
  PROVE  FS!Whole!Finder(h, n) = F!Finder(h, n)
<1>1. \A i : FS!Whole!Follow(h, i) = F!Follow(h, i)
  BY FirstWholeReads DEF FS!Whole!Follow, F!Follow
<1>2. FS!Whole!Listed(h) = F!Listed(h)
  BY <1>1 DEF FS!Whole!Listed, F!Listed
<1>3. \A S : FS!Whole!Min(S) = F!Min(S)
  BY DEF FS!Whole!Min, F!Min
<1>4. \A i : FS!Whole!payload(h, i) = F!payload(h, i)
  BY FirstWholeReads
<1>5. PICK at : at = F!Listed(h)
  OBVIOUS
<1>6. PICK fits : fits = {k \in DOMAIN at : at[k] # 0 /\ F!payload(h, at[k]) >= n}
  OBVIOUS
<1>7. F!Finder(h, n) = IF fits = {} THEN 0 ELSE at[F!Min(fits)]
  BY <1>5, <1>6 DEF F!Finder, F!null
<1>8. FS!Whole!Finder(h, n) = IF fits = {} THEN 0 ELSE at[FS!Whole!Min(fits)]
  BY <1>2, <1>4, <1>5, <1>6 DEF FS!Whole!Finder, FS!Whole!null
<1> QED
  BY <1>3, <1>7, <1>8

-----------------------------------------------------------------------------
(* What the sequences of writes of the first-fit heap lead to *)

LEMMA FirstWrite ==
  ASSUME NEW h, NEW i, NEW v
  PROVE  /\ Effect("first", h, FS!Write("size", i, v)) = [h EXCEPT !.word[i] = v]
         /\ Effect("first", h, FS!Write("prev", i, v)) = F!SetPrev(h, i, v)
         /\ Effect("first", h, FS!Write("next", i, v)) = F!SetNext(h, i, v)
         /\ Effect("first", h, FS!Write("freehead", i, v)) = [h EXCEPT !.freehead = v]
<1>1. FS!F!SetPrev(h, i, v) = F!SetPrev(h, i, v) /\ FS!F!SetNext(h, i, v) = F!SetNext(h, i, v)
  BY DEF FS!F!SetPrev, FS!F!SetNext, FS!F!null, F!SetPrev, F!SetNext, F!null
<1>2. \A w : Effect("first", h, w) = FS!Written(h, w)
  BY DEF Effect
<1>3. /\ FS!Written(h, FS!Write("size", i, v)) = [h EXCEPT !.word[i] = v]
      /\ FS!Written(h, FS!Write("prev", i, v)) = FS!F!SetPrev(h, i, v)
      /\ FS!Written(h, FS!Write("next", i, v)) = FS!F!SetNext(h, i, v)
      /\ FS!Written(h, FS!Write("freehead", i, v)) = [h EXCEPT !.freehead = v]
  BY DEF FS!Write, FS!Written
<1> QED
  BY <1>1, <1>2, <1>3

\* A write to a word and its link leads to what the model of whole calls has.
LEMMA FirstLinkWrite ==
  ASSUME NEW h, NEW i, NEW v
  PROVE  /\ Leads("first", h, <<FS!Write("prev", i, v)>>, F!SetPrev(h, i, v))
         /\ Leads("first", h, <<FS!Write("next", i, v)>>, F!SetNext(h, i, v))
         /\ Leads("first", h, <<FS!Write("freehead", i, v)>>, [h EXCEPT !.freehead = v])
<1>1. PICK s : s = [h EXCEPT !.freehead = v]
  OBVIOUS
<1>2. /\ F!SetPrev(h, i, v) = Effect("first", h, FS!Write("prev", i, v))
      /\ F!SetNext(h, i, v) = Effect("first", h, FS!Write("next", i, v))
      /\ s = Effect("first", h, FS!Write("freehead", i, v))
  BY <1>1, FirstWrite
<1> QED
  BY <1>1, <1>2, LeadsOnce

LEMMA SizedWrites ==
  ASSUME NEW h, NEW i, NEW n
  PROVE  Leads("first", h, FS!Sized(i, n), F!SetSize(h, i, n))
<1>1. PICK f : f = i + (IF n < 0 THEN -n ELSE n) + 1
  OBVIOUS
<1>2. PICK t : t = [h EXCEPT !.word[i] = n]
  OBVIOUS
<1>3. PICK s : s = [t EXCEPT !.word[f] = n]
  OBVIOUS
<1>4. F!SetSize(h, i, n) = s
  BY <1>1, <1>2, <1>3 DEF F!SetSize
<1>5. t = Effect("first", h, FS!Write("size", i, n))
  BY <1>2, FirstWrite
<1>7. s = Effect("first", t, FS!Write("size", f, n))
  BY <1>3, FirstWrite
<1>6. FS!Sized(i, n) = <<FS!Write("size", i, n), FS!Write("size", f, n)>>
  BY <1>1 DEF FS!Sized
<1> QED
  BY <1>4, <1>5, <1>6, <1>7, LeadsTwice

LEMMA FirstSame ==
  ASSUME NEW s, FirstType(s), NEW t, FirstType(t), s.freehead = t.freehead,
         \A w \in FirstIndex : s.word[w] = t.word[w]
  PROVE  s = t
<1>1. s.word = t.word
  BY DEF FirstType
<1> QED
  BY <1>1 DEF FirstType

\* Links that may be written: they are in different words.
Links(p, n) ==
  /\ p \in Int /\ n \in Int /\ (p = 0 \/ p + 2 \in FirstIndex) /\ (n = 0 \/ n + 1 \in FirstIndex)
  /\ p # 0 /\ n # 0 => p + 2 # n + 1

LEMMA LinksSwap ==
  ASSUME NEW h, FirstType(h), NEW p, NEW n, Links(p, n), p # 0, n # 0, NEW x \in Int, NEW y \in Int
  PROVE  /\ F!SetPrev(F!SetNext(h, p, x), n, y) = F!SetNext(F!SetPrev(h, n, y), p, x)
         /\ FirstType(F!SetNext(h, p, x)) /\ FirstType(F!SetPrev(h, n, y))
<1>1. /\ p \in Int /\ n \in Int /\ p + 2 \in FirstIndex /\ n + 1 \in FirstIndex /\ p + 2 # n + 1
  BY DEF Links
<1>2. PICK s : s = F!SetNext(h, p, x)
  OBVIOUS
<1>3. /\ FirstType(s) /\ s.freehead = h.freehead
      /\ \A w \in FirstIndex : s.word[w] = IF w = p + 2 THEN x ELSE h.word[w]
  BY <1>1, <1>2 DEF F!SetNext, F!null, FirstType
<1>4. PICK t : t = F!SetPrev(h, n, y)
  OBVIOUS
<1>5. /\ FirstType(t) /\ t.freehead = h.freehead
      /\ \A w \in FirstIndex : t.word[w] = IF w = n + 1 THEN y ELSE h.word[w]
  BY <1>1, <1>4 DEF F!SetPrev, F!null, FirstType
<1>6. PICK u : u = F!SetPrev(s, n, y)
  OBVIOUS
<1>7. /\ FirstType(u) /\ u.freehead = s.freehead
      /\ \A w \in FirstIndex : u.word[w] = IF w = n + 1 THEN y ELSE s.word[w]
  BY <1>1, <1>3, <1>6 DEF F!SetPrev, F!null, FirstType
<1>8. PICK v : v = F!SetNext(t, p, x)
  OBVIOUS
<1>9. /\ FirstType(v) /\ v.freehead = t.freehead
      /\ \A w \in FirstIndex : v.word[w] = IF w = p + 2 THEN x ELSE t.word[w]
  BY <1>1, <1>5, <1>8 DEF F!SetNext, F!null, FirstType
<1>10. \A w \in FirstIndex : u.word[w] = v.word[w]
  BY <1>1, <1>3, <1>5, <1>7, <1>9
<1>11. u = v
  BY <1>3, <1>5, <1>7, <1>9, <1>10, FirstSame
<1> QED
  BY <1>2, <1>3, <1>4, <1>5, <1>6, <1>8, <1>11

\* Unlink with links that were read before.
Unlinking(h, p, n) ==
  LET ahead == IF p = 0 THEN [h EXCEPT !.freehead = n] ELSE F!SetNext(h, p, n)
  IN  F!SetPrev(ahead, n, p)

LEMMA UnlinkingIs ==
  ASSUME NEW h, FirstType(h), NEW p, NEW n, Links(p, n), NEW s, s = Unlinking(h, p, n)
  PROVE  /\ FirstType(s) /\ s.freehead = IF p = 0 THEN n ELSE h.freehead
         /\ \A w \in FirstIndex : s.word[w] = IF n # 0 /\ w = n + 1 THEN p
                                              ELSE IF p # 0 /\ w = p + 2 THEN n ELSE h.word[w]
<1>0. p \in Int /\ n \in Int /\ (p = 0 \/ p + 2 \in FirstIndex) /\ (n = 0 \/ n + 1 \in FirstIndex)
  BY DEF Links
<1>1. PICK ahead : ahead = IF p = 0 THEN [h EXCEPT !.freehead = n] ELSE F!SetNext(h, p, n)
  OBVIOUS
<1>2. /\ FirstType(ahead) /\ ahead.freehead = IF p = 0 THEN n ELSE h.freehead
      /\ \A w \in FirstIndex : ahead.word[w] = IF p # 0 /\ w = p + 2 THEN n ELSE h.word[w]
  <2>1. CASE p = 0
    BY <1>0, <1>1, <2>1 DEF FirstType
  <2>2. CASE p # 0
    BY <1>0, <1>1, <2>2 DEF F!SetNext, F!null, FirstType
  <2> QED
    BY <2>1, <2>2
<1>3. s = F!SetPrev(ahead, n, p)
  BY <1>1 DEF Unlinking
<1>4. /\ FirstType(s) /\ s.freehead = ahead.freehead
      /\ \A w \in FirstIndex : s.word[w] = IF n # 0 /\ w = n + 1 THEN p ELSE ahead.word[w]
  BY <1>0, <1>2, <1>3 DEF F!SetPrev, F!null, FirstType
<1> QED
  BY <1>2, <1>4

LEMMA UnlinkLinks == ASSUME NEW h, NEW i PROVE F!Unlink(h, i) = Unlinking(h, F!prevFree(h, i), F!nextFree(h, i))
BY DEF F!Unlink, F!null, Unlinking

\* Between two neighbours in the list the links are written the other way round.
LEMMA BetweenWrites ==
  ASSUME NEW h, FirstType(h), NEW p, NEW n, Links(p, n), p # 0, n # 0
  PROVE  Leads("first", h, <<FS!Write("prev", n, p), FS!Write("next", p, n)>>, Unlinking(h, p, n))
<1>1. p \in Int /\ n \in Int
  BY DEF Links
<1>2. PICK t : t = F!SetPrev(h, n, p)
  OBVIOUS
<1>3. PICK s : s = F!SetNext(t, p, n)
  OBVIOUS
<1>4. t = Effect("first", h, FS!Write("prev", n, p)) /\ s = Effect("first", t, FS!Write("next", p, n))
  BY <1>2, <1>3, FirstWrite
<1>5. Unlinking(h, p, n) = F!SetPrev(F!SetNext(h, p, n), n, p)
  BY DEF Unlinking
<1>6. Unlinking(h, p, n) = s
  BY <1>1, <1>2, <1>3, <1>5, LinksSwap
<1> QED
  BY <1>4, <1>6, LeadsTwice

\* The last of the list leaves it.
LEMMA LastWrites ==
  ASSUME NEW h, NEW p, p # 0
  PROVE  Leads("first", h, <<FS!Write("next", p, 0)>>, Unlinking(h, p, 0))
<1>1. Unlinking(h, p, 0) = F!SetNext(h, p, 0)
  BY DEF Unlinking, F!SetPrev, F!null
<1>2. Leads("first", h, <<FS!Write("next", p, 0)>>, F!SetNext(h, p, 0))
  BY FirstLinkWrite
<1> QED
  BY <1>1, <1>2

\* What malloc writes when block i leaves the list, whatever else has been written since
\* that was decided on.
LEMMA TakenOffWrites ==
  ASSUME NEW h, FirstType(h), NEW i, NEW p, p = F!prevFree(heap, i), NEW n, n = F!nextFree(heap, i), Links(p, n)
  PROVE  Leads("first", h, FS!Taken(i), Unlinking(h, p, n))
<1>1. FS!F!prevFree(heap, i) = p /\ FS!F!nextFree(heap, i) = n /\ FS!null = 0
  BY FirstStepsRead
<1>2. CASE p = 0
  <2>1. FS!Taken(i) = <<FS!Write("freehead", 0, n), FS!Write("prev", n, 0)>>
    BY <1>1, <1>2 DEF FS!Taken
  <2>2. PICK t : t = [h EXCEPT !.freehead = n]
    OBVIOUS
  <2>3. PICK s : s = F!SetPrev(t, n, 0)
    OBVIOUS
  <2>4. t = Effect("first", h, FS!Write("freehead", 0, n)) /\ s = Effect("first", t, FS!Write("prev", n, 0))
    BY <2>2, <2>3, FirstWrite
  <2>5. Unlinking(h, p, n) = s
    BY <1>2, <2>2, <2>3 DEF Unlinking
  <2> QED
    BY <2>1, <2>4, <2>5, LeadsTwice
<1>3. CASE p # 0 /\ n = 0
  <2>1. FS!Taken(i) = <<FS!Write("next", p, 0)>>
    BY <1>1, <1>3 DEF FS!Taken
  <2> QED
    BY <1>3, <2>1, LastWrites
<1>4. CASE p # 0 /\ n # 0
  <2>1. FS!Taken(i) = <<FS!Write("prev", n, p), FS!Write("next", p, n)>>
    BY <1>1, <1>4 DEF FS!Taken
  <2> QED
    BY <1>4, <2>1, BetweenWrites
<1> QED
  BY <1>2, <1>3, <1>4

\* What merge writes: not all that there is to write, if the block is the only one of the
\* list.
LEMMA SwallowedWrites ==
  ASSUME NEW h, FirstType(h), NEW i, NEW p, p = F!prevFree(heap, i), NEW n, n = F!nextFree(heap, i), Links(p, n),
         p # 0 \/ n # 0
  PROVE  Leads("first", h, FS!Swallowed(i), Unlinking(h, p, n))
<1>1. FS!F!prevFree(heap, i) = p /\ FS!F!nextFree(heap, i) = n /\ FS!null = 0
  BY FirstStepsRead
<1>2. CASE n = 0
  <2>1. FS!Swallowed(i) = <<FS!Write("next", p, 0)>>
    BY <1>1, <1>2 DEF FS!Swallowed
  <2> QED
    BY <1>2, <2>1, LastWrites
<1>3. CASE n # 0 /\ p = 0
  <2>1. FS!Swallowed(i) = <<FS!Write("prev", n, 0), FS!Write("freehead", 0, n)>>
    BY <1>1, <1>3 DEF FS!Swallowed
  <2>2. PICK t : t = F!SetPrev(h, n, 0)
    OBVIOUS
  <2>3. PICK s : s = [t EXCEPT !.freehead = n]
    OBVIOUS
  <2>4. t = Effect("first", h, FS!Write("prev", n, 0)) /\ s = Effect("first", t, FS!Write("freehead", 0, n))
    BY <2>2, <2>3, FirstWrite
  <2>5. n \in Int /\ n + 1 \in FirstIndex
    BY <1>3 DEF Links
  <2>6. /\ FirstType(s) /\ s.freehead = n
        /\ \A w \in FirstIndex : s.word[w] = IF w = n + 1 THEN 0 ELSE h.word[w]
    <3>1. FirstType(t) /\ \A w \in FirstIndex : t.word[w] = IF w = n + 1 THEN 0 ELSE h.word[w]
      BY <1>3, <2>2, <2>5 DEF F!SetPrev, F!null, FirstType
    <3>2. FirstType(s) /\ s.freehead = n /\ s.word = t.word
      BY <2>3, <2>5, <3>1 DEF FirstType
    <3> QED
      BY <3>1, <3>2
  <2>7. PICK u : u = Unlinking(h, p, n)
    OBVIOUS
  <2>8. /\ FirstType(u) /\ u.freehead = n
        /\ \A w \in FirstIndex : u.word[w] = IF w = n + 1 THEN 0 ELSE h.word[w]
    BY <1>3, <2>7, UnlinkingIs
  <2>9. u = s
    BY <2>6, <2>8, FirstSame
  <2> QED
    BY <2>1, <2>4, <2>7, <2>9, LeadsTwice
<1>4. CASE n # 0 /\ p # 0
  <2>1. FS!Swallowed(i) = <<FS!Write("prev", n, p), FS!Write("next", p, n)>>
    BY <1>1, <1>4 DEF FS!Swallowed
  <2> QED
    BY <1>4, <2>1, BetweenWrites
<1> QED
  BY <1>2, <1>3, <1>4

\* A size and links that do not touch each other may be written either way round.
Clear(i, f, p, n) == /\ p # 0 => p + 2 # i /\ p + 2 # f
                     /\ n # 0 => n + 1 # i /\ n + 1 # f

LEMMA SizeUnlinked ==
  ASSUME NEW h, FirstType(h), NEW i \in FirstIndex, NEW v \in Int, NEW f \in FirstIndex, f = FootOf(i, v),
         NEW p, NEW n, Links(p, n), Clear(i, f, p, n)
  PROVE  FirstType(F!SetSize(h, i, v)) /\ Unlinking(F!SetSize(h, i, v), p, n) = F!SetSize(Unlinking(h, p, n), i, v)
<1>1. PICK t : t = F!SetSize(h, i, v)
  OBVIOUS
<1>2. /\ FirstType(t) /\ t.freehead = h.freehead
      /\ \A w \in FirstIndex : t.word[w] = IF w = i \/ w = f THEN v ELSE h.word[w]
  BY <1>1, SetSizeIs
<1>3. PICK s : s = Unlinking(t, p, n)
  OBVIOUS
<1>4. /\ FirstType(s) /\ s.freehead = IF p = 0 THEN n ELSE t.freehead
      /\ \A w \in FirstIndex : s.word[w] = IF n # 0 /\ w = n + 1 THEN p
                                           ELSE IF p # 0 /\ w = p + 2 THEN n ELSE t.word[w]
  BY <1>2, <1>3, UnlinkingIs
<1>5. PICK u : u = Unlinking(h, p, n)
  OBVIOUS
<1>6. /\ FirstType(u) /\ u.freehead = IF p = 0 THEN n ELSE h.freehead
      /\ \A w \in FirstIndex : u.word[w] = IF n # 0 /\ w = n + 1 THEN p
                                           ELSE IF p # 0 /\ w = p + 2 THEN n ELSE h.word[w]
  BY <1>5, UnlinkingIs
<1>7. PICK e : e = F!SetSize(u, i, v)
  OBVIOUS
<1>8. /\ FirstType(e) /\ e.freehead = u.freehead
      /\ \A w \in FirstIndex : e.word[w] = IF w = i \/ w = f THEN v ELSE u.word[w]
  BY <1>6, <1>7, SetSizeIs
<1>9. \A w \in FirstIndex : s.word[w] = e.word[w]
  <2> TAKE w \in FirstIndex
  <2>1. CASE w = i \/ w = f
    <3>1. ~(n # 0 /\ w = n + 1) /\ ~(p # 0 /\ w = p + 2)
      BY <2>1 DEF Clear
    <3> QED
      BY <1>2, <1>4, <1>8, <2>1, <3>1
  <2>2. CASE ~(w = i \/ w = f)
    BY <1>2, <1>4, <1>6, <1>8, <2>2
  <2> QED
    BY <2>1, <2>2
<1>10. s.freehead = e.freehead
  BY <1>2, <1>4, <1>6, <1>8
<1>11. s = e
  BY <1>4, <1>8, <1>9, <1>10, FirstSame
<1> QED
  BY <1>1, <1>2, <1>3, <1>5, <1>7, <1>11

\* The links of a free block.
LinkedBlock(h, A, i, p, n) ==
  /\ p = F!prevFree(h, i) /\ n = F!nextFree(h, i) /\ Links(p, n)
  /\ (p = 0 \/ p \in A) /\ (n = 0 \/ n \in A)

LEMMA ListLinks ==
  ASSUME NEW h, NEW B, NEW rank, FirstChain(h, B, rank), NEW i \in FreeOf(h, B)
  PROVE  \E p, n : LinkedBlock(h, FreeOf(h, B), i, p, n)
<1>1. PICK A : A = FreeOf(h, B)
  OBVIOUS
<1>2. FirstType(h) /\ FirstTagged(h, B) /\ FirstLinked(h, A, rank) /\ i \in A
  BY <1>1 DEF FirstChain
<1>3. FirstApart(A)
  <2>1. FirstApart(B)
    BY <1>2, FreeApart
  <2> QED
    BY <1>1, <2>1 DEF FirstApart, FreeOf
<1>4. PICK p, n : p = F!prevFree(h, i) /\ n = F!nextFree(h, i)
  OBVIOUS
<1>5. (p = 0 \/ p \in A) /\ (n = 0 \/ n \in A)
  BY <1>2, <1>4 DEF FirstLinked
<1>6. p \in Int /\ n \in Int /\ (p = 0 \/ p + 2 \in FirstIndex) /\ (n = 0 \/ n + 1 \in FirstIndex)
  BY <1>3, <1>5, FirstApartFacts
<1>7. p # 0 /\ n # 0 => p + 2 # n + 1
  <2>1. CASE p = n
    BY <1>6, <2>1
  <2>2. CASE p # n
    BY <1>3, <1>5, <2>2, FirstApartFacts
  <2> QED
    BY <2>1, <2>2
<1> QED
  BY <1>1, <1>4, <1>5, <1>6, <1>7 DEF LinkedBlock, Links

\* Neither tags of blocks are links of free ones.
LEMMA TagsClear ==
  ASSUME NEW h, FirstType(h), NEW B, FirstTagged(h, B), NEW i \in B, NEW j \in B, NEW f, f = F!findFooter(h, j),
         NEW k, NEW p, NEW n, LinkedBlock(h, FreeOf(h, B), k, p, n)
  PROVE  Clear(i, f, p, n)
<1>1. \A a \in FreeOf(h, B) : i # a + 1 /\ i # a + 2 /\ f # a + 1 /\ f # a + 2
  BY FirstLinksApart
<1> QED
  BY <1>1 DEF Clear, LinkedBlock

\* A block is handed out whole.
LEMMA WholeWritten ==
  ASSUME NEW B, NEW rank, FirstChain(heap, B, rank), NEW i \in FreeOf(heap, B), NEW v, v = F!payload(heap, i)
  PROVE  Leads("first", heap, FS!Sized(i, v) \o FS!Taken(i), F!SetSize(F!Unlink(heap, i), i, v))
<1>1. FirstType(heap) /\ FirstTagged(heap, B) /\ i \in B
  BY DEF FirstChain, FreeOf
<1>2. PICK f : f = F!findFooter(heap, i)
  OBVIOUS
<1>3. i \in FirstIndex /\ v \in Int /\ f \in FirstIndex /\ f = FootOf(i, v)
  <2>1. /\ i \in FirstIndex /\ i \in Int /\ v \in Nat /\ f \in FirstIndex /\ f = i + v + 1
    BY <1>1, <1>2, FirstFacts
  <2> QED
    BY <2>1 DEF FootOf
<1>4. PICK p, n : LinkedBlock(heap, FreeOf(heap, B), i, p, n)
  BY ListLinks
<1>5. p = F!prevFree(heap, i) /\ n = F!nextFree(heap, i) /\ Links(p, n)
  BY <1>4 DEF LinkedBlock
<1>6. Clear(i, f, p, n)
  BY <1>1, <1>2, <1>4, TagsClear
<1>7. PICK t : t = F!SetSize(heap, i, v)
  OBVIOUS
<1>8. FirstType(t) /\ Unlinking(t, p, n) = F!SetSize(Unlinking(heap, p, n), i, v)
  BY <1>1, <1>3, <1>5, <1>6, <1>7, SizeUnlinked
<1>9. Leads("first", heap, FS!Sized(i, v), t)
  BY <1>7, SizedWrites
<1>10. Leads("first", t, FS!Taken(i), Unlinking(t, p, n))
  BY <1>5, <1>8, TakenOffWrites
<1>11. Leads("first", heap, FS!Sized(i, v) \o FS!Taken(i), Unlinking(t, p, n))
  BY <1>9, <1>10, LeadsOn
<1>12. Unlinking(heap, p, n) = F!Unlink(heap, i)
  BY <1>5, UnlinkLinks
<1> QED
  BY <1>8, <1>11, <1>12

\* A free block swallows the next, which is not alone in the list.
LEMMA SwallowWritten ==
  ASSUME NEW B, NEW rank, FirstChain(heap, B, rank), NEW i \in FreeOf(heap, B), NEW b \in FreeOf(heap, B),
         b = After(heap, i), F!prevFree(heap, b) # 0 \/ F!nextFree(heap, b) # 0,
         NEW v, v = JointSize(heap, i, b)
  PROVE  Leads("first", heap, FS!Sized(i, v) \o FS!Swallowed(b), F!SetSize(F!Unlink(heap, b), i, v))
<1>1. /\ FirstType(heap) /\ FirstTagged(heap, B) /\ i \in B /\ b \in B /\ F!isfree(heap, i) /\ F!isfree(heap, b)
  BY DEF FirstChain, FreeOf
<1>2. PICK f : f = F!findFooter(heap, b)
  OBVIOUS
<1>3. i \in FirstIndex /\ v \in Int /\ f \in FirstIndex /\ f = FootOf(i, v)
  <2>1. /\ i \in FirstIndex /\ i \in Int /\ heap.word[i] \in Int
        /\ F!payload(heap, i) = -heap.word[i] /\ F!payload(heap, i) \in Nat
        /\ b = i + F!payload(heap, i) + 2
    BY <1>1, FirstFacts
  <2>2. /\ b \in Int /\ heap.word[b] \in Int
        /\ F!payload(heap, b) = -heap.word[b] /\ F!payload(heap, b) \in Nat
        /\ f \in FirstIndex /\ f = b + F!payload(heap, b) + 1
    BY <1>1, <1>2, FirstFacts
  <2>3. PICK x \in Nat, y \in Nat : x = -heap.word[i] /\ y = -heap.word[b] /\ b = i + x + 2 /\ f = b + y + 1
    BY <2>1, <2>2
  <2>4. heap.word[i] = -x /\ heap.word[b] = -y
    BY <2>1, <2>2, <2>3
  <2>5. v = -x - y - 2
    BY <2>3, <2>4 DEF JointSize
  <2> QED
    BY <2>1, <2>2, <2>3, <2>5 DEF FootOf
<1>4. PICK p, n : LinkedBlock(heap, FreeOf(heap, B), b, p, n)
  BY ListLinks
<1>5. p = F!prevFree(heap, b) /\ n = F!nextFree(heap, b) /\ Links(p, n)
  BY <1>4 DEF LinkedBlock
<1>6. Clear(i, f, p, n)
  BY <1>1, <1>2, <1>4, TagsClear
<1>7. PICK t : t = F!SetSize(heap, i, v)
  OBVIOUS
<1>8. FirstType(t) /\ Unlinking(t, p, n) = F!SetSize(Unlinking(heap, p, n), i, v)
  BY <1>1, <1>3, <1>5, <1>6, <1>7, SizeUnlinked
<1>9. Leads("first", heap, FS!Sized(i, v), t)
  BY <1>7, SizedWrites
<1>10. Leads("first", t, FS!Swallowed(b), Unlinking(t, p, n))
  BY <1>5, <1>8, SwallowedWrites
<1>11. Leads("first", heap, FS!Sized(i, v) \o FS!Swallowed(b), Unlinking(t, p, n))
  BY <1>9, <1>10, LeadsOn
<1>12. Unlinking(heap, p, n) = F!Unlink(heap, b)
  BY <1>5, UnlinkLinks
<1> QED
  BY <1>8, <1>11, <1>12

LEMMA LeadsFour ==
  ASSUME NEW d, NEW h, NEW v, NEW t, t = Effect(d, h, v), NEW w, NEW u, u = Effect(d, t, w),
         NEW x, NEW r, r = Effect(d, u, x), NEW y, NEW s, s = Effect(d, r, y)
  PROVE  Leads(d, h, <<v, w, x, y>>, s)
<1>1. PICK g : g = [k \in 0..4 |-> IF k = 0 THEN h ELSE IF k = 1 THEN t ELSE IF k = 2 THEN u ELSE IF k = 3 THEN r ELSE s]
  OBVIOUS
<1>2. PICK ws : ws = <<v, w, x, y>>
  OBVIOUS
<1>3. ws \in Seq({v, w, x, y}) /\ Len(ws) = 4 /\ ws[1] = v /\ ws[2] = w /\ ws[3] = x /\ ws[4] = y
  BY <1>2
<1>4. g[0] = h /\ g[1] = t /\ g[2] = u /\ g[3] = r /\ g[4] = s
  BY <1>1
<1>5. \A k \in 1..4 : g[k] = Effect(d, g[k - 1], ws[k])
  <2> TAKE k \in 1..4
  <2>1. CASE k = 1
    BY <1>3, <1>4, <2>1
  <2>2. CASE k = 2
    BY <1>3, <1>4, <2>2
  <2>3. CASE k = 3
    BY <1>3, <1>4, <2>3
  <2>4. CASE k = 4
    BY <1>3, <1>4, <2>4
  <2> QED
    BY <2>1, <2>2, <2>3, <2>4
<1>6. g[Len(ws)] = s /\ \A k \in 1..Len(ws) : g[k] = Effect(d, g[k - 1], ws[k])
  BY <1>3, <1>4, <1>5
<1>7. PICK S : ws \in Seq(S)
  BY <1>3
<1>8. Leads(d, h, ws, s)
  BY <1>4, <1>6, <1>7 DEF Leads
<1> QED
  BY <1>2, <1>8

\* What free writes first.
Pushing(i) == FS!Sized(i, -F!size(heap, i))
              \o <<FS!Write("next", i, heap.freehead), FS!Write("prev", i, 0),
                   FS!Write("prev", heap.freehead, i), FS!Write("freehead", 0, i)>>

LEMMA PushWritten ==
  ASSUME FirstType(heap), NEW i, i \in Int, i # 0, i \in FirstIndex, i + 1 \in FirstIndex, i + 2 \in FirstIndex,
         NEW n \in Int, n = F!size(heap, i), n > 0, i + n + 1 \in FirstIndex
  PROVE  Leads("first", heap, Pushing(i), Inserted(heap, i))
<1>1. PICK g \in Int : g = heap.freehead
  BY DEF FirstType
<1>2. PICK v \in Int, f \in FirstIndex : v = -F!size(heap, i) /\ f = FootOf(i, v)
  <2>1. PICK v \in Int : v = -n
    OBVIOUS
  <2>2. i + n + 1 = FootOf(i, v)
    BY <2>1 DEF FootOf
  <2> QED
    BY <2>1, <2>2
<1>3. PICK freed : freed = F!SetSize(heap, i, v)
  OBVIOUS
<1>4. FirstType(freed)
  BY <1>2, <1>3, SetSizeIs
<1>5. PICK t : t = F!SetNext(freed, i, g)
  OBVIOUS
<1>6. PICK u : u = F!SetPrev(t, i, 0)
  OBVIOUS
<1>7. PICK w : w = F!SetPrev(u, g, i)
  OBVIOUS
<1>8. PICK s : s = [w EXCEPT !.freehead = i]
  OBVIOUS
<1>9. Links(i, i)
  BY DEF Links
<1>10. u = F!SetNext(F!SetPrev(freed, i, 0), i, g)
  BY <1>1, <1>4, <1>5, <1>6, <1>9, LinksSwap
<1>11. Inserted(heap, i) = s
  BY <1>1, <1>2, <1>3, <1>7, <1>8, <1>10 DEF Inserted, F!null
<1>12. Leads("first", heap, FS!Sized(i, v), freed)
  BY <1>3, SizedWrites
<1>13. PICK v1, v2, v3, v4 : /\ v1 = FS!Write("next", i, g) /\ v2 = FS!Write("prev", i, 0)
                             /\ v3 = FS!Write("prev", g, i) /\ v4 = FS!Write("freehead", 0, i)
  OBVIOUS
<1>14. t = Effect("first", freed, v1) /\ u = Effect("first", t, v2)
  <2>1. t = Effect("first", freed, v1)
    BY <1>5, <1>13, FirstWrite
  <2>2. u = Effect("first", t, v2)
    BY <1>6, <1>13, FirstWrite
  <2> QED
    BY <2>1, <2>2
<1>15. w = Effect("first", u, v3) /\ s = Effect("first", w, v4)
  <2>1. w = Effect("first", u, v3)
    BY <1>7, <1>13, FirstWrite
  <2>2. s = Effect("first", w, v4)
    BY <1>8, <1>13, FirstWrite
  <2> QED
    BY <2>1, <2>2
<1>16. Leads("first", freed, <<v1, v2, v3, v4>>, s)
  BY <1>14, <1>15, LeadsFour
<1>17. Pushing(i) = FS!Sized(i, v) \o <<v1, v2, v3, v4>>
  BY <1>1, <1>2, <1>13 DEF Pushing
<1> QED
  BY <1>11, <1>12, <1>16, <1>17, LeadsOn

-----------------------------------------------------------------------------
(* Its calls too leave a heap that users own *)

FirstHeap(h, lv) == \E B, rank : FirstSound(h, B, rank) /\ FirstOwned(h, B, lv)

LEMMA FirstGranted ==
  ASSUME NEW h, NEW lv, FirstHeap(h, lv), NEW bytes \in Nat, NEW it, it # 0, it = F!Finder(h, F!WordSize(bytes)),
         NEW done, done = F!HandOut(h, it, F!WordSize(bytes)),
         NEW lw, lw = [p \in DOMAIN lv \cup {done.at} |-> IF p = done.at THEN bytes ELSE lv[p]]
  PROVE  FirstHeap(done.heap, lw)
<1>1. PICK B, rank : FirstSound(h, B, rank) /\ FirstOwned(h, B, lv)
  BY DEF FirstHeap
<1>2. PICK words \in Nat : words = F!WordSize(bytes) /\ words >= 2 /\ 4 * words >= bytes
  BY WordSizeIs
<1>3. FirstServes(h, B, words, it)
  BY <1>1, <1>2, FinderServes
<1>4. it \in FreeOf(h, B) /\ words <= F!payload(h, it) /\ words \in Int
  BY <1>2, <1>3 DEF FirstServes
<1>5. PICK U : U = FirstTakenOf(h, B) /\ DOMAIN lv = U
  BY <1>1 DEF FirstOwned
<1>6. PICK at, n \in Int :
         /\ done.at = at /\ FirstGrants(h, B, at, n, done.heap)
         /\ words <= n /\ n <= words + 4 /\ at \notin U
  BY <1>1, <1>2, <1>4, <1>5, FirstHanded
<1>7. PICK s : s = done.heap
  OBVIOUS
<1>8. PICK C, r : /\ FirstSound(s, C, r) /\ FirstTakenOf(s, C) = U \cup {at}
                  /\ FirstKeeps(h, B, {}, s) /\ F!payload(s, at) = n
  BY <1>5, <1>6, <1>7 DEF FirstGrants
<1>9. \A j \in U : F!payload(s, j) = F!payload(h, j) /\ j # at
  BY <1>1, <1>5, <1>6, <1>8, FirstSizesStay
<1>10. DOMAIN lw = U \cup {at}
  BY <1>5, <1>6
<1>11. ASSUME NEW p \in DOMAIN lw PROVE lw[p] \in Nat /\ 4 * F!payload(s, p) >= lw[p]
  <2>1. CASE p = at
    <3>1. lw[p] = bytes /\ F!payload(s, p) = n
      BY <1>6, <1>8, <2>1
    <3> QED
      BY <1>2, <1>6, <3>1
  <2>2. CASE p # at
    <3>1. p \in U /\ lw[p] = lv[p]
      BY <1>5, <1>6, <2>2
    <3> QED
      BY <1>1, <1>5, <1>9, <3>1 DEF FirstOwned
  <2> QED
    BY <2>1, <2>2
<1>12. FirstOwned(s, C, lw)
  BY <1>8, <1>10, <1>11 DEF FirstOwned
<1> QED
  BY <1>7, <1>8, <1>12 DEF FirstHeap

LEMMA FirstReclaimed ==
  ASSUME NEW h, NEW lv, FirstHeap(h, lv), NEW i \in DOMAIN lv, NEW s, s = F!merge(Inserted(h, i), i),
         NEW lw, lw = [p \in DOMAIN lv \ {i} |-> lv[p]]
  PROVE  FirstHeap(s, lw)
<1>1. PICK B, rank : FirstSound(h, B, rank) /\ FirstOwned(h, B, lv)
  BY DEF FirstHeap
<1>2. PICK U : U = FirstTakenOf(h, B) /\ DOMAIN lv = U
  BY <1>1 DEF FirstOwned
<1>3. i \in B /\ ~F!isfree(h, i) /\ i \in U
  BY <1>2 DEF FirstTakenOf
<1>4. FirstGains(h, B, {i}, s)
  BY <1>1, <1>3, Freed
<1>5. PICK C, r : FirstSound(s, C, r) /\ FirstTakenOf(s, C) = U \ {i} /\ FirstKeeps(h, B, {i}, s)
  BY <1>2, <1>4 DEF FirstGains
<1>6. \A j \in U \ {i} : F!payload(s, j) = F!payload(h, j)
  BY <1>1, <1>2, <1>5, FirstSizesStay
<1>7. DOMAIN lw = U \ {i}
  BY <1>2
<1>8. ASSUME NEW q \in DOMAIN lw PROVE lw[q] \in Nat /\ 4 * F!payload(s, q) >= lw[q]
  <2>1. q \in U \ {i} /\ lw[q] = lv[q]
    BY <1>2
  <2> QED
    BY <1>1, <1>2, <1>6, <2>1 DEF FirstOwned
<1>9. FirstOwned(s, C, lw)
  BY <1>5, <1>7, <1>8 DEF FirstOwned
<1> QED
  BY <1>5, <1>9 DEF FirstHeap

-----------------------------------------------------------------------------
(* How far its search has come *)

FirstFits(h, n, k) == F!Listed(h)[k] # 0 /\ F!payload(h, F!Listed(h)[k]) >= n

FirstChained(h) ==
  /\ Most \in Nat /\ DOMAIN F!Listed(h) = 0..Most
  /\ F!Listed(h)[0] = h.freehead /\ F!Listed(h)[Most] = 0
  /\ \A k \in 0..Most : F!Listed(h)[k] # 0 =>
       /\ F!payload(h, F!Listed(h)[k]) = -F!size(h, F!Listed(h)[k]) /\ F!payload(h, F!Listed(h)[k]) \in Nat
       /\ F!payload(h, F!Listed(h)[k]) <= Words
       /\ k + 1 \in 0..Most /\ F!nextFree(h, F!Listed(h)[k]) = F!Listed(h)[k + 1]
  /\ Stays(Most, F!Listed(h))

LEMMA FirstIsChained ==
  ASSUME NEW h, NEW B, NEW rank, FirstChain(h, B, rank)
  PROVE  FirstChained(h)
<1>1. PICK A : A = FreeOf(h, B)
  OBVIOUS
<1>2. FirstType(h) /\ FirstTagged(h, B) /\ FirstLinked(h, A, rank)
  BY <1>1 DEF FirstChain
<1>3. FirstApart(A) /\ 0 \notin A
  <2>1. FirstApart(A)
    <3>1. FirstApart(B)
      BY <1>2, FreeApart
    <3> QED
      BY <1>1, <3>1 DEF FirstApart, FreeOf
  <2> QED
    BY <2>1, FirstApartFacts
<1>4. PICK link : link = F!Listed(h)
  OBVIOUS
<1>5. FirstLists(h, A, link)
  BY <1>2, <1>3, <1>4, FirstListReaches
<1>6. Most \in Nat
  BY FirstSizes DEF Most
<1>7. Stays(Most, link)
  BY <1>5 DEF FirstLists, Stays, F!Follow, F!null
<1>8. link[Most] = 0
  <2>1. IsFiniteSet(A) /\ Cardinality(A) \in Nat /\ Cardinality(A) <= Most
    BY <1>3, FewFree
  <2>2. Short(Most, A, link)
    BY <1>3, <1>5, <2>1 DEF FirstLists, Short
  <2> QED
    BY <1>6, <1>7, <2>2, ListEnds
<1>9. \A a \in A : F!payload(h, a) = -F!size(h, a) /\ F!payload(h, a) \in Nat /\ F!payload(h, a) <= Words
  <2> SUFFICES ASSUME NEW a \in FreeOf(h, B)
               PROVE  F!payload(h, a) = -F!size(h, a) /\ F!payload(h, a) \in Nat /\ F!payload(h, a) <= Words
    BY <1>1
  <2>1. a \in B /\ F!isfree(h, a)
    BY DEF FreeOf
  <2>2. F!payload(h, a) = -F!size(h, a)
    BY <2>1 DEF F!payload
  <2>3. F!payload(h, a) \in Nat /\ a \in Int /\ a >= 1 /\ After(h, a) = a + F!payload(h, a) + 2 /\ After(h, a) <= Bound
    BY <1>2, <2>1, FirstFacts
  <2> QED
    BY <2>2, <2>3, FirstSizes
<1>10. ASSUME NEW k \in 0..Most, link[k] # 0
       PROVE  link[k] \in A /\ k + 1 \in 0..Most /\ F!nextFree(h, link[k]) = link[k + 1]
  <2>1. link[k] \in A
    BY <1>5, <1>10 DEF FirstLists
  <2>2. k # Most
    BY <1>8, <1>10
  <2>3. PICK j \in 1..Most : j = k + 1 /\ j - 1 = k
    BY <1>6, <2>2
  <2>4. link[j] = F!Follow(h, link[j - 1])
    BY <1>5 DEF FirstLists
  <2>5. link[k + 1] = F!nextFree(h, link[k])
    BY <1>10, <2>3, <2>4 DEF F!Follow, F!null
  <2> QED
    BY <2>1, <2>3, <2>5
<1>11. DOMAIN link = 0..Most /\ link[0] = h.freehead
  BY <1>5 DEF FirstLists
<1> QED
  BY <1>4, <1>6, <1>7, <1>8, <1>9, <1>10, <1>11 DEF FirstChained

\* The blocks of the list before the one it looks at are too short.
FirstSearchAt(h, n, i) ==
  \E k \in 0..Most : i = F!Listed(h)[k] /\ \A j \in 0..Most : j < k => ~FirstFits(h, n, j)

LEMMA FirstSearchStarts ==
  ASSUME NEW h, FirstChained(h), NEW n
  PROVE  FirstSearchAt(h, n, h.freehead)
<1>1. 0 \in 0..Most /\ h.freehead = F!Listed(h)[0] /\ \A j \in 0..Most : ~(j < 0)
  BY DEF FirstChained
<1> QED
  BY <1>1 DEF FirstSearchAt

LEMMA FirstSearchGoesOn ==
  ASSUME NEW h, FirstChained(h), NEW n \in Int, NEW i, FirstSearchAt(h, n, i), i # 0, ~(-F!size(h, i) >= n)
  PROVE  FirstSearchAt(h, n, F!nextFree(h, i))
<1>1. PICK k \in 0..Most : i = F!Listed(h)[k] /\ \A j \in 0..Most : j < k => ~FirstFits(h, n, j)
  BY DEF FirstSearchAt
<1>2. k + 1 \in 0..Most /\ F!nextFree(h, i) = F!Listed(h)[k + 1] /\ F!payload(h, i) = -F!size(h, i)
  BY <1>1 DEF FirstChained
<1>3. ~FirstFits(h, n, k)
  BY <1>1, <1>2 DEF FirstFits
<1>4. PICK m \in 0..Most : m = k + 1
  BY <1>2
<1>5. \A j \in 0..Most : j < m => ~FirstFits(h, n, j)
  <2> SUFFICES ASSUME NEW j \in 0..Most, j < m PROVE ~FirstFits(h, n, j)
    OBVIOUS
  <2>1. j < k \/ j = k
    BY <1>4
  <2> QED
    BY <1>1, <1>3, <2>1
<1> QED
  BY <1>2, <1>4, <1>5 DEF FirstSearchAt

LEMMA FinderIs ==
  ASSUME NEW h, FirstChained(h), NEW n
  PROVE  F!Finder(h, n) = IF {k \in 0..Most : FirstFits(h, n, k)} = {} THEN 0
                          ELSE F!Listed(h)[F!Min({k \in 0..Most : FirstFits(h, n, k)})]
<1>1. PICK at : at = F!Listed(h)
  OBVIOUS
<1>2. DOMAIN at = 0..Most
  BY <1>1 DEF FirstChained
<1>3. PICK fits : fits = {k \in DOMAIN at : at[k] # 0 /\ F!payload(h, at[k]) >= n}
  OBVIOUS
<1>4. F!Finder(h, n) = IF fits = {} THEN 0 ELSE at[F!Min(fits)]
  BY <1>1, <1>3 DEF F!Finder, F!null
<1>5. fits = {k \in 0..Most : FirstFits(h, n, k)}
  BY <1>1, <1>2, <1>3 DEF FirstFits
<1> QED
  BY <1>1, <1>4, <1>5

LEMMA FirstSearchEnds ==
  ASSUME NEW h, FirstChained(h), NEW n \in Int, NEW i, FirstSearchAt(h, n, i), i = 0 \/ -F!size(h, i) >= n
  PROVE  i = F!Finder(h, n)
<1>1. PICK k \in 0..Most : i = F!Listed(h)[k] /\ \A j \in 0..Most : j < k => ~FirstFits(h, n, j)
  BY DEF FirstSearchAt
<1>2. PICK fits : fits = {j \in 0..Most : FirstFits(h, n, j)}
  OBVIOUS
<1>3. F!Finder(h, n) = IF fits = {} THEN 0 ELSE F!Listed(h)[F!Min(fits)]
  BY <1>2, FinderIs
<1>4. Most \in Nat
  BY DEF FirstChained
<1>5. CASE i = 0
  <2>4. Stays(Most, F!Listed(h)) /\ F!Listed(h)[k] = 0
    BY <1>1, <1>5 DEF FirstChained
  <2>1. \A j \in k..Most : F!Listed(h)[j] = 0
    BY <1>4, <2>4, ZeroStays
  <2>2. \A j \in 0..Most : ~FirstFits(h, n, j)
    <3> SUFFICES ASSUME NEW j \in 0..Most PROVE ~FirstFits(h, n, j)
      OBVIOUS
    <3>1. j < k \/ j \in k..Most
      BY <1>4
    <3> QED
      BY <1>1, <2>1, <3>1 DEF FirstFits
  <2>3. fits = {}
    BY <1>2, <2>2
  <2> QED
    BY <1>3, <1>5, <2>3
<1>6. CASE i # 0
  <2>1. F!payload(h, i) >= n
    <3>1. F!payload(h, i) = -F!size(h, i)
      BY <1>1, <1>6 DEF FirstChained
    <3> QED
      BY <1>6, <3>1
  <2>2. k \in fits /\ fits \in SUBSET Nat /\ \A j \in fits : ~(j < k)
    <3>1. FirstFits(h, n, k)
      BY <1>1, <1>6, <2>1 DEF FirstFits
    <3> QED
      BY <1>1, <1>2, <1>4, <3>1
  <2>3. F!Min(fits) \in fits /\ \A x \in fits : F!Min(fits) <= x
    BY <2>2, FirstMinIs
  <2>4. F!Min(fits) = k
    <3>1. F!Min(fits) \in Nat /\ k \in Nat /\ F!Min(fits) <= k /\ ~(F!Min(fits) < k)
      BY <2>2, <2>3
    <3> QED
      BY <3>1
  <2> QED
    BY <1>1, <1>3, <2>2, <2>4
<1> QED
  BY <1>5, <1>6

\* No block is longer than there are words.
LEMMA FinderFits ==
  ASSUME NEW h, FirstChained(h), NEW n \in Int, NEW i, FirstSearchAt(h, n, i), i # 0, -F!size(h, i) >= n
  PROVE  n <= Words
<1>1. PICK k \in 0..Most : i = F!Listed(h)[k]
  BY DEF FirstSearchAt
<1>2. F!payload(h, i) = -F!size(h, i) /\ F!payload(h, i) \in Nat /\ F!payload(h, i) <= Words
  BY <1>1 DEF FirstChained
<1>3. PICK z \in Nat : z = -F!size(h, i) /\ z <= Words /\ z >= n
  BY <1>2
<1> QED
  BY <1>3, FirstSizes

-----------------------------------------------------------------------------
(* Inside a call of the first-fit heap *)

\* The heap when the writes that are decided on are made.
FirstTarget(h, where, a) ==
  CASE where = "found"       -> F!HandOut(h, F!Finder(h, F!WordSize(a)), F!WordSize(a)).heap
    [] where = "merge right" -> Inserted(h, a)
    [] where = "merge left"  -> F!MergeRight(Inserted(h, a), a)
    [] where = "freed"       -> F!merge(Inserted(h, a), a)
    [] OTHER                 -> h

FirstInMalloc(h, where, a, i) ==
  \/ where = "malloc" /\ a \in Bytes \cup {0, FS!TooMany}
  \/ where = "find" /\ a \in Bytes /\ a # 0 /\ FirstSearchAt(h, F!WordSize(a), i)
  \/ /\ where = "found" /\ a \in Bytes /\ a # 0 /\ a <= 4 * Words
     /\ F!Finder(h, F!WordSize(a)) # 0
     /\ i = F!HandOut(h, F!Finder(h, F!WordSize(a)), F!WordSize(a)).at
  \/ /\ where = "failed" /\ a \in Bytes \cup {FS!TooMany} /\ a # 0
     /\ ~(a <= 4 * Words) \/ F!Finder(h, F!WordSize(a)) = 0
FirstInFree(lv, where, a, i) ==
  \/ where = "free" /\ a \in DOMAIN lv \cup {0, FS!end}
  \/ where \in {"merge right", "merge left", "freed"} /\ a \in DOMAIN lv /\ i = a

FirstInside(h, b, lv, where, a, i, t) ==
  /\ FirstInMalloc(b, where, a, i) \/ FirstInFree(lv, where, a, i) \/ where = "nothing"
  /\ Leads("first", h, t, FirstTarget(b, where, a))

FirstCaller(h, b, lv, where, a, i, t) ==
  /\ where = "out" => t = <<>>
  /\ where # "out" => FirstInside(h, b, lv, where, a, i, t)

FirstStepsInv ==
  /\ FirstHeap(before, live)
  /\ PerCaller(pc) /\ PerCaller(arg) /\ PerCaller(local) /\ PerCaller(todo)
  /\ OneInside(pc, taken)
  /\ \A c \in Caller : FirstCaller(heap, before, live, pc[c], arg[c], local[c], todo[c])
  /\ (\A c \in Caller : pc[c] = "out") => heap = before

LEMMA FirstGoesOn ==
  ASSUME FirstStepsInv, NEW c \in Caller, pc[c] # "out" \/ ~taken, Moves(c), FirstHeap(before', live'),
         pc'[c] # "out" => taken', pc'[c] = "out" => heap' = before',
         FirstCaller(heap', before', live', pc'[c], arg'[c], local'[c], todo'[c])
  PROVE  FirstStepsInv'
<1>1. \A d \in Caller \ {c} : pc[d] = "out"
  BY DEF FirstStepsInv, OneInside
<1>2. \A d \in Caller \ {c} : pc'[d] = "out"
  BY <1>1 DEF Moves
<1>3. OneInside(pc', taken')
  BY <1>2 DEF OneInside
<1>4. \A d \in Caller : FirstCaller(heap', before', live', pc'[d], arg'[d], local'[d], todo'[d])
  <2> SUFFICES ASSUME NEW d \in Caller, d # c
               PROVE  FirstCaller(heap', before', live', pc'[d], arg'[d], local'[d], todo'[d])
    OBVIOUS
  <2>1. FirstCaller(heap, before, live, pc[d], arg[d], local[d], todo[d]) /\ pc[d] = "out" /\ pc'[d] = "out"
    BY <1>1, <1>2 DEF FirstStepsInv
  <2>2. todo'[d] = <<>>
    BY <2>1 DEF FirstCaller, Moves
  <2> QED
    BY <2>1, <2>2 DEF FirstCaller
<1>5. (\A d \in Caller : pc'[d] = "out") => heap' = before'
  OBVIOUS
<1>6. PerCaller(pc') /\ PerCaller(arg') /\ PerCaller(local') /\ PerCaller(todo')
  BY DEF Moves
<1> QED
  BY <1>3, <1>4, <1>5, <1>6 DEF FirstStepsInv

\* What is known of the caller, once the writes that were decided on are made.
LEMMA FirstAt ==
  ASSUME FirstStepsInv, NEW c \in Caller, NEW where, where # "out", FS!At(c, where)
  PROVE  /\ pc[c] = where /\ taken
         /\ FirstInMalloc(before, where, arg[c], local[c]) \/ FirstInFree(live, where, arg[c], local[c]) \/ where = "nothing"
         /\ heap = FirstTarget(before, where, arg[c])
<1>1. pc[c] = where /\ todo[c] = <<>>
  BY DEF FS!At
<1>2. FirstCaller(heap, before, live, pc[c], arg[c], local[c], todo[c]) /\ taken
  BY <1>1 DEF FirstStepsInv, OneInside
<1>3. FirstInside(heap, before, live, where, arg[c], local[c], <<>>)
  BY <1>1, <1>2 DEF FirstCaller
<1>4. Leads("first", heap, <<>>, FirstTarget(before, where, arg[c]))
  BY <1>3 DEF FirstInside
<1>5. heap = FirstTarget(before, where, arg[c])
  BY <1>4, LeadsNowhere
<1> QED
  BY <1>1, <1>2, <1>3, <1>5 DEF FirstInside

LEMMA FirstDecides ==
  ASSUME FirstStepsInv, NEW c \in Caller, pc[c] # "out", NEW where, where # "out", NEW l, NEW t, Decides(c, where, l, t),
         FirstInside(heap, before, live, where, arg[c], l, t)
  PROVE  FirstStepsInv' /\ UNCHANGED <<before, live, failed>>
<1>1. PerCaller(pc) /\ PerCaller(arg) /\ PerCaller(local) /\ PerCaller(todo) /\ taken /\ FirstHeap(before, live)
  BY DEF FirstStepsInv, OneInside
<1>2. pc'[c] = where /\ todo'[c] = t /\ local'[c] = l /\ arg'[c] = arg[c]
  BY <1>1 DEF Decides, PerCaller
<1>3. Moves(c)
  BY <1>1 DEF Decides, PerCaller, Moves
<1>4. heap' = heap /\ live' = live /\ failed' = failed /\ taken' = taken /\ before' = before
  BY DEF Decides
<1>5. FirstCaller(heap', before', live', pc'[c], arg'[c], local'[c], todo'[c])
  BY <1>2, <1>4 DEF FirstCaller
<1>6. FirstStepsInv'
  BY <1>1, <1>2, <1>3, <1>4, <1>5, FirstGoesOn
<1> QED
  BY <1>4, <1>6

LEMMA FirstStore ==
  ASSUME FirstStepsInv, NEW c \in Caller, FS!Store(c)
  PROVE  FirstStepsInv' /\ UNCHANGED <<before, live, failed>>
<1>1. PerCaller(pc) /\ PerCaller(arg) /\ PerCaller(local) /\ PerCaller(todo) /\ FirstHeap(before, live)
  BY DEF FirstStepsInv
<1>2. /\ todo[c] # <<>> /\ heap' = FS!Written(heap, Head(todo[c])) /\ todo' = [todo EXCEPT ![c] = Tail(@)]
      /\ live' = live /\ failed' = failed /\ taken' = taken /\ pc' = pc /\ arg' = arg /\ local' = local /\ before' = before
  BY DEF FS!Store
<1>3. FirstCaller(heap, before, live, pc[c], arg[c], local[c], todo[c])
  BY DEF FirstStepsInv
<1>4. pc[c] # "out"
  BY <1>2, <1>3 DEF FirstCaller
<1>5. taken /\ FirstInside(heap, before, live, pc[c], arg[c], local[c], todo[c])
  BY <1>3, <1>4 DEF FirstCaller, FirstStepsInv, OneInside
<1>6. todo'[c] = Tail(todo[c])
  BY <1>1, <1>2 DEF PerCaller
<1>7. heap' = Effect("first", heap, Head(todo[c]))
  BY <1>2 DEF Effect
<1>8. PICK s : s = FirstTarget(before, pc[c], arg[c])
  OBVIOUS
<1>9. Leads("first", heap, todo[c], s)
  BY <1>5, <1>8 DEF FirstInside
<1>10. Leads("first", heap', todo'[c], s)
  BY <1>2, <1>6, <1>7, <1>9, LeadsLess
<1>11. FirstInside(heap', before, live, pc[c], arg[c], local[c], todo'[c])
  BY <1>5, <1>8, <1>10 DEF FirstInside
<1>12. FirstCaller(heap', before', live', pc'[c], arg'[c], local'[c], todo'[c])
  BY <1>2, <1>4, <1>5, <1>11 DEF FirstCaller
<1>13. Moves(c)
  BY <1>1, <1>2 DEF PerCaller, Moves
<1>14. FirstStepsInv'
  BY <1>1, <1>2, <1>4, <1>5, <1>12, <1>13, FirstGoesOn
<1> QED
  BY <1>2, <1>14

\* The caller that finds the lock free finds the heap as it was left.
LEMMA FirstLock ==
  ASSUME FirstStepsInv, NEW c \in Caller, NEW where, NEW x, FS!Lock(c, where, x),
         \/ where = "malloc" /\ x \in Bytes \cup {0, FS!TooMany}
         \/ where = "free" /\ x \in DOMAIN live \cup {0, FS!end}
  PROVE  FirstStepsInv' /\ UNCHANGED <<before, live, failed>>
<1>1. PerCaller(pc) /\ PerCaller(arg) /\ PerCaller(local) /\ PerCaller(todo) /\ FirstHeap(before, live)
  BY DEF FirstStepsInv
<1>2. /\ pc[c] = "out" /\ ~taken /\ taken' = TRUE /\ arg' = [arg EXCEPT ![c] = x]
      /\ pc' = [pc EXCEPT ![c] = where] /\ todo' = [todo EXCEPT ![c] = <<>>]
      /\ heap' = heap /\ live' = live /\ failed' = failed /\ local' = local /\ before' = before
  BY DEF FS!Lock, FS!At, FS!Go
<1>3. \A d \in Caller : pc[d] = "out"
  BY <1>2 DEF FirstStepsInv, OneInside
<1>4. heap = before
  BY <1>3 DEF FirstStepsInv
<1>5. pc'[c] = where /\ arg'[c] = x /\ todo'[c] = <<>> /\ where # "out"
  BY <1>1, <1>2 DEF PerCaller
<1>6. FirstTarget(before, where, x) = before
  BY DEF FirstTarget
<1>7. Leads("first", heap, <<>>, FirstTarget(before, where, x))
  BY <1>4, <1>6, LeadsNowhere
<1>8. FirstInMalloc(before, where, x, local[c]) \/ FirstInFree(live, where, x, local[c])
  BY DEF FirstInMalloc, FirstInFree
<1>9. FirstInside(heap, before, live, where, x, local[c], <<>>)
  BY <1>7, <1>8 DEF FirstInside
<1>10. FirstCaller(heap', before', live', pc'[c], arg'[c], local'[c], todo'[c])
  BY <1>2, <1>5, <1>9 DEF FirstCaller
<1>11. Moves(c)
  BY <1>1, <1>2 DEF PerCaller, Moves
<1>12. FirstStepsInv'
  BY <1>1, <1>2, <1>5, <1>10, <1>11, FirstGoesOn
<1> QED
  BY <1>2, <1>12

-----------------------------------------------------------------------------
(* Steps inside a call of the first-fit heap *)

\* A step that leaves the locals alone.
LEMMA FirstSameLocal ==
  ASSUME FirstStepsInv, NEW c \in Caller, NEW where, NEW t, FS!Go(c, where, t), local' = local, FS!Look
  PROVE  Decides(c, where, local[c], t)
<1>1. PerCaller(local)
  BY DEF FirstStepsInv
<1>2. local' = [local EXCEPT ![c] = local[c]]
  BY <1>1 DEF PerCaller
<1> QED
  BY <1>2 DEF FS!Go, FS!Look, Decides

\* A step that decides on no write.
LEMMA FirstLooks ==
  ASSUME FirstStepsInv, NEW c \in Caller, pc[c] # "out", heap = before,
         NEW where \in {"find", "failed", "nothing"}, NEW l, Decides(c, where, l, <<>>),
         FirstInMalloc(before, where, arg[c], l) \/ where = "nothing"
  PROVE  FirstStepsInv' /\ UNCHANGED <<before, live, failed>>
<1>1. FirstTarget(before, where, arg[c]) = heap /\ where # "out"
  BY DEF FirstTarget
<1>2. Leads("first", heap, <<>>, FirstTarget(before, where, arg[c]))
  BY <1>1, LeadsNowhere
<1>3. FirstInside(heap, before, live, where, arg[c], l, <<>>)
  BY <1>2 DEF FirstInside
<1> QED
  BY <1>1, <1>3, FirstDecides

LEMMA FirstIsListed ==
  ASSUME NEW h, NEW lv, FirstHeap(h, lv)
  PROVE  FirstChained(h)
<1>1. PICK B, rank : FirstChain(h, B, rank)
  BY DEF FirstHeap, FirstSound
<1> QED
  BY <1>1, FirstIsChained

\* The caller knows what it has asked for.
LEMMA FirstAsked ==
  ASSUME NEW a \in Bytes, a # 0
  PROVE  /\ a \in Nat /\ a > 0 /\ F!WordSize(a) \in Nat /\ F!WordSize(a) >= 2 /\ 4 * F!WordSize(a) >= a
         /\ FS!F!WordSize(a) = F!WordSize(a)
<1>1. a \in Nat /\ a > 0
  <2>1. a \in Nat
    BY HeapAssumption
  <2> QED
    BY <2>1
<1> QED
  BY <1>1, WordSizeIs, FirstStepsRead

LEMMA FirstBegin ==
  ASSUME FirstStepsInv, NEW c \in Caller, FS!Begin(c)
  PROVE  FirstStepsInv' /\ UNCHANGED <<before, live, failed>>
<1>1. FS!At(c, "malloc") /\ FS!Look
  BY DEF FS!Begin
<1>2. PICK a : a = arg[c]
  OBVIOUS
<1>3. /\ pc[c] = "malloc" /\ heap = FirstTarget(before, "malloc", a)
      /\ FirstInMalloc(before, "malloc", a, local[c]) \/ FirstInFree(live, "malloc", a, local[c])
  BY <1>1, <1>2, FirstAt
<1>4. a \in Bytes \cup {0, FS!TooMany} /\ heap = before
  BY <1>3 DEF FirstInMalloc, FirstInFree, FirstTarget
<1>5. CASE a = 0
  <2>1. Decides(c, "nothing", FS!null, <<>>)
    BY <1>2, <1>5 DEF FS!Begin, FS!Go, FS!Look, Decides
  <2> QED
    BY <1>3, <1>4, <2>1, FirstLooks
<1>6. CASE a # 0 /\ a = FS!TooMany
  <2>1. Decides(c, "failed", FS!null, <<>>)
    BY <1>2, <1>6 DEF FS!Begin, FS!Go, FS!Look, Decides
  <2>2. ~(a <= 4 * Words)
    BY <1>6, FirstSizes DEF FS!TooMany
  <2>3. FirstInMalloc(before, "failed", a, FS!null)
    BY <1>6, <2>2 DEF FirstInMalloc
  <2> QED
    BY <1>2, <1>3, <1>4, <2>1, <2>3, FirstLooks
<1>7. CASE a # 0 /\ a # FS!TooMany
  <2>1. Decides(c, "find", heap.freehead, <<>>)
    BY <1>2, <1>7 DEF FS!Begin, FS!Go, FS!Look, Decides
  <2>2. FirstChained(before)
    BY FirstIsListed DEF FirstStepsInv
  <2>3. FirstSearchAt(before, F!WordSize(a), heap.freehead)
    BY <1>4, <2>2, FirstSearchStarts
  <2>4. FirstInMalloc(before, "find", a, heap.freehead)
    BY <1>4, <1>7, <2>3 DEF FirstInMalloc
  <2> QED
    BY <1>2, <1>3, <1>4, <2>1, <2>4, FirstLooks
<1> QED
  BY <1>5, <1>6, <1>7

\* What whoever is in the search knows.
LEMMA FirstSearching ==
  ASSUME FirstStepsInv, NEW c \in Caller, FS!At(c, "find")
  PROVE  /\ pc[c] = "find" /\ FirstChained(before) /\ heap = before
         /\ arg[c] \in Bytes /\ arg[c] # 0 /\ FirstSearchAt(before, F!WordSize(arg[c]), local[c])
         /\ FS!wordSize(c) = F!WordSize(arg[c]) /\ F!WordSize(arg[c]) \in Int
<1>1. /\ pc[c] = "find" /\ heap = FirstTarget(before, "find", arg[c])
      /\ FirstInMalloc(before, "find", arg[c], local[c]) \/ FirstInFree(live, "find", arg[c], local[c])
  BY FirstAt
<1>2. arg[c] \in Bytes /\ arg[c] # 0 /\ FirstSearchAt(before, F!WordSize(arg[c]), local[c]) /\ heap = before
  BY <1>1 DEF FirstInMalloc, FirstInFree, FirstTarget
<1>3. FirstChained(before)
  BY FirstIsListed DEF FirstStepsInv
<1>4. FS!wordSize(c) = F!WordSize(arg[c]) /\ F!WordSize(arg[c]) \in Int
  BY <1>2, FirstAsked DEF FS!wordSize
<1> QED
  BY <1>1, <1>2, <1>3, <1>4

LEMMA FirstFind ==
  ASSUME FirstStepsInv, NEW c \in Caller, FS!Find(c)
  PROVE  FirstStepsInv' /\ UNCHANGED <<before, live, failed>>
<1>1. PICK i : i = local[c]
  OBVIOUS
<1>2. FS!At(c, "find") /\ i # 0 /\ ~(-FS!size(i) >= FS!wordSize(c))
  <2>1. FS!null = 0
    BY DEF FS!null, FS!F!null
  <2> QED
    BY <1>1, <2>1 DEF FS!Find, FS!Fits
<1>3. /\ pc[c] = "find" /\ FirstChained(before) /\ heap = before
      /\ arg[c] \in Bytes /\ arg[c] # 0 /\ FirstSearchAt(before, F!WordSize(arg[c]), i)
      /\ FS!wordSize(c) = F!WordSize(arg[c]) /\ F!WordSize(arg[c]) \in Int
  BY <1>1, <1>2, FirstSearching
<1>4. PICK n \in Int : n = F!WordSize(arg[c])
  BY <1>3
<1>5. ~(-F!size(before, i) >= n)
  <2>1. FS!size(i) = F!size(before, i)
    BY <1>3, FirstStepsRead DEF FS!size
  <2> QED
    BY <1>2, <1>3, <1>4, <2>1
<1>6. PICK j : j = F!nextFree(before, i)
  OBVIOUS
<1>7. FirstSearchAt(before, n, j)
  BY <1>2, <1>3, <1>4, <1>5, <1>6, FirstSearchGoesOn
<1>8. Decides(c, "find", j, <<>>)
  <2>1. local' = [local EXCEPT ![c] = FS!F!nextFree(heap, @)] /\ pc' = pc /\ todo' = todo /\ FS!Look
    BY DEF FS!Find
  <2>2. local' = [local EXCEPT ![c] = j]
    <3>1. FS!F!nextFree(heap, i) = j
      BY <1>3, <1>6, FirstStepsRead
    <3>2. PerCaller(local)
      BY DEF FirstStepsInv
    <3> QED
      BY <1>1, <2>1, <3>1, <3>2 DEF PerCaller
  <2>3. todo[c] = <<>> /\ PerCaller(pc) /\ PerCaller(todo)
    BY <1>2 DEF FS!At, FirstStepsInv
  <2>4. pc' = [pc EXCEPT ![c] = "find"] /\ todo' = [todo EXCEPT ![c] = <<>>]
    BY <1>3, <2>1, <2>3 DEF PerCaller
  <2> QED
    BY <2>1, <2>2, <2>4 DEF Decides, FS!Look
<1>9. FirstInMalloc(before, "find", arg[c], j)
  BY <1>3, <1>4, <1>7 DEF FirstInMalloc
<1> QED
  BY <1>3, <1>8, <1>9, FirstLooks

LEMMA FirstNotFound ==
  ASSUME FirstStepsInv, NEW c \in Caller, FS!NotFound(c)
  PROVE  FirstStepsInv' /\ UNCHANGED <<before, live, failed>>
<1>1. FS!At(c, "find") /\ local[c] = 0 /\ FS!Go(c, "failed", <<>>) /\ local' = local /\ FS!Look
  <2>1. FS!null = 0
    BY DEF FS!null, FS!F!null
  <2> QED
    BY <2>1 DEF FS!NotFound
<1>2. /\ pc[c] = "find" /\ FirstChained(before) /\ heap = before
      /\ arg[c] \in Bytes /\ arg[c] # 0 /\ FirstSearchAt(before, F!WordSize(arg[c]), local[c])
      /\ F!WordSize(arg[c]) \in Int
  BY <1>1, FirstSearching
<1>3. F!Finder(before, F!WordSize(arg[c])) = 0
  BY <1>1, <1>2, FirstSearchEnds
<1>4. FirstInMalloc(before, "failed", arg[c], local[c])
  BY <1>2, <1>3 DEF FirstInMalloc
<1>5. Decides(c, "failed", local[c], <<>>)
  BY <1>1, FirstSameLocal
<1> QED
  BY <1>2, <1>4, <1>5, FirstLooks

\* The block that was found.
FoundBlock(h, n, i) ==
  /\ \E B, rank : FirstChain(h, B, rank) /\ i \in FreeOf(h, B)
  /\ i \in Int /\ F!payload(h, i) = -F!size(h, i) /\ F!payload(h, i) \in Nat /\ n <= F!payload(h, i)

LEMMA FirstFoundFacts ==
  ASSUME NEW h, NEW lv, FirstHeap(h, lv), NEW n \in Int, NEW i, i # 0, i = F!Finder(h, n)
  PROVE  FoundBlock(h, n, i)
<1>1. PICK B, rank : FirstSound(h, B, rank)
  BY DEF FirstHeap
<1>2. FirstServes(h, B, n, i)
  BY <1>1, FinderServes
<1>3. i \in FreeOf(h, B) /\ n <= F!payload(h, i)
  BY <1>2 DEF FirstServes
<1>4. FirstChain(h, B, rank) /\ FirstType(h) /\ FirstTagged(h, B) /\ i \in B /\ F!isfree(h, i)
  BY <1>1, <1>3 DEF FirstSound, FirstChain, FreeOf
<1>5. i \in Int /\ F!payload(h, i) \in Nat
  BY <1>4, FirstFacts
<1>6. F!payload(h, i) = -F!size(h, i)
  BY <1>4 DEF F!payload
<1> QED
  BY <1>3, <1>4, <1>5, <1>6 DEF FoundBlock

LEMMA FirstFound ==
  ASSUME FirstStepsInv, NEW c \in Caller, FS!Found(c)
  PROVE  FirstStepsInv' /\ UNCHANGED <<before, live, failed>>
<1>1. PICK i : i = local[c]
  OBVIOUS
<1>2. FS!At(c, "find") /\ i # 0 /\ -FS!size(i) >= FS!wordSize(c)
  <2>1. FS!null = 0
    BY DEF FS!null, FS!F!null
  <2> QED
    BY <1>1, <2>1 DEF FS!Found, FS!Fits
<1>3. PICK a : a = arg[c]
  OBVIOUS
<1>4. /\ pc[c] = "find" /\ FirstChained(before) /\ heap = before
      /\ a \in Bytes /\ a # 0 /\ FirstSearchAt(before, F!WordSize(a), i)
      /\ FS!wordSize(c) = F!WordSize(a) /\ F!WordSize(a) \in Int
  BY <1>1, <1>2, <1>3, FirstSearching
<1>5. PICK n \in Int : n = F!WordSize(a) /\ FS!wordSize(c) = n
  BY <1>4
<1>6. FS!size(i) = F!size(before, i)
  BY <1>4, FirstStepsRead DEF FS!size
<1>7. -F!size(before, i) >= n
  BY <1>2, <1>5, <1>6
<1>8. i = F!Finder(before, n) /\ n <= Words
  <2>1. i = F!Finder(before, n)
    BY <1>4, <1>5, <1>7, FirstSearchEnds
  <2>2. n <= Words
    BY <1>2, <1>4, <1>5, <1>7, FinderFits
  <2> QED
    BY <2>1, <2>2
<1>9. a <= 4 * Words
  <2>1. a \in Nat /\ 4 * n >= a
    BY <1>4, <1>5, FirstAsked
  <2> QED
    BY <1>8, <2>1, FirstSizes
<1>10. FoundBlock(before, n, i)
  BY <1>2, <1>8, FirstFoundFacts DEF FirstStepsInv
<1>11. PICK p \in Nat : p = F!payload(before, i) /\ p = -F!size(before, i) /\ n <= p /\ i \in Int
  BY <1>10 DEF FoundBlock
<1>12. PICK r \in Int : r = p - n - 2
  OBVIOUS
<1>13. PICK done : done = F!HandOut(before, i, n)
  OBVIOUS
<1>14. FirstTarget(before, "found", a) = done.heap
  BY <1>5, <1>8, <1>13 DEF FirstTarget
<1>15. FirstInMalloc(before, "found", a, done.at)
  BY <1>2, <1>4, <1>5, <1>8, <1>9, <1>13 DEF FirstInMalloc
<1>16. CASE p - n <= 4
  <2>1. PICK t : t = FS!Sized(i, p) \o FS!Taken(i)
    OBVIOUS
  <2>2. FS!Go(c, "found", t) /\ local' = local /\ FS!Look
    <3>1. -FS!size(i) = p /\ r + 2 <= 4 /\ r = -FS!size(i) - FS!wordSize(c) - 2
      BY <1>5, <1>6, <1>11, <1>12, <1>16
    <3> QED
      BY <1>1, <2>1, <3>1 DEF FS!Found
  <2>3. Decides(c, "found", i, t)
    BY <1>1, <2>2, FirstSameLocal
  <2>4. done.heap = F!SetSize(F!Unlink(heap, i), i, p) /\ done.at = i
    BY <1>4, <1>11, <1>13, <1>16 DEF F!HandOut
  <2>5. Leads("first", heap, t, done.heap)
    <3>1. PICK B, rank : FirstChain(heap, B, rank) /\ i \in FreeOf(heap, B)
      BY <1>4, <1>10 DEF FoundBlock
    <3>2. p = F!payload(heap, i)
      BY <1>4, <1>11
    <3> QED
      BY <2>1, <2>4, <3>1, <3>2, WholeWritten
  <2>6. FirstInside(heap, before, live, "found", a, i, t)
    BY <1>14, <1>15, <2>4, <2>5 DEF FirstInside
  <2> QED
    BY <1>3, <1>4, <2>3, <2>6, FirstDecides
<1>17. CASE ~(p - n <= 4)
  <2>1. PICK at, m : at = i + r + 2 /\ m = -r
    OBVIOUS
  <2>2. PICK t : t = FS!Sized(i, m) \o FS!Sized(at, n)
    OBVIOUS
  <2>3. Decides(c, "found", at, t)
    <3>1. ~(r + 2 <= 4) /\ r = -FS!size(i) - FS!wordSize(c) - 2
      BY <1>5, <1>6, <1>11, <1>12, <1>17
    <3>2. FS!Go(c, "found", t) /\ local' = [local EXCEPT ![c] = at] /\ FS!Look
      BY <1>1, <1>5, <2>1, <2>2, <3>1 DEF FS!Found
    <3> QED
      BY <3>2 DEF FS!Go, FS!Look, Decides
  <2>4. PICK u : u = F!SetSize(heap, i, m)
    OBVIOUS
  <2>5. done.heap = F!SetSize(u, at, n) /\ done.at = at
    BY <1>4, <1>11, <1>12, <1>13, <1>17, <2>1, <2>4 DEF F!HandOut
  <2>6. Leads("first", heap, FS!Sized(i, m), u)
    BY <2>4, SizedWrites
  <2>7. Leads("first", u, FS!Sized(at, n), done.heap)
    BY <2>5, SizedWrites
  <2>8. Leads("first", heap, t, done.heap)
    BY <2>2, <2>6, <2>7, LeadsOn
  <2>9. FirstInside(heap, before, live, "found", a, at, t)
    BY <1>14, <1>15, <2>5, <2>8 DEF FirstInside
  <2> QED
    BY <1>3, <1>4, <2>3, <2>9, FirstDecides
<1> QED
  BY <1>16, <1>17

\* free returns at once from what is no block in use.
LEMMA FirstFreeNothing ==
  ASSUME FirstStepsInv, NEW c \in Caller, FS!FreeNothing(c)
  PROVE  FirstStepsInv' /\ UNCHANGED <<before, live, failed>>
<1>1. FS!At(c, "free") /\ FS!Go(c, "nothing", <<>>) /\ local' = local /\ FS!Look
  BY DEF FS!FreeNothing
<1>2. pc[c] = "free" /\ heap = before
  <2>1. pc[c] = "free" /\ heap = FirstTarget(before, "free", arg[c])
    BY <1>1, FirstAt
  <2> QED
    BY <2>1 DEF FirstTarget
<1>3. Decides(c, "nothing", local[c], <<>>)
  BY <1>1, FirstSameLocal
<1> QED
  BY <1>2, <1>3, FirstLooks

\* The block that is freed.
LEMMA FirstFreeing ==
  ASSUME NEW h, NEW lv, FirstHeap(h, lv), NEW i \in DOMAIN lv
  PROVE  \E B, rank : FirstSound(h, B, rank) /\ FirstType(h) /\ FirstTagged(h, B) /\ i \in B /\ ~F!isfree(h, i)
<1>1. PICK B, rank : FirstSound(h, B, rank) /\ FirstOwned(h, B, lv)
  BY DEF FirstHeap
<1>2. i \in B /\ ~F!isfree(h, i)
  BY <1>1 DEF FirstOwned, FirstTakenOf
<1> QED
  BY <1>1, <1>2 DEF FirstSound, FirstChain

LEMMA FirstFreeBlock ==
  ASSUME FirstStepsInv, NEW c \in Caller, FS!FreeBlock(c)
  PROVE  FirstStepsInv' /\ UNCHANGED <<before, live, failed>>
<1>1. PICK i : i = arg[c]
  OBVIOUS
<1>2. FS!At(c, "free") /\ i \notin {0, FS!end}
  <2>1. FS!null = 0
    BY DEF FS!null, FS!F!null
  <2> QED
    BY <1>1, <2>1 DEF FS!FreeBlock
<1>3. /\ pc[c] = "free" /\ heap = FirstTarget(before, "free", i)
      /\ FirstInMalloc(before, "free", i, local[c]) \/ FirstInFree(live, "free", i, local[c])
  BY <1>1, <1>2, FirstAt
<1>4. i \in DOMAIN live /\ heap = before
  BY <1>2, <1>3 DEF FirstInMalloc, FirstInFree, FirstTarget
<1>5. PICK B, rank : FirstType(heap) /\ FirstTagged(heap, B) /\ i \in B /\ ~F!isfree(heap, i)
  BY <1>4, FirstFreeing DEF FirstStepsInv
<1>6. PICK n \in Int : n = F!size(heap, i) /\ n = F!payload(heap, i) /\ n >= 2
  <2>1. F!payload(heap, i) = F!size(heap, i)
    BY <1>5 DEF F!payload
  <2>2. F!payload(heap, i) \in Nat /\ F!payload(heap, i) >= 2
    BY <1>5, FirstFacts
  <2> QED
    BY <2>1, <2>2
<1>7. i \in Int /\ i # 0 /\ i \in FirstIndex /\ i + n + 1 \in FirstIndex /\ i + 1 \in FirstIndex /\ i + 2 \in FirstIndex
  <2>1. i \in Int /\ i >= 1 /\ i \in FirstIndex
    BY <1>5, FirstFacts
  <2>2. i + n + 1 \in FirstIndex
    BY <1>5, <1>6, FirstFacts
  <2> QED
    BY <1>6, <2>1, <2>2, FirstSizes
<1>8. Leads("first", heap, Pushing(i), Inserted(heap, i))
  <2>1. n = F!size(heap, i) /\ n > 0 /\ FirstType(heap)
    BY <1>5, <1>6
  <2> QED
    BY <1>7, <2>1, PushWritten
<1>9. Decides(c, "merge right", i, Pushing(i))
  <2>1. FS!null = 0 /\ FS!size(i) = F!size(heap, i)
    BY FirstStepsRead DEF FS!size
  <2>2. FS!Go(c, "merge right", Pushing(i)) /\ local' = [local EXCEPT ![c] = i] /\ FS!Look
    BY <1>1, <2>1 DEF FS!FreeBlock, Pushing
  <2> QED
    BY <2>2 DEF FS!Go, FS!Look, Decides
<1>10. FirstTarget(before, "merge right", i) = Inserted(heap, i)
  BY <1>4 DEF FirstTarget
<1>11. FirstInFree(live, "merge right", i, i)
  BY <1>4 DEF FirstInFree
<1>12. FirstInside(heap, before, live, "merge right", i, i, Pushing(i))
  BY <1>8, <1>10, <1>11 DEF FirstInside
<1> QED
  BY <1>1, <1>3, <1>9, <1>12, FirstDecides

\* A free block is not the only one in the list, if there is another.
LEMMA NotAlone ==
  ASSUME NEW h, NEW B, NEW rank, FirstChain(h, B, rank), NEW i \in FreeOf(h, B), NEW l \in FreeOf(h, B), l # i
  PROVE  F!prevFree(h, i) # 0 \/ F!nextFree(h, i) # 0
<1> SUFFICES ASSUME F!prevFree(h, i) = 0, F!nextFree(h, i) = 0 PROVE FALSE
  OBVIOUS
<1>1. PICK A : A = FreeOf(h, B)
  OBVIOUS
<1>2. PICK link : link = F!Listed(h)
  OBVIOUS
<1>3. FirstLists(h, A, link) /\ 0 \notin A
  <2>1. FirstType(h) /\ FirstTagged(h, B) /\ FirstLinked(h, A, rank)
    BY <1>1 DEF FirstChain
  <2>2. FirstApart(A)
    <3>1. FirstApart(B)
      BY <2>1, FreeApart
    <3> QED
      BY <1>1, <3>1 DEF FirstApart, FreeOf
  <2> QED
    BY <1>2, <2>1, <2>2, FirstListReaches, FirstApartFacts
<1>4. FirstChained(h)
  BY FirstIsChained
<1>5. h.freehead = i
  BY <1>1 DEF FirstChain, FirstLinked
<1>6. Most \in Nat /\ link[0] = i /\ Stays(Most, link)
  BY <1>2, <1>4, <1>5 DEF FirstChained
<1>7. i # 0
  BY <1>1, <1>3
<1>8. 1 \in 0..Most /\ link[1] = 0
  <2>1. 0 \in 0..Most
    BY <1>6
  <2>2. 0 + 1 \in 0..Most /\ F!nextFree(h, link[0]) = link[0 + 1]
    BY <1>2, <1>4, <1>6, <1>7, <2>1 DEF FirstChained
  <2> QED
    BY <1>6, <2>2
<1>9. \A k \in 1..Most : link[k] = 0
  BY <1>6, <1>8, ZeroStays
<1>10. PICK k \in 0..Most : link[k] = l
  BY <1>1, <1>3 DEF FirstLists
<1>11. k = 0 \/ k \in 1..Most
  BY <1>6
<1> QED
  BY <1>1, <1>3, <1>6, <1>9, <1>10, <1>11

\* What merge writes, if a free neighbour n is there: block gone goes into block into.
Merging(n, into, gone) ==
  IF n # 0 /\ F!isfree(heap, n)
    THEN FS!Sized(into, F!size(heap, into) + F!size(heap, gone) - 2) \o FS!Swallowed(gone)
    ELSE <<>>

LEMMA RightWritten ==
  ASSUME NEW B, NEW rank, FirstChain(heap, B, rank), NEW i \in FreeOf(heap, B), NEW r, r = F!next(heap, i)
  PROVE  Leads("first", heap, Merging(r, i, r), F!MergeRight(heap, i))
<1>1. FirstType(heap) /\ FirstTagged(heap, B) /\ i \in B
  BY DEF FirstChain, FreeOf
<1>2. i \in Int /\ After(heap, i) = i + F!payload(heap, i) + 2 /\ F!payload(heap, i) \in Nat /\ After(heap, i) \in B \cup {Bound}
  BY <1>1, FirstFacts
<1>3. F!next(heap, i) = IF After(heap, i) = Bound THEN 0 ELSE After(heap, i)
  BY <1>1, <1>2, Neighbours
<1>4. CASE r # 0 /\ F!isfree(heap, r)
  <2>1. r = After(heap, i) /\ r \in FreeOf(heap, B) /\ r # i
    <3>1. r = After(heap, i) /\ r # Bound
      BY <1>3, <1>4
    <3>2. r \in FreeOf(heap, B)
      BY <1>2, <1>4, <3>1 DEF FreeOf
    <3>3. r # i
      BY <1>2, <3>1
    <3> QED
      BY <3>1, <3>2, <3>3
  <2>2. F!prevFree(heap, r) # 0 \/ F!nextFree(heap, r) # 0
    BY <2>1, NotAlone
  <2>3. PICK v : v = JointSize(heap, i, r)
    OBVIOUS
  <2>4. Leads("first", heap, FS!Sized(i, v) \o FS!Swallowed(r), F!SetSize(F!Unlink(heap, r), i, v))
    BY <2>1, <2>2, <2>3, SwallowWritten
  <2>5. v = F!size(heap, i) + F!size(heap, r) - 2
    BY <2>3 DEF JointSize, F!size
  <2>6. F!MergeRight(heap, i) = F!SetSize(F!Unlink(heap, r), i, v)
    BY <1>4, <2>5 DEF F!MergeRight, F!null
  <2>7. Merging(r, i, r) = FS!Sized(i, v) \o FS!Swallowed(r)
    BY <1>4, <2>5 DEF Merging
  <2> QED
    BY <2>4, <2>6, <2>7
<1>5. CASE ~(r # 0 /\ F!isfree(heap, r))
  <2>1. F!MergeRight(heap, i) = heap
    BY <1>5 DEF F!MergeRight, F!null
  <2>2. Merging(r, i, r) = <<>>
    BY <1>5 DEF Merging
  <2> QED
    BY <2>1, <2>2, LeadsNowhere
<1> QED
  BY <1>4, <1>5

LEMMA LeftWritten ==
  ASSUME NEW B, NEW rank, FirstChain(heap, B, rank), NEW i \in FreeOf(heap, B), NEW l, l = F!prev(heap, i)
  PROVE  Leads("first", heap, Merging(l, l, i), F!MergeLeft(heap, i))
<1>1. FirstType(heap) /\ FirstTagged(heap, B) /\ i \in B /\ i \in Int
  <2>1. FirstType(heap) /\ FirstTagged(heap, B) /\ i \in B
    BY DEF FirstChain, FreeOf
  <2> QED
    BY <2>1, FirstFacts
<1>2. (i = 1 => l = 0) /\ (i # 1 => l \in B /\ After(heap, l) = i)
  BY <1>1, Neighbours
<1>3. CASE l # 0 /\ F!isfree(heap, l)
  <2>1. i = After(heap, l) /\ l \in FreeOf(heap, B) /\ l # i
    <3>1. l \in B /\ After(heap, l) = i
      BY <1>2, <1>3
    <3>2. l \in Int /\ After(heap, l) = l + F!payload(heap, l) + 2 /\ F!payload(heap, l) \in Nat
      BY <1>1, <3>1, FirstFacts
    <3>3. l # i
      BY <3>1, <3>2
    <3> QED
      BY <1>3, <3>1, <3>3 DEF FreeOf
  <2>2. F!prevFree(heap, i) # 0 \/ F!nextFree(heap, i) # 0
    BY <2>1, NotAlone
  <2>3. PICK v : v = JointSize(heap, l, i)
    OBVIOUS
  <2>4. Leads("first", heap, FS!Sized(l, v) \o FS!Swallowed(i), F!SetSize(F!Unlink(heap, i), l, v))
    BY <2>1, <2>2, <2>3, SwallowWritten
  <2>5. v = F!size(heap, l) + F!size(heap, i) - 2
    BY <2>3 DEF JointSize, F!size
  <2>6. F!MergeLeft(heap, i) = F!SetSize(F!Unlink(heap, i), l, v)
    BY <1>3, <2>5 DEF F!MergeLeft, F!null
  <2>7. Merging(l, l, i) = FS!Sized(l, v) \o FS!Swallowed(i)
    BY <1>3, <2>5 DEF Merging
  <2> QED
    BY <2>4, <2>6, <2>7
<1>4. CASE ~(l # 0 /\ F!isfree(heap, l))
  <2>1. F!MergeLeft(heap, i) = heap
    BY <1>4 DEF F!MergeLeft, F!null
  <2>2. Merging(l, l, i) = <<>>
    BY <1>4 DEF Merging
  <2> QED
    BY <2>1, <2>2, LeadsNowhere
<1> QED
  BY <1>3, <1>4

LEMMA FirstMergeIs ==
  ASSUME FirstStepsInv, NEW c \in Caller, NEW from, NEW to, NEW n, NEW into, NEW gone, FS!Merge(c, from, to, n, into, gone)
  PROVE  Decides(c, to, local[c], Merging(n, into, gone))
<1>1. FS!null = 0 /\ FS!isfree(n) = F!isfree(heap, n)
  BY FirstStepsRead DEF FS!isfree
<1>2. FS!size(into) = F!size(heap, into) /\ FS!size(gone) = F!size(heap, gone)
  BY FirstStepsRead DEF FS!size
<1>3. FS!Go(c, to, Merging(n, into, gone)) /\ local' = local /\ FS!Look
  BY <1>1, <1>2 DEF FS!Merge, Merging
<1> QED
  BY <1>3, FirstSameLocal

\* The block at the head of the list, and what comes of it.
LEMMA FirstInserted ==
  ASSUME NEW h, NEW lv, FirstHeap(h, lv), NEW i \in DOMAIN lv, NEW s, s = Inserted(h, i)
  PROVE  \E B, q : FirstChain(s, B, q) /\ i \in FreeOf(s, B) /\ MeetsAt(s, B, i)
<1>1. PICK B, rank : FirstSound(h, B, rank) /\ i \in B /\ ~F!isfree(h, i)
  BY FirstFreeing
<1>2. FirstChain(h, B, rank) /\ FirstJoined(h, B)
  BY <1>1 DEF FirstSound
<1>3. /\ \E q : FirstChain(s, B, q)
      /\ FreeOf(s, B) = FreeOf(h, B) \cup {i}
      /\ FirstTakenOf(s, B) = FirstTakenOf(h, B) \ {i}
      /\ FirstKeeps(h, B, {i}, s)
      /\ \A j \in B : After(s, j) = After(h, j)
  BY <1>1, <1>2, IntoList
<1>4. i \in FreeOf(s, B) /\ MeetsAt(s, B, i)
  BY <1>2, <1>3 DEF MeetsAt, FirstJoined, FreeOf
<1> QED
  BY <1>3, <1>4

LEMMA FirstMergeRight ==
  ASSUME FirstStepsInv, NEW c \in Caller, FS!MergeRight(c)
  PROVE  FirstStepsInv' /\ UNCHANGED <<before, live, failed>>
<1>1. PICK a : a = arg[c]
  OBVIOUS
<1>2. FS!At(c, "merge right")
  BY DEF FS!MergeRight, FS!Merge
<1>3. /\ pc[c] = "merge right" /\ heap = FirstTarget(before, "merge right", a)
      /\ FirstInMalloc(before, "merge right", a, local[c]) \/ FirstInFree(live, "merge right", a, local[c])
  <2>1. "merge right" # "out" /\ "merge right" # "nothing"
    OBVIOUS
  <2> QED
    BY <1>1, <1>2, <2>1, FirstAt
<1>4. a \in DOMAIN live /\ local[c] = a /\ heap = Inserted(before, a)
  BY <1>3 DEF FirstInMalloc, FirstInFree, FirstTarget
<1>5. PICK r : r = F!next(heap, a)
  OBVIOUS
<1>6. Decides(c, "merge left", a, Merging(r, a, r))
  <2>1. FS!next(a) = r
    BY <1>5, FirstStepsRead DEF FS!next
  <2>2. FS!Merge(c, "merge right", "merge left", r, a, r)
    BY <1>4, <2>1 DEF FS!MergeRight
  <2> QED
    BY <1>4, <2>2, FirstMergeIs
<1>7. Leads("first", heap, Merging(r, a, r), F!MergeRight(heap, a))
  <2>1. PICK B, q : FirstChain(heap, B, q) /\ a \in FreeOf(heap, B)
    BY <1>4, FirstInserted DEF FirstStepsInv
  <2> QED
    BY <1>5, <2>1, RightWritten
<1>8. FirstTarget(before, "merge left", a) = F!MergeRight(heap, a)
  BY <1>4 DEF FirstTarget
<1>9. FirstInFree(live, "merge left", a, a)
  BY <1>4 DEF FirstInFree
<1>10. FirstInside(heap, before, live, "merge left", a, a, Merging(r, a, r))
  BY <1>7, <1>8, <1>9 DEF FirstInside
<1> QED
  BY <1>1, <1>3, <1>6, <1>10, FirstDecides

LEMMA FirstMergeLeft ==
  ASSUME FirstStepsInv, NEW c \in Caller, FS!MergeLeft(c)
  PROVE  FirstStepsInv' /\ UNCHANGED <<before, live, failed>>
<1>1. PICK a : a = arg[c]
  OBVIOUS
<1>2. FS!At(c, "merge left")
  BY DEF FS!MergeLeft, FS!Merge
<1>3. /\ pc[c] = "merge left" /\ heap = FirstTarget(before, "merge left", a)
      /\ FirstInMalloc(before, "merge left", a, local[c]) \/ FirstInFree(live, "merge left", a, local[c])
  <2>1. "merge left" # "out" /\ "merge left" # "nothing"
    OBVIOUS
  <2> QED
    BY <1>1, <1>2, <2>1, FirstAt
<1>4. a \in DOMAIN live /\ local[c] = a /\ heap = F!MergeRight(Inserted(before, a), a)
  BY <1>3 DEF FirstInMalloc, FirstInFree, FirstTarget
<1>5. PICK l : l = F!prev(heap, a)
  OBVIOUS
<1>6. Decides(c, "freed", a, Merging(l, l, a))
  <2>1. FS!prev(a) = l
    BY <1>5, FirstStepsRead DEF FS!prev
  <2>2. FS!Merge(c, "merge left", "freed", l, l, a)
    BY <1>4, <2>1 DEF FS!MergeLeft
  <2> QED
    BY <1>4, <2>2, FirstMergeIs
<1>7. Leads("first", heap, Merging(l, l, a), F!MergeLeft(heap, a))
  <2>1. PICK s : s = Inserted(before, a)
    OBVIOUS
  <2>2. PICK B, q : FirstChain(s, B, q) /\ a \in FreeOf(s, B) /\ MeetsAt(s, B, a)
    BY <1>4, <2>1, FirstInserted DEF FirstStepsInv
  <2>3. MergedRight(s, B, a, heap)
    BY <1>4, <2>1, <2>2, RightMerged
  <2>4. PICK C, r : FirstChain(heap, C, r) /\ a \in FreeOf(heap, C)
    BY <2>3 DEF MergedRight
  <2> QED
    BY <1>5, <2>4, LeftWritten
<1>8. FirstTarget(before, "freed", a) = F!MergeLeft(heap, a)
  BY <1>4 DEF FirstTarget, F!merge
<1>9. FirstInFree(live, "freed", a, a)
  BY <1>4 DEF FirstInFree
<1>10. FirstInside(heap, before, live, "freed", a, a, Merging(l, l, a))
  BY <1>7, <1>8, <1>9 DEF FirstInside
<1> QED
  BY <1>1, <1>3, <1>6, <1>10, FirstDecides

\* The lock is given back: that is the step of the call.
LEMMA FirstWholeFrees ==
  ASSUME NEW i, F!size(before, i) > 0, before' = F!merge(Inserted(before, i), i),
         live' = [p \in DOMAIN live \ {i} |-> live[p]], failed' = 0
  PROVE  FS!Whole!free(i)
<1>1. PICK m : m = -F!size(before, i) /\ m = -FS!Whole!size(before, i)
  BY FirstWholeReads
<1>2. PICK freed : freed = F!SetSize(before, i, m) /\ freed = FS!Whole!SetSize(before, i, m)
  BY FirstWholeWrites
<1>3. PICK t : t = F!SetPrev(freed, i, 0) /\ t = FS!Whole!SetPrev(freed, i, 0)
  BY FirstWholeWrites
<1>4. PICK u : u = F!SetNext(t, i, before.freehead) /\ u = FS!Whole!SetNext(t, i, before.freehead)
  BY FirstWholeWrites
<1>5. PICK w : w = F!SetPrev(u, before.freehead, i) /\ w = FS!Whole!SetPrev(u, before.freehead, i)
  BY FirstWholeWrites
<1>6. PICK s : s = [w EXCEPT !.freehead = i]
  OBVIOUS
<1>7. FS!Whole!null = 0 /\ F!null = 0
  BY FirstWholeReads
<1>8. Inserted(before, i) = s
  BY <1>1, <1>2, <1>3, <1>4, <1>5, <1>6, <1>7 DEF Inserted
<1>9. before' = FS!Whole!merge(s, i)
  BY <1>8, FirstWholeHands
<1>10. FS!Whole!size(before, i) > 0
  BY FirstWholeReads
<1> QED
  BY <1>1, <1>2, <1>3, <1>4, <1>5, <1>6, <1>7, <1>9, <1>10 DEF FS!Whole!free

LEMMA FirstWholeGives ==
  ASSUME NEW a, a > 0, a <= 4 * Words, F!Finder(before, F!WordSize(a)) # 0,
         NEW done, done = F!HandOut(before, F!Finder(before, F!WordSize(a)), F!WordSize(a)),
         before' = done.heap, live' = [p \in DOMAIN live \cup {done.at} |-> IF p = done.at THEN a ELSE live[p]],
         failed' = 0
  PROVE  FS!Whole!malloc(a)
<1>1. PICK n : n = F!WordSize(a) /\ n = FS!Whole!WordSize(a)
  BY FirstWholeReads
<1>2. PICK it : it = F!Finder(before, n) /\ it = FS!Whole!Finder(before, n) /\ it # 0
  BY <1>1, FirstWholeFinds
<1>3. done = FS!Whole!HandOut(before, it, n)
  BY <1>1, <1>2, FirstWholeHands
<1>4. FS!Whole!null = 0
  BY FirstWholeReads
<1> QED
  BY <1>1, <1>2, <1>3, <1>4 DEF FS!Whole!malloc

LEMMA FirstWholeFails ==
  ASSUME NEW a, a > 0, ~(a <= 4 * Words) \/ F!Finder(before, F!WordSize(a)) = 0,
         before' = before, live' = live, failed' = F!WordSize(a) + 2
  PROVE  FS!Whole!malloc(a)
<1>1. PICK n : n = F!WordSize(a) /\ n = FS!Whole!WordSize(a)
  BY FirstWholeReads
<1>2. F!Finder(before, n) = FS!Whole!Finder(before, n)
  BY FirstWholeFinds
<1>3. FS!Whole!null = 0
  BY FirstWholeReads
<1> QED
  BY <1>1, <1>2, <1>3 DEF FS!Whole!malloc

LEMMA FirstUnlock ==
  ASSUME FirstStepsInv, NEW c \in Caller, FS!Unlock(c)
  PROVE  FirstStepsInv' /\ (FS!Whole!Next \/ UNCHANGED <<before, live, failed>>)
<1>1. PICK a, i, where : a = arg[c] /\ i = local[c] /\ where = pc[c]
  OBVIOUS
<1>2. /\ where \in {"found", "failed", "freed", "nothing"} /\ FS!At(c, where)
      /\ taken' = FALSE /\ before' = heap /\ heap' = heap
      /\ live' = CASE where = "found"  -> [p \in DOMAIN live \cup {i} |-> IF p = i THEN a ELSE live[p]]
                   [] where = "freed"  -> [p \in DOMAIN live \ {a} |-> live[p]]
                   [] OTHER            -> live
      /\ failed' = CASE where = "failed"  -> FS!wordSize(c) + 2
                     [] where = "nothing" -> failed
                     [] OTHER             -> 0
      /\ pc' = [pc EXCEPT ![c] = "out"] /\ todo' = [todo EXCEPT ![c] = <<>>]
      /\ arg' = [arg EXCEPT ![c] = 0] /\ local' = [local EXCEPT ![c] = FS!null]
  BY <1>1 DEF FS!Unlock, FS!At, FS!Go
<1>3. /\ FirstInMalloc(before, where, a, i) \/ FirstInFree(live, where, a, i) \/ where = "nothing"
      /\ heap = FirstTarget(before, where, a) /\ pc[c] = where /\ where # "out"
  <2>1. where # "out"
    BY <1>2
  <2> QED
    BY <1>1, <1>2, <2>1, FirstAt
<1>4. FirstHeap(before, live) /\ PerCaller(pc) /\ PerCaller(arg) /\ PerCaller(local) /\ PerCaller(todo)
  BY DEF FirstStepsInv
<1>5. FirstHeap(before', live') /\ (FS!Whole!Next \/ UNCHANGED <<before, live, failed>>)
  <2>1. CASE where = "found"
    <3>1. a \in Bytes /\ a # 0 /\ a <= 4 * Words /\ F!Finder(before, F!WordSize(a)) # 0
          /\ i = F!HandOut(before, F!Finder(before, F!WordSize(a)), F!WordSize(a)).at
      BY <1>3, <2>1 DEF FirstInMalloc, FirstInFree
    <3>2. a \in Nat /\ a > 0
      BY <3>1, FirstAsked
    <3>3. PICK done : done = F!HandOut(before, F!Finder(before, F!WordSize(a)), F!WordSize(a))
      OBVIOUS
    <3>4. i = done.at /\ before' = done.heap
      BY <1>2, <1>3, <2>1, <3>1, <3>3 DEF FirstTarget
    <3>5. live' = [p \in DOMAIN live \cup {done.at} |-> IF p = done.at THEN a ELSE live[p]] /\ failed' = 0
      BY <1>2, <2>1, <3>4
    <3>6. FirstHeap(before', live')
      BY <1>4, <3>1, <3>2, <3>3, <3>4, <3>5, FirstGranted
    <3>7. FS!Whole!malloc(a)
      BY <3>1, <3>2, <3>3, <3>4, <3>5, FirstWholeGives
    <3> QED
      BY <3>1, <3>6, <3>7 DEF FS!Whole!Next
  <2>2. CASE where = "failed"
    <3>1. a \in Bytes \cup {FS!TooMany} /\ a # 0 /\ (~(a <= 4 * Words) \/ F!Finder(before, F!WordSize(a)) = 0)
      BY <1>3, <2>2 DEF FirstInMalloc, FirstInFree
    <3>2. a > 0
      <4>1. CASE a \in Bytes
        BY <3>1, <4>1, FirstAsked
      <4>2. CASE a = FS!TooMany
        BY <4>2, FirstSizes DEF FS!TooMany
      <4> QED
        BY <3>1, <4>1, <4>2
    <3>3. before' = before
      BY <1>2, <1>3, <2>2 DEF FirstTarget
    <3>4. live' = live /\ failed' = F!WordSize(a) + 2
      <4>1. FS!wordSize(c) = F!WordSize(a)
        BY <1>1, FirstStepsRead DEF FS!wordSize
      <4> QED
        BY <1>2, <2>2, <4>1
    <3>5. FirstHeap(before', live')
      BY <1>4, <3>3, <3>4
    <3>6. FS!Whole!malloc(a)
      BY <3>1, <3>2, <3>3, <3>4, FirstWholeFails
    <3> QED
      BY <3>1, <3>5, <3>6 DEF FS!Whole!Next
  <2>3. CASE where = "freed"
    <3>1. a \in DOMAIN live /\ before' = F!merge(Inserted(before, a), a)
      BY <1>2, <1>3, <2>3 DEF FirstInMalloc, FirstInFree, FirstTarget
    <3>2. live' = [p \in DOMAIN live \ {a} |-> live[p]] /\ failed' = 0
      BY <1>2, <2>3
    <3>3. FirstHeap(before', live')
      BY <1>4, <3>1, <3>2, FirstReclaimed
    <3>4. FS!Whole!free(a)
      <4>1. PICK B, rank : FirstType(before) /\ FirstTagged(before, B) /\ a \in B /\ ~F!isfree(before, a)
        BY <1>4, <3>1, FirstFreeing
      <4>2. F!size(before, a) > 0
        BY <4>1, FirstFacts DEF F!size
      <4> QED
        BY <3>1, <3>2, <4>2, FirstWholeFrees
    <3> QED
      BY <3>1, <3>3, <3>4 DEF FS!Whole!Next
  <2>4. CASE where = "nothing"
    <3>1. before' = before
      BY <1>2, <1>3, <2>4 DEF FirstTarget
    <3>2. live' = live /\ failed' = failed
      BY <1>2, <2>4
    <3> QED
      BY <1>4, <3>1, <3>2
  <2> QED
    BY <1>2, <2>1, <2>2, <2>3, <2>4
<1>6. pc'[c] = "out" /\ todo'[c] = <<>>
  BY <1>2, <1>4 DEF PerCaller
<1>7. FirstCaller(heap', before', live', pc'[c], arg'[c], local'[c], todo'[c])
  BY <1>6 DEF FirstCaller
<1>8. Moves(c)
  BY <1>2, <1>4 DEF PerCaller, Moves
<1>9. FirstStepsInv'
  BY <1>2, <1>3, <1>5, <1>6, <1>7, <1>8, FirstGoesOn
<1> QED
  BY <1>5, <1>9

\* An inductive invariant, under which every step is one of the whole calls or none.
LEMMA FirstStepsGoOn ==
  ASSUME FirstStepsInv, FS!Next
  PROVE  FirstStepsInv' /\ (FS!Whole!Next \/ UNCHANGED <<before, live, failed>>)
<1>1. PICK c \in Caller : FS!Step(c)
  BY DEF FS!Next
<1>2. CASE FS!Store(c)
  BY <1>2, FirstStore
<1>3. CASE FS!Malloc(c)
  <2>1. PICK x \in Bytes \cup {0, FS!TooMany} : FS!Lock(c, "malloc", x)
    BY <1>3 DEF FS!Malloc
  <2> QED
    BY <2>1, FirstLock
<1>4. CASE FS!Free(c)
  <2>1. PICK x \in DOMAIN live \cup {0, FS!end} : FS!Lock(c, "free", x)
    BY <1>4 DEF FS!Free, FS!null, FS!F!null
  <2> QED
    BY <2>1, FirstLock
<1>5. CASE FS!Begin(c)
  BY <1>5, FirstBegin
<1>6. CASE FS!Find(c)
  BY <1>6, FirstFind
<1>7. CASE FS!NotFound(c)
  BY <1>7, FirstNotFound
<1>8. CASE FS!Found(c)
  BY <1>8, FirstFound
<1>9. CASE FS!FreeNothing(c)
  BY <1>9, FirstFreeNothing
<1>10. CASE FS!FreeBlock(c)
  BY <1>10, FirstFreeBlock
<1>11. CASE FS!MergeRight(c)
  BY <1>11, FirstMergeRight
<1>12. CASE FS!MergeLeft(c)
  BY <1>12, FirstMergeLeft
<1>13. CASE FS!Unlock(c)
  BY <1>13, FirstUnlock
<1> QED
  BY <1>1, <1>2, <1>3, <1>4, <1>5, <1>6, <1>7, <1>8, <1>9, <1>10, <1>11, <1>12, <1>13 DEF FS!Step

LEMMA FirstStepsStay ==
  ASSUME FirstStepsInv, UNCHANGED <<vars, stepped>>
  PROVE  FirstStepsInv'
BY DEF vars, stepped, FirstStepsInv

LEMMA FirstStepsStart ==
  ASSUME FS!Init
  PROVE  FirstStepsInv /\ FS!Whole!Init
<1>1. F!Init /\ before = heap
  <2>1. FS!F!Init /\ before = heap
    BY DEF FS!Init
  <2> QED
    BY <2>1 DEF FS!F!Init, FS!F!SetSize, F!Init, F!SetSize
<1>2. FS!Whole!Init
  BY <1>1 DEF FS!Whole!Init, FS!Whole!SetSize, F!Init, F!SetSize
<1>3. FirstHeap(before, live)
  BY <1>1, FirstInit DEF FirstInv, FirstHeap
<1>4. /\ taken = FALSE /\ pc = [c \in Caller |-> "out"] /\ arg = [c \in Caller |-> 0]
      /\ local = [c \in Caller |-> FS!null] /\ todo = [c \in Caller |-> <<>>]
  BY DEF FS!Init
<1>5. PerCaller(pc) /\ PerCaller(arg) /\ PerCaller(local) /\ PerCaller(todo) /\ OneInside(pc, taken)
  BY <1>4 DEF PerCaller, OneInside
<1>6. \A c \in Caller : FirstCaller(heap, before, live, pc[c], arg[c], local[c], todo[c])
  BY <1>4 DEF FirstCaller
<1> QED
  BY <1>1, <1>2, <1>3, <1>5, <1>6 DEF FirstStepsInv

-----------------------------------------------------------------------------
(* Both heaps of the run *)

HeapsInv == /\ (design = "best" => BestInv) /\ (design = "first" => FirstInv)
            /\ (design = "best steps" => BestStepsInv) /\ (design = "first steps" => FirstStepsInv)

\* A step of a heap keeps what it is, writes nothing into blocks that stay in use, and is
\* a step of the allocator that its users see.  A write to memory is a step of the heap
\* only when it ends a call.
HeapsStep ==
  /\ design = "best" => KeepsPayload /\ AsAllocator!Next
  /\ design = "first" => F!KeepsPayload /\ F!AsAllocator!Next
  /\ design = "best steps" => BS!Whole!Next \/ UNCHANGED <<before, live, failed>>
  /\ design = "first steps" => FS!Whole!Next \/ UNCHANGED <<before, live, failed>>

LEMMA HeapsStart == HeapsInit => HeapsInv
<1> SUFFICES ASSUME HeapsInit PROVE HeapsInv
  OBVIOUS
<1>1. CASE design = "best" /\ Init
  BY <1>1, BestInit DEF HeapsInv
<1>2. CASE design = "first" /\ F!Init
  BY <1>2, FirstInit DEF HeapsInv
<1>3. CASE design = "best steps" /\ BS!Init
  BY <1>3, BestStepsStart DEF HeapsInv
<1>4. CASE design = "first steps" /\ FS!Init
  BY <1>4, FirstStepsStart DEF HeapsInv
<1> QED
  BY <1>1, <1>2, <1>3, <1>4 DEF HeapsInit

LEMMA HeapsGoOn == HeapsInv /\ HeapsNext => HeapsInv' /\ HeapsStep
<1> SUFFICES ASSUME HeapsInv, HeapsNext PROVE HeapsInv' /\ HeapsStep
  OBVIOUS
<1>1. design' = design
  BY DEF HeapsNext
<1>2. CASE design = "best"
  <2>1. BestInv /\ Next
    BY <1>2 DEF HeapsInv, HeapsNext
  <2>2. BestInv' /\ KeepsPayload /\ AsAllocator!Next
    <3>1. CASE \E bytes \in Bytes : Malloc(bytes)
      <4>1. PICK bytes \in Nat : Malloc(bytes)
        BY <3>1, HeapAssumption
      <4> QED
        BY <2>1, <4>1, BestMalloc
    <3>2. CASE \E p \in DOMAIN live : Free(p)
      BY <2>1, <3>2, BestFree
    <3> QED
      BY <2>1, <3>1, <3>2 DEF Next
  <2> QED
    BY <1>1, <1>2, <2>2 DEF HeapsInv, HeapsStep
<1>3. CASE design = "first"
  <2>1. FirstInv /\ F!Next
    BY <1>3 DEF HeapsInv, HeapsNext
  <2>2. FirstInv' /\ F!KeepsPayload /\ F!AsAllocator!Next
    <3>1. CASE \E bytes \in Bytes : F!malloc(bytes)
      <4>1. PICK bytes \in Nat : F!malloc(bytes)
        BY <3>1, HeapAssumption
      <4> QED
        BY <2>1, <4>1, FirstMalloc
    <3>2. CASE \E i \in DOMAIN live : F!free(i)
      BY <2>1, <3>2, FirstFree
    <3> QED
      BY <2>1, <3>1, <3>2 DEF F!Next
  <2> QED
    BY <1>1, <1>3, <2>2 DEF HeapsInv, HeapsStep
<1>4. CASE design = "best steps"
  <2>1. BestStepsInv /\ BS!Next
    BY <1>4 DEF HeapsInv, HeapsNext
  <2>2. BestStepsInv' /\ (BS!Whole!Next \/ UNCHANGED <<before, live, failed>>)
    BY <2>1, BestStepsGoOn
  <2> QED
    BY <1>1, <1>4, <2>2 DEF HeapsInv, HeapsStep
<1>5. CASE design = "first steps"
  <2>1. FirstStepsInv /\ FS!Next
    BY <1>5 DEF HeapsInv, HeapsNext
  <2>2. FirstStepsInv' /\ (FS!Whole!Next \/ UNCHANGED <<before, live, failed>>)
    BY <2>1, FirstStepsGoOn
  <2> QED
    BY <1>1, <1>5, <2>2 DEF HeapsInv, HeapsStep
<1>6. CASE design \notin {"best", "first", "best steps", "first steps"}
  BY <1>1, <1>6 DEF HeapsInv, HeapsStep
<1> QED
  BY <1>2, <1>3, <1>4, <1>5, <1>6

\* The inductive invariant: the blocks that the sizes lead to, and a rank along the list.
LEMMA HeapsAlways == HeapsSpec => []HeapsInv
<1>1. HeapsInv /\ UNCHANGED <<vars, design, stepped>> => HeapsInv'
  <2> SUFFICES ASSUME HeapsInv, UNCHANGED <<vars, design, stepped>> PROVE HeapsInv'
    OBVIOUS
  <2>1. design' = design /\ UNCHANGED <<vars, stepped>>
    OBVIOUS
  <2>2. design = "best" => BestInv'
    BY DEF HeapsInv, vars, BestInv
  <2>3. design = "first" => FirstInv'
    BY DEF HeapsInv, vars, FirstInv
  <2>4. design = "best steps" => BestStepsInv'
    BY <2>1, BestStepsStay DEF HeapsInv
  <2>5. design = "first steps" => FirstStepsInv'
    BY <2>1, FirstStepsStay DEF HeapsInv
  <2> QED
    BY <2>1, <2>2, <2>3, <2>4, <2>5 DEF HeapsInv
<1> QED
  BY <1>1, HeapsStart, HeapsGoOn, PTL DEF HeapsSpec

\* Of both heaps, with any number of words and any sizes asked for: the blocks tile the
\* memory and carry their sizes at both ends, no two available ones touch, what users
\* hold are the taken ones, each with room for what was asked, and the list runs through
\* exactly the available ones, once and both ways (malloc and free of heap.cc).
THEOREM HeapsAreSound == HeapsSpec => []BlocksAndLists
<1>1. HeapsInv => BlocksAndLists
  BY BestSound, FirstIsSound DEF HeapsInv, BlocksAndLists
<1> QED
  BY <1>1, HeapsAlways, PTL

\* malloc and free, with the tags and links they write and the blocks they cut and join,
\* change no word of a block that a user keeps.
THEOREM HeapsKeepPayload == HeapsSpec => PayloadKept
<1>1. ASSUME HeapsInv, [HeapsNext]_<<vars, design, stepped>>
      PROVE  [/\ design = "best" => KeepsPayload
              /\ design = "first" => F!KeepsPayload]_vars
  BY <1>1, HeapsGoOn DEF HeapsStep, vars
<1> QED
  BY <1>1, HeapsAlways, PTL DEF HeapsSpec, PayloadKept

\* Both heaps implement the allocator: every malloc hands out a stretch that is apart
\* from all others and as long as was asked for, within the slack, or gives up, and then
\* no gap between the blocks in use was long enough, however they came and went.
THEOREM HeapsAllocate == HeapsSpec => ImplementsAllocator
<1>1. HeapsInit => (design = "best" => AsAllocator!Init) /\ (design = "first" => F!AsAllocator!Init)
  <2> SUFFICES ASSUME HeapsInit PROVE (design = "best" => AsAllocator!Init) /\ (design = "first" => F!AsAllocator!Init)
    OBVIOUS
  <2>1. design = "best" => AsAllocator!Init
    BY DEF HeapsInit, Init, AsAllocator!Init
  <2>2. design = "first" => F!AsAllocator!Init
    BY DEF HeapsInit, F!Init, F!AsAllocator!Init
  <2> QED
    BY <2>1, <2>2
<1>2. ASSUME HeapsInv, [HeapsNext]_<<vars, design, stepped>>
      PROVE  [/\ design = "best" => AsAllocator!Next
              /\ design = "first" => F!AsAllocator!Next]_vars
  BY <1>2, HeapsGoOn DEF HeapsStep, vars
<1> QED
  BY <1>1, <1>2, HeapsAlways, PTL DEF HeapsSpec, ImplementsAllocator

\* Whatever memory, sizes and callers there are, and however the writes of the callers
\* interleave: each call of malloc and free does to the heap what it does alone, all of
\* it when the lock is given back.  The lock of heap.cc is taken before the first look
\* at the heap and given back after the last write, on every way out; and the writes, in
\* the order of the code, amount to what the one step does.
THEOREM HeapsCallsAreOneStep == HeapsSpec => CallsAreOneStep
<1>1. HeapsInit => (design = "best steps" => BS!Whole!Init) /\ (design = "first steps" => FS!Whole!Init)
  <2> SUFFICES ASSUME HeapsInit
               PROVE  (design = "best steps" => BS!Whole!Init) /\ (design = "first steps" => FS!Whole!Init)
    OBVIOUS
  <2>1. design = "best steps" => BS!Whole!Init
    BY BestStepsStart DEF HeapsInit
  <2>2. design = "first steps" => FS!Whole!Init
    BY FirstStepsStart DEF HeapsInit
  <2> QED
    BY <2>1, <2>2
<1>2. ASSUME HeapsInv, [HeapsNext]_<<vars, design, stepped>>
      PROVE  [/\ design = "best steps" => BS!Whole!Next
              /\ design = "first steps" => FS!Whole!Next]_<<before, live, failed>>
  <2>1. CASE HeapsNext
    BY <1>2, <2>1, HeapsGoOn DEF HeapsStep
  <2>2. CASE UNCHANGED <<vars, design, stepped>>
    BY <2>2 DEF vars, stepped
  <2> QED
    BY <1>2, <2>1, <2>2
<1> QED
  BY <1>1, <1>2, HeapsAlways, PTL DEF HeapsSpec, CallsAreOneStep
=============================================================================
