---------------------------- MODULE BobFSProofs ----------------------------
(***************************************************************************)
(* The file system keeps its blocks, its directories and its superblock in *)
(* order, for any number of i-nodes, blocks and names, any size of block   *)
(* and any number of crashes, and does what Files promises.  BlockInv says *)
(* what is true of pointers and of the call that is being served, FileInv  *)
(* what is true of the words it writes and of those behind the ends of     *)
(* files, DirInv what is true of the entries of directories in front of    *)
(* the first that a crash left incomplete, with the one being written.     *)
(***************************************************************************)
EXTENDS BobFS, FiniteSetTheorems, SequenceTheorems, TLAPS

Inode == [type : {"none", "file", "dir"}, links : Nat, size : Nat,
          direct : Block \cup {Zero}, indirect : Block \cup {Zero}]
\* A block.
Page == [1..BlockWords -> Word]

TypeOK ==
  /\ data \in [Block \cup {Zero} -> Page]
  /\ blockBit \subseteq Block /\ nodeBit \subseteq Inum
  /\ inode \in [Inum -> Inode]
  /\ iroot = Root
  /\ pc \in {"idle", "file", "dir", "write", "bit", "zero", "pointer", "data", "size"}
  /\ page \in Page
  /\ crashes \in Nat /\ crashes <= MaxCrashes

PointersOK == \A n \in Inum : \A s \in Slot : Pointer(n, s) \in Block \cup {Zero}

\* The last block of a node is no hole.
LastBlock == \A n \in Inum : inode[n].size > 0 =>
  LET b == (inode[n].size - 1) \div BlockWords IN
  b \in 0..BlockWords /\ Pointer(n, b) # Zero

\* The words of the call that are not written yet.
Left == IF Len(todo) = 1 THEN Len(todo[1]) ELSE Len(todo)

\* The call writes an entry at the end of a directory, or to a file.
NamingCall ==
  /\ inode[node].type = "dir"
  /\ offset = inode[node].size
  /\ \E n \in Inum, name \in Name :
       todo \in {Entry(n, name), <<<<Length>>, <<name>>>>, <<<<name>>>>}
FileCall ==
  /\ inode[node].type = "file"
  /\ \E buffer \in Seq(Data) \ {<<>>} : todo = <<buffer>>

\* The call will write to the block b of its node.
Touches(b) == b * BlockWords < offset + Left /\ offset < (b + 1) * BlockWords
CallOK == pc # "idle" =>
  /\ node \in Inum /\ offset \in Nat
  /\ NamingCall \/ FileCall
  /\ offset + Left <= MaxWords
  /\ \A b \in 0..BlockWords : Touches(b) /\ b * BlockWords < inode[node].size =>
       Pointer(node, b) # Zero

\* The block found is reached by nothing until a pointer is set to it.
FreshOK ==
  /\ pc \in {"zero", "pointer"} =>
       /\ fresh \in blockBit
       /\ \A n \in Inum : \A s \in Slot : Pointer(n, s) # fresh
  /\ pc = "pointer" => data[fresh] = Filled(Zero)
  /\ pc \in {"bit", "zero", "pointer"} => Lacking # "none"
  /\ pc \in {"data", "size"} => Pointer(node, Current) # Zero

\* An i-node is taken before it is written, and written before its entry.
NodesOK ==
  /\ Root \in nodeBit /\ inode[Root].type = "dir"
  /\ \A n \in Inum : inode[n].type # "none" => n \in nodeBit
  /\ pc \in {"file", "dir"} =>
       /\ fresh \in nodeBit \ {node} /\ inode[fresh].type = "none"
       /\ inode[node].type = "dir"
       /\ \E name \in Name : todo = Entry(fresh, name)

BlockInv ==
  /\ TypeOK /\ SuperblockKept /\ PointersOK /\ BlocksOwned /\ LastBlock
  /\ CallOK /\ FreshOK /\ NodesOK

-----------------------------------------------------------------------------
(* Numbers *)

\* Division, and what a quotient is worth when blocks are counted.
LEMMA Divided == ASSUME NEW a \in Nat, NEW k \in Nat, k > 0
  PROVE a \div k \in Nat /\ a % k \in Nat /\ a % k < k /\ a = (a \div k) * k + (a % k)
OBVIOUS
LEMMA Quotient == ASSUME NEW k \in Nat, k > 0, NEW q \in Nat, NEW r \in Nat, r < k
  PROVE (q * k + r) \div k = q /\ (q * k + r) % k = r
OBVIOUS
LEMMA Times == ASSUME NEW k \in Nat, NEW q \in Nat, NEW p \in Nat, q < p
  PROVE q * k + k <= p * k
OBVIOUS
LEMMA TimesOne == ASSUME NEW k \in Nat, NEW q \in Nat
  PROVE (q + 1) * k = q * k + k /\ q * k \in Nat
OBVIOUS
LEMMA BlocksBelow == ASSUME NEW k \in Nat, k > 0, NEW s \in Nat, NEW b \in Nat
  PROVE b < (s + k - 1) \div k <=> b * k < s
OBVIOUS
LEMMA MinOfTwo == ASSUME NEW a \in Nat, NEW b \in Nat
  PROVE Min({a, b}) = IF a <= b THEN a ELSE b
BY DEF Min
LEMMA MaxOfTwo == ASSUME NEW a \in Nat, NEW b \in Nat
  PROVE Max({a, b}) = IF a <= b THEN b ELSE a
BY DEF Max

-----------------------------------------------------------------------------
(* Calls *)

\* What is left of a call: a buffer of a file, or up to three words of an
\* entry.
LEMMA Buffered ==
  ASSUME CallOK, pc # "idle"
  PROVE  /\ Len(todo) \in 1..3
         /\ todo # <<>> /\ Head(todo) = todo[1]
         /\ Len(todo[1]) \in Nat \ {0}
         /\ \A i \in 1..Len(todo[1]) : todo[1][i] \in Word
         /\ Left \in Nat /\ Len(todo[1]) <= Left
         /\ NamingCall => Len(todo[1]) = 1 /\ Left = Len(todo)
         /\ FileCall => Len(todo) = 1 /\ todo[1] \in Seq(Data) /\ Left = Len(todo[1])
<1>1. CASE NamingCall
  <2>1. PICK n \in Inum, name \in Name :
          todo \in {Entry(n, name), <<<<Length>>, <<name>>>>, <<<<name>>>>}
    BY <1>1 DEF NamingCall
  <2>2. ~FileCall
    BY <1>1 DEF NamingCall, FileCall
  <2>3. CASE todo = Entry(n, name)
    BY <2>2, <2>3 DEF Entry, Word, Left
  <2>4. CASE todo = <<<<Length>>, <<name>>>>
    BY <2>2, <2>4 DEF Word, Left
  <2>5. CASE todo = <<<<name>>>>
    BY <2>2, <2>5 DEF Word, Left
  <2> QED
    BY <2>1, <2>3, <2>4, <2>5
<1>2. CASE FileCall
  <2>1. PICK buffer \in Seq(Data) \ {<<>>} : todo = <<buffer>>
    BY <1>2 DEF FileCall
  <2>2. ~NamingCall
    BY <1>2 DEF NamingCall, FileCall
  <2> QED
    BY <2>1, <2>2 DEF Word, Left
<1> QED
  BY <1>1, <1>2 DEF CallOK

\* A node has the blocks that start before its end.
LEMMA BlocksIn ==
  ASSUME BlockWords \in Nat, BlockWords > 0, NEW n \in Inum, inode[n].size \in Nat, NEW b \in Nat
  PROVE  b < TotalBlocks(n) <=> b * BlockWords < inode[n].size
<1>1. \A s \in Nat : b < (s + BlockWords - 1) \div BlockWords <=> b * BlockWords < s
  BY BlocksBelow
<1> QED
  BY <1>1 DEF TotalBlocks

\* The block that is written now, and the words that go into it.
LEMMA Chunk ==
  ASSUME BobFSAssumption, TypeOK, CallOK, pc # "idle"
  PROVE  /\ node \in Inum /\ offset \in Nat /\ inode[node].size \in Nat
         /\ Current \in 0..BlockWords /\ Start \in 0..BlockWords - 1
         /\ offset = Current * BlockWords + Start
         /\ Count \in 1..BlockWords - Start /\ Count <= Len(todo[1])
         /\ Count = Len(todo[1]) \/ Start + Count = BlockWords
         /\ offset + Count <= offset + Left
         /\ TotalBlocks(node) \in Nat
         /\ Current < TotalBlocks(node) <=> Current * BlockWords < inode[node].size
         /\ Touches(Current)
<1>1. BlockWords \in Nat /\ BlockWords > 0 /\ MaxWords \in Nat /\ MaxWords <= BlockWords * (BlockWords + 1)
  BY DEF BobFSAssumption
<1>2. node \in Inum /\ offset \in Nat /\ offset + Left <= MaxWords
  BY DEF CallOK
<1>3. inode[node].size \in Nat
  BY <1>2 DEF TypeOK, Inode
<1>4. Current \in Nat /\ Start \in Nat /\ Start < BlockWords /\ offset = Current * BlockWords + Start
  BY <1>1, <1>2, Divided DEF Current, Start
<1>5. /\ Head(todo) = todo[1] /\ Len(todo[1]) \in Nat \ {0}
      /\ Left \in Nat /\ Len(todo[1]) <= Left
  BY Buffered
<1>6. Count = IF Len(todo[1]) <= BlockWords - Start THEN Len(todo[1]) ELSE BlockWords - Start
  BY <1>1, <1>4, <1>5, MinOfTwo DEF Count
<1>7. Current < BlockWords + 1
  <2>1. CASE BlockWords + 1 <= Current
    <3>1. (BlockWords + 1) * BlockWords <= Current * BlockWords
      BY <2>1, <1>1, <1>4, Times, TimesOne
    <3>2. BlockWords * (BlockWords + 1) = (BlockWords + 1) * BlockWords
      BY <1>1
    <3> QED
      BY <3>1, <3>2, <1>1, <1>2, <1>4, <1>5, TimesOne
  <2> QED
    BY <2>1, <1>1, <1>4
<1>8. Current < TotalBlocks(node) <=> Current * BlockWords < inode[node].size
  BY <1>1, <1>2, <1>3, <1>4, BlocksIn
<1>11. TotalBlocks(node) \in Nat
  <2>1. inode[node].size + BlockWords - 1 \in Nat
    BY <1>1, <1>3
  <2> QED
    BY <2>1, <1>1, Divided DEF TotalBlocks
<1>9. (Current + 1) * BlockWords = Current * BlockWords + BlockWords /\ Current * BlockWords \in Nat
  BY <1>1, <1>4, TimesOne
<1>10. Touches(Current)
  BY <1>1, <1>4, <1>5, <1>9 DEF Touches
<1> QED
  BY <1>1, <1>2, <1>3, <1>4, <1>5, <1>6, <1>7, <1>8, <1>10, <1>11

LEMMA Below == ASSUME NEW k \in Nat, NEW q \in Nat, NEW b \in Nat, b * k < (q + 1) * k
  PROVE b <= q
<1>1. CASE q < b
  <2>1. q * k + k <= b * k /\ (q + 1) * k = q * k + k /\ q * k \in Nat /\ b * k \in Nat
    BY <1>1, Times, TimesOne
  <2> QED
    BY <2>1
<1> QED
  BY <1>1

-----------------------------------------------------------------------------
(* Pointers *)

LEMMA Shape ==
  ASSUME BobFSAssumption
  PROVE  /\ BlockWords \in Nat /\ BlockWords >= 2 /\ Slot = 0..BlockWords + 1
         /\ Indirect = BlockWords + 1 /\ Root \in Inum /\ Zero \notin Block
         /\ MaxWords \in Nat /\ Filled(Zero) \in Page
         /\ \A i \in 1..BlockWords : Filled(Zero)[i] = Zero
<1>1. BlockWords \in Nat /\ BlockWords >= 2 /\ Root \in Inum /\ Zero \notin Block /\ MaxWords \in Nat
  BY DEF BobFSAssumption
<1>2. Filled(Zero) \in Page /\ \A i \in 1..BlockWords : Filled(Zero)[i] = Zero
  BY DEF Filled, Page, Word
<1> QED
  BY <1>1, <1>2 DEF Slot, Indirect

\* A block before the end is read through its pointer.
LEMMA Present ==
  ASSUME BobFSAssumption, TypeOK, PointersOK, LastBlock,
         NEW n \in Inum, NEW b \in Nat, b * BlockWords < inode[n].size
  PROVE  /\ b \in 0..BlockWords /\ BlockIdx(n, b) = Pointer(n, b)
         /\ Pointer(n, b) \in Block \cup {Zero}
         /\ ReadBlock(n, b) \in Page
<1>1. BlockWords \in Nat /\ BlockWords >= 2 /\ inode[n].size \in Nat /\ Filled(Zero) \in Page
  BY Shape DEF TypeOK, Inode
<1> DEFINE last == (inode[n].size - 1) \div BlockWords
<1>2. b * BlockWords \in Nat /\ inode[n].size - 1 \in Nat
  BY <1>1, TimesOne
<1>3. last \in 0..BlockWords /\ Pointer(n, last) # Zero
  BY <1>1, <1>2 DEF LastBlock
<1>4. inode[n].size - 1 < (last + 1) * BlockWords
  <2> HIDE DEF last
  <2>1. last \in Nat /\ (last + 1) * BlockWords = last * BlockWords + BlockWords
    BY <1>1, <1>3, TimesOne
  <2>2. inode[n].size - 1 < last * BlockWords + BlockWords
    <3> DEFINE top == inode[n].size - 1
    <3>1. top \in Nat /\ last = top \div BlockWords
      BY <1>2 DEF last
    <3> HIDE DEF top
    <3>2. top < (top \div BlockWords) * BlockWords + BlockWords
      BY <3>1, <1>1, Divided
    <3> QED
      BY <3>1, <3>2 DEF top
  <2> QED
    BY <2>1, <2>2
<1> HIDE DEF last
<1>5. b * BlockWords < (last + 1) * BlockWords
  <2>1. (last + 1) * BlockWords \in Nat
    BY <1>1, <1>3, TimesOne
  <2> QED
    BY <1>1, <1>2, <1>4, <2>1
<1>6. b <= last
  BY <1>1, <1>3, <1>5, Below
<1>7. b \in 0..BlockWords
  BY <1>3, <1>6
<1>8. BlockIdx(n, b) = Pointer(n, b)
  <2>1. CASE b = 0
    BY <2>1 DEF BlockIdx, Pointer
  <2>2. CASE b # 0
    <3>1. last # 0 /\ last # Indirect /\ b # Indirect
      BY <1>1, <1>3, <1>6, <1>7, <2>2 DEF Indirect
    <3>2. inode[n].indirect # Zero
      BY <1>3, <3>1 DEF Pointer
    <3> QED
      BY <2>2, <3>1, <3>2 DEF BlockIdx, Pointer
  <2> QED
    BY <2>1, <2>2
<1>9. Pointer(n, b) \in Block \cup {Zero}
  BY <1>1, <1>7, Shape DEF PointersOK
<1> QED
  BY <1>1, <1>7, <1>8, <1>9 DEF ReadBlock, TypeOK

\* Pointers that stay keep every block with its owner.
LEMMA SamePointers ==
  ASSUME PointersOK, BlocksOwned, blockBit \subseteq blockBit',
         \A n \in Inum : \A s \in Slot : Pointer(n, s)' \in {Pointer(n, s), Zero}
  PROVE  PointersOK' /\ BlocksOwned'
<1>1. PointersOK'
  BY DEF PointersOK
<1>2. ASSUME NEW n \in Inum, NEW m \in Inum, NEW s \in Slot, NEW t \in Slot, Pointer(n, s)' # Zero
      PROVE  /\ Pointer(n, s)' \in blockBit'
             /\ Pointer(n, s)' = Pointer(m, t)' => n = m /\ s = t
  <2>1. Pointer(n, s)' = Pointer(n, s) /\ Pointer(m, t)' \in {Pointer(m, t), Zero}
    BY <1>2
  <2>2. Pointer(n, s) \in blockBit /\ (Pointer(n, s) = Pointer(m, t) => n = m /\ s = t)
    BY <1>2, <2>1 DEF BlocksOwned
  <2> QED
    BY <1>2, <2>1, <2>2
<1> QED
  BY <1>1, <1>2 DEF BlocksOwned

\* One pointer more, to a block that nothing had: every block still has one
\* owner.
LEMMA OneMorePointer ==
  ASSUME PointersOK, BlocksOwned, blockBit' = blockBit, TypeOK, FreshOK, pc = "pointer",
         NEW k \in Inum, NEW u \in Slot, Pointer(k, u)' = fresh,
         \A n \in Inum : \A s \in Slot :
           n # k \/ s # u => Pointer(n, s)' = Pointer(n, s)
  PROVE  PointersOK' /\ BlocksOwned'
<1>1. fresh \in blockBit /\ fresh \in Block
  BY DEF FreshOK, TypeOK
<1>2. \A n \in Inum : \A s \in Slot : Pointer(n, s) # fresh
  BY DEF FreshOK
<1>3. PointersOK'
  BY <1>1 DEF PointersOK
<1>4. ASSUME NEW n \in Inum, NEW m \in Inum, NEW s \in Slot, NEW t \in Slot, Pointer(n, s)' # Zero
      PROVE  /\ Pointer(n, s)' \in blockBit'
             /\ Pointer(n, s)' = Pointer(m, t)' => n = m /\ s = t
  <2>1. CASE n = k /\ s = u
    <3>1. (m = k /\ t = u) \/ Pointer(m, t)' # fresh
      BY <1>2
    <3> QED
      BY <2>1, <3>1, <1>1
  <2>2. CASE ~(n = k /\ s = u)
    <3>1. Pointer(n, s)' = Pointer(n, s)
      BY <2>2
    <3>2. Pointer(n, s) \in blockBit /\ (Pointer(n, s) = Pointer(m, t) => n = m /\ s = t)
      BY <1>4, <3>1 DEF BlocksOwned
    <3>3. Pointer(n, s) # fresh
      BY <1>2
    <3> QED
      BY <3>1, <3>2, <3>3
  <2> QED
    BY <2>1, <2>2
<1> QED
  BY <1>3, <1>4 DEF BlocksOwned

\* A last block that was there is still there.
LEMMA SameEnds ==
  ASSUME LastBlock,
         \A n \in Inum : inode'[n].size = inode[n].size \/ inode'[n].size = 0,
         \A n \in Inum : \A s \in Slot :
           inode'[n].size # 0 /\ Pointer(n, s) # Zero => Pointer(n, s)' # Zero,
         BobFSAssumption
  PROVE  LastBlock'
<1> SUFFICES ASSUME NEW n \in Inum, inode'[n].size > 0,
                    NEW b, b = (inode'[n].size - 1) \div BlockWords
             PROVE  b \in 0..BlockWords /\ Pointer(n, b)' # Zero
  BY DEF LastBlock
<1>1. inode'[n].size = inode[n].size /\ inode'[n].size # 0
  OBVIOUS
<1>2. b \in 0..BlockWords /\ Pointer(n, b) # Zero
  BY <1>1 DEF LastBlock
<1>3. b \in Slot
  BY <1>2, Shape
<1> QED
  BY <1>1, <1>2, <1>3

\* A call goes on while its node keeps type and size and loses no block.
LEMMA SameCall ==
  ASSUME CallOK, pc # "idle", UNCHANGED <<node, offset, todo>>, BobFSAssumption,
         inode'[node].type = inode[node].type, inode'[node].size = inode[node].size,
         \A s \in Slot : Pointer(node, s) # Zero => Pointer(node, s)' # Zero
  PROVE  CallOK'
<1>1. node \in Inum /\ offset \in Nat /\ (NamingCall \/ FileCall) /\ offset + Left <= MaxWords
  BY DEF CallOK
<1>2. Left' = Left
  BY DEF Left
<1>3. NamingCall' \/ FileCall'
  BY <1>1 DEF NamingCall, FileCall
<1>4. ASSUME NEW b \in 0..BlockWords, Touches(b)', b * BlockWords < inode'[node].size
      PROVE  Pointer(node, b)' # Zero
  <2>1. Touches(b)
    BY <1>2, <1>4 DEF Touches
  <2>2. Pointer(node, b) # Zero
    BY <1>4, <2>1 DEF CallOK
  <2> QED
    BY <2>2, Shape
<1>5. \A b \in 0..BlockWords :
        Touches(b)' /\ b * BlockWords < inode'[node].size => Pointer(node, b)' # Zero
  BY <1>4
<1> QED
  BY <1>1, <1>2, <1>3, <1>5 DEF CallOK

\* i-nodes that keep their types.
LEMMA SameNodes ==
  ASSUME NodesOK, nodeBit' = nodeBit, BobFSAssumption,
         \A n \in Inum : inode'[n].type = inode[n].type,
         pc' \notin {"file", "dir"}
  PROVE  NodesOK'
BY Shape DEF NodesOK

-----------------------------------------------------------------------------
(* The blocks in every step *)

\* WritePage: what is lacking is looked for, or the block is there.
LEMMA WriteNextBlocks ==
  ASSUME BobFSAssumption, BlockInv, WritePage
  PROVE  BlockInv'
<1> USE DEF BlockInv
<1>1. pc = "write" /\ pc' = (IF Lacking = "none" THEN "data" ELSE "bit")
  BY DEF WritePage, WriteNext
<1>2. /\ UNCHANGED <<data, blockBit, nodeBit, inode, iroot, node, offset, todo, fresh, crashes>>
  BY DEF WritePage, disk, call
<1>3. \A n \in Inum : \A s \in Slot : Pointer(n, s)' = Pointer(n, s)
  BY <1>2 DEF Pointer
<1>4. PointersOK' /\ BlocksOwned'
  BY <1>2, <1>3, SamePointers
<1>5. LastBlock'
  BY <1>2, <1>3, SameEnds
<1>6. CallOK'
  <2>1. node \in Inum
    BY <1>1 DEF CallOK
  <2> QED
    BY <1>1, <1>2, <1>3, <2>1, SameCall
<1>7. NodesOK'
  BY <1>1, <1>2, SameNodes
<1>8. page' \in Page
  <2>1. /\ Current \in 0..BlockWords /\ Start \in 0..BlockWords - 1
        /\ Count \in 1..BlockWords - Start /\ Count <= Len(todo[1])
        /\ node \in Inum /\ Head(todo) = todo[1] /\ Len(todo[1]) \in Nat
        /\ \A i \in 1..Len(todo[1]) : todo[1][i] \in Word
        /\ Current < TotalBlocks(node) <=> Current * BlockWords < inode[node].size
    BY <1>1, Chunk, Buffered
  <2>2. Current < TotalBlocks(node) => ReadBlock(node, Current) \in Page
    BY <2>1, Present
  <2>3. Current \in Nat /\ TotalBlocks(node) \in Nat
    BY <2>1, <1>1, Chunk, Shape
  <2>4. ASSUME NEW i \in 1..BlockWords
        PROVE  (IF i \in Start + 1..Start + Count THEN Head(todo)[i - Start]
                ELSE IF Current >= TotalBlocks(node) THEN Zero
                ELSE ReadBlock(node, Current)[i]) \in Word
    <3>1. CASE i \in Start + 1..Start + Count
      <4>1. i - Start \in 1..Len(todo[1])
        BY <3>1, <2>1, Shape
      <4> QED
        BY <3>1, <4>1, <2>1
    <3>2. CASE i \notin Start + 1..Start + Count /\ Current >= TotalBlocks(node)
      BY <3>2 DEF Word
    <3>3. CASE i \notin Start + 1..Start + Count /\ Current < TotalBlocks(node)
      BY <3>3, <2>2, <2>3 DEF Page
    <3> QED
      BY <3>1, <3>2, <3>3, <2>3
  <2>5. page' = [i \in 1..BlockWords |->
         IF i \in Start + 1..Start + Count THEN Head(todo)[i - Start]
         ELSE IF Current >= TotalBlocks(node) THEN Zero
         ELSE ReadBlock(node, Current)[i]]
    BY DEF WritePage
  <2> QED
    BY <2>4, <2>5 DEF Page
<1>9. TypeOK' /\ SuperblockKept'
  BY <1>1, <1>2, <1>8 DEF TypeOK, SuperblockKept, Superblock, Filled
<1>10. FreshOK'
  <2>1. Lacking' = Lacking
    BY <1>2 DEF Lacking, Current, TotalBlocks
  <2>2. CASE Lacking = "none"
    <3>1. Current < TotalBlocks(node) \/ (Current = 0 /\ inode[node].direct # Zero)
      BY <2>2 DEF Lacking
    <3>2. Current \in 0..BlockWords /\ Touches(Current)
      BY <1>1, Chunk
    <3>5. Pointer(node, Current) # Zero
      <4>1. CASE Current < TotalBlocks(node)
        <5>1. Current * BlockWords < inode[node].size
          BY <1>1, <4>1, Chunk
        <5> QED
          BY <1>1, <3>2, <5>1 DEF CallOK
      <4>2. CASE Current = 0 /\ inode[node].direct # Zero
        BY <4>2 DEF Pointer
      <4> QED
        BY <3>1, <4>1, <4>2
    <3>6. Pointer(node, Current)' = Pointer(node, Current)
      BY <1>2 DEF Pointer, Current
    <3> QED
      BY <1>1, <2>2, <3>5, <3>6 DEF FreshOK
  <2>3. CASE Lacking # "none"
    BY <1>1, <2>1, <2>3 DEF FreshOK
  <2> QED
    BY <2>2, <2>3
<1> QED
  BY <1>4, <1>5, <1>6, <1>7, <1>9, <1>10

\* FindEmptyBlock: the block found was free, so no pointer leads to it.
LEMMA FindBlocks ==
  ASSUME BobFSAssumption, BlockInv, FindEmptyBlock
  PROVE  BlockInv'
<1> USE DEF BlockInv
<1>1. pc = "bit" /\ pc' = "zero"
  BY DEF FindEmptyBlock
<1>2. UNCHANGED <<data, nodeBit, inode, iroot, node, offset, todo, page, crashes>>
  BY DEF FindEmptyBlock, call
<1>3. fresh' \in Block /\ fresh' \notin blockBit /\ blockBit' = blockBit \cup {fresh'}
  BY DEF FindEmptyBlock, FirstEmpty
<1>4. \A n \in Inum : \A s \in Slot : Pointer(n, s)' = Pointer(n, s)
  BY <1>2 DEF Pointer
<1>5. PointersOK' /\ BlocksOwned'
  BY <1>3, <1>4, SamePointers
<1>6. LastBlock'
  BY <1>2, <1>4, SameEnds
<1>7. CallOK'
  <2>1. node \in Inum
    BY <1>1 DEF CallOK
  <2> QED
    BY <1>1, <1>2, <1>4, <2>1, SameCall
<1>8. NodesOK'
  BY <1>1, <1>2, SameNodes
<1>9. TypeOK' /\ SuperblockKept'
  BY <1>1, <1>2, <1>3 DEF TypeOK, SuperblockKept, Superblock, Filled
<1>10. FreshOK'
  <2>1. Lacking' = Lacking
    BY <1>2 DEF Lacking, Current, TotalBlocks
  <2>2. Zero \notin Block
    BY Shape
  <2>3. ASSUME NEW n \in Inum, NEW s \in Slot
        PROVE  Pointer(n, s)' # fresh'
    <3>1. Pointer(n, s) # Zero => Pointer(n, s) \in blockBit
      BY DEF BlocksOwned
    <3> QED
      BY <3>1, <2>2, <1>3, <1>4
  <2> QED
    BY <1>1, <1>3, <2>1, <2>3 DEF FreshOK
<1> QED
  BY <1>5, <1>6, <1>7, <1>8, <1>9, <1>10

\* ZeroBlock clears a block that nothing leads to.
LEMMA ZeroBlocks ==
  ASSUME BobFSAssumption, BlockInv, ZeroBlock
  PROVE  /\ BlockInv' /\ fresh \in Block /\ data'[fresh] = Filled(Zero)
         /\ \A b \in Block \cup {Zero} : b # fresh => data'[b] = data[b]
         /\ \A n \in Inum : \A s \in Slot : Pointer(n, s) # fresh /\ Pointer(n, s)' = Pointer(n, s)
<1> USE DEF BlockInv
<1>1. pc = "zero" /\ pc' = "pointer" /\ data' = [data EXCEPT ![fresh] = Filled(Zero)]
  BY DEF ZeroBlock
<1>2. UNCHANGED <<blockBit, nodeBit, inode, iroot, node, offset, todo, page, fresh, crashes>>
  BY DEF ZeroBlock, call
<1>3. /\ fresh \in Block /\ Zero \notin Block
      /\ \A n \in Inum : \A s \in Slot : Pointer(n, s) # fresh
  BY <1>1, Shape DEF FreshOK, TypeOK
<1>4. data'[fresh] = Filled(Zero) /\ \A b \in Block \cup {Zero} : b # fresh => data'[b] = data[b]
  BY <1>1, <1>3 DEF TypeOK
<1>5. ASSUME NEW n \in Inum, NEW s \in Slot
      PROVE  Pointer(n, s)' = Pointer(n, s)
  <2>1. Pointer(n, Indirect) = inode[n].indirect /\ Indirect \in Slot
    BY Shape DEF Pointer
  <2>2. inode[n].indirect # fresh /\ inode[n].indirect \in Block \cup {Zero}
    BY <1>3, <2>1 DEF PointersOK
  <2>3. data'[inode[n].indirect] = data[inode[n].indirect]
    BY <1>4, <2>2
  <2> QED
    BY <1>2, <2>3 DEF Pointer
<1>6. PointersOK' /\ BlocksOwned'
  BY <1>2, <1>5, SamePointers
<1>7. LastBlock'
  BY <1>2, <1>5, SameEnds
<1>8. CallOK'
  <2>1. node \in Inum
    BY <1>1 DEF CallOK
  <2> QED
    BY <1>1, <1>2, <1>5, <2>1, SameCall
<1>9. NodesOK'
  BY <1>1, <1>2, SameNodes
<1>10. TypeOK' /\ SuperblockKept'
  <2>1. data' \in [Block \cup {Zero} -> Page]
    BY <1>1, Shape DEF TypeOK
  <2>2. data'[Zero] = data[Zero]
    BY <1>3, <1>4
  <2> QED
    BY <1>1, <1>2, <2>1, <2>2 DEF TypeOK, SuperblockKept, Superblock, Filled
<1>11. FreshOK'
  <2>1. Lacking' = Lacking
    BY <1>2 DEF Lacking, Current, TotalBlocks
  <2> QED
    BY <1>1, <1>2, <1>4, <1>5, <2>1 DEF FreshOK, Filled
<1> QED
  BY <1>3, <1>4, <1>5, <1>6, <1>7, <1>8, <1>9, <1>10, <1>11

\* SetPointer, whichever pointer it sets: the block found gets its owner.
LEMMA PointerGained ==
  ASSUME BobFSAssumption, BlockInv, pc = "pointer", fresh' = Zero,
         UNCHANGED <<blockBit, nodeBit, iroot, node, offset, todo, page, crashes>>,
         NEW k \in Inum, k = node, NEW u \in Slot, Pointer(k, u)' = fresh,
         \A n \in Inum : \A s \in Slot : n # k \/ s # u => Pointer(n, s)' = Pointer(n, s),
         \A n \in Inum : inode'[n].type = inode[n].type /\ inode'[n].size = inode[n].size,
         (pc' = "data" /\ u = Current) \/ (pc' = "bit" /\ Lacking' # "none"),
         data' \in [Block \cup {Zero} -> Page], data'[Zero] = data[Zero],
         inode' \in [Inum -> Inode]
  PROVE  BlockInv'
<1> USE DEF BlockInv
<1>1. fresh \in Block /\ Zero \notin Block
  BY Shape DEF FreshOK, TypeOK
<1>2. PointersOK' /\ BlocksOwned'
  BY OneMorePointer
<1>3. \A n \in Inum : \A s \in Slot : Pointer(n, s) # Zero => Pointer(n, s)' # Zero
  BY <1>1
<1>4. LastBlock'
  BY <1>3, SameEnds
<1>5. CallOK'
  BY <1>3, SameCall
<1>6. NodesOK'
  BY SameNodes
<1>7. TypeOK' /\ SuperblockKept'
  BY DEF TypeOK, SuperblockKept, Superblock, Filled
<1>8. FreshOK'
  <2>1. CASE pc' = "data" /\ u = Current
    <3>1. node' = k /\ Current' = u
      BY <2>1 DEF Current
    <3> QED
      BY <2>1, <3>1, <1>1 DEF FreshOK
  <2>2. CASE pc' = "bit" /\ Lacking' # "none"
    BY <2>2 DEF FreshOK
  <2> QED
    BY <2>1, <2>2
<1> QED
  BY <1>2, <1>4, <1>5, <1>6, <1>7, <1>8

LEMMA PointerSet ==
  ASSUME BobFSAssumption, BlockInv, SetPointer
  PROVE  /\ pc = "pointer" /\ fresh' = Zero
         /\ UNCHANGED <<blockBit, nodeBit, iroot, node, offset, todo, page, crashes>>
         /\ data' \in [Block \cup {Zero} -> Page] /\ data'[Zero] = data[Zero]
         /\ inode' \in [Inum -> Inode]
         /\ \A n \in Inum : inode'[n].type = inode[n].type /\ inode'[n].size = inode[n].size
                            /\ inode'[n].links = inode[n].links
         /\ \E u \in Slot :
              /\ Pointer(node, u)' = fresh
              /\ \A n \in Inum : \A s \in Slot : n # node \/ s # u => Pointer(n, s)' = Pointer(n, s)
              /\ (pc' = "data" /\ u = Current) \/ (pc' = "bit" /\ Lacking' # "none")
         /\ data'[fresh] = Filled(Zero)
         /\ \A n \in Inum : \A s \in Slot : s # Indirect => data'[Pointer(n, s)] = data[Pointer(n, s)]
<1> TypeOK /\ FreshOK /\ CallOK /\ BlocksOwned
  BY DEF BlockInv
<1>1. pc = "pointer" /\ fresh' = Zero
  BY DEF SetPointer
<1>2. UNCHANGED <<blockBit, nodeBit, iroot, node, offset, todo, page, crashes>>
  BY DEF SetPointer, call
<1>0. PICK k \in Inum : k = node
  BY <1>1 DEF CallOK
<1>3. node \in Inum /\ fresh \in Block /\ Zero \notin Block /\ data[fresh] = Filled(Zero)
  BY <1>1, Shape DEF CallOK, FreshOK, TypeOK
<1>4. Current \in 0..BlockWords /\ inode[k] \in Inode
  BY <1>0, <1>1, <1>3, Chunk DEF TypeOK
<1>6. CASE /\ Lacking = "direct"
           /\ inode' = [inode EXCEPT ![node].direct = fresh]
           /\ pc' = IF Current = 0 THEN "data" ELSE "bit"
           /\ UNCHANGED data
  <2>1. inode[k].direct = Zero /\ ~(Current < TotalBlocks(node))
    BY <1>0, <1>6 DEF Lacking
  <2>2. /\ inode' \in [Inum -> Inode]
        /\ \A n \in Inum : n # k => inode'[n] = inode[n]
        /\ inode'[k].direct = fresh /\ inode'[k].indirect = inode[k].indirect
        /\ inode'[k].type = inode[k].type /\ inode'[k].size = inode[k].size
        /\ inode'[k].links = inode[k].links
    <3>1. inode \in [Inum -> Inode] /\ inode[k] \in Inode /\ fresh \in Block \cup {Zero}
      BY <1>3 DEF TypeOK
    <3>2. inode' = [inode EXCEPT ![k] = [inode[k] EXCEPT !.direct = fresh]]
      BY <1>0, <1>6
    <3>3. [inode[k] EXCEPT !.direct = fresh] \in Inode
      BY <3>1 DEF Inode
    <3>4. \A n \in Inum : n # k => inode'[n] = inode[n]
      BY <3>1, <3>2
    <3>5. inode'[k] = [inode[k] EXCEPT !.direct = fresh]
      BY <3>1, <3>2
    <3>6. inode' \in [Inum -> Inode]
      BY <3>1, <3>2, <3>3
    <3> QED
      BY <3>1, <3>4, <3>5, <3>6 DEF Inode
  <2>3. Pointer(k, 0)' = fresh /\ 0 \in Slot
    BY <2>2, Shape DEF Pointer
  <2>4. \A n \in Inum : \A s \in Slot : n # k \/ s # 0 => Pointer(n, s)' = Pointer(n, s)
    <3>1. data' = data
      BY <1>6
    <3> QED
      BY <3>1, <2>2 DEF Pointer
  <2>5. Current # 0 => Lacking' # "none"
    BY <1>0, <1>2, <1>3, <2>1, <2>2 DEF Lacking, Current, TotalBlocks
  <2>6. \A n \in Inum : inode'[n].type = inode[n].type /\ inode'[n].size = inode[n].size
                        /\ inode'[n].links = inode[n].links
    BY <2>2
  <2>7. data' \in [Block \cup {Zero} -> Page] /\ data'[Zero] = data[Zero]
    BY <1>6 DEF TypeOK
  <2>8. (pc' = "data" /\ 0 = Current) \/ (pc' = "bit" /\ Lacking' # "none")
    BY <1>6, <2>5
  <2> QED
    BY <1>0, <1>1, <1>2, <1>3, <1>6, <2>2, <2>3, <2>4, <2>6, <2>7, <2>8
<1>7. CASE /\ Lacking = "indirect"
           /\ inode' = [inode EXCEPT ![node].indirect = fresh]
           /\ pc' = "bit"
           /\ UNCHANGED data
  <2>1. /\ inode[k].indirect = Zero /\ inode[k].direct # Zero /\ Current # 0
        /\ ~(Current < TotalBlocks(node))
    BY <1>0, <1>7 DEF Lacking
  <2>2. /\ inode' \in [Inum -> Inode]
        /\ \A n \in Inum : n # k => inode'[n] = inode[n]
        /\ inode'[k].direct = inode[k].direct /\ inode'[k].indirect = fresh
        /\ inode'[k].type = inode[k].type /\ inode'[k].size = inode[k].size
        /\ inode'[k].links = inode[k].links
    <3>1. inode \in [Inum -> Inode] /\ inode[k] \in Inode /\ fresh \in Block \cup {Zero}
      BY <1>3 DEF TypeOK
    <3>2. inode' = [inode EXCEPT ![k] = [inode[k] EXCEPT !.indirect = fresh]]
      BY <1>0, <1>7
    <3>3. [inode[k] EXCEPT !.indirect = fresh] \in Inode
      BY <3>1 DEF Inode
    <3>4. \A n \in Inum : n # k => inode'[n] = inode[n]
      BY <3>1, <3>2
    <3>5. inode'[k] = [inode[k] EXCEPT !.indirect = fresh]
      BY <3>1, <3>2
    <3>6. inode' \in [Inum -> Inode]
      BY <3>1, <3>2, <3>3
    <3> QED
      BY <3>1, <3>4, <3>5, <3>6 DEF Inode
  <2>3. Pointer(k, Indirect)' = fresh /\ Indirect \in Slot
    BY <2>2, Shape DEF Pointer
  <2>4. ASSUME NEW n \in Inum, NEW s \in Slot, n # k \/ s # Indirect
        PROVE  Pointer(n, s)' = Pointer(n, s)
    <3>1. CASE n # k
      <4>1. data' = data /\ inode'[n] = inode[n]
        BY <3>1, <1>7, <2>2
      <4> QED
        BY <4>1 DEF Pointer
    <3>2. CASE n = k /\ s # 0
      <4>1. s # Indirect /\ s \in 1..BlockWords
        BY <2>4, <3>2, Shape
      <4>2. data'[fresh][s] = Zero
        BY <1>3, <1>7, <4>1, Shape
      <4> QED
        BY <3>2, <4>1, <4>2, <2>1, <2>2 DEF Pointer
    <3>3. CASE n = k /\ s = 0
      BY <3>3, <2>2 DEF Pointer
    <3> QED
      BY <3>1, <3>2, <3>3
  <2>5. Lacking' # "none"
    BY <1>0, <1>2, <1>3, <2>1, <2>2 DEF Lacking, Current, TotalBlocks
  <2>6. \A n \in Inum : inode'[n].type = inode[n].type /\ inode'[n].size = inode[n].size
                        /\ inode'[n].links = inode[n].links
    BY <2>2
  <2>7. data' \in [Block \cup {Zero} -> Page] /\ data'[Zero] = data[Zero]
    BY <1>7 DEF TypeOK
  <2>8. pc' = "bit"
    BY <1>7
  <2> QED
    BY <1>0, <1>1, <1>2, <1>3, <1>7, <2>2, <2>3, <2>4, <2>5, <2>6, <2>7, <2>8
<1>8. CASE /\ Lacking = "entry"
           /\ data' = [data EXCEPT ![inode[node].indirect][Current] = fresh]
           /\ pc' = "data"
           /\ UNCHANGED inode
  <2>0. PICK c \in 0..BlockWords : c = Current
    BY <1>4
  <2>1. inode[k].indirect # Zero /\ Current # 0
    BY <1>0, <1>8 DEF Lacking
  <2>2. inode[k].indirect \in Block /\ inode[k].indirect = Pointer(k, Indirect) /\ Indirect \in Slot
    BY <1>4, <2>1, Shape DEF Inode, Pointer
  <2>3. Current \in 1..BlockWords /\ Current \in Slot /\ Current # Indirect
    BY <1>4, <2>1, Shape
  <2>4. /\ data' \in [Block \cup {Zero} -> Page]
        /\ data'[inode[k].indirect][Current] = fresh
        /\ \A s \in 1..BlockWords : s # Current =>
             data'[inode[k].indirect][s] = data[inode[k].indirect][s]
        /\ \A b \in Block \cup {Zero} : b # inode[k].indirect => data'[b] = data[b]
    BY <1>0, <1>3, <1>8, <2>2, <2>3 DEF TypeOK, Page, Word
  <2>5. Pointer(k, c)' = fresh
    <3>1. /\ c # 0 /\ c # Indirect /\ inode'[k].indirect # Zero
          /\ data'[inode'[k].indirect][c] = fresh
      BY <1>8, <2>0, <2>1, <2>3, <2>4
    <3> QED
      BY <3>1 DEF Pointer
  <2>6. ASSUME NEW n \in Inum, NEW s \in Slot, n # k \/ s # c
        PROVE  Pointer(n, s)' = Pointer(n, s)
    <3>1. CASE s = 0 \/ s = Indirect \/ inode[n].indirect = Zero
      BY <3>1, <1>8 DEF Pointer
    <3>2. CASE s # 0 /\ s # Indirect /\ inode[n].indirect # Zero
      <4>1. s \in 1..BlockWords
        BY <3>2, Shape
      <4>2. n # k => inode[n].indirect # inode[k].indirect
        <5>1. Pointer(n, Indirect) = inode[n].indirect
          BY Shape DEF Pointer
        <5> QED
          BY <2>2, <3>2, <5>1 DEF BlocksOwned
      <4>3. inode[n].indirect \in Block
        BY <3>2 DEF TypeOK, Inode
      <4>4. data'[inode[n].indirect][s] = data[inode[n].indirect][s]
        BY <2>0, <2>4, <2>6, <4>1, <4>2, <4>3
      <4> QED
        BY <1>8, <3>2, <4>4 DEF Pointer
    <3> QED
      BY <3>1, <3>2
  <2>7. data'[Zero] = data[Zero]
    BY <2>1, <2>4
  <2>8. inode' \in [Inum -> Inode]
    BY <1>8 DEF TypeOK
  <2>9. pc' = "data" /\ inode' = inode /\ c \in Slot
    BY <1>8, <2>0, <2>3
  <2>10. data'[fresh] = Filled(Zero)
    BY <1>1, <1>3, <2>2, <2>4 DEF FreshOK
  <2>11. ASSUME NEW n \in Inum, NEW s \in Slot, s # Indirect
         PROVE  data'[Pointer(n, s)] = data[Pointer(n, s)]
    <3>1. Pointer(n, s) \in Block \cup {Zero}
      BY DEF BlockInv, PointersOK
    <3>2. Pointer(n, s) # inode[k].indirect
      BY <2>1, <2>2, <2>11 DEF BlocksOwned
    <3> QED
      BY <2>4, <3>1, <3>2
  <2> QED
    BY <1>0, <1>1, <1>2, <2>0, <2>4, <2>5, <2>6, <2>7, <2>8, <2>9, <2>10, <2>11
<1> QED
  BY <1>6, <1>7, <1>8 DEF SetPointer

\* SetPointer: the three places where a pointer may be written.
LEMMA PointerBlocks ==
  ASSUME BobFSAssumption, BlockInv, SetPointer
  PROVE  BlockInv'
<1>1. PICK k \in Inum : k = node
  BY PointerSet DEF BlockInv, CallOK
<1>2. PICK u \in Slot :
        /\ Pointer(k, u)' = fresh
        /\ \A n \in Inum : \A s \in Slot : n # k \/ s # u => Pointer(n, s)' = Pointer(n, s)
        /\ (pc' = "data" /\ u = Current) \/ (pc' = "bit" /\ Lacking' # "none")
  BY <1>1, PointerSet
<1>3. /\ pc = "pointer" /\ fresh' = Zero
      /\ UNCHANGED <<blockBit, nodeBit, iroot, node, offset, todo, page, crashes>>
      /\ data' \in [Block \cup {Zero} -> Page] /\ data'[Zero] = data[Zero]
      /\ inode' \in [Inum -> Inode]
      /\ \A n \in Inum : inode'[n].type = inode[n].type /\ inode'[n].size = inode[n].size
  BY PointerSet
<1> QED
  BY <1>1, <1>2, <1>3, PointerGained

\* WriteData: the block written is no block of pointers, and not the
\* superblock.
LEMMA DataBlocks ==
  ASSUME BobFSAssumption, BlockInv, WriteData
  PROVE  /\ BlockInv'
         /\ BlockIdx(node, Current) = Pointer(node, Current)
         /\ \A n \in Inum : \A s \in Slot : Pointer(n, s)' = Pointer(n, s)
<1> USE DEF BlockInv
<1>1. /\ pc = "data" /\ pc' = "size" /\ page' = Filled(Zero)
      /\ data' = [data EXCEPT ![BlockIdx(node, Current)] = page]
  BY DEF WriteData
<1>2. UNCHANGED <<blockBit, nodeBit, inode, iroot, node, offset, todo, fresh, crashes>>
  BY DEF WriteData, call
<1>0. node \in Inum /\ Current \in 0..BlockWords
  BY <1>1, Chunk
<1>3. node \in Inum /\ Current \in Slot /\ Current # Indirect /\ Indirect \in Slot
  BY <1>0, Shape
<1>4. Pointer(node, Current) # Zero /\ Pointer(node, Current) \in Block
  BY <1>1, <1>3 DEF FreshOK, PointersOK
<1>5. BlockIdx(node, Current) = Pointer(node, Current)
  BY <1>3, <1>4 DEF BlockIdx, Pointer
<1>6. /\ data' \in [Block \cup {Zero} -> Page]
      /\ \A b \in Block \cup {Zero} : b # Pointer(node, Current) => data'[b] = data[b]
  BY <1>1, <1>4, <1>5 DEF TypeOK
<1>7. ASSUME NEW n \in Inum, NEW s \in Slot
      PROVE  Pointer(n, s)' = Pointer(n, s)
  <2>1. Pointer(n, Indirect) = inode[n].indirect
    BY Shape DEF Pointer
  <2>2. inode[n].indirect # Pointer(node, Current) /\ inode[n].indirect \in Block \cup {Zero}
    BY <1>3, <1>4, <2>1 DEF BlocksOwned, PointersOK
  <2>3. data'[inode[n].indirect] = data[inode[n].indirect]
    BY <1>6, <2>2
  <2> QED
    BY <1>2, <2>3 DEF Pointer
<1>8. PointersOK' /\ BlocksOwned'
  BY <1>2, <1>7, SamePointers
<1>9. LastBlock'
  BY <1>2, <1>7, SameEnds
<1>10. CallOK'
  BY <1>1, <1>2, <1>3, <1>7, SameCall
<1>11. NodesOK'
  BY <1>1, <1>2, SameNodes
<1>12. TypeOK' /\ SuperblockKept'
  BY <1>1, <1>2, <1>4, <1>6, Shape DEF TypeOK, SuperblockKept, Superblock, Filled
<1>13. FreshOK'
  <2>1. PICK k \in Inum, c \in Slot : k = node /\ c = Current
    BY <1>3
  <2>2. Pointer(k, c)' # Zero /\ node' = k /\ Current' = c
    BY <1>2, <1>4, <1>7, <2>1 DEF Current
  <2> QED
    BY <1>1, <2>2 DEF FreshOK
<1> QED
  BY <1>5, <1>7, <1>8, <1>9, <1>10, <1>11, <1>12, <1>13

\* What is behind the first c words of a buffer.
LEMMA RestOf ==
  ASSUME NEW S, NEW s \in Seq(S), NEW c \in 1..Len(s)
  PROVE  LET rest == SubSeq(s, c + 1, Len(s)) IN
         /\ rest \in Seq(S) /\ Len(rest) = Len(s) - c
         /\ rest = <<>> <=> c = Len(s)
<1> DEFINE rest == SubSeq(s, c + 1, Len(s))
<1>1. \A i \in c + 1..Len(s) : s[i] \in S
  OBVIOUS
<1>2. c + 1 \in Int /\ Len(s) \in Int
  OBVIOUS
<1>3. rest \in Seq(S) /\ Len(rest) = IF c + 1 <= Len(s) THEN Len(s) - (c + 1) + 1 ELSE 0
  BY <1>1, <1>2, SubSeqProperties
<1> HIDE DEF rest
<1>4. Len(rest) = Len(s) - c
  BY <1>3
<1>5. rest = <<>> <=> Len(rest) = 0
  BY <1>3
<1> QED
  BY <1>3, <1>4, <1>5 DEF rest

\* The end of a chunk: the call goes on right behind it, or is over.
LEMMA Advance ==
  ASSUME BobFSAssumption, TypeOK, CallOK, SetSize
  PROVE  /\ pc = "size" /\ node' = node /\ offset' = offset + Count
         /\ pc' = (IF todo' = <<>> THEN "idle" ELSE "write")
         /\ todo' # <<>> => Left' = Left - Count
         /\ FileCall => todo' = <<>> \/ \E buffer \in Seq(Data) \ {<<>>} : todo' = <<buffer>>
         /\ NamingCall => Count = 1 /\ todo' = Tail(todo)
         /\ NamingCall => todo' = <<>> \/ \E n \in Inum, name \in Name :
              todo' \in {Entry(n, name), <<<<Length>>, <<name>>>>, <<<<name>>>>}
         /\ inode' \in [Inum -> Inode]
         /\ \A n \in Inum : inode'[n].direct = inode[n].direct /\ inode'[n].indirect = inode[n].indirect
                            /\ inode'[n].type = inode[n].type /\ inode'[n].links = inode[n].links
         /\ \A n \in Inum : n # node => inode'[n] = inode[n]
         /\ inode'[node].size =
              IF inode[node].size <= offset + Count THEN offset + Count ELSE inode[node].size
<1> DEFINE rest == SubSeq(Head(todo), Count + 1, Len(Head(todo)))
<1>1. /\ pc = "size" /\ node' = node /\ offset' = offset + Count
      /\ todo' = (IF rest = <<>> THEN Tail(todo) ELSE <<rest>> \o Tail(todo))
      /\ pc' = (IF todo' = <<>> THEN "idle" ELSE "write")
      /\ inode' = [inode EXCEPT ![node].size = Max({@, offset + Count})]
  BY DEF SetSize
<1>2. /\ node \in Inum /\ offset \in Nat /\ inode[node].size \in Nat /\ BlockWords \in Nat
      /\ Count \in 1..Len(todo[1]) /\ Start \in Nat
  BY <1>1, Chunk, Shape
<1>3. /\ Head(todo) = todo[1] /\ Len(todo[1]) \in Nat
      /\ NamingCall => Len(todo[1]) = 1 /\ Left = Len(todo)
      /\ FileCall => Len(todo) = 1 /\ todo[1] \in Seq(Data) /\ Left = Len(todo[1])
      /\ NamingCall \/ FileCall
  BY <1>1, Buffered DEF CallOK
<1>4. FileCall => /\ todo' # <<>> => Left' = Left - Count
                  /\ todo' = <<>> \/ \E buffer \in Seq(Data) \ {<<>>} : todo' = <<buffer>>
  <2> SUFFICES ASSUME FileCall
               PROVE  /\ todo' # <<>> => Left' = Left - Count
                      /\ todo' = <<>> \/ \E buffer \in Seq(Data) \ {<<>>} : todo' = <<buffer>>
    OBVIOUS
  <2>1. PICK buffer \in Seq(Data) \ {<<>>} : todo = <<buffer>>
    BY DEF FileCall
  <2>2. rest \in Seq(Data) /\ Len(rest) = Len(buffer) - Count /\ Len(buffer) = Left
    <3>1. rest = SubSeq(buffer, Count + 1, Len(buffer)) /\ Count \in 1..Len(buffer)
      BY <1>2, <1>3, <2>1
    <3>2. Len(buffer) = Left
      BY <1>3, <2>1
    <3> HIDE DEF rest
    <3> QED
      BY <3>1, <3>2, RestOf
  <2> HIDE DEF rest
  <2>3. Tail(todo) = <<>> /\ <<rest>> \o Tail(todo) = <<rest>>
    BY <2>1
  <2>4. CASE rest = <<>>
    BY <1>1, <2>3, <2>4
  <2>5. CASE rest # <<>>
    <3>1. todo' = <<rest>>
      BY <1>1, <2>3, <2>5
    <3>2. Left' = Len(rest)
      BY <3>1 DEF Left
    <3> QED
      BY <2>2, <2>5, <3>1, <3>2
  <2> QED
    BY <2>4, <2>5
<1>5. NamingCall => /\ todo' # <<>> => Left' = Left - Count
                    /\ Count = 1 /\ todo' = Tail(todo)
                    /\ todo' = <<>> \/ \E n \in Inum, name \in Name :
                         todo' \in {Entry(n, name), <<<<Length>>, <<name>>>>, <<<<name>>>>}
  <2> SUFFICES ASSUME NamingCall
               PROVE  /\ todo' # <<>> => Left' = Left - Count
                      /\ Count = 1 /\ todo' = Tail(todo)
                      /\ todo' = <<>> \/ \E n \in Inum, name \in Name :
                           todo' \in {Entry(n, name), <<<<Length>>, <<name>>>>, <<<<name>>>>}
    OBVIOUS
  <2>0. Len(todo[1]) = 1 /\ Left = Len(todo) /\ Head(todo) = todo[1]
    BY <1>3
  <2>1. Count = 1
    BY <1>2, <2>0
  <2>2. todo' = Tail(todo)
    <3>1. rest = <<>>
      <4>1. rest = SubSeq(todo[1], 2, 1)
        <5>1. Head(todo) = todo[1] /\ Len(Head(todo)) = 1 /\ Count + 1 = 2
          BY <2>0, <2>1
        <5> QED
          BY <5>1, Zenon
      <4> HIDE DEF rest
      <4>2. SubSeq(todo[1], 2, 1) = <<>>
        BY SubSeqEmpty
      <4> QED
        BY <4>1, <4>2
    <3> HIDE DEF rest
    <3> QED
      BY <1>1, <3>1
  <2>3. PICK n \in Inum, name \in Name :
          todo \in {Entry(n, name), <<<<Length>>, <<name>>>>, <<<<name>>>>}
    BY DEF NamingCall
  <2>4. CASE todo = Entry(n, name)
    <3>1. todo' = <<<<Length>>, <<name>>>>
      BY <2>2, <2>4 DEF Entry
    <3>2. Left = 3 /\ Left' = 2
      BY <2>0, <2>4, <3>1 DEF Entry, Left
    <3>3. todo' \in {Entry(n, name), <<<<Length>>, <<name>>>>, <<<<name>>>>}
      BY <3>1
    <3>4. Left' = Left - Count
      BY <2>1, <3>2
    <3> QED
      BY <2>1, <2>2, <3>3, <3>4
  <2>5. CASE todo = <<<<Length>>, <<name>>>>
    <3>1. todo' = <<<<name>>>>
      BY <2>2, <2>5
    <3>2. Left = 2 /\ Left' = 1
      BY <2>0, <2>5, <3>1 DEF Left
    <3>3. todo' \in {Entry(n, name), <<<<Length>>, <<name>>>>, <<<<name>>>>}
      BY <3>1
    <3>4. Left' = Left - Count
      BY <2>1, <3>2
    <3> QED
      BY <2>1, <2>2, <3>3, <3>4
  <2>6. CASE todo = <<<<name>>>>
    <3>1. todo' = <<>>
      BY <2>2, <2>6
    <3> QED
      BY <2>1, <2>2, <3>1
  <2> QED
    BY <2>3, <2>4, <2>5, <2>6
<1>6. /\ inode' \in [Inum -> Inode]
      /\ \A n \in Inum : inode'[n].direct = inode[n].direct /\ inode'[n].indirect = inode[n].indirect
                         /\ inode'[n].type = inode[n].type /\ inode'[n].links = inode[n].links
      /\ \A n \in Inum : n # node => inode'[n] = inode[n]
      /\ inode'[node].size =
           IF inode[node].size <= offset + Count THEN offset + Count ELSE inode[node].size
  <2> DEFINE s == IF inode[node].size <= offset + Count THEN offset + Count ELSE inode[node].size
  <2>1. s = Max({inode[node].size, offset + Count}) /\ s \in Nat
    BY <1>2, MaxOfTwo
  <2> HIDE DEF s
  <2>2. inode' = [inode EXCEPT ![node].size = s]
    BY <1>1, <2>1
  <2>3. inode \in [Inum -> Inode] /\ inode[node] \in Inode
    BY <1>2 DEF TypeOK
  <2>4. [inode[node] EXCEPT !.size = s] \in Inode
    BY <2>1, <2>3 DEF Inode
  <2>5. inode'[node] = [inode[node] EXCEPT !.size = s] /\ \A n \in Inum : n # node => inode'[n] = inode[n]
    BY <1>2, <2>2, <2>3
  <2>6. inode' \in [Inum -> Inode]
    BY <1>2, <2>2, <2>3, <2>4
  <2>7. ASSUME NEW n \in Inum
        PROVE  inode'[n].direct = inode[n].direct /\ inode'[n].indirect = inode[n].indirect
               /\ inode'[n].type = inode[n].type /\ inode'[n].links = inode[n].links
    <3>1. CASE n = node
      BY <2>3, <2>5, <3>1 DEF Inode
    <3>2. CASE n # node
      BY <2>5, <3>2
    <3> QED
      BY <3>1, <3>2
  <2>8. inode'[node].size = s
    BY <2>3, <2>5 DEF Inode
  <2> QED
    BY <2>5, <2>6, <2>7, <2>8 DEF s
<1> QED
  BY <1>1, <1>3, <1>4, <1>5, <1>6

\* SetSize: the last block of the longer node is the one just written.
LEMMA SizeBlocks ==
  ASSUME BobFSAssumption, BlockInv, SetSize
  PROVE  BlockInv'
<1> TypeOK /\ SuperblockKept /\ PointersOK /\ BlocksOwned /\ LastBlock /\ CallOK /\ FreshOK /\ NodesOK
  BY DEF BlockInv
<1>1. UNCHANGED <<data, blockBit, nodeBit, iroot, page, fresh, crashes>>
  BY DEF SetSize
<1>2. /\ pc = "size" /\ node' = node /\ offset' = offset + Count
      /\ pc' = (IF todo' = <<>> THEN "idle" ELSE "write")
      /\ todo' # <<>> => Left' = Left - Count
      /\ FileCall => todo' = <<>> \/ \E buffer \in Seq(Data) \ {<<>>} : todo' = <<buffer>>
      /\ NamingCall => Count = 1 /\ todo' = Tail(todo)
      /\ NamingCall => todo' = <<>> \/ \E n \in Inum, name \in Name :
           todo' \in {Entry(n, name), <<<<Length>>, <<name>>>>, <<<<name>>>>}
      /\ inode' \in [Inum -> Inode]
      /\ \A n \in Inum : inode'[n].direct = inode[n].direct /\ inode'[n].indirect = inode[n].indirect
                         /\ inode'[n].type = inode[n].type /\ inode'[n].links = inode[n].links
      /\ \A n \in Inum : n # node => inode'[n] = inode[n]
      /\ inode'[node].size =
           IF inode[node].size <= offset + Count THEN offset + Count ELSE inode[node].size
  BY Advance
<1>3. /\ node \in Inum /\ offset \in Nat /\ inode[node].size \in Nat
      /\ Current \in 0..BlockWords /\ Start \in 0..BlockWords - 1
      /\ offset = Current * BlockWords + Start /\ Count \in 1..BlockWords - Start
      /\ Count <= Left /\ Left \in Nat /\ Left >= Count
      /\ BlockWords \in Nat /\ BlockWords > 0
  BY <1>2, Chunk, Buffered, Shape
<1>4. \A n \in Inum : \A s \in Slot : Pointer(n, s)' = Pointer(n, s)
  BY <1>1, <1>2 DEF Pointer
<1>5. PointersOK' /\ BlocksOwned'
  BY <1>1, <1>4, SamePointers
<1>6. PICK k \in Inum, c \in 0..BlockWords : k = node /\ c = Current /\ c \in Slot
  BY <1>3, Shape
<1>7. Pointer(k, c) # Zero
  BY <1>2, <1>6 DEF FreshOK
<1>8. (Current + 1) * BlockWords = Current * BlockWords + BlockWords /\ Current * BlockWords \in Nat
  BY <1>3, TimesOne
<1>17. PICK first \in Nat : first = Current * BlockWords
  BY <1>8
<1>18. /\ first \in Nat /\ offset \in Nat /\ offset = first + Start
       /\ Start \in 0..BlockWords - 1 /\ Count \in 1..BlockWords - Start
       /\ BlockWords \in Nat /\ BlockWords > 0
  BY <1>3, <1>17
<1>19. /\ offset + Count <= first + BlockWords
       /\ Start + Count - 1 \in Nat /\ Start + Count - 1 < BlockWords
  BY <1>18
<1>9. LastBlock'
  <2> SUFFICES ASSUME NEW n \in Inum, inode'[n].size > 0,
                      NEW b, b = (inode'[n].size - 1) \div BlockWords
               PROVE  b \in 0..BlockWords /\ Pointer(n, b)' # Zero
    BY DEF LastBlock
  <2>1. CASE inode'[n].size = inode[n].size
    <3>1. b \in 0..BlockWords /\ Pointer(n, b) # Zero
      BY <2>1 DEF LastBlock
    <3> QED
      BY <3>1, <1>4, Shape
  <2>2. CASE n = k /\ inode'[n].size = offset + Count
    <3>1. PICK x \in Nat, r \in Nat :
            x = c * BlockWords /\ r = Start + Count - 1 /\ r < BlockWords
      BY <1>6, <1>17, <1>19
    <3>2. inode'[n].size - 1 = x + r
      <4>1. offset = x + Start
        BY <3>1, <1>3, <1>6
      <4> QED
        BY <2>2, <3>1, <4>1, <1>3
    <3>3. (c * BlockWords + r) \div BlockWords = c
      <4>1. c \in Nat /\ BlockWords \in Nat /\ BlockWords > 0 /\ r \in Nat /\ r < BlockWords
        BY <3>1, <1>3, <1>6
      <4> QED
        BY <4>1, Quotient, Zenon
    <3>4. b = c
      BY <2>2, <3>1, <3>2, <3>3
    <3> QED
      BY <2>2, <3>4, <1>4, <1>6, <1>7
  <2> QED
    BY <2>1, <2>2, <1>2, <1>6
<1>10. CallOK'
  <2> SUFFICES ASSUME todo' # <<>> PROVE CallOK'
    BY <1>2 DEF CallOK
  <2>1. Left' = Left - Count /\ node' = k /\ offset' = offset + Count /\ offset' \in Nat
        /\ offset' + Left' = offset + Left /\ offset + Left <= MaxWords
    BY <1>2, <1>3, <1>6 DEF CallOK
  <2>2. NamingCall' \/ FileCall'
    <3>1. CASE NamingCall
      <4>1. offset = inode[node].size /\ inode[node].type = "dir" /\ Count = 1
        BY <3>1, <1>2 DEF NamingCall
      <4>2. inode'[node].size = offset'
        BY <4>1, <1>2, <1>3
      <4>3. inode'[node].type = "dir" /\ node' = node
        BY <4>1, <1>2, <1>3
      <4> QED
        BY <3>1, <4>2, <4>3, <1>2 DEF NamingCall
    <3>2. CASE FileCall
      BY <3>2, <1>2, <1>3 DEF FileCall
    <3> QED
      BY <1>2, <3>1, <3>2 DEF CallOK
  <2>3. ASSUME NEW b \in 0..BlockWords, Touches(b)', b * BlockWords < inode'[k].size
        PROVE  Pointer(k, b)' # Zero
    <3>0. BlockWords \in Nat /\ b \in Nat /\ b + 1 \in Nat
      BY <1>3, Shape
    <3>1. /\ b * BlockWords < offset + Left /\ offset + Count < (b + 1) * BlockWords
          /\ (b + 1) * BlockWords \in Nat /\ b * BlockWords \in Nat
      <4>1. (b + 1) * BlockWords \in Nat /\ b * BlockWords \in Nat
        BY <3>0, TimesOne
      <4>2. b * BlockWords < offset' + Left' /\ offset' < (b + 1) * BlockWords
        BY <2>3 DEF Touches
      <4> QED
        BY <4>1, <4>2, <2>1
    <3>2. CASE b * BlockWords < inode[k].size
      <4>1. Touches(b)
        <5>1. PICK y \in Nat : y = (b + 1) * BlockWords
          BY <3>1
        <5>2. offset + Count < y
          BY <5>1, <3>1
        <5>3. offset \in Nat /\ Count \in Nat
          BY <1>3, Shape
        <5>4. offset < y
          BY <5>2, <5>3
        <5> QED
          BY <5>1, <5>4, <3>1 DEF Touches
      <4>2. Pointer(k, b) # Zero
        BY <3>2, <4>1, <1>2, <1>6 DEF CallOK
      <4> QED
        BY <4>2, <1>4, Shape
    <3>3. CASE ~(b * BlockWords < inode[k].size)
      <4>1. b * BlockWords < offset + Count
        BY <3>1, <3>3, <2>3, <1>2, <1>3, <1>6
      <4>2. b * BlockWords < (c + 1) * BlockWords
        <5>1. offset + Count <= Current * BlockWords + BlockWords
          BY <1>17, <1>19
        <5>2. (c + 1) * BlockWords = Current * BlockWords + BlockWords
          BY <1>6, <1>8
        <5>3. offset + Count \in Nat /\ b * BlockWords \in Nat /\ BlockWords \in Nat
          BY <1>3, <3>1
        <5>4. b * BlockWords < Current * BlockWords + BlockWords
          <6>1. PICK x \in Nat : x = b * BlockWords
            BY <5>3
          <6>2. x < first + BlockWords
            BY <4>1, <6>1, <1>18, <1>19
          <6> QED
            BY <6>1, <6>2, <1>17
        <5> QED
          BY <5>2, <5>4
      <4>3. c * BlockWords < (b + 1) * BlockWords
        <5>1. PICK z \in Nat : z = (b + 1) * BlockWords
          BY <3>1
        <5>2. first < z
          BY <5>1, <3>1, <1>18
        <5> QED
          BY <5>1, <5>2, <1>6, <1>17
      <4>4. b = c
        BY <4>2, <4>3, <1>3, <1>6, Below
      <4> QED
        BY <4>4, <1>4, <1>6, <1>7
    <3> QED
      BY <3>2, <3>3
  <2>4. \A b \in 0..BlockWords :
          Touches(b)' /\ b * BlockWords < inode'[k].size => Pointer(k, b)' # Zero
    BY <2>3
  <2> QED
    BY <2>1, <2>2, <2>4 DEF CallOK
<1>11. NodesOK'
  BY <1>1, <1>2, SameNodes
<1>12. TypeOK' /\ SuperblockKept'
  BY <1>1, <1>2 DEF TypeOK, SuperblockKept, Superblock, Filled
<1>13. FreshOK'
  BY <1>2 DEF FreshOK
<1> QED
  BY <1>5, <1>9, <1>10, <1>11, <1>12, <1>13 DEF BlockInv

\* InitNewNode: the i-node had no blocks, and has none.
LEMMA InitBlocks ==
  ASSUME BobFSAssumption, BlockInv, InitNewNode
  PROVE  /\ BlockInv' /\ fresh \in Inum /\ fresh # node
         /\ inode' \in [Inum -> Inode]
         /\ \A n \in Inum : n # fresh => inode'[n] = inode[n]
         /\ inode'[fresh].type = pc /\ inode'[fresh].size = 0 /\ inode'[fresh].links = 1
<1> TypeOK /\ SuperblockKept /\ PointersOK /\ BlocksOwned /\ LastBlock /\ CallOK /\ FreshOK /\ NodesOK
  BY DEF BlockInv
<1>1. /\ pc \in {"file", "dir"} /\ pc' = "write"
      /\ inode' = [inode EXCEPT ![fresh] = NewInode(pc)]
      /\ UNCHANGED <<data, blockBit, nodeBit, iroot, node, offset, todo, page, crashes>>
  BY DEF InitNewNode, call
<1>2. fresh \in Inum /\ fresh # node /\ fresh \in nodeBit /\ inode[fresh].type = "none" /\ node \in Inum
  BY <1>1 DEF NodesOK, TypeOK, CallOK
<1>3. NewInode(pc) \in Inode
  BY <1>1 DEF Inode, NewInode
<1>4. /\ inode' \in [Inum -> Inode] /\ inode'[fresh] = NewInode(pc)
      /\ \A n \in Inum : n # fresh => inode'[n] = inode[n]
  BY <1>1, <1>2, <1>3 DEF TypeOK
<1>5. ASSUME NEW n \in Inum, NEW s \in Slot
      PROVE  Pointer(n, s)' = IF n = fresh THEN Zero ELSE Pointer(n, s)
  BY <1>1, <1>4 DEF Pointer, NewInode
<1>6. PointersOK' /\ BlocksOwned'
  BY <1>1, <1>5, SamePointers
<1>7. LastBlock'
  <2>1. inode'[fresh].size = 0
    BY <1>4 DEF NewInode
  <2>2. \A n \in Inum : inode'[n].size = inode[n].size \/ inode'[n].size = 0
    BY <1>4, <2>1
  <2>3. \A n \in Inum : \A s \in Slot :
          inode'[n].size # 0 /\ Pointer(n, s) # Zero => Pointer(n, s)' # Zero
    BY <1>5, <2>1
  <2> QED
    BY <2>2, <2>3, SameEnds
<1>8. CallOK'
  <2>1. inode'[node] = inode[node]
    BY <1>2, <1>4
  <2>2. \A s \in Slot : Pointer(node, s)' = Pointer(node, s)
    BY <2>1, <1>1 DEF Pointer
  <2> QED
    BY <2>1, <2>2, <1>1, SameCall
<1>9. NodesOK'
  <2>1. Root # fresh /\ Root \in Inum
    BY <1>2, Shape DEF NodesOK
  <2> QED
    BY <2>1, <1>1, <1>2, <1>4 DEF NodesOK
<1>10. TypeOK' /\ SuperblockKept'
  BY <1>1, <1>4, InitNewNode, Shape DEF TypeOK, SuperblockKept, Superblock, Filled
<1>11. FreshOK'
  BY <1>1 DEF FreshOK
<1>12. inode'[fresh].type = pc /\ inode'[fresh].size = 0 /\ inode'[fresh].links = 1
  BY <1>4 DEF NewInode
<1> QED
  BY <1>2, <1>4, <1>6, <1>7, <1>8, <1>9, <1>10, <1>11, <1>12 DEF BlockInv

\* The last block is there that a call at the end of a directory goes on in.
LEMMA NamingStarts ==
  ASSUME BobFSAssumption, TypeOK, PointersOK, LastBlock,
         NEW d \in Inum, inode[d].type = "dir", RoomForEntry(d),
         NEW n \in Inum, NEW name \in Name,
         node' = d, offset' = inode[d].size, todo' = Entry(n, name), data' = data,
         inode'[d] = inode[d]
  PROVE  CallOK'
<1>1. /\ inode[d].size \in Nat /\ inode[d].size + 3 <= MaxWords
      /\ BlockWords \in Nat /\ BlockWords > 0
  BY Shape DEF TypeOK, Inode, RoomForEntry
<1>2. Left' = 3
  BY DEF Left, Entry
<1>3. NamingCall'
  BY DEF NamingCall
<1>4. ASSUME NEW b \in 0..BlockWords, Touches(b)', b * BlockWords < inode'[d].size
      PROVE  Pointer(d, b)' # Zero
  <2>1. /\ inode[d].size < (b + 1) * BlockWords /\ b * BlockWords < inode[d].size
        /\ b * BlockWords \in Nat /\ (b + 1) * BlockWords = b * BlockWords + BlockWords
    BY <1>1, <1>4, TimesOne DEF Touches
  <2> DEFINE r == inode[d].size - 1 - b * BlockWords
  <2>2. inode[d].size - 1 = b * BlockWords + r /\ r \in Nat /\ r < BlockWords
    BY <1>1, <2>1
  <2> HIDE DEF r
  <2>3. (inode[d].size - 1) \div BlockWords = b
    <3>1. b \in Nat /\ r \in Nat /\ r < BlockWords /\ BlockWords \in Nat /\ BlockWords > 0
      BY <2>2, <1>1
    <3>2. (b * BlockWords + r) \div BlockWords = b
      BY <3>1, Quotient
    <3> QED
      BY <2>2, <3>2, Zenon
  <2>4. Pointer(d, b) # Zero
    BY <1>1, <2>1, <2>3 DEF LastBlock
  <2> QED
    BY <2>4 DEF Pointer
<1>5. \A b \in 0..BlockWords :
        Touches(b)' /\ b * BlockWords < inode'[d].size => Pointer(d, b)' # Zero
  BY <1>4
<1> QED
  BY <1>1, <1>2, <1>3, <1>5 DEF CallOK

\* NewNode: the i-node was free, and the entry goes to the end of the
\* directory.
LEMMA NewNodeBlocks ==
  ASSUME BobFSAssumption, BlockInv,
         NEW d \in Inum, NEW name \in Name, NEW kind \in {"file", "dir"}, NewNode(d, name, kind)
  PROVE  /\ BlockInv' /\ pc = "idle" /\ pc' = kind /\ inode[d].type = "dir"
         /\ fresh' \in Inum \ nodeBit /\ nodeBit' = nodeBit \cup {fresh'}
         /\ node' = d /\ offset' = inode[d].size /\ todo' = Entry(fresh', name)
<1> TypeOK /\ SuperblockKept /\ PointersOK /\ BlocksOwned /\ LastBlock /\ CallOK /\ FreshOK /\ NodesOK
  BY DEF BlockInv
<1>1. /\ pc = "idle" /\ pc' = kind /\ inode[d].type = "dir" /\ RoomForEntry(d)
      /\ UNCHANGED <<data, blockBit, inode, iroot, page, crashes>>
  BY DEF NewNode, IsDir
<1>2. PICK n \in Inum \ nodeBit :
        /\ nodeBit' = nodeBit \cup {n} /\ fresh' = n
        /\ node' = d /\ offset' = inode[d].size /\ todo' = Entry(n, name)
  BY DEF NewNode, Call
<1>3. \A m \in Inum : \A s \in Slot : Pointer(m, s)' = Pointer(m, s)
  BY <1>1 DEF Pointer
<1>4. PointersOK' /\ BlocksOwned'
  BY <1>1, <1>3, SamePointers
<1>5. LastBlock'
  BY <1>1, <1>3, SameEnds
<1>6. CallOK'
  BY <1>1, <1>2, NamingStarts
<1>7. NodesOK'
  <2>1. d \in nodeBit /\ inode[n].type = "none"
    BY <1>1, <1>2 DEF NodesOK
  <2> QED
    BY <1>1, <1>2, <2>1 DEF NodesOK
<1>8. TypeOK' /\ SuperblockKept'
  BY <1>1, <1>2 DEF TypeOK, SuperblockKept, Superblock, Filled
<1>9. FreshOK'
  BY <1>1 DEF FreshOK
<1> QED
  BY <1>1, <1>2, <1>4, <1>5, <1>6, <1>7, <1>8, <1>9 DEF BlockInv

\* LinkNode changes nothing but a number of links, and starts an entry.
LEMMA LinkBlocks ==
  ASSUME BobFSAssumption, BlockInv,
         NEW d \in Inum, NEW name \in Name, NEW n \in Inum, LinkNode(d, name, n)
  PROVE  /\ BlockInv' /\ pc = "idle" /\ pc' = "write"
         /\ inode[d].type = "dir" /\ inode[n].type = "file"
         /\ node' = d /\ offset' = inode[d].size /\ todo' = Entry(n, name)
         /\ inode' \in [Inum -> Inode] /\ inode'[n].links = inode[n].links + 1
         /\ inode'[n].type = "file" /\ inode'[n].size = inode[n].size
         /\ \A m \in Inum : m # n => inode'[m] = inode[m]
<1> TypeOK /\ SuperblockKept /\ PointersOK /\ BlocksOwned /\ LastBlock /\ CallOK /\ FreshOK /\ NodesOK
  BY DEF BlockInv
<1>1. /\ pc = "idle" /\ pc' = "write" /\ inode[d].type = "dir" /\ RoomForEntry(d)
      /\ inode[n].type = "file"
      /\ inode' = [inode EXCEPT ![n].links = @ + 1]
      /\ node' = d /\ offset' = inode[d].size /\ todo' = Entry(n, name)
      /\ UNCHANGED <<data, blockBit, nodeBit, iroot, page, fresh, crashes>>
  BY DEF LinkNode, IsDir, IsFile, Call
<1>2. /\ inode' \in [Inum -> Inode]
      /\ \A m \in Inum : m # n => inode'[m] = inode[m]
      /\ inode'[n].links = inode[n].links + 1
      /\ \A m \in Inum : inode'[m].direct = inode[m].direct /\ inode'[m].indirect = inode[m].indirect
                         /\ inode'[m].type = inode[m].type /\ inode'[m].size = inode[m].size
  <2>1. inode \in [Inum -> Inode] /\ inode[n] \in Inode
    BY DEF TypeOK
  <2>2. inode' = [inode EXCEPT ![n] = [inode[n] EXCEPT !.links = inode[n].links + 1]]
    BY <1>1
  <2>3. [inode[n] EXCEPT !.links = inode[n].links + 1] \in Inode
    <3>1. inode[n].links + 1 \in Nat
      BY <2>1 DEF Inode
    <3>2. \A l \in Nat : [inode[n] EXCEPT !.links = l] \in Inode
      BY <2>1 DEF Inode
    <3> QED
      BY <3>1, <3>2
  <2>4. /\ inode'[n] = [inode[n] EXCEPT !.links = inode[n].links + 1]
        /\ \A m \in Inum : m # n => inode'[m] = inode[m]
    BY <2>1, <2>2
  <2>5. inode' \in [Inum -> Inode]
    BY <2>1, <2>2, <2>3
  <2>6. /\ inode'[n].direct = inode[n].direct /\ inode'[n].indirect = inode[n].indirect
        /\ inode'[n].type = inode[n].type /\ inode'[n].size = inode[n].size
        /\ inode'[n].links = inode[n].links + 1
    BY <2>1, <2>4 DEF Inode
  <2> QED
    BY <2>4, <2>5, <2>6
<1>3. \A m \in Inum : \A s \in Slot : Pointer(m, s)' = Pointer(m, s)
  BY <1>1, <1>2 DEF Pointer
<1>4. PointersOK' /\ BlocksOwned'
  BY <1>1, <1>3, SamePointers
<1>5. LastBlock'
  BY <1>2, <1>3, SameEnds
<1>6. CallOK'
  <2>1. inode'[d] = inode[d]
    BY <1>1, <1>2
  <2> QED
    BY <1>1, <2>1, NamingStarts
<1>7. NodesOK'
  BY <1>1, <1>2, SameNodes
<1>8. TypeOK' /\ SuperblockKept'
  BY <1>1, <1>2 DEF TypeOK, SuperblockKept, Superblock, Filled
<1>9. FreshOK'
  BY <1>1 DEF FreshOK
<1> QED
  BY <1>1, <1>2, <1>4, <1>5, <1>6, <1>7, <1>8, <1>9 DEF BlockInv

\* WriteAll: with no hole in its way a file is written like an entry.
LEMMA WriteAllBlocks ==
  ASSUME BobFSAssumption, ~Holes, BlockInv,
         NEW n \in Inum, NEW at \in 0..MaxWords, NEW buffer \in Buffers, WriteAll(n, at, buffer)
  PROVE  /\ BlockInv' /\ pc = "idle" /\ pc' = "write" /\ inode[n].type = "file"
         /\ node' = n /\ todo' = <<buffer>>
<1> TypeOK /\ SuperblockKept /\ PointersOK /\ BlocksOwned /\ LastBlock /\ CallOK /\ FreshOK /\ NodesOK
  BY DEF BlockInv
<1>1. /\ pc = "idle" /\ pc' = "write" /\ inode[n].type = "file"
      /\ at + Len(buffer) <= MaxWords /\ AvoidsHoles(n, at, buffer)
      /\ node' = n /\ offset' = at /\ todo' = <<buffer>>
      /\ UNCHANGED <<data, blockBit, nodeBit, inode, iroot, page, fresh, crashes>>
  BY DEF WriteAll, IsFile, Call, disk
<1>2. buffer \in Seq(Data) \ {<<>>} /\ Len(buffer) \in Nat /\ Len(buffer) > 0
  BY DEF BobFSAssumption
<1>3. BlockWords \in Nat /\ BlockWords > 0 /\ inode[n].size \in Nat /\ at \in Nat
  BY Shape DEF TypeOK, Inode
<1>4. \A m \in Inum : \A s \in Slot : Pointer(m, s)' = Pointer(m, s)
  BY <1>1 DEF Pointer
<1>5. PointersOK' /\ BlocksOwned'
  BY <1>1, <1>4, SamePointers
<1>6. LastBlock'
  BY <1>1, <1>4, SameEnds
<1>7. CallOK'
  <2>1. Left' = Len(buffer)
    BY <1>1 DEF Left
  <2>2. FileCall'
    BY <1>1, <1>2 DEF FileCall
  <2>3. ASSUME NEW b \in 0..BlockWords, Touches(b)', b * BlockWords < inode'[n].size
        PROVE  Pointer(n, b)' # Zero
    <3>1. /\ b * BlockWords < at + Len(buffer) /\ at < (b + 1) * BlockWords
          /\ (b + 1) * BlockWords = b * BlockWords + BlockWords /\ b * BlockWords \in Nat
      BY <1>1, <1>3, <2>1, <2>3, TimesOne DEF Touches
    <3>2. PICK p \in Nat : p = b * BlockWords
      BY <3>1
    <3> DEFINE i == IF at <= p THEN p ELSE at
               r == i - p
    <3>7. i \in at..at + Len(buffer) - 1 /\ i = p + r /\ r \in Nat /\ r < BlockWords
      BY <1>2, <1>3, <3>1, <3>2
    <3> HIDE DEF i, r
    <3>3. i \div BlockWords = b
      <4>1. b \in Nat /\ r \in Nat /\ r < BlockWords /\ BlockWords \in Nat /\ BlockWords > 0
        BY <1>3, <3>7
      <4>2. (b * BlockWords + r) \div BlockWords = b
        BY <4>1, Quotient
      <4> QED
        BY <3>2, <3>7, <4>2, Zenon
    <3>4. b < TotalBlocks(n)
      <4>1. b * BlockWords < inode[n].size /\ b \in Nat
        BY <1>1, <2>3
      <4> QED
        BY <1>3, <4>1, BlocksIn
    <3>5. BlockIdx(n, b) # Zero
      BY <1>1, <3>3, <3>4, <3>7 DEF AvoidsHoles
    <3>6. BlockIdx(n, b) = Pointer(n, b)
      BY <1>1, <2>3, Present
    <3> QED
      BY <3>5, <3>6, <1>4, Shape
  <2>4. \A b \in 0..BlockWords :
          Touches(b)' /\ b * BlockWords < inode'[n].size => Pointer(n, b)' # Zero
    BY <2>3
  <2> QED
    BY <1>1, <1>3, <2>1, <2>2, <2>4 DEF CallOK
<1>8. NodesOK'
  BY <1>1, SameNodes
<1>9. TypeOK' /\ SuperblockKept'
  BY <1>1 DEF TypeOK, SuperblockKept, Superblock, Filled
<1>10. FreshOK'
  BY <1>1 DEF FreshOK
<1> QED
  BY <1>1, <1>5, <1>6, <1>7, <1>8, <1>9, <1>10 DEF BlockInv

\* CrashAndMount: what is on the disk is in order between any two writes.
LEMMA CrashBlocks ==
  ASSUME BobFSAssumption, BlockInv, CrashAndMount
  PROVE  BlockInv'
<1> TypeOK /\ SuperblockKept /\ PointersOK /\ BlocksOwned /\ LastBlock /\ CallOK /\ FreshOK /\ NodesOK
  BY DEF BlockInv
<1>1. /\ pc' = "idle" /\ page' = Filled(Zero) /\ iroot' = data[Zero][2]
      /\ crashes < MaxCrashes /\ crashes' = crashes + 1
      /\ UNCHANGED <<data, blockBit, nodeBit, inode>>
  BY DEF CrashAndMount, disk
<1>2. \A n \in Inum : \A s \in Slot : Pointer(n, s)' = Pointer(n, s)
  BY <1>1 DEF Pointer
<1>3. PointersOK' /\ BlocksOwned'
  BY <1>1, <1>2, SamePointers
<1>4. LastBlock'
  BY <1>1, <1>2, SameEnds
<1>5. NodesOK'
  BY <1>1, SameNodes
<1>6. iroot' = Root
  BY <1>1, Shape DEF SuperblockKept, Superblock, Filled
<1>7. crashes' \in Nat /\ crashes' <= MaxCrashes
  BY <1>1 DEF TypeOK, BobFSAssumption
<1>8. TypeOK' /\ SuperblockKept'
  BY <1>1, <1>6, <1>7, Shape DEF TypeOK, SuperblockKept, Superblock, Filled
<1>9. CallOK' /\ FreshOK'
  BY <1>1 DEF CallOK, FreshOK
<1> QED
  BY <1>3, <1>4, <1>5, <1>8, <1>9 DEF BlockInv

LEMMA IdleBlocks ==
  ASSUME BlockInv, UNCHANGED vars
  PROVE  BlockInv'
<1>1. /\ UNCHANGED <<data, blockBit, nodeBit, inode, iroot, pc, node, offset, todo, page, fresh, crashes>>
  BY DEF vars, disk, call
<1> QED
  BY <1>1 DEF BlockInv, TypeOK, SuperblockKept, Superblock, Filled, PointersOK, Pointer, BlocksOwned, LastBlock,
     CallOK, Touches, Left, NamingCall, FileCall, FreshOK, Lacking, Current, TotalBlocks, NodesOK

\* mkfs makes an empty root and no blocks.
LEMMA MkfsBlocks ==
  ASSUME BobFSAssumption, Init
  PROVE  BlockInv
<1>1. /\ data = [b \in Block \cup {Zero} |-> IF b = Zero THEN Superblock ELSE Filled(Stale)]
      /\ inode = [n \in Inum |-> NewInode(IF n = Root THEN "dir" ELSE "none")]
      /\ blockBit = {} /\ nodeBit = {Root} /\ iroot = Root /\ pc = "idle"
      /\ page = Filled(Zero) /\ crashes = 0
  BY DEF Init
<1>2. Superblock \in Page /\ Filled(Stale) \in Page
  BY Shape DEF Superblock, Filled, Page, Word
<1>3. \A n \in Inum : /\ inode[n] \in Inode /\ inode[n].size = 0
                      /\ inode[n].direct = Zero /\ inode[n].indirect = Zero
                      /\ inode[n].type = IF n = Root THEN "dir" ELSE "none"
  BY <1>1 DEF NewInode, Inode
<1>4. data \in [Block \cup {Zero} -> Page] /\ data[Zero] = Superblock
  BY <1>1, <1>2
<1>5. TypeOK /\ SuperblockKept
  <2>1. inode \in [Inum -> Inode]
    BY <1>1, <1>3
  <2>2. crashes \in Nat /\ crashes <= MaxCrashes
    BY <1>1 DEF BobFSAssumption
  <2> QED
    BY <1>1, <1>4, <2>1, <2>2, Shape DEF TypeOK, SuperblockKept
<1>6. \A n \in Inum : \A s \in Slot : Pointer(n, s) = Zero
  BY <1>3 DEF Pointer
<1>7. PointersOK /\ BlocksOwned /\ LastBlock
  BY <1>3, <1>6 DEF PointersOK, BlocksOwned, LastBlock
<1>8. CallOK /\ FreshOK /\ NodesOK
  BY <1>1, <1>3, Shape DEF CallOK, FreshOK, NodesOK
<1> QED
  BY <1>5, <1>7, <1>8 DEF BlockInv

\* What users do: they hold nothing but nodes.
LEMMA NextCases ==
  ASSUME Next
  PROVE  \/ DiskWrite
         \/ \E n \in Inum, at \in 0..MaxWords, buffer \in Buffers : WriteAll(n, at, buffer)
         \/ \E d \in Inum, name \in Name : \E kind \in {"file", "dir"} : NewNode(d, name, kind)
         \/ \E d \in Inum, name \in Name : \E n \in Inum : LinkNode(d, name, n)
         \/ CrashAndMount
<1>1. Held \subseteq Inum
  BY DEF Held
<1> QED
  BY <1>1 DEF Next

\* Every step keeps the blocks in order.
LEMMA BlocksStep ==
  ASSUME BobFSAssumption, ~Holes, BlockInv, [Next]_vars
  PROVE  BlockInv'
<1>1. CASE DiskWrite
  BY <1>1, WriteNextBlocks, FindBlocks, ZeroBlocks, PointerBlocks, DataBlocks, SizeBlocks, InitBlocks
     DEF DiskWrite
<1>2. CASE \E n \in Inum, at \in 0..MaxWords, buffer \in Buffers : WriteAll(n, at, buffer)
  BY <1>2, WriteAllBlocks
<1>3. CASE \E d \in Inum, name \in Name : \E kind \in {"file", "dir"} : NewNode(d, name, kind)
  BY <1>3, NewNodeBlocks
<1>4. CASE \E d \in Inum, name \in Name : \E n \in Inum : LinkNode(d, name, n)
  BY <1>4, LinkBlocks
<1>5. CASE CrashAndMount
  BY <1>5, CrashBlocks
<1>6. CASE UNCHANGED vars
  BY <1>6, IdleBlocks
<1> QED
  BY <1>1, <1>2, <1>3, <1>4, <1>5, <1>6, NextCases

\* The blocks of the file system: whatever users do and wherever the machine
\* stops, every block that is reached has one owner and its bit set, a node's
\* last block is there, a call in the middle writes to a node that is there,
\* and the superblock stays (bobfs.cc's writeBlock, write and mkfs), if nobody
\* writes to a block once skipped.
THEOREM BlocksHold ==
  ASSUME ~Holes
  PROVE  Spec => []BlockInv
<1>1. Init => BlockInv
  BY BobFSAssumption, MkfsBlocks
<1>2. BlockInv /\ [Next]_vars => BlockInv'
  BY BobFSAssumption, BlocksStep
<1> QED
  BY <1>1, <1>2, PTL DEF Spec
-----------------------------------------------------------------------------
(* Files *)

\* A node that was never made is empty.
BlankNodes == \A n \in Inum : inode[n].type = "none" => inode[n].size = 0 /\ inode[n].links = 1

\* What writeBlock writes: the words of the call, and around them what was there.
PageIs == pc \in {"bit", "zero", "pointer", "data"} => \A i \in 1..BlockWords :
  IF i \in Start + 1..Start + Count THEN page[i] = todo[1][i - Start]
  ELSE IF Current * BlockWords + i <= inode[node].size
       THEN page[i] = WordAt(node, Current * BlockWords + i)
  ELSE page[i] = Zero \/ crashes > 0
WrittenIs == pc = "size" => \A i \in 1..Count : WordAt(node, offset + i) = todo[1][i]

\* Without a crash the words of a block behind the end of its node are zero,
\* those apart that were just written.
Written(n, b, j) == pc = "size" /\ n = node /\ b = Current /\ j \in Start + 1..Start + Count
ClearBehind == crashes = 0 =>
  \A n \in Inum : \A b \in 0..BlockWords : \A j \in 1..BlockWords :
    Pointer(n, b) # Zero /\ inode[n].size < b * BlockWords + j /\ ~Written(n, b, j) =>
      data[Pointer(n, b)][j] = Zero

FileInv == BlankNodes /\ PageIs /\ WrittenIs /\ ClearBehind

\* A step that leaves the words of a node alone.
SteadyAt(n) == \A i \in 1..inode[n].size : WordAt(n, i)' = WordAt(n, i)

\* The j-th word of the b-th block, counted from the start of the node.
LEMMA Position ==
  ASSUME BobFSAssumption, NEW b \in Nat, NEW j \in 1..BlockWords
  PROVE  /\ b * BlockWords + j \in Nat \ {0}
         /\ ((b * BlockWords + j) - 1) \div BlockWords = b
         /\ (((b * BlockWords + j) - 1) % BlockWords) + 1 = j
<1>1. BlockWords \in Nat /\ BlockWords > 0 /\ b * BlockWords \in Nat
  BY Shape, TimesOne
<1>2. j - 1 \in Nat /\ j - 1 < BlockWords /\ (b * BlockWords + j) - 1 = b * BlockWords + (j - 1)
  BY <1>1
<1>3. (b * BlockWords + (j - 1)) \div BlockWords = b /\ (b * BlockWords + (j - 1)) % BlockWords = j - 1
  BY <1>1, <1>2, Quotient
<1>4. j - 1 + 1 = j
  OBVIOUS
<1> QED
  BY <1>1, <1>2, <1>3, <1>4

\* The j-th word of the b-th block.
LEMMA WordIs ==
  ASSUME BobFSAssumption, NEW n \in Inum, NEW b \in Nat, NEW j \in 1..BlockWords,
         NEW i, i = b * BlockWords + j
  PROVE  /\ WordAt(n, i) = ReadBlock(n, b)[j]
         /\ WordAt(n, i)' = ReadBlock(n, b)'[j]
<1>1. (i - 1) \div BlockWords = b /\ ((i - 1) % BlockWords) + 1 = j
  BY Position, Zenon
<1>2. WordAt(n, i) = ReadBlock(n, (i - 1) \div BlockWords)[((i - 1) % BlockWords) + 1]
  BY DEF WordAt
<1>3. WordAt(n, i)' = ReadBlock(n, (i - 1) \div BlockWords)'[((i - 1) % BlockWords) + 1]
  BY DEF WordAt
<1> QED
  BY <1>1, <1>2, <1>3, Zenon

\* Every word is in a block.
LEMMA WordOf ==
  ASSUME BobFSAssumption, NEW i \in Nat, i > 0
  PROVE  \E b \in Nat, j \in 1..BlockWords : i = b * BlockWords + j
<1>1. BlockWords \in Nat /\ BlockWords > 0 /\ i - 1 \in Nat
  BY Shape
<1> DEFINE b == (i - 1) \div BlockWords
           r == (i - 1) % BlockWords
<1>2. b \in Nat /\ r \in Nat /\ r < BlockWords /\ i - 1 = b * BlockWords + r
  <2>1. \A a \in Nat : a \div BlockWords \in Nat /\ a % BlockWords \in Nat
          /\ a % BlockWords < BlockWords
          /\ a = (a \div BlockWords) * BlockWords + (a % BlockWords)
    BY <1>1, Divided
  <2> QED
    BY <1>1, <2>1
<1> HIDE DEF b, r
<1>3. b * BlockWords \in Nat
  BY <1>1, <1>2, TimesOne
<1>4. i = b * BlockWords + (r + 1) /\ r + 1 \in 1..BlockWords
  BY <1>1, <1>2, <1>3
<1> QED
  BY <1>2, <1>4

\* Blocks that read the same below the end of a node.
LEMMA SteadyBlocks ==
  ASSUME BobFSAssumption, TypeOK, NEW n \in Inum,
         \A b \in Nat : b * BlockWords < inode[n].size => ReadBlock(n, b)' = ReadBlock(n, b)
  PROVE  SteadyAt(n)
<1> SUFFICES ASSUME NEW i \in 1..inode[n].size
             PROVE  WordAt(n, i)' = WordAt(n, i)
  BY DEF SteadyAt
<1>1. inode[n].size \in Nat /\ i \in Nat /\ i > 0 /\ i <= inode[n].size
  BY DEF TypeOK, Inode
<1>2. PICK b \in Nat, j \in 1..BlockWords : i = b * BlockWords + j
  BY <1>1, WordOf
<1>3. b * BlockWords < inode[n].size
  <2>1. b * BlockWords \in Nat /\ BlockWords \in Nat
    BY Shape, TimesOne
  <2> QED
    BY <2>1, <1>1, <1>2
<1>4. WordAt(n, i) = ReadBlock(n, b)[j] /\ WordAt(n, i)' = ReadBlock(n, b)'[j]
  BY <1>2, WordIs
<1> QED
  BY <1>3, <1>4

\* The i-nodes' fields apart, WordAt reads nothing but the disk's blocks.
LEMMA SteadyDisk ==
  ASSUME data' = data, NEW n \in Inum,
         inode'[n].direct = inode[n].direct, inode'[n].indirect = inode[n].indirect
  PROVE  SteadyAt(n)
BY DEF SteadyAt, WordAt, ReadBlock, BlockIdx, Filled

\* The block cleared is in no node.
LEMMA ZeroSteady ==
  ASSUME BobFSAssumption, BlockInv, ZeroBlock
  PROVE  \A n \in Inum : SteadyAt(n)
<1> TypeOK /\ PointersOK /\ LastBlock /\ FreshOK
  BY DEF BlockInv
<1>1. /\ pc = "zero" /\ data' = [data EXCEPT ![fresh] = Filled(Zero)] /\ inode' = inode
  BY DEF ZeroBlock
<1>2. /\ fresh \in Block /\ Zero \notin Block
      /\ \A n \in Inum : \A s \in Slot : Pointer(n, s) # fresh
  BY <1>1, Shape DEF FreshOK, TypeOK
<1>3. \A b \in Block \cup {Zero} : b # fresh => data'[b] = data[b]
  BY <1>1, <1>2 DEF TypeOK
<1>4. ASSUME NEW d \in Inum, NEW b \in Nat, b * BlockWords < inode[d].size
      PROVE  ReadBlock(d, b)' = ReadBlock(d, b)
  <2>1. /\ BlockIdx(d, b) = Pointer(d, b) /\ Pointer(d, b) \in Block \cup {Zero} /\ b \in Slot
    BY <1>4, Present, Shape
  <2>2. data'[BlockIdx(d, b)] = data[BlockIdx(d, b)]
    BY <1>2, <1>3, <2>1
  <2>3. BlockIdx(d, b)' = BlockIdx(d, b)
    <3>1. CASE b = 0
      BY <3>1, <1>1 DEF BlockIdx
    <3>2. CASE b # 0
      <4>1. inode[d].indirect = Pointer(d, Indirect) /\ Indirect \in Slot
        BY Shape DEF Pointer
      <4>2. inode[d].indirect \in Block \cup {Zero} /\ inode[d].indirect # fresh
        BY <4>1, <1>2 DEF PointersOK
      <4>3. data'[inode[d].indirect] = data[inode[d].indirect]
        BY <4>2, <1>3
      <4> QED
        BY <3>2, <4>3, <1>1 DEF BlockIdx
    <3> QED
      BY <3>1, <3>2
  <2> QED
    BY <2>2, <2>3 DEF ReadBlock, Filled
<1> QED
  BY <1>4, SteadyBlocks

\* A pointer that was lacking is to a block of zeros, or behind the end.
LEMMA PointerSteady ==
  ASSUME BobFSAssumption, BlockInv, SetPointer
  PROVE  \A n \in Inum : SteadyAt(n)
<1> TypeOK /\ PointersOK /\ LastBlock /\ FreshOK /\ CallOK /\ BlocksOwned
  BY DEF BlockInv
<1>1. pc = "pointer" /\ UNCHANGED <<node, offset>>
  BY DEF SetPointer, call
<1>2. PICK k \in Inum, c \in 0..BlockWords : k = node /\ c = Current
  BY <1>1, Chunk
<1>3. fresh \in Block /\ Zero \notin Block /\ data[fresh] = Filled(Zero)
  BY <1>1, Shape DEF FreshOK, TypeOK
<1>4. CASE /\ Lacking = "direct"
           /\ inode' = [inode EXCEPT ![node].direct = fresh]
           /\ UNCHANGED data
  <2>1. inode[k].direct = Zero
    BY <1>2, <1>4 DEF Lacking
  <2>2. /\ \A n \in Inum : n # k => inode'[n] = inode[n]
        /\ inode'[k].direct = fresh /\ inode'[k].indirect = inode[k].indirect
    BY <1>2, <1>4 DEF TypeOK, Inode
  <2>3. ASSUME NEW d \in Inum, NEW b \in Nat
        PROVE  ReadBlock(d, b)' = ReadBlock(d, b)
    <3>1. CASE d # k \/ b # 0
      <4>1. data' = data /\ (b = 0 => inode'[d].direct = inode[d].direct)
            /\ inode'[d].indirect = inode[d].indirect
        BY <3>1, <1>4, <2>2
      <4>2. BlockIdx(d, b)' = BlockIdx(d, b)
        BY <4>1 DEF BlockIdx
      <4> QED
        BY <4>1, <4>2 DEF ReadBlock, Filled
    <3>2. CASE d = k /\ b = 0
      BY <3>2, <1>3, <1>4, <2>1, <2>2 DEF ReadBlock, BlockIdx, Filled
    <3> QED
      BY <3>1, <3>2
  <2> QED
    BY <2>3, SteadyBlocks
<1>5. CASE /\ Lacking = "indirect"
           /\ inode' = [inode EXCEPT ![node].indirect = fresh]
           /\ UNCHANGED data
  <2>1. inode[k].indirect = Zero
    BY <1>2, <1>5 DEF Lacking
  <2>2. /\ \A n \in Inum : n # k => inode'[n] = inode[n]
        /\ inode'[k].direct = inode[k].direct /\ inode'[k].indirect = fresh
    BY <1>2, <1>5 DEF TypeOK, Inode
  <2>3. ASSUME NEW d \in Inum, NEW b \in Nat, b * BlockWords < inode[d].size
        PROVE  ReadBlock(d, b)' = ReadBlock(d, b)
    <3>1. CASE d # k \/ b = 0
      <4>1. data' = data /\ (b # 0 => inode'[d].indirect = inode[d].indirect)
            /\ inode'[d].direct = inode[d].direct
        BY <3>1, <1>5, <2>2
      <4>2. BlockIdx(d, b)' = BlockIdx(d, b)
        BY <4>1 DEF BlockIdx
      <4> QED
        BY <4>1, <4>2 DEF ReadBlock, Filled
    <3>2. CASE d = k /\ b # 0
      <4>1. b \in 1..BlockWords /\ b # Indirect /\ BlockIdx(d, b) = Pointer(d, b)
        BY <2>3, <3>2, Present, Shape
      <4>2. BlockIdx(d, b) = Zero
        BY <3>2, <4>1, <2>1 DEF Pointer
      <4>3. BlockIdx(d, b)' = Zero
        <5>1. BlockIdx(d, b)' = data'[fresh][b]
          BY <3>2, <2>2 DEF BlockIdx
        <5>2. data'[fresh][b] = Zero
          BY <1>3, <1>5, <4>1, Shape
        <5> QED
          BY <5>1, <5>2
      <4> QED
        BY <4>2, <4>3 DEF ReadBlock, Filled
    <3> QED
      BY <3>1, <3>2
  <2> QED
    BY <2>3, SteadyBlocks
<1>6. CASE /\ Lacking = "entry"
           /\ data' = [data EXCEPT ![inode[node].indirect][Current] = fresh]
           /\ UNCHANGED inode
  <2>1. inode[k].indirect # Zero /\ c # 0 /\ ~(Current < TotalBlocks(node))
    BY <1>2, <1>6 DEF Lacking
  <2>2. ~(c * BlockWords < inode[k].size)
    BY <1>1, <1>2, <2>1, Chunk
  <2>3. PICK q \in Block : q = inode[k].indirect /\ q = Pointer(k, Indirect) /\ Indirect \in Slot
    BY <2>1, Shape DEF TypeOK, Inode, Pointer
  <2>4. /\ \A s \in 1..BlockWords : s # c => data'[q][s] = data[q][s]
        /\ \A b \in Block \cup {Zero} : b # q => data'[b] = data[b]
    <3>1. data[q] \in Page /\ data \in [Block \cup {Zero} -> Page]
      BY DEF TypeOK
    <3>2. data' = [data EXCEPT ![q] = [data[q] EXCEPT ![c] = fresh]]
      BY <1>2, <1>6, <2>3
    <3> QED
      BY <3>1, <3>2 DEF Page
  <2>5. ASSUME NEW d \in Inum, NEW b \in Nat, b * BlockWords < inode[d].size
        PROVE  ReadBlock(d, b)' = ReadBlock(d, b)
    <3>1. /\ b \in 0..BlockWords /\ b \in Slot /\ b # Indirect
          /\ BlockIdx(d, b) = Pointer(d, b) /\ Pointer(d, b) \in Block \cup {Zero}
      BY <2>5, Present, Shape
    <3>2. BlockIdx(d, b) # q
      BY <2>1, <2>3, <3>1 DEF BlocksOwned
    <3>3. data'[BlockIdx(d, b)] = data[BlockIdx(d, b)]
      BY <2>4, <3>1, <3>2
    <3>4. BlockIdx(d, b)' = BlockIdx(d, b)
      <4>1. CASE b = 0
        BY <4>1, <1>6 DEF BlockIdx
      <4>2. CASE b # 0 /\ d = k
        <5>1. b \in 1..BlockWords /\ b # c
          BY <4>2, <2>2, <2>5, <3>1
        <5>2. data'[q][b] = data[q][b]
          BY <5>1, <2>4
        <5> QED
          BY <4>2, <5>2, <1>6, <2>3 DEF BlockIdx
      <4>3. CASE b # 0 /\ d # k
        <5>1. Pointer(d, Indirect) = inode[d].indirect
          BY Shape DEF Pointer
        <5>2. inode[d].indirect # q /\ inode[d].indirect \in Block \cup {Zero}
          BY <4>3, <5>1, <2>1, <2>3 DEF BlocksOwned, PointersOK
        <5>3. data'[inode[d].indirect] = data[inode[d].indirect]
          BY <5>2, <2>4
        <5> QED
          BY <4>3, <5>3, <1>6 DEF BlockIdx
      <4> QED
        BY <4>1, <4>2, <4>3
    <3> QED
      BY <3>3, <3>4 DEF ReadBlock, Filled
  <2> QED
    BY <2>5, SteadyBlocks
<1> QED
  BY <1>4, <1>5, <1>6 DEF SetPointer

\* Words behind the ends stay zero while nothing is written there.
LEMMA ClearStays ==
  ASSUME BobFSAssumption, TypeOK, ClearBehind, crashes' = crashes, pc # "size",
         inode' \in [Inum -> Inode],
         \A n \in Inum : inode[n].size <= inode'[n].size,
         \A n \in Inum : \A b \in 0..BlockWords :
           \/ Pointer(n, b)' = Zero
           \/ Pointer(n, b)' = Pointer(n, b) /\ data'[Pointer(n, b)] = data[Pointer(n, b)]
           \/ data'[Pointer(n, b)'] = Filled(Zero)
  PROVE  ClearBehind'
<1> SUFFICES ASSUME crashes = 0, NEW n \in Inum, NEW b \in 0..BlockWords, NEW j \in 1..BlockWords,
                    Pointer(n, b)' # Zero, inode'[n].size < b * BlockWords + j
             PROVE  data'[Pointer(n, b)'][j] = Zero
  BY DEF ClearBehind
<1>1. inode[n].size < b * BlockWords + j
  <2>1. b * BlockWords + j \in Nat /\ inode[n].size \in Nat /\ inode'[n].size \in Nat
    BY Shape, TimesOne DEF TypeOK, Inode
  <2>2. PICK w \in Nat : w = b * BlockWords + j
    BY <2>1
  <2> QED
    BY <2>1, <2>2
<1>2. CASE Pointer(n, b)' = Pointer(n, b) /\ data'[Pointer(n, b)] = data[Pointer(n, b)]
  <2>1. data[Pointer(n, b)][j] = Zero
    BY <1>1, <1>2 DEF ClearBehind, Written
  <2> QED
    BY <1>2, <2>1
<1>3. CASE data'[Pointer(n, b)'] = Filled(Zero)
  BY <1>3 DEF Filled
<1> QED
  BY <1>2, <1>3

\* The page waits while the pointers are made.
LEMMA PageStays ==
  ASSUME BobFSAssumption, TypeOK, CallOK, PageIs, \A n \in Inum : SteadyAt(n),
         pc \in {"bit", "zero", "pointer"}, pc' \in {"bit", "zero", "pointer", "data"},
         UNCHANGED <<node, offset, todo, page, crashes>>,
         \A n \in Inum : inode'[n].size = inode[n].size
  PROVE  PageIs' /\ WrittenIs'
<1>1. PICK k \in Inum, c \in 0..BlockWords : k = node /\ c = Current
  BY Chunk
<1>2. node' = k /\ Current' = c /\ Start' = Start /\ Count' = Count
  BY <1>1 DEF Current, Start, Count
<1>3. ASSUME NEW i \in 1..BlockWords, c * BlockWords + i <= inode[k].size
      PROVE  WordAt(k, c * BlockWords + i)' = WordAt(k, c * BlockWords + i)
  <2>0. c * BlockWords \in Nat /\ inode[k].size \in Nat /\ BlockWords \in Nat
    BY Shape, TimesOne DEF TypeOK, Inode
  <2>1. PICK x \in Nat, m \in Nat : x = c * BlockWords /\ m = inode[k].size
    BY <2>0
  <2>2. x + i \in 1..m
    <3>1. i \in Nat /\ i > 0 /\ x + i <= m
      BY <1>3, <2>0, <2>1
    <3> QED
      BY <3>1
  <2> QED
    BY <2>1, <2>2 DEF SteadyAt
<1>4. ASSUME NEW i \in 1..BlockWords
      PROVE  IF i \in Start + 1..Start + Count THEN page[i] = todo[1][i - Start]
             ELSE IF c * BlockWords + i <= inode[k].size
                  THEN page[i] = WordAt(k, c * BlockWords + i)
             ELSE page[i] = Zero \/ crashes > 0
  BY <1>1 DEF PageIs
<1>5. inode'[k].size = inode[k].size
  OBVIOUS
<1>6. PageIs'
  BY <1>2, <1>3, <1>4, <1>5 DEF PageIs
<1> QED
  BY <1>6 DEF WrittenIs

\* WritePage takes the words around the new ones from the disk.
LEMMA PageStarts ==
  ASSUME BobFSAssumption, BlockInv, ClearBehind, WritePage
  PROVE  PageIs' /\ WrittenIs'
<1> TypeOK /\ PointersOK /\ LastBlock /\ CallOK
  BY DEF BlockInv
<1>1. /\ pc = "write" /\ pc' \in {"data", "bit"} /\ UNCHANGED <<data, inode, node, offset, todo, crashes>>
      /\ page' = [i \in 1..BlockWords |->
           IF i \in Start + 1..Start + Count THEN Head(todo)[i - Start]
           ELSE IF Current >= TotalBlocks(node) THEN Zero
           ELSE ReadBlock(node, Current)[i]]
  BY DEF WritePage, WriteNext, disk, call
<1>2. PICK k \in Inum, c \in 0..BlockWords : k = node /\ c = Current
  BY <1>1, Chunk
<1>3. node' = k /\ Current' = c /\ Start' = Start /\ Count' = Count
  BY <1>1, <1>2 DEF Current, Start, Count
<1>4. /\ inode[k].size \in Nat /\ TotalBlocks(k) \in Nat /\ Head(todo) = todo[1]
      /\ c < TotalBlocks(k) <=> c * BlockWords < inode[k].size
      /\ c * BlockWords \in Nat /\ BlockWords \in Nat /\ Zero \notin Block /\ c \in Slot
  <2>1. /\ inode[k].size \in Nat /\ TotalBlocks(k) \in Nat
        /\ c < TotalBlocks(k) <=> c * BlockWords < inode[k].size
    BY <1>1, <1>2, Chunk
  <2>2. Head(todo) = todo[1]
    BY <1>1, Buffered
  <2>3. BlockWords \in Nat /\ Zero \notin Block /\ c \in Slot
    BY <1>2, Shape
  <2>4. c * BlockWords \in Nat
    BY <2>3, TimesOne
  <2> QED
    BY <2>1, <2>2, <2>3, <2>4
<1>5. ASSUME NEW i \in 1..BlockWords, i \notin Start + 1..Start + Count
      PROVE  IF c * BlockWords + i <= inode[k].size
             THEN page'[i] = WordAt(k, c * BlockWords + i)
             ELSE page'[i] = Zero \/ crashes > 0
  <2>0. page'[i] = IF c >= TotalBlocks(k) THEN Zero ELSE ReadBlock(k, c)[i]
    BY <1>1, <1>2, <1>5
  <2>1. CASE ~(c < TotalBlocks(k))
    <3>1. page'[i] = Zero
      BY <1>4, <2>0, <2>1
    <3>2. ~(c * BlockWords + i <= inode[k].size)
      BY <1>4, <2>1
    <3> QED
      BY <3>1, <3>2
  <2>2. CASE c < TotalBlocks(k)
    <3>1. page'[i] = ReadBlock(k, c)[i]
      BY <1>4, <2>0, <2>2
    <3>2. WordAt(k, c * BlockWords + i) = ReadBlock(k, c)[i]
      BY WordIs
    <3>3. c * BlockWords + i > inode[k].size /\ crashes = 0 => ReadBlock(k, c)[i] = Zero
      <4> SUFFICES ASSUME c * BlockWords + i > inode[k].size, crashes = 0
                   PROVE  ReadBlock(k, c)[i] = Zero
        OBVIOUS
      <4>1. BlockIdx(k, c) = Pointer(k, c)
        BY <1>4, <2>2, Present
      <4>2. Pointer(k, c) # Zero => data[Pointer(k, c)][i] = Zero
        <5>1. inode[k].size < c * BlockWords + i
          BY <1>4
        <5> QED
          BY <5>1, <1>1 DEF ClearBehind, Written
      <4> QED
        BY <4>1, <4>2 DEF ReadBlock, Filled
    <3>4. crashes \in Nat /\ c * BlockWords + i \in Nat
      BY <1>4 DEF TypeOK
    <3> QED
      BY <1>4, <3>1, <3>2, <3>3, <3>4
  <2> QED
    BY <2>1, <2>2
<1>6. \A i \in 1..BlockWords : i \in Start + 1..Start + Count => page'[i] = todo[1][i - Start]
  BY <1>1, <1>4
<1>7. \A i \in 1..BlockWords : WordAt(k, c * BlockWords + i)' = WordAt(k, c * BlockWords + i)
  BY <1>1 DEF WordAt, ReadBlock, BlockIdx, Filled
<1>8. PageIs'
  BY <1>1, <1>3, <1>5, <1>6, <1>7 DEF PageIs
<1>9. WrittenIs'
  BY <1>1 DEF WrittenIs
<1> QED
  BY <1>8, <1>9

\* What is read after the page is written: the page, and elsewhere what was read before.
LEMMA DataReads ==
  ASSUME BobFSAssumption, BlockInv, WriteData,
         NEW k \in Inum, NEW c \in 0..BlockWords, k = node, c = Current
  PROVE  /\ Pointer(k, c) \in Block /\ Pointer(k, c) # Zero /\ Pointer(k, c)' = Pointer(k, c)
         /\ data'[Pointer(k, c)] = page
         /\ \A b \in Block \cup {Zero} : b # Pointer(k, c) => data'[b] = data[b]
         /\ ReadBlock(k, c)' = page
         /\ \A n \in Inum : \A b \in Nat : b * BlockWords < inode[n].size /\ (n # k \/ b # c) =>
              ReadBlock(n, b)' = ReadBlock(n, b)
<1> TypeOK /\ PointersOK /\ LastBlock /\ FreshOK /\ CallOK /\ BlocksOwned
  BY DEF BlockInv
<1>1. /\ pc = "data" /\ inode' = inode
      /\ data' = [data EXCEPT ![BlockIdx(node, Current)] = page]
  BY DEF WriteData
<1>3. /\ c \in Slot /\ c # Indirect /\ Indirect \in Slot /\ Zero \notin Block
      /\ BlockWords \in Nat /\ BlockWords > 0 /\ c * BlockWords \in Nat
  BY Shape, TimesOne
<1>4. PICK q \in Block : q = Pointer(k, c) /\ q = BlockIdx(k, c) /\ q # Zero
  BY <1>1, <1>3, DataBlocks DEF FreshOK, PointersOK
<1>5. data'[q] = page /\ \A b \in Block \cup {Zero} : b # q => data'[b] = data[b]
  BY <1>1, <1>4 DEF TypeOK
<1>10. \A n \in Inum : \A t \in Slot : Pointer(k, c) = Pointer(n, t) => k = n /\ c = t
  <2>1. PICK m \in Inum, s \in Slot : m = k /\ s = c
    BY <1>3
  <2>2. Pointer(m, s) # Zero
    BY <1>4, <2>1
  <2>3. \A n \in Inum : \A t \in Slot : Pointer(m, s) = Pointer(n, t) => m = n /\ s = t
    BY <2>2 DEF BlocksOwned
  <2> QED
    BY <2>1, <2>3
<1>6. ASSUME NEW d \in Inum, NEW b
      PROVE  BlockIdx(d, b)' = BlockIdx(d, b)
  <2>1. Pointer(d, Indirect) = inode[d].indirect
    BY Shape DEF Pointer
  <2>2. inode[d].indirect # q /\ inode[d].indirect \in Block \cup {Zero}
    <3>1. Pointer(k, c) # Zero /\ (Pointer(k, c) = Pointer(d, Indirect) => c = Indirect)
      BY <1>3, <1>4, <1>10
    <3>2. Pointer(d, Indirect) \in Block \cup {Zero}
      BY <1>3 DEF PointersOK
    <3> QED
      BY <1>3, <1>4, <2>1, <3>1, <3>2
  <2>3. data'[inode[d].indirect] = data[inode[d].indirect]
    BY <1>5, <2>2
  <2> QED
    BY <2>3, <1>1 DEF BlockIdx
<1>7. ASSUME NEW d \in Inum, NEW b \in Nat, b * BlockWords < inode[d].size, d # k \/ b # c
      PROVE  ReadBlock(d, b)' = ReadBlock(d, b)
  <2>1. b \in Slot /\ BlockIdx(d, b) = Pointer(d, b) /\ Pointer(d, b) \in Block \cup {Zero}
    BY <1>7, Present, Shape
  <2>2. BlockIdx(d, b) # q
    BY <1>4, <1>7, <1>10, <2>1
  <2> QED
    BY <1>5, <1>6, <2>1, <2>2 DEF ReadBlock, Filled
<1>8. ReadBlock(k, c)' = page
  BY <1>4, <1>5, <1>6 DEF ReadBlock
<1>9. Pointer(k, c)' = Pointer(k, c)
  BY <1>3, DataBlocks
<1> QED
  BY <1>4, <1>5, <1>7, <1>8, <1>9

\* Every word after WriteData: of the call, or what it was.
LEMMA DataWords ==
  ASSUME BobFSAssumption, BlockInv, PageIs, WriteData, NEW n \in Inum, NEW i \in 1..inode[n].size
  PROVE  WordAt(n, i)' = IF n = node /\ i \in offset + 1..offset + Count THEN todo[1][i - offset]
                         ELSE WordAt(n, i)
<1> TypeOK /\ CallOK
  BY DEF BlockInv
<1>1. pc = "data"
  BY DEF WriteData
<1>2. PICK k \in Inum, c \in 0..BlockWords : k = node /\ c = Current
  BY <1>1, Chunk
<1>3. /\ Start \in 0..BlockWords - 1 /\ offset = c * BlockWords + Start /\ offset \in Nat
      /\ Count \in 1..BlockWords - Start /\ BlockWords \in Nat /\ c * BlockWords \in Nat
  BY <1>1, <1>2, Chunk, Shape, TimesOne
<1>4. /\ ReadBlock(k, c)' = page
      /\ \A m \in Inum : \A b \in Nat : b * BlockWords < inode[m].size /\ (m # k \/ b # c) =>
              ReadBlock(m, b)' = ReadBlock(m, b)
  BY <1>2, DataReads
<1>5. inode[n].size \in Nat /\ i \in Nat /\ i > 0 /\ i <= inode[n].size
  BY DEF TypeOK, Inode
<1>6. PICK b \in Nat, j \in 1..BlockWords : i = b * BlockWords + j
  BY <1>5, WordOf
<1>7. b * BlockWords \in Nat /\ b * BlockWords < inode[n].size
  <2>1. b * BlockWords \in Nat
    BY <1>3, TimesOne
  <2> QED
    BY <2>1, <1>5, <1>6
<1>8. WordAt(n, i) = ReadBlock(n, b)[j] /\ WordAt(n, i)' = ReadBlock(n, b)'[j]
  BY <1>6, WordIs
<1>9. CASE n = k /\ b = c
  <2>1. WordAt(n, i)' = page[j]
    BY <1>4, <1>8, <1>9
  <2>2. i \in offset + 1..offset + Count <=> j \in Start + 1..Start + Count
    BY <1>3, <1>6, <1>9
  <2>3. CASE j \in Start + 1..Start + Count
    <3>1. page[j] = todo[1][j - Start]
      BY <1>1, <2>3 DEF PageIs
    <3>2. j - Start = i - offset
      BY <1>3, <1>6, <1>9
    <3> QED
      BY <1>2, <1>9, <2>1, <2>2, <2>3, <3>1, <3>2
  <2>4. CASE j \notin Start + 1..Start + Count
    <3>1. page[j] = WordAt(node, Current * BlockWords + j)
      <4>1. Current * BlockWords + j <= inode[node].size
        BY <1>2, <1>5, <1>6, <1>9
      <4> QED
        BY <1>1, <2>4, <4>1 DEF PageIs
    <3>2. page[j] = WordAt(n, i)
      BY <1>2, <1>6, <1>9, <3>1
    <3> QED
      BY <2>1, <2>2, <2>4, <3>2
  <2> QED
    BY <2>3, <2>4
<1>10. CASE n # k \/ b # c
  <2>1. WordAt(n, i)' = WordAt(n, i)
    BY <1>4, <1>7, <1>8, <1>10
  <2>2. ~(n = node /\ i \in offset + 1..offset + Count)
    <3> SUFFICES ASSUME n = k, i \in offset + 1..offset + Count PROVE b = c
      BY <1>2, <1>10
    <3>1. (c + 1) * BlockWords = c * BlockWords + BlockWords
          /\ (b + 1) * BlockWords = b * BlockWords + BlockWords
      BY <1>3, TimesOne
    <3>2. b * BlockWords < c * BlockWords + BlockWords /\ c * BlockWords < b * BlockWords + BlockWords
      BY <1>3, <1>6, <1>7
    <3>3. b <= c /\ c <= b
      BY <1>3, <3>1, <3>2, Below
    <3> QED
      BY <3>3
  <2> QED
    BY <2>1, <2>2
<1> QED
  BY <1>9, <1>10

\* What was never made stays empty.
LEMMA BlankStays ==
  ASSUME BlankNodes,
         \A n \in Inum : inode'[n].type = "none" =>
           inode[n].type = "none" /\ inode'[n].size = inode[n].size /\ inode'[n].links = inode[n].links
  PROVE  BlankNodes'
BY DEF BlankNodes

\* Calls begin, and the machine works, without a page.
LEMMA QuietFiles ==
  ASSUME BobFSAssumption, TypeOK, PointersOK, FileInv, data' = data, inode' \in [Inum -> Inode],
         pc # "size", pc' \in {"idle", "file", "dir", "write"}, crashes' = crashes,
         \A n \in Inum : inode[n].size <= inode'[n].size,
         \A n \in Inum : \A s \in Slot : Pointer(n, s)' \in {Pointer(n, s), Zero},
         BlankNodes'
  PROVE  FileInv'
<1>1. PageIs' /\ WrittenIs'
  BY DEF PageIs, WrittenIs
<1>2. ClearBehind'
  <2>1. ASSUME NEW n \in Inum, NEW b \in 0..BlockWords
        PROVE  \/ Pointer(n, b)' = Zero
               \/ Pointer(n, b)' = Pointer(n, b) /\ data'[Pointer(n, b)] = data[Pointer(n, b)]
    <3>1. b \in Slot
      BY Shape
    <3> QED
      BY <3>1
  <2> QED
    BY <2>1, ClearStays DEF FileInv
<1> QED
  BY <1>1, <1>2 DEF FileInv

\* WritePage: nothing is on the disk yet.
LEMMA WritePageFiles ==
  ASSUME BobFSAssumption, BlockInv, FileInv, WritePage
  PROVE  FileInv'
<1> TypeOK /\ PointersOK /\ LastBlock /\ CallOK /\ BlankNodes /\ ClearBehind
  BY DEF BlockInv, FileInv
<1>1. pc = "write" /\ UNCHANGED <<data, inode, node, offset, todo, crashes>>
  BY DEF WritePage, disk, call
<1>2. PageIs' /\ WrittenIs'
  BY PageStarts
<1>3. BlankNodes'
  BY <1>1, BlankStays
<1>4. \A n \in Inum : \A b \in 0..BlockWords : Pointer(n, b)' = Pointer(n, b)
  BY <1>1 DEF Pointer
<1>5. ClearBehind'
  <2>1. inode' \in [Inum -> Inode] /\ \A n \in Inum : inode[n].size <= inode'[n].size
    BY <1>1 DEF TypeOK, Inode
  <2> QED
    BY <1>1, <1>4, <2>1, ClearStays
<1> QED
  BY <1>2, <1>3, <1>5 DEF FileInv

\* The steps that get a block for the page.
LEMMA GettingFiles ==
  ASSUME BobFSAssumption, BlockInv, FileInv, FindEmptyBlock \/ ZeroBlock \/ SetPointer
  PROVE  /\ FileInv' /\ (\A n \in Inum : SteadyAt(n)) /\ UNCHANGED <<node, offset, todo, crashes>>
         /\ \A n \in Inum : inode'[n].type = inode[n].type /\ inode'[n].size = inode[n].size
                            /\ inode'[n].links = inode[n].links
         /\ pc \in {"bit", "zero", "pointer"} /\ pc' \in {"bit", "zero", "pointer", "data"}
<1> TypeOK /\ PointersOK /\ LastBlock /\ CallOK /\ BlankNodes /\ ClearBehind /\ PageIs
  BY DEF BlockInv, FileInv
<1>1. /\ pc \in {"bit", "zero", "pointer"} /\ pc' \in {"bit", "zero", "pointer", "data"}
      /\ UNCHANGED <<node, offset, todo, page, crashes>>
  BY DEF FindEmptyBlock, ZeroBlock, SetPointer, call
<1>2. /\ inode' \in [Inum -> Inode]
      /\ \A n \in Inum : inode'[n].type = inode[n].type /\ inode'[n].size = inode[n].size
                         /\ inode'[n].links = inode[n].links
  <2>1. CASE FindEmptyBlock \/ ZeroBlock
    BY <2>1 DEF FindEmptyBlock, ZeroBlock, TypeOK
  <2>2. CASE SetPointer
    BY <2>2, PointerSet
  <2> QED
    BY <2>1, <2>2
<1>3. \A n \in Inum : SteadyAt(n)
  <2>1. CASE FindEmptyBlock
    <3>1. data' = data /\ inode' = inode
      BY <2>1 DEF FindEmptyBlock
    <3> QED
      BY <3>1, SteadyDisk
  <2>2. CASE ZeroBlock
    BY <2>2, ZeroSteady
  <2>3. CASE SetPointer
    BY <2>3, PointerSteady
  <2> QED
    BY <2>1, <2>2, <2>3
<1>4. PageIs' /\ WrittenIs'
  BY <1>1, <1>2, <1>3, PageStays
<1>5. BlankNodes'
  BY <1>2, BlankStays
<1>6. ASSUME NEW n \in Inum, NEW b \in 0..BlockWords
      PROVE  \/ Pointer(n, b)' = Zero
             \/ Pointer(n, b)' = Pointer(n, b) /\ data'[Pointer(n, b)] = data[Pointer(n, b)]
             \/ data'[Pointer(n, b)'] = Filled(Zero)
  <2>0. b \in Slot /\ b # Indirect
    BY Shape
  <2>1. CASE FindEmptyBlock
    BY <2>1 DEF FindEmptyBlock, Pointer
  <2>2. CASE ZeroBlock
    <3>1. /\ Pointer(n, b) # fresh /\ Pointer(n, b)' = Pointer(n, b)
          /\ \A q \in Block \cup {Zero} : q # fresh => data'[q] = data[q]
      BY <2>0, <2>2, ZeroBlocks
    <3>2. Pointer(n, b) \in Block \cup {Zero}
      BY <2>0 DEF PointersOK
    <3> QED
      BY <3>1, <3>2
  <2>3. CASE SetPointer
    <3>1. /\ data'[fresh] = Filled(Zero)
          /\ data'[Pointer(n, b)] = data[Pointer(n, b)]
          /\ \E u \in Slot :
               /\ Pointer(node, u)' = fresh
               /\ \A m \in Inum : \A s \in Slot : m # node \/ s # u => Pointer(m, s)' = Pointer(m, s)
      BY <2>0, <2>3, PointerSet
    <3>2. PICK u \in Slot :
            /\ Pointer(node, u)' = fresh
            /\ \A m \in Inum : \A s \in Slot : m # node \/ s # u => Pointer(m, s)' = Pointer(m, s)
      BY <3>1
    <3>3. CASE n = node /\ b = u
      <4>1. Pointer(n, b)' = fresh
        BY <1>1, <3>2, <3>3
      <4> QED
        BY <3>1, <4>1
    <3>4. CASE n # node \/ b # u
      BY <2>0, <3>1, <3>2, <3>4
    <3> QED
      BY <3>3, <3>4
  <2> QED
    BY <2>1, <2>2, <2>3
<1>7. ClearBehind'
  <2>1. \A n \in Inum : inode[n].size <= inode'[n].size
    BY <1>2 DEF TypeOK, Inode
  <2> QED
    BY <1>1, <1>2, <1>6, <2>1, ClearStays
<1> QED
  BY <1>1, <1>2, <1>3, <1>4, <1>5, <1>7 DEF FileInv

\* WriteData: the words of the call are there, behind the end or below it.
LEMMA DataFiles ==
  ASSUME BobFSAssumption, BlockInv, FileInv, WriteData
  PROVE  FileInv'
<1> TypeOK /\ PointersOK /\ LastBlock /\ CallOK /\ BlankNodes /\ ClearBehind /\ PageIs /\ BlocksOwned
  BY DEF BlockInv, FileInv
<1>1. /\ pc = "data" /\ pc' = "size" /\ inode' = inode /\ UNCHANGED <<node, offset, todo, crashes>>
  BY DEF WriteData, call
<1>2. PICK k \in Inum, c \in 0..BlockWords : k = node /\ c = Current
  BY <1>1, Chunk
<1>3. /\ node' = k /\ Current' = c /\ Start' = Start /\ Count' = Count
  BY <1>1, <1>2 DEF Current, Start, Count
<1>4. /\ Start \in 0..BlockWords - 1 /\ offset = c * BlockWords + Start /\ offset \in Nat
      /\ Count \in 1..BlockWords - Start /\ BlockWords \in Nat /\ c * BlockWords \in Nat
  BY <1>1, <1>2, Chunk, Shape, TimesOne
<1>5. /\ Pointer(k, c) \in Block /\ data'[Pointer(k, c)] = page /\ ReadBlock(k, c)' = page
      /\ \A b \in Block \cup {Zero} : b # Pointer(k, c) => data'[b] = data[b]
  BY <1>2, DataReads
<1>6. BlankNodes'
  BY <1>1, BlankStays
<1>7. PageIs'
  BY <1>1 DEF PageIs
<1>8. WrittenIs'
  <2> SUFFICES ASSUME NEW i \in 1..Count PROVE WordAt(k, offset + i)' = todo[1][i]
    BY <1>1, <1>3 DEF WrittenIs
  <2>1. PICK w \in Nat, j \in 1..BlockWords : w = offset + i /\ j = Start + i
    BY <1>4
  <2>2. w = c * BlockWords + j /\ j \in Start + 1..Start + Count /\ j - Start = i
    BY <1>4, <2>1
  <2>3. WordAt(k, w)' = ReadBlock(k, c)'[j]
    BY <2>2, WordIs
  <2>4. page[j] = todo[1][i]
    BY <1>1, <2>2 DEF PageIs
  <2>5. offset' = offset
    BY <1>1
  <2> QED
    BY <1>5, <2>1, <2>3, <2>4, <2>5
<1>9. ClearBehind'
  <2> SUFFICES ASSUME crashes = 0, NEW n \in Inum, NEW b \in 0..BlockWords, NEW j \in 1..BlockWords,
                      Pointer(n, b)' # Zero, inode[n].size < b * BlockWords + j,
                      ~Written(n, b, j)'
               PROVE  data'[Pointer(n, b)'][j] = Zero
    BY <1>1 DEF ClearBehind
  <2>1. Pointer(n, b)' = Pointer(n, b) /\ b \in Slot /\ c \in Slot
    BY Shape, DataBlocks
  <2>2. CASE n = k /\ b = c
    <3>1. j \notin Start + 1..Start + Count
      BY <1>1, <1>3, <2>2 DEF Written
    <3>2. ~(Current * BlockWords + j <= inode[node].size)
      <4>1. inode[k].size \in Nat
        BY DEF TypeOK, Inode
      <4> QED
        BY <1>2, <1>4, <2>2, <4>1
    <3>3. page[j] = Zero
      BY <1>1, <3>1, <3>2 DEF PageIs
    <3> QED
      BY <1>5, <2>1, <2>2, <3>3
  <2>3. CASE n # k \/ b # c
    <3>1. Pointer(n, b) # Pointer(k, c) /\ Pointer(n, b) \in Block \cup {Zero}
      BY <2>1, <2>3 DEF BlocksOwned, PointersOK
    <3>2. data[Pointer(n, b)][j] = Zero
      BY <1>1, <2>1 DEF ClearBehind, Written
    <3> QED
      BY <1>5, <2>1, <3>1, <3>2
  <2> QED
    BY <2>2, <2>3
<1> QED
  BY <1>6, <1>7, <1>8, <1>9 DEF FileInv

\* SetSize: the words just written are in the node, and zeros are behind them.
LEMMA SizeFiles ==
  ASSUME BobFSAssumption, BlockInv, FileInv, SetSize
  PROVE  FileInv'
<1> TypeOK /\ PointersOK /\ LastBlock /\ CallOK /\ BlankNodes /\ ClearBehind
  BY DEF BlockInv, FileInv
<1>1. UNCHANGED <<data, crashes>> /\ pc = "size"
  BY DEF SetSize
<1>2. /\ pc' \in {"idle", "write"} /\ inode' \in [Inum -> Inode]
      /\ \A n \in Inum : inode'[n].direct = inode[n].direct /\ inode'[n].indirect = inode[n].indirect
                         /\ inode'[n].type = inode[n].type /\ inode'[n].links = inode[n].links
      /\ \A n \in Inum : n # node => inode'[n] = inode[n]
      /\ inode'[node].size =
           IF inode[node].size <= offset + Count THEN offset + Count ELSE inode[node].size
  BY Advance
<1>3. PICK k \in Inum, c \in 0..BlockWords : k = node /\ c = Current
  BY <1>1, Chunk
<1>4. /\ Start \in 0..BlockWords - 1 /\ offset = c * BlockWords + Start /\ offset \in Nat
      /\ Count \in 1..BlockWords - Start /\ BlockWords \in Nat /\ c * BlockWords \in Nat
      /\ inode[k].size \in Nat
  BY <1>1, <1>3, Chunk, Shape, TimesOne
<1>5. BlankNodes'
  <2>1. inode[k].type # "none"
    BY <1>1, <1>3 DEF CallOK, NamingCall, FileCall
  <2>2. \A n \in Inum : n # k => inode'[n] = inode[n]
    BY <1>2, <1>3
  <2>3. inode'[k].type # "none"
    BY <1>2, <2>1
  <2> QED
    BY <2>2, <2>3, BlankStays
<1>6. PageIs' /\ WrittenIs'
  BY <1>2 DEF PageIs, WrittenIs
<1>7. ClearBehind'
  <2> SUFFICES ASSUME crashes = 0, NEW n \in Inum, NEW b \in 0..BlockWords, NEW j \in 1..BlockWords,
                      Pointer(n, b)' # Zero, inode'[n].size < b * BlockWords + j
               PROVE  data[Pointer(n, b)'][j] = Zero
    BY <1>1 DEF ClearBehind
  <2>1. Pointer(n, b)' = Pointer(n, b)
    BY <1>1, <1>2 DEF Pointer
  <2>2. b * BlockWords \in Nat /\ b * BlockWords + j \in Nat /\ inode[n].size \in Nat
    <3>1. b * BlockWords \in Nat
      BY <1>4, TimesOne
    <3>2. \A x \in Nat : x + j \in Nat
      OBVIOUS
    <3>3. inode[n].size \in Nat
      BY DEF TypeOK, Inode
    <3> QED
      BY <3>1, <3>2, <3>3
  <2>3. PICK w \in Nat : w = b * BlockWords + j
    BY <2>2
  <2>4. inode[n].size < w /\ ~Written(n, b, j)
    <3>1. CASE n # k
      BY <1>2, <1>3, <2>3, <3>1 DEF Written
    <3>2. CASE n = k
      <4>1. inode'[n].size = IF inode[n].size <= offset + Count THEN offset + Count ELSE inode[n].size
        BY <1>2, <1>3, <3>2
      <4>2. inode[n].size < w /\ offset + Count < w
        BY <1>4, <2>2, <2>3, <4>1
      <4>3. b = c => j \notin Start + 1..Start + Count
        BY <1>4, <2>3, <4>2
      <4> QED
        BY <1>3, <4>2, <4>3 DEF Written
    <3> QED
      BY <3>1, <3>2
  <2> QED
    BY <2>1, <2>3, <2>4 DEF ClearBehind
<1> QED
  BY <1>5, <1>6, <1>7 DEF FileInv

\* InitNewNode: the node made is as empty as it was.
LEMMA InitFiles ==
  ASSUME BobFSAssumption, BlockInv, FileInv, InitNewNode
  PROVE  FileInv'
<1> TypeOK /\ PointersOK /\ NodesOK /\ BlankNodes
  BY DEF BlockInv, FileInv
<1>1. /\ pc \in {"file", "dir"} /\ pc' = "write" /\ UNCHANGED <<data, crashes>>
      /\ inode' = [inode EXCEPT ![fresh] = NewInode(pc)]
  BY DEF InitNewNode
<1>2. /\ fresh \in Inum /\ inode' \in [Inum -> Inode]
      /\ \A n \in Inum : n # fresh => inode'[n] = inode[n]
      /\ inode'[fresh].type = pc /\ inode'[fresh].size = 0
  BY InitBlocks
<1>3. inode[fresh].type = "none"
  BY <1>1 DEF NodesOK
<1>4. \A n \in Inum : inode[n].size <= inode'[n].size
  <2>1. inode[fresh].size = 0
    BY <1>2, <1>3 DEF BlankNodes
  <2>2. \A n \in Inum : inode[n].size \in Nat
    BY DEF TypeOK, Inode
  <2> QED
    BY <1>2, <2>1, <2>2
<1>5. BlankNodes'
  BY <1>1, <1>2, BlankStays
<1>6. \A n \in Inum : \A s \in Slot : Pointer(n, s)' \in {Pointer(n, s), Zero}
  <2>1. inode'[fresh] = NewInode(pc)
    BY <1>1, <1>2 DEF TypeOK
  <2> QED
    BY <1>1, <1>2, <2>1 DEF Pointer, NewInode
<1> QED
  BY <1>1, <1>2, <1>4, <1>5, <1>6, QuietFiles

\* The calls: nothing is written yet but a number of links.
LEMMA CallFiles ==
  ASSUME BobFSAssumption, BlockInv, FileInv, data' = data, crashes' = crashes,
         pc = "idle", pc' \in {"idle", "file", "dir", "write"}, inode' \in [Inum -> Inode],
         \A n \in Inum : inode'[n].direct = inode[n].direct /\ inode'[n].indirect = inode[n].indirect
                         /\ inode'[n].type = inode[n].type /\ inode'[n].size = inode[n].size,
         \A n \in Inum : inode[n].type = "none" => inode'[n].links = inode[n].links
  PROVE  FileInv'
<1> TypeOK /\ PointersOK /\ BlankNodes
  BY DEF BlockInv, FileInv
<1>1. BlankNodes'
  BY BlankStays
<1>2. \A n \in Inum : \A s \in Slot : Pointer(n, s)' \in {Pointer(n, s), Zero}
  BY DEF Pointer
<1>3. \A n \in Inum : inode[n].size <= inode'[n].size
  BY DEF TypeOK, Inode
<1> QED
  BY <1>1, <1>2, <1>3, QuietFiles

\* CrashAndMount: what was written behind an end may stay there.
LEMMA CrashFiles ==
  ASSUME BobFSAssumption, BlockInv, FileInv, CrashAndMount
  PROVE  FileInv'
<1>1. pc' = "idle" /\ crashes' = crashes + 1 /\ UNCHANGED <<data, inode>> /\ crashes \in Nat
  BY DEF CrashAndMount, disk, BlockInv, TypeOK
<1>2. crashes' # 0
  BY <1>1
<1> QED
  BY <1>1, <1>2 DEF FileInv, BlankNodes, PageIs, WrittenIs, ClearBehind

\* Nothing happens.
LEMMA IdleFiles ==
  ASSUME FileInv, UNCHANGED vars
  PROVE  FileInv'
<1>1. UNCHANGED <<data, blockBit, nodeBit, inode, iroot, pc, node, offset, todo, page, fresh, crashes>>
  BY DEF vars, disk, call
<1>2. Current' = Current /\ Start' = Start /\ Count' = Count
  BY <1>1 DEF Current, Start, Count
<1>3. \A n, i : WordAt(n, i)' = WordAt(n, i) /\ Pointer(n, i)' = Pointer(n, i)
  BY <1>1 DEF WordAt, ReadBlock, BlockIdx, Filled, Pointer
<1>4. \A n, b, j : Written(n, b, j)' = Written(n, b, j)
  BY <1>1, <1>2 DEF Written
<1>5. BlankNodes'
  BY <1>1 DEF FileInv, BlankNodes
<1>6. PageIs'
  BY <1>1, <1>2, <1>3 DEF FileInv, PageIs
<1>7. WrittenIs'
  BY <1>1, <1>2, <1>3 DEF FileInv, WrittenIs
<1>8. ClearBehind'
  BY <1>1, <1>3, <1>4 DEF FileInv, ClearBehind
<1> QED
  BY <1>5, <1>6, <1>7, <1>8 DEF FileInv

\* mkfs makes no blocks, so nothing is behind the ends.
LEMMA MkfsFiles ==
  ASSUME BobFSAssumption, Init
  PROVE  FileInv
<1>1. pc = "idle" /\ inode = [n \in Inum |-> NewInode(IF n = Root THEN "dir" ELSE "none")]
  BY DEF Init
<1>2. \A n \in Inum : /\ inode[n].size = 0 /\ inode[n].links = 1
                      /\ inode[n].direct = Zero /\ inode[n].indirect = Zero
  BY <1>1 DEF NewInode
<1>3. \A n \in Inum : \A b \in 0..BlockWords : Pointer(n, b) = Zero
  BY <1>2 DEF Pointer
<1> QED
  BY <1>1, <1>2, <1>3 DEF FileInv, BlankNodes, PageIs, WrittenIs, ClearBehind

\* Every step keeps the contents in order.
LEMMA FilesStep ==
  ASSUME BobFSAssumption, ~Holes, BlockInv, FileInv, [Next]_vars
  PROVE  FileInv'
<1>1. CASE DiskWrite
  BY <1>1, WritePageFiles, GettingFiles, DataFiles, SizeFiles, InitFiles DEF DiskWrite
<1>2. CASE \E n \in Inum, at \in 0..MaxWords, buffer \in Buffers : WriteAll(n, at, buffer)
  <2>1. PICK n \in Inum, at \in 0..MaxWords, buffer \in Buffers : WriteAll(n, at, buffer)
    BY <1>2
  <2>2. pc = "idle" /\ pc' = "write" /\ UNCHANGED <<data, inode, crashes>>
    BY <2>1 DEF WriteAll, disk
  <2>3. inode' \in [Inum -> Inode]
    BY <2>2 DEF BlockInv, TypeOK
  <2> QED
    BY <2>2, <2>3, CallFiles
<1>3. CASE \E d \in Inum, name \in Name : \E kind \in {"file", "dir"} : NewNode(d, name, kind)
  <2>1. PICK d \in Inum, name \in Name, kind \in {"file", "dir"} : NewNode(d, name, kind)
    BY <1>3
  <2>2. pc = "idle" /\ pc' = kind /\ UNCHANGED <<data, inode, crashes>>
    BY <2>1 DEF NewNode
  <2>3. inode' \in [Inum -> Inode]
    BY <2>2 DEF BlockInv, TypeOK
  <2> QED
    BY <2>2, <2>3, CallFiles
<1>4. CASE \E d \in Inum, name \in Name : \E n \in Inum : LinkNode(d, name, n)
  <2>1. PICK d \in Inum, name \in Name, n \in Inum : LinkNode(d, name, n)
    BY <1>4
  <2>2. /\ pc = "idle" /\ pc' = "write" /\ inode' \in [Inum -> Inode] /\ inode[n].type = "file"
        /\ \A m \in Inum : m # n => inode'[m] = inode[m]
    BY <2>1, LinkBlocks
  <2>3. UNCHANGED <<data, crashes>> /\ inode' = [inode EXCEPT ![n].links = @ + 1]
    BY <2>1 DEF LinkNode
  <2>4. /\ inode'[n].direct = inode[n].direct /\ inode'[n].indirect = inode[n].indirect
        /\ inode'[n].type = inode[n].type /\ inode'[n].size = inode[n].size
    <3>1. inode \in [Inum -> Inode] /\ inode[n] \in Inode
      BY DEF BlockInv, TypeOK
    <3> QED
      BY <2>3, <3>1 DEF Inode
  <2>5. \A m \in Inum : inode[m].type = "none" => inode'[m].links = inode[m].links
    BY <2>2
  <2> QED
    BY <2>2, <2>3, <2>4, <2>5, CallFiles
<1>5. CASE CrashAndMount
  BY <1>5, CrashFiles
<1>6. CASE UNCHANGED vars
  BY <1>6, IdleFiles
<1> QED
  BY <1>1, <1>2, <1>3, <1>4, <1>5, <1>6, NextCases

\* What is in the files, also of a call in the middle: the page that is written
\* next has the words of the call where they belong and around them what was
\* there, and unless the machine has stopped before the words behind the end of
\* a node are zero (bobfs.cc's writeBlock and write), if nobody writes to a
\* block once skipped.
THEOREM ContentsHold ==
  ASSUME ~Holes
  PROVE  Spec => [](BlockInv /\ FileInv)
<1>1. Init => BlockInv /\ FileInv
  BY BobFSAssumption, MkfsBlocks, MkfsFiles
<1>2. BlockInv /\ FileInv /\ [Next]_vars => BlockInv' /\ FileInv'
  BY BobFSAssumption, BlocksStep, FilesStep
<1> QED
  BY <1>1, <1>2, PTL DEF Spec
-----------------------------------------------------------------------------
(* Files as their users see them *)

\* What FlattenSeq makes of no buffer, of one, two and three.
LEMMA FlatNone == FlattenSeq(<<>>) = <<>>
BY DEF FlattenSeq

LEMMA FlatOne == ASSUME NEW s PROVE FlattenSeq(<<s>>) = s
<1>0. PICK q : q = <<s>>
  OBVIOUS
<1>1. Len(q) = 1 /\ q[1] = s /\ 1 \in 1..1 /\ 1 \in Nat \ {0}
  BY <1>0
<1> DEFINE h == [i \in 1..1 |-> s]
<1>2. h = [i \in 1..1 |-> IF i = 1 THEN q[i] ELSE h[i - 1] \o q[i]]
  BY <1>1
<1> HIDE DEF h
<1> DEFINE F(x) == [i \in 1..Len(q) |-> IF i = 1 THEN q[i] ELSE x[i - 1] \o q[i]]
<1>6. PICK f : f = (CHOOSE x : x = F(x))
  OBVIOUS
<1>7. f = F(f)
  <2>1. h = F(h)
    BY <1>1, <1>2
  <2> QED
    BY <2>1, <1>6, Zenon
<1>8. FlattenSeq(q) = f[Len(q)]
  <2>1. Len(q) # 0
    BY <1>1
  <2> QED
    BY <1>6, <2>1 DEF FlattenSeq
<1>3. /\ \A i \in 1..1 : f[i] = IF i = 1 THEN q[i] ELSE f[i - 1] \o q[i]
      /\ FlattenSeq(q) = f[1]
  BY <1>1, <1>7, <1>8
<1>4. f[1] = q[1]
  BY <1>1, <1>3, Zenon
<1> QED
  BY <1>0, <1>1, <1>3, <1>4

LEMMA FlatTwo == ASSUME NEW s, NEW t PROVE FlattenSeq(<<s, t>>) = s \o t
<1>0. PICK q, g : q = <<s, t>> /\ g = s \o t
  OBVIOUS
<1>1. Len(q) = 2 /\ q[1] = s /\ q[2] = t /\ 2 \in Nat \ {0}
  BY <1>0
<1> DEFINE h == [i \in 1..2 |-> IF i = 1 THEN s ELSE g]
<1>2. h = [i \in 1..2 |-> IF i = 1 THEN q[i] ELSE h[i - 1] \o q[i]]
  <2>1. h[1] = s
    OBVIOUS
  <2>2. \A i \in 1..2 : h[i] = IF i = 1 THEN s ELSE g
    OBVIOUS
  <2> HIDE DEF h
  <2>3. g = h[1] \o q[2]
    BY <1>0, <1>1, <2>1, Zenon
  <2>4. \A i \in 1..2 : h[i] = IF i = 1 THEN q[i] ELSE h[i - 1] \o q[i]
    <3> SUFFICES ASSUME NEW i \in 1..2
                 PROVE  h[i] = IF i = 1 THEN q[i] ELSE h[i - 1] \o q[i]
      OBVIOUS
    <3>1. CASE i = 1
      BY <1>1, <2>2, <3>1
    <3>2. CASE i # 1
      <4>1. i = 2 /\ i - 1 = 1
        BY <3>2
      <4>2. h[i] = g
        BY <2>2, <3>2
      <4> QED
        BY <2>3, <3>2, <4>1, <4>2, Zenon
    <3> QED
      BY <3>1, <3>2
  <2>5. h = [i \in 1..2 |-> h[i]]
    BY DEF h
  <2> QED
    BY <2>4, <2>5
<1> HIDE DEF h
<1> DEFINE F(x) == [i \in 1..Len(q) |-> IF i = 1 THEN q[i] ELSE x[i - 1] \o q[i]]
<1>6. PICK f : f = (CHOOSE x : x = F(x))
  OBVIOUS
<1>7. f = F(f)
  <2>1. h = F(h)
    BY <1>1, <1>2
  <2> QED
    BY <2>1, <1>6, Zenon
<1>8. FlattenSeq(q) = f[Len(q)]
  <2>1. Len(q) # 0
    BY <1>1
  <2> QED
    BY <1>6, <2>1 DEF FlattenSeq
<1>3. /\ \A i \in 1..2 : f[i] = IF i = 1 THEN q[i] ELSE f[i - 1] \o q[i]
      /\ FlattenSeq(q) = f[2]
  BY <1>1, <1>7, <1>8
<1>4. 1 \in 1..2 /\ 2 \in 1..2 /\ 2 # 1 /\ 2 - 1 = 1
  OBVIOUS
<1>5. f[1] = q[1] /\ f[2] = f[1] \o q[2]
  BY <1>3, <1>4, Zenon
<1> QED
  BY <1>0, <1>1, <1>3, <1>5, Zenon

LEMMA FlatThree ==
  ASSUME NEW s, NEW t, NEW u, NEW g, g = s \o t, NEW e, e = g \o u
  PROVE  FlattenSeq(<<s, t, u>>) = e
<1>0. PICK q : q = <<s, t, u>>
  OBVIOUS
<1>1. Len(q) = 3 /\ q[1] = s /\ q[2] = t /\ q[3] = u
  BY <1>0
<1> DEFINE h == [i \in 1..3 |-> IF i = 1 THEN s ELSE IF i = 2 THEN g ELSE e]
<1>2. h = [i \in 1..3 |-> IF i = 1 THEN q[i] ELSE h[i - 1] \o q[i]]
  <2>1. h[1] = s /\ h[2] = g /\ h[3] = e
    OBVIOUS
  <2>2. h = [i \in 1..3 |-> h[i]]
    OBVIOUS
  <2> HIDE DEF h
  <2>3. h[2] = h[1] \o q[2] /\ h[3] = h[2] \o q[3] /\ h[1] = q[1]
    BY <1>0, <1>1, <2>1, Zenon
  <2>4. \A i \in 1..3 : h[i] = IF i = 1 THEN q[i] ELSE h[i - 1] \o q[i]
    <3> SUFFICES ASSUME NEW i \in 1..3
                 PROVE  h[i] = IF i = 1 THEN q[i] ELSE h[i - 1] \o q[i]
      OBVIOUS
    <3>1. CASE i = 1
      BY <2>3, <3>1
    <3>2. CASE i = 2
      <4>1. i # 1 /\ i - 1 = 1
        BY <3>2
      <4> QED
        BY <2>3, <3>2, <4>1, Zenon
    <3>3. CASE i = 3
      <4>1. i # 1 /\ i - 1 = 2
        BY <3>3
      <4> QED
        BY <2>3, <3>3, <4>1, Zenon
    <3> QED
      BY <3>1, <3>2, <3>3
  <2> QED
    BY <2>2, <2>4
<1> HIDE DEF h
<1> DEFINE F(x) == [i \in 1..Len(q) |-> IF i = 1 THEN q[i] ELSE x[i - 1] \o q[i]]
<1>3. PICK f : f = (CHOOSE x : x = F(x))
  OBVIOUS
<1>4. f = F(f)
  <2>1. h = F(h)
    BY <1>1, <1>2
  <2> QED
    BY <2>1, <1>3, Zenon
<1>5. FlattenSeq(q) = f[Len(q)]
  <2>1. Len(q) # 0
    BY <1>1
  <2> QED
    BY <1>3, <2>1 DEF FlattenSeq
<1>6. /\ \A i \in 1..3 : f[i] = IF i = 1 THEN q[i] ELSE f[i - 1] \o q[i]
      /\ FlattenSeq(q) = f[3]
  BY <1>1, <1>4, <1>5
<1>7. 1 \in 1..3 /\ 2 \in 1..3 /\ 3 \in 1..3 /\ 2 # 1 /\ 3 # 1 /\ 2 - 1 = 1 /\ 3 - 1 = 2
  OBVIOUS
<1>8. f[1] = q[1] /\ f[2] = f[1] \o q[2] /\ f[3] = f[2] \o q[3]
  BY <1>6, <1>7, Zenon
<1> QED
  BY <1>0, <1>1, <1>6, <1>8, Zenon

\* Words put behind each other.
LEMMA Glued ==
  ASSUME NEW S, NEW x \in S, NEW y \in S, NEW z \in S
  PROVE  <<x>> \o <<y>> = <<x, y>> /\ <<x, y>> \o <<z>> = <<x, y, z>>
<1>1. PICK a \in Seq(S), b \in Seq(S), c \in Seq(S), d \in Seq(S), e \in Seq(S) :
        a = <<x>> /\ b = <<y>> /\ c = <<z>> /\ d = <<x, y>> /\ e = <<x, y, z>>
  <2>1. <<x>> \in Seq(S) /\ <<y>> \in Seq(S) /\ <<z>> \in Seq(S) /\ <<x, y>> \in Seq(S)
        /\ <<x, y, z>> \in Seq(S)
    OBVIOUS
  <2> QED
    BY <2>1, Zenon
<1>2. /\ Len(a) = 1 /\ Len(b) = 1 /\ Len(c) = 1 /\ Len(d) = 2 /\ Len(e) = 3
      /\ a[1] = x /\ b[1] = y /\ c[1] = z /\ d[1] = x /\ d[2] = y
      /\ e[1] = x /\ e[2] = y /\ e[3] = z
  BY <1>1
<1>3. a \o b = d
  <2>1. /\ a \o b \in Seq(S) /\ Len(a \o b) = Len(a) + Len(b)
        /\ \A i \in 1..Len(a) + Len(b) :
             (a \o b)[i] = IF i <= Len(a) THEN a[i] ELSE b[i - Len(a)]
    BY ConcatProperties
  <2>2. PICK f \in Seq(S) : f = a \o b
    BY <2>1
  <2>3. /\ Len(f) = 2
        /\ \A i \in 1..2 : f[i] = IF i <= 1 THEN a[i] ELSE b[i - 1]
    BY <1>2, <2>1, <2>2
  <2>4. f[1] = x /\ f[2] = y
    BY <1>2, <2>3
  <2>5. f = d
    BY <1>2, <2>3, <2>4, SeqEqual
  <2> QED
    BY <2>2, <2>5
<1>4. d \o c = e
  <2>1. /\ d \o c \in Seq(S) /\ Len(d \o c) = Len(d) + Len(c)
        /\ \A i \in 1..Len(d) + Len(c) :
             (d \o c)[i] = IF i <= Len(d) THEN d[i] ELSE c[i - Len(d)]
    BY ConcatProperties
  <2>2. PICK f \in Seq(S) : f = d \o c
    BY <2>1
  <2>3. /\ Len(f) = 3
        /\ \A i \in 1..3 : f[i] = IF i <= 2 THEN d[i] ELSE c[i - 2]
    BY <1>2, <2>1, <2>2
  <2>4. f[1] = x /\ f[2] = y /\ f[3] = z
    BY <1>2, <2>3
  <2>5. f = e
    BY <1>2, <2>3, <2>4, SeqEqual
  <2> QED
    BY <2>2, <2>5
<1> QED
  BY <1>1, <1>3, <1>4

\* The buffers of an entry, a word each.
LEMMA FlatWords ==
  ASSUME NEW S, NEW x \in S, NEW y \in S, NEW z \in S
  PROVE  /\ FlattenSeq(<<<<x>>, <<y>>, <<z>>>>) = <<x, y, z>>
         /\ FlattenSeq(<<<<y>>, <<z>>>>) = <<y, z>>
<1>1. <<x>> \o <<y>> = <<x, y>> /\ <<x, y>> \o <<z>> = <<x, y, z>> /\ <<y>> \o <<z>> = <<y, z>>
  BY Glued
<1>2. FlattenSeq(<<<<x>>, <<y>>, <<z>>>>) = (<<x>> \o <<y>>) \o <<z>>
  <2>1. PICK a, b, c, d, e : a = <<x>> /\ b = <<y>> /\ c = <<z>> /\ d = a \o b /\ e = d \o c
    OBVIOUS
  <2>2. FlattenSeq(<<a, b, c>>) = e
    BY <2>1, FlatThree
  <2> QED
    BY <2>1, <2>2
<1>3. FlattenSeq(<<<<y>>, <<z>>>>) = <<y>> \o <<z>>
  BY FlatTwo, Zenon
<1> QED
  BY <1>1, <1>2, <1>3, Zenon

\* The same of any three words.
LEMMA FlatEntry ==
  ASSUME NEW x, NEW y, NEW z
  PROVE  /\ FlattenSeq(<<<<x>>, <<y>>, <<z>>>>) = <<x, y, z>>
         /\ FlattenSeq(<<<<y>>, <<z>>>>) = <<y, z>>
<1>0. PICK S : S = {x, y, z}
  OBVIOUS
<1>1. PICK a \in S, b \in S, c \in S : a = x /\ b = y /\ c = z
  BY <1>0
<1>2. /\ FlattenSeq(<<<<a>>, <<b>>, <<c>>>>) = <<a, b, c>>
      /\ FlattenSeq(<<<<b>>, <<c>>>>) = <<b, c>>
  BY FlatWords
<1> QED
  BY <1>1, <1>2, Zenon

\* The content of a node has its size.
LEMMA ContentIs ==
  ASSUME TypeOK, NEW n \in Inum
  PROVE  /\ inode[n].size \in Nat /\ Len(Content(n)) = inode[n].size
         /\ \A i \in 1..inode[n].size : Content(n)[i] = WordAt(n, i)
<1>1. inode[n].size \in Nat
  BY DEF TypeOK, Inode
<1> QED
  BY <1>1 DEF Content

\* Words and sizes that stay are the same content.
LEMMA SameContent ==
  ASSUME NEW n \in Inum, SteadyAt(n), inode'[n].size = inode[n].size
  PROVE  Content(n)' = Content(n)
<1>1. \A i \in 1..inode[n].size : WordAt(n, i)' = WordAt(n, i)
  BY DEF SteadyAt
<1> QED
  BY <1>1 DEF Content

\* The words of an entry.
LEMMA EntryWords ==
  ASSUME NEW n \in Inum, NEW name \in Name
  PROVE  FlattenSeq(Entry(n, name)) = <<n, Length, name>>
<1>1. n \in Word /\ Length \in Word /\ name \in Word
  BY DEF Word
<1>2. /\ FlattenSeq(<<<<n>>, <<Length>>, <<name>>>>) = <<n, Length, name>>
      /\ FlattenSeq(<<<<Length>>, <<name>>>>) = <<Length, name>>
  BY <1>1, FlatWords
<1> QED
  BY <1>2 DEF Entry

\* The words a call has left, in a row.
LEMMA CallWords ==
  ASSUME CallOK, pc # "idle"
  PROVE  /\ FlattenSeq(todo) \in Seq(Word) /\ Len(FlattenSeq(todo)) = Left
         /\ \A i \in 1..Len(todo[1]) : FlattenSeq(todo)[i] = todo[1][i]
<1>1. CASE NamingCall
  <2>1. PICK n \in Inum, name \in Name :
          todo \in {Entry(n, name), <<<<Length>>, <<name>>>>, <<<<name>>>>}
    BY <1>1 DEF NamingCall
  <2>2. n \in Word /\ Length \in Word /\ name \in Word
    BY DEF Word
  <2>3. /\ FlattenSeq(<<<<n>>, <<Length>>, <<name>>>>) = <<n, Length, name>>
        /\ FlattenSeq(<<<<Length>>, <<name>>>>) = <<Length, name>>
        /\ FlattenSeq(<<<<name>>>>) = <<name>>
    BY FlatEntry, FlatOne, Zenon
  <2>4. CASE todo = Entry(n, name)
    <3>1. /\ FlattenSeq(todo) = <<n, Length, name>> /\ Left = 3
          /\ todo[1] = <<n>>
      BY <2>3, <2>4 DEF Entry, Left
    <3> QED
      BY <2>2, <3>1
  <2>5. CASE todo = <<<<Length>>, <<name>>>>
    <3>1. /\ FlattenSeq(todo) = <<Length, name>> /\ Left = 2
          /\ todo[1] = <<Length>>
      BY <2>3, <2>5 DEF Left
    <3> QED
      BY <2>2, <3>1
  <2>6. CASE todo = <<<<name>>>>
    <3>1. /\ FlattenSeq(todo) = <<name>> /\ Left = 1
          /\ todo[1] = <<name>>
      BY <2>3, <2>6 DEF Left
    <3> QED
      BY <2>2, <3>1
  <2> QED
    BY <2>1, <2>4, <2>5, <2>6
<1>2. CASE FileCall
  <2>1. PICK buffer \in Seq(Data) \ {<<>>} : todo = <<buffer>>
    BY <1>2 DEF FileCall
  <2>2. FlattenSeq(todo) = buffer /\ todo[1] = buffer /\ Left = Len(buffer)
    BY <2>1, FlatOne DEF Left
  <2>3. buffer \in Seq(Word)
    BY <2>1 DEF Word
  <2> QED
    BY <2>2, <2>3
<1> QED
  BY <1>1, <1>2 DEF CallOK

\* What is left of a sequence behind its first k elements.
LEMMA RestIs ==
  ASSUME NEW S, NEW s \in Seq(S), NEW r \in Seq(S), NEW k \in Nat, Len(s) = k + Len(r),
         \A i \in 1..Len(r) : r[i] = s[k + i]
  PROVE  r = SubSeq(s, k + 1, Len(s))
<1> DEFINE t == SubSeq(s, k + 1, Len(s))
<1>1. \A i \in k + 1..Len(s) : s[i] \in S
  OBVIOUS
<1>2. k + 1 \in Int /\ Len(s) \in Int /\ Len(r) \in Nat
  OBVIOUS
<1>3. /\ t \in Seq(S) /\ Len(t) = IF k + 1 <= Len(s) THEN Len(s) - (k + 1) + 1 ELSE 0
      /\ \A i \in 1..Len(s) - (k + 1) + 1 : t[i] = s[(k + 1) + i - 1]
  BY <1>1, <1>2, SubSeqProperties
<1> HIDE DEF t
<1>4. Len(t) = Len(r)
  BY <1>2, <1>3
<1>5. \A i \in 1..Len(r) : t[i] = r[i]
  BY <1>2, <1>3
<1>6. t = r
  BY <1>3, <1>4, <1>5, SeqEqual
<1> QED
  BY <1>6 DEF t

\* SetSize takes the words just written off those that are left.
LEMMA WordsAdvance ==
  ASSUME BobFSAssumption, TypeOK, CallOK, SetSize
  PROVE  /\ FlattenSeq(todo)' = SubSeq(FlattenSeq(todo), Count + 1, Len(FlattenSeq(todo)))
         /\ FlattenSeq(todo)' = <<>> <=> todo' = <<>>
<1>1. pc = "size" /\ todo' = IF SubSeq(Head(todo), Count + 1, Len(Head(todo))) = <<>> THEN Tail(todo)
                 ELSE <<SubSeq(Head(todo), Count + 1, Len(Head(todo)))>> \o Tail(todo)
  BY DEF SetSize
<1>2. Count \in Nat /\ Count >= 1 /\ Count <= Len(todo[1]) /\ Head(todo) = todo[1]
  BY <1>1, Chunk, Buffered, Shape
<1>3. FlattenSeq(todo)' = FlattenSeq(todo')
  OBVIOUS
<1>4. CASE NamingCall
  <2>1. PICK n \in Inum, name \in Name :
          todo \in {Entry(n, name), <<<<Length>>, <<name>>>>, <<<<name>>>>}
    BY <1>4 DEF NamingCall
  <2>2. n \in Word /\ Length \in Word /\ name \in Word
    BY DEF Word
  <2>3. /\ FlattenSeq(<<<<n>>, <<Length>>, <<name>>>>) = <<n, Length, name>>
        /\ FlattenSeq(<<<<Length>>, <<name>>>>) = <<Length, name>>
        /\ FlattenSeq(<<<<name>>>>) = <<name>>
    BY FlatEntry, FlatOne, Zenon
  <2>4. Count = 1 /\ todo' = Tail(todo)
    BY <1>4, Advance
  <2>5. CASE todo = Entry(n, name)
    <3>1. todo' = <<<<Length>>, <<name>>>>
      BY <2>4, <2>5 DEF Entry
    <3>2. PICK s \in Seq(Word), r \in Seq(Word) : s = <<n, Length, name>> /\ r = <<Length, name>>
      <4>1. <<n, Length, name>> \in Seq(Word) /\ <<Length, name>> \in Seq(Word)
        BY <2>2
      <4> QED
        BY <4>1, Zenon
    <3>3. FlattenSeq(todo) = s /\ FlattenSeq(todo') = r
      BY <2>3, <2>5, <3>1, <3>2 DEF Entry
    <3>4. Len(s) = 1 + Len(r) /\ \A i \in 1..Len(r) : r[i] = s[1 + i]
      BY <3>2
    <3>5. r = SubSeq(s, 1 + 1, Len(s))
      BY <3>4, RestIs
    <3>6. r = <<>> <=> todo' = <<>>
      BY <3>1, <3>2
    <3> QED
      BY <1>3, <2>4, <3>3, <3>5, <3>6, Zenon
  <2>6. CASE todo = <<<<Length>>, <<name>>>>
    <3>1. todo' = <<<<name>>>>
      BY <2>4, <2>6
    <3>2. PICK s \in Seq(Word), r \in Seq(Word) : s = <<Length, name>> /\ r = <<name>>
      <4>1. <<Length, name>> \in Seq(Word) /\ <<name>> \in Seq(Word)
        BY <2>2
      <4> QED
        BY <4>1, Zenon
    <3>3. FlattenSeq(todo) = s /\ FlattenSeq(todo') = r
      BY <2>3, <2>6, <3>1, <3>2
    <3>4. Len(s) = 1 + Len(r) /\ \A i \in 1..Len(r) : r[i] = s[1 + i]
      BY <3>2
    <3>5. r = SubSeq(s, 1 + 1, Len(s))
      BY <3>4, RestIs
    <3>6. r = <<>> <=> todo' = <<>>
      BY <3>1, <3>2
    <3> QED
      BY <1>3, <2>4, <3>3, <3>5, <3>6, Zenon
  <2>7. CASE todo = <<<<name>>>>
    <3>1. todo' = <<>>
      BY <2>4, <2>7
    <3>2. PICK s \in Seq(Word), r \in Seq(Word) : s = <<name>> /\ r = <<>>
      <4>1. <<name>> \in Seq(Word) /\ <<>> \in Seq(Word)
        BY <2>2
      <4> QED
        BY <4>1, Zenon
    <3>3. FlattenSeq(todo) = s /\ FlattenSeq(todo') = r
      BY <2>3, <2>7, <3>1, <3>2, FlatNone
    <3>4. Len(s) = 1 + Len(r) /\ \A i \in 1..Len(r) : r[i] = s[1 + i]
      BY <3>2
    <3>5. r = SubSeq(s, 1 + 1, Len(s))
      BY <3>4, RestIs
    <3>6. r = <<>> <=> todo' = <<>>
      BY <3>1, <3>2
    <3> QED
      BY <1>3, <2>4, <3>3, <3>5, <3>6, Zenon
  <2> QED
    BY <2>1, <2>5, <2>6, <2>7
<1>5. CASE FileCall
  <2>1. PICK buffer \in Seq(Data) \ {<<>>} : todo = <<buffer>>
    BY <1>5 DEF FileCall
  <2>2. PICK rest \in Seq(Data) : /\ rest = SubSeq(buffer, Count + 1, Len(buffer))
                                  /\ rest = <<>> <=> Count = Len(buffer)
    <3>1. Count \in 1..Len(buffer)
      BY <1>2, <2>1
    <3>2. PICK k \in 1..Len(buffer) : k = Count
      BY <3>1
    <3>3. /\ SubSeq(buffer, k + 1, Len(buffer)) \in Seq(Data)
          /\ SubSeq(buffer, k + 1, Len(buffer)) = <<>> <=> k = Len(buffer)
      BY RestOf
    <3> QED
      BY <3>2, <3>3
  <2>3. todo' = IF rest = <<>> THEN <<>> ELSE <<rest>>
    BY <1>1, <2>1, <2>2
  <2>4. FlattenSeq(todo) = buffer
    BY <2>1, FlatOne
  <2>5. FlattenSeq(todo') = rest
    BY <2>3, FlatOne, FlatNone
  <2> QED
    BY <1>3, <2>2, <2>3, <2>4, <2>5
<1> QED
  BY <1>1, <1>4, <1>5 DEF CallOK

\* While the block that is written is got ready, users see nothing.
LEMMA QuietSteps ==
  ASSUME TypeOK, Writing, Writing', UNCHANGED <<node, offset, todo, crashes>>,
         \A n \in Inum : SteadyAt(n),
         \A n \in Inum : inode'[n].type = inode[n].type /\ inode'[n].size = inode[n].size
                         /\ inode'[n].links = inode[n].links
  PROVE  UNCHANGED AsFiles!vars
<1>1. \A n \in Inum : Content(n)' = Content(n)
  BY SameContent
<1>2. [n \in Inum |-> Content(n)]' = [n \in Inum |-> Content(n)]
  BY <1>1
<1> QED
  BY <1>2 DEF AsFiles!vars

\* mkfs makes an empty root and no other node.
LEMMA StartOfFiles ==
  ASSUME Init
  PROVE  AsFiles!Init
<1>1. /\ inode = [n \in Inum |-> NewInode(IF n = Root THEN "dir" ELSE "none")]
      /\ pc = "idle" /\ crashes = 0
  BY DEF Init
<1>2. \A n \in Inum : /\ inode[n].type = IF n = Root THEN "dir" ELSE "none"
                      /\ inode[n].links = 1 /\ inode[n].size = 0
  BY <1>1 DEF NewInode
<1>3. \A n \in Inum : Content(n) = <<>>
  BY <1>2 DEF Content
<1>4. ~Writing
  BY <1>1 DEF Writing
<1> QED
  BY <1>1, <1>2, <1>3, <1>4 DEF AsFiles!Init

\* writeAll begins to write a file.
LEMMA CallStarts ==
  ASSUME BobFSAssumption, ~Holes, BlockInv,
         NEW n \in Inum, NEW at \in 0..MaxWords, NEW buffer \in Buffers, WriteAll(n, at, buffer)
  PROVE  AsFiles!WriteAll
<1>1. /\ pc = "idle" /\ pc' = "write" /\ inode[n].type = "file"
      /\ node' = n /\ offset' = at /\ todo' = <<buffer>>
      /\ UNCHANGED <<data, inode, crashes>>
  BY DEF WriteAll, IsFile, Call, disk
<1>2. FlattenSeq(todo') = buffer /\ buffer # <<>>
  BY <1>1, FlatOne DEF BobFSAssumption
<1>3. [m \in Inum |-> Content(m)]' = [m \in Inum |-> Content(m)]
  <2>1. \A m \in Inum : Content(m)' = Content(m)
    BY <1>1, SteadyDisk, SameContent
  <2> QED
    BY <2>1
<1>4. ~Writing /\ Writing'
  BY <1>1 DEF Writing
<1>5. AsFiles!Begin
  BY <1>1, <1>2, <1>4 DEF AsFiles!Begin, AsFiles!Idle
<1> QED
  BY <1>1, <1>3, <1>4, <1>5 DEF AsFiles!WriteAll

\* newNode makes the node and begins to write its entry in one step of the
\* files.
LEMMA NodeStarts ==
  ASSUME BobFSAssumption, BlockInv, FileInv, InitNewNode
  PROVE  \E n \in Inum : AsFiles!NewNode(n)
<1> TypeOK /\ CallOK /\ NodesOK /\ BlankNodes
  BY DEF BlockInv, FileInv
<1>1. /\ pc \in {"file", "dir"} /\ pc' = "write" /\ UNCHANGED <<data, node, offset, todo, crashes>>
      /\ inode' = [inode EXCEPT ![fresh] = NewInode(pc)]
  BY DEF InitNewNode, call
<1>2. PICK n \in Inum : n = fresh
  BY InitBlocks
<1>3. PICK name \in Name : todo = Entry(n, name)
  BY <1>1, <1>2 DEF NodesOK
<1>4. /\ node \in Inum /\ offset = inode[node].size /\ inode[node].type = "dir"
      /\ inode[n].type = "none" /\ offset \in Nat /\ offset + Left <= MaxWords /\ Left = 3
  BY <1>1, <1>2, <1>3 DEF CallOK, NamingCall, FileCall, NodesOK, Left, Entry
<1>5. PICK w : w = FlattenSeq(todo) /\ w = <<n, Length, name>>
  <2>1. FlattenSeq(todo) = <<n, Length, name>>
    BY <1>3, EntryWords
  <2> QED
    BY <2>1
<1>6. /\ w # <<>> /\ w[1] = n /\ FlattenSeq(todo') = w
      /\ offset \in 0..MaxWords
  <2>1. offset \in 0..MaxWords
    BY <1>4, Shape
  <2>2. w # <<>> /\ w[1] = n
    BY <1>5
  <2> QED
    BY <1>1, <1>5, <2>1, <2>2
<1>7. /\ inode'[n] = NewInode(pc) /\ \A m \in Inum : m # n => inode'[m] = inode[m]
  BY <1>1, <1>2 DEF TypeOK
<1>8. /\ inode'[n].type = pc /\ inode'[n].links = 1 /\ inode'[n].size = 0
      /\ inode[n].links = 1 /\ inode[n].size = 0
  BY <1>4, <1>7 DEF NewInode, BlankNodes
<1>9. [m \in Inum |-> Content(m)]' = [m \in Inum |-> Content(m)]
  <2>1. ASSUME NEW m \in Inum PROVE Content(m)' = Content(m)
    <3>1. CASE m # n
      <4>1. inode'[m] = inode[m]
        BY <1>7, <3>1
      <4> QED
        BY <4>1, <1>1, SteadyDisk, SameContent
    <3>2. CASE m = n
      <4>1. SteadyAt(m)
        BY <1>8, <3>2 DEF SteadyAt
      <4> QED
        BY <1>8, <3>2, <4>1, SameContent
    <3> QED
      BY <3>1, <3>2
  <2> QED
    BY <2>1
<1>10. ~Writing /\ Writing'
  BY <1>1 DEF Writing
<1>11. AsFiles!Begin
  BY <1>1, <1>4, <1>6, <1>10 DEF AsFiles!Begin, AsFiles!Idle
<1>12. [m \in Inum |-> inode[m].type]' = [[m \in Inum |-> inode[m].type] EXCEPT ![n] = pc]
  BY <1>7, <1>8
<1>13. [m \in Inum |-> inode[m].links]' = [m \in Inum |-> inode[m].links]
  <2>1. \A m \in Inum : inode'[m].links = inode[m].links
    BY <1>7, <1>8
  <2> QED
    BY <2>1
<1>14. Len(Content(node)) = offset
  BY <1>4, ContentIs
<1>15. AsFiles!NewNode(n)
  BY <1>1, <1>4, <1>5, <1>6, <1>9, <1>10, <1>11, <1>12, <1>13, <1>14 DEF AsFiles!NewNode
<1> QED
  BY <1>15

\* linkNode counts the link and begins to write the entry.
LEMMA LinkStarts ==
  ASSUME BobFSAssumption, BlockInv,
         NEW d \in Inum, NEW name \in Name, NEW n \in Inum, LinkNode(d, name, n)
  PROVE  AsFiles!LinkNode(n)
<1> TypeOK
  BY DEF BlockInv
<1>1. /\ pc = "idle" /\ pc' = "write" /\ inode[d].type = "dir" /\ inode[n].type = "file"
      /\ node' = d /\ offset' = inode[d].size /\ todo' = Entry(n, name)
      /\ RoomForEntry(d) /\ UNCHANGED <<data, crashes>>
      /\ inode' = [inode EXCEPT ![n].links = @ + 1]
  BY DEF LinkNode, IsDir, IsFile, Call
<1>2. /\ inode'[n].links = inode[n].links + 1 /\ inode'[n].type = inode[n].type
      /\ inode'[n].size = inode[n].size /\ inode'[n].direct = inode[n].direct
      /\ inode'[n].indirect = inode[n].indirect
      /\ \A m \in Inum : m # n => inode'[m] = inode[m]
  BY <1>1 DEF TypeOK, Inode
<1>3. PICK w : w = FlattenSeq(Entry(n, name)) /\ w = <<n, Length, name>>
  <2>1. FlattenSeq(Entry(n, name)) = <<n, Length, name>>
    BY EntryWords
  <2> QED
    BY <2>1
<1>4. /\ w # <<>> /\ w[1] = n /\ FlattenSeq(todo') = w
  BY <1>1, <1>3
<1>5. inode[d].size \in 0..MaxWords
  BY <1>1, Shape DEF RoomForEntry, TypeOK, Inode
<1>6. [m \in Inum |-> Content(m)]' = [m \in Inum |-> Content(m)]
  <2>1. ASSUME NEW m \in Inum PROVE Content(m)' = Content(m)
    <3>1. /\ inode'[m].direct = inode[m].direct /\ inode'[m].indirect = inode[m].indirect
          /\ inode'[m].size = inode[m].size
      BY <1>2
    <3> QED
      BY <3>1, <1>1, SteadyDisk, SameContent
  <2> QED
    BY <2>1
<1>7. ~Writing /\ Writing'
  BY <1>1 DEF Writing
<1>8. AsFiles!Begin
  BY <1>1, <1>4, <1>5, <1>7 DEF AsFiles!Begin, AsFiles!Idle
<1>9. [m \in Inum |-> inode[m].type]' = [m \in Inum |-> inode[m].type]
  <2>1. \A m \in Inum : inode'[m].type = inode[m].type
    BY <1>2
  <2> QED
    BY <2>1
<1>10. [m \in Inum |-> inode[m].links]' =
         [[m \in Inum |-> inode[m].links] EXCEPT ![n] = [m \in Inum |-> inode[m].links][n] + 1]
  <2>1. \A m \in Inum : inode'[m].links = IF m = n THEN inode[n].links + 1 ELSE inode[m].links
    BY <1>2
  <2> QED
    BY <2>1
<1>11. Len(Content(d)) = inode[d].size
  BY ContentIs
<1> QED
  BY <1>1, <1>4, <1>6, <1>7, <1>8, <1>9, <1>10, <1>11 DEF AsFiles!LinkNode

\* WriteData shows the words below the end of the node.
LEMMA DataOverwrites ==
  ASSUME BobFSAssumption, BlockInv, FileInv, WriteData
  PROVE  \E k \in 1..Len(FlattenSeq(todo)) : AsFiles!Overwrite(k)
<1> TypeOK /\ CallOK /\ PageIs
  BY DEF BlockInv, FileInv
<1>1. pc = "data" /\ pc' = "size" /\ UNCHANGED <<inode, node, offset, todo, crashes>>
  BY DEF WriteData, call
<1>2. PICK k \in Inum, m \in Nat, o \in Nat, w \in Seq(Word) :
        k = node /\ m = Count /\ o = offset /\ w = FlattenSeq(todo)
  <2>1. node \in Inum /\ Count \in Nat /\ offset \in Nat /\ FlattenSeq(todo) \in Seq(Word)
    BY <1>1, Chunk, CallWords, Shape
  <2> QED
    BY <2>1
<1>3. m \in 1..Len(w) /\ \A i \in 1..m : w[i] = todo[1][i]
  <2>1. Count >= 1 /\ Count <= Len(todo[1]) /\ Len(todo[1]) <= Left /\ Left \in Nat /\ Len(todo[1]) \in Nat
    BY <1>1, Chunk, Buffered, Shape
  <2>2. Len(w) = Left /\ \A i \in 1..Len(todo[1]) : w[i] = todo[1][i]
    BY <1>1, <1>2, CallWords
  <2> QED
    BY <1>2, <2>1, <2>2
<1>4. \A n \in Inum : n # k => Content(n)' = Content(n)
  <2>1. ASSUME NEW n \in Inum, n # k
        PROVE  SteadyAt(n)
    BY <1>2, <2>1, DataWords DEF SteadyAt
  <2> QED
    BY <1>1, <2>1, SameContent
<1> DEFINE over == {i \in 1..Len(Content(k)) : i \in o + 1..o + m}
<1>5. Content(k)' = [i \in 1..Len(Content(k)) |-> IF i \in over THEN w[i - o] ELSE Content(k)[i]]
  <2>1. Len(Content(k)) = inode[k].size /\ inode[k].size \in Nat
        /\ \A i \in 1..inode[k].size : Content(k)[i] = WordAt(k, i)
    BY ContentIs
  <2>2. Content(k)' = [i \in 1..inode[k].size |-> WordAt(k, i)']
    BY <1>1 DEF Content
  <2>3. ASSUME NEW i \in 1..inode[k].size
        PROVE  WordAt(k, i)' = IF i \in over THEN w[i - o] ELSE Content(k)[i]
    <3>1. WordAt(k, i)' = IF i \in o + 1..o + m THEN todo[1][i - o] ELSE WordAt(k, i)
      BY <1>2, DataWords
    <3>2. i \in o + 1..o + m => w[i - o] = todo[1][i - o]
      <4>1. i \in o + 1..o + m => i - o \in 1..m
        OBVIOUS
      <4> QED
        BY <4>1, <1>3
    <3>3. i \in over <=> i \in o + 1..o + m
      BY <2>1
    <3> QED
      BY <2>1, <3>1, <3>2, <3>3
  <2> HIDE DEF over
  <2> QED
    BY <2>1, <2>2, <2>3
<1>6. [n \in Inum |-> Content(n)]' =
        [[n \in Inum |-> Content(n)] EXCEPT ![k] =
          [i \in 1..Len(Content(k)) |-> IF i \in over THEN w[i - o] ELSE Content(k)[i]]]
  <2> DEFINE g == [i \in 1..Len(Content(k)) |-> IF i \in over THEN w[i - o] ELSE Content(k)[i]]
  <2>1. \A n \in Inum : Content(n)' = IF n = k THEN g ELSE Content(n)
    BY <1>4, <1>5
  <2> HIDE DEF g
  <2>2. [n \in Inum |-> Content(n)]' = [[n \in Inum |-> Content(n)] EXCEPT ![k] = g]
    BY <2>1
  <2> QED
    BY <2>2 DEF g
<1>7. Writing /\ Writing'
  BY <1>1 DEF Writing
<1>8. AsFiles!Overwrite(m)
  <2>1. [n \in Inum |-> Content(n)][k] = Content(k)
    OBVIOUS
  <2> QED
    BY <1>1, <1>2, <1>6, <1>7, <2>1 DEF AsFiles!Overwrite
<1> QED
  BY <1>2, <1>3, <1>8

\* Behind the old end a node reads as zeros up to where the call writes.
LEMMA GapIsZero ==
  ASSUME BobFSAssumption, BlockInv, FileInv, pc = "size", crashes = 0,
         NEW i \in Nat, i > inode[node].size, i <= offset
  PROVE  WordAt(node, i) = Zero
<1> TypeOK /\ CallOK /\ PointersOK /\ FreshOK /\ ClearBehind
  BY DEF BlockInv, FileInv
<1>1. PICK k \in Inum, c \in 0..BlockWords : k = node /\ c = Current
  BY Chunk
<1>2. /\ inode[k].size \in Nat /\ Start \in 0..BlockWords - 1 /\ offset = c * BlockWords + Start
      /\ BlockWords \in Nat /\ BlockWords > 0 /\ c * BlockWords \in Nat /\ offset \in Nat
      /\ Zero \notin Block
  BY <1>1, Chunk, Shape, TimesOne
<1>3. PICK b \in Nat, j \in 1..BlockWords : i = b * BlockWords + j
  <2>1. i > 0
    BY <1>1, <1>2
  <2> QED
    BY <2>1, WordOf
<1>4. b * BlockWords \in Nat /\ (c + 1) * BlockWords = c * BlockWords + BlockWords
  BY <1>2, TimesOne
<1>5. b <= c
  <2>1. b * BlockWords < (c + 1) * BlockWords
    <3>1. PICK x \in Nat, y \in Nat : x = b * BlockWords /\ y = c * BlockWords
      BY <1>2, <1>4
    <3>2. i = x + j /\ offset = y + Start
      BY <1>2, <1>3, <3>1
    <3>3. x < y + BlockWords
      BY <1>2, <3>2
    <3> QED
      BY <1>4, <3>1, <3>3
  <2> QED
    BY <1>2, <2>1, Below
<1>6. b \in 0..BlockWords /\ b \in Slot /\ b # Indirect /\ c \in Slot /\ c # Indirect
  <2>1. b \in 0..BlockWords
    BY <1>2, <1>5
  <2>2. \A s \in 0..BlockWords : s \in Slot /\ s # Indirect
    BY <1>2, Shape
  <2> QED
    BY <2>1, <2>2
<1>7. Pointer(k, c) # Zero
  BY <1>1 DEF FreshOK
<1>8. BlockIdx(k, b) = Pointer(k, b)
  <2>1. CASE b = 0
    BY <2>1 DEF BlockIdx, Pointer
  <2>2. CASE b # 0
    <3>1. c # 0
      BY <1>5, <2>2
    <3>2. inode[k].indirect # Zero
      BY <1>6, <1>7, <3>1 DEF Pointer
    <3> QED
      BY <1>6, <2>2, <3>2 DEF BlockIdx, Pointer
  <2> QED
    BY <2>1, <2>2
<1>9. WordAt(k, i) = ReadBlock(k, b)[j]
  BY <1>3, WordIs
<1>10. CASE Pointer(k, b) = Zero
  BY <1>1, <1>8, <1>9, <1>10 DEF ReadBlock, Filled
<1>11. CASE Pointer(k, b) # Zero
  <2>1. ~Written(k, b, j)
    <3>1. b = c => ~(j \in Start + 1..Start + Count)
      BY <1>2, <1>3
    <3> QED
      BY <1>1, <3>1 DEF Written
  <2>2. data[Pointer(k, b)][j] = Zero
    <3>1. inode[k].size < b * BlockWords + j
      BY <1>1, <1>2, <1>3
    <3> QED
      BY <1>6, <1>11, <2>1, <3>1 DEF ClearBehind
  <2> QED
    BY <1>1, <1>8, <1>9, <1>11, <2>2 DEF ReadBlock
<1> QED
  BY <1>10, <1>11

\* SetSize shows those behind it, and any block that was skipped as zeros.
LEMMA SizeAdvances ==
  ASSUME BobFSAssumption, BlockInv, FileInv, SetSize
  PROVE  \E k \in 1..Len(FlattenSeq(todo)) : AsFiles!Advance(k)
<1> TypeOK /\ CallOK /\ WrittenIs
  BY DEF BlockInv, FileInv
<1>1. pc = "size" /\ UNCHANGED <<data, node, crashes>> /\ offset' = offset + Count
  BY DEF SetSize
<1>2. PICK k \in Inum, m \in Nat, o \in Nat, w \in Seq(Word) :
        k = node /\ m = Count /\ o = offset /\ w = FlattenSeq(todo)
  <2>1. node \in Inum /\ Count \in Nat /\ offset \in Nat /\ FlattenSeq(todo) \in Seq(Word)
    BY <1>1, Chunk, CallWords, Shape
  <2> QED
    BY <2>1
<1>3. m \in 1..Len(w) /\ \A i \in 1..m : w[i] = todo[1][i]
  <2>1. Count >= 1 /\ Count <= Len(todo[1]) /\ Len(todo[1]) <= Left /\ Left \in Nat /\ Len(todo[1]) \in Nat
    BY <1>1, Chunk, Buffered, Shape
  <2>2. Len(w) = Left /\ \A i \in 1..Len(todo[1]) : w[i] = todo[1][i]
    BY <1>1, <1>2, CallWords
  <2> QED
    BY <1>2, <2>1, <2>2
<1>4. /\ pc' = (IF todo' = <<>> THEN "idle" ELSE "write") /\ inode' \in [Inum -> Inode]
      /\ \A n \in Inum : inode'[n].direct = inode[n].direct /\ inode'[n].indirect = inode[n].indirect
                         /\ inode'[n].type = inode[n].type /\ inode'[n].links = inode[n].links
      /\ \A n \in Inum : n # k => inode'[n] = inode[n]
      /\ inode'[k].size = IF inode[k].size <= o + m THEN o + m ELSE inode[k].size
  BY <1>2, Advance
<1>5. \A n \in Inum : \A i : WordAt(n, i)' = WordAt(n, i)
  BY <1>1, <1>4 DEF WordAt, ReadBlock, BlockIdx, Filled
<1>6. \A n \in Inum : n # k => Content(n)' = Content(n)
  BY <1>4, <1>5 DEF Content
<1>7. PICK s \in Nat, t \in Nat : s = inode[k].size /\ t = inode'[k].size
  <2>1. inode[k].size \in Nat /\ inode'[k].size \in Nat
    BY <1>4 DEF TypeOK, Inode
  <2> QED
    BY <2>1
<1>0. PICK old, new : old = Content(k) /\ new = Content(k)'
  OBVIOUS
<1>8. /\ Len(old) = s /\ Len(new) = t
      /\ \A i \in 1..s : old[i] = WordAt(k, i)
      /\ \A i \in 1..t : new[i] = WordAt(k, i)
      /\ t = IF s <= o + m THEN o + m ELSE s
  <2>1. new = [i \in 1..t |-> WordAt(k, i)']
    BY <1>0, <1>7 DEF Content
  <2>2. new = [i \in 1..t |-> WordAt(k, i)]
    BY <1>5, <2>1
  <2>3. Len(new) = t /\ \A i \in 1..t : new[i] = WordAt(k, i)
    BY <2>2
  <2> QED
    BY <1>0, <1>4, <1>7, <2>3, ContentIs
<1>9. ASSUME NEW i \in 1..Len(new)
      PROVE  IF i \in o + 1..o + m THEN new[i] = w[i - o]
             ELSE IF i <= Len(old) THEN new[i] = old[i] ELSE new[i] = Zero \/ crashes > 0
  <2>1. CASE i \in o + 1..o + m
    <3>1. i - o \in 1..m /\ o + (i - o) = i
      BY <2>1
    <3>2. WordAt(k, o + (i - o)) = todo[1][i - o]
      BY <1>1, <1>2, <3>1 DEF WrittenIs
    <3> QED
      BY <1>3, <1>8, <2>1, <3>1, <3>2
  <2>2. CASE i \notin o + 1..o + m /\ i <= s
    <3>1. i \in 1..s
      BY <1>8, <2>2
    <3> QED
      BY <1>8, <2>2, <3>1
  <2>3. CASE i \notin o + 1..o + m /\ ~(i <= s)
    <3>1. i <= o /\ i \in Nat /\ i > s
      BY <1>8, <2>3
    <3>2. crashes = 0 => WordAt(k, i) = Zero
      BY <1>1, <1>2, <1>7, <3>1, GapIsZero
    <3>3. crashes \in Nat
      BY DEF TypeOK
    <3> QED
      BY <1>8, <2>3, <3>2, <3>3
  <2> QED
    BY <2>1, <2>2, <2>3
<1>10. Len(new) = IF o + m > Len(old) THEN o + m ELSE Len(old)
  BY <1>8
<1>11. [n \in Inum |-> Content(n)]' = [[n \in Inum |-> Content(n)] EXCEPT ![k] = new]
  <2>1. \A n \in Inum : Content(n)' = IF n = k THEN new ELSE Content(n)
    BY <1>0, <1>6
  <2> QED
    BY <2>1
<1>12. /\ [n \in Inum |-> inode[n].type]' = [n \in Inum |-> inode[n].type]
       /\ [n \in Inum |-> inode[n].links]' = [n \in Inum |-> inode[n].links]
  BY <1>4
<1>13. Writing /\ (Writing' <=> todo' # <<>>)
  BY <1>1, <1>4 DEF Writing
<1>14. FlattenSeq(todo)' = SubSeq(w, m + 1, Len(w)) /\ (FlattenSeq(todo)' = <<>> <=> todo' = <<>>)
  BY <1>2, WordsAdvance
<1>15. AsFiles!Advance(m)
  <2>1. [n \in Inum |-> Content(n)][k] = old /\ [n \in Inum |-> Content(n)]'[k] = new
    BY <1>0
  <2>2. (IF Writing' THEN FlattenSeq(todo)' ELSE <<>>) = SubSeq(w, m + 1, Len(w))
    BY <1>13, <1>14
  <2> QED
    BY <1>1, <1>2, <1>9, <1>10, <1>11, <1>12, <1>13, <1>14, <2>1, <2>2 DEF AsFiles!Advance
<1> QED
  BY <1>2, <1>3, <1>15

\* A crash forgets the words that are left, and changes no content.
LEMMA FilesCrash ==
  ASSUME BobFSAssumption, BlockInv, CrashAndMount
  PROVE  AsFiles!Crash
<1>1. pc' = "idle" /\ crashes' = crashes + 1 /\ UNCHANGED <<data, inode>> /\ crashes \in Nat
  BY DEF CrashAndMount, disk, BlockInv, TypeOK
<1>2. [n \in Inum |-> Content(n)]' = [n \in Inum |-> Content(n)]
  BY <1>1 DEF Content, WordAt, ReadBlock, BlockIdx, Filled
<1>3. ~Writing' /\ crashes' > 0
  BY <1>1 DEF Writing
<1> QED
  BY <1>1, <1>2, <1>3 DEF AsFiles!Crash

\* Every step of the disk is one of the files, or is not seen.
LEMMA DiskFilesStep ==
  ASSUME BobFSAssumption, BlockInv, FileInv, DiskWrite
  PROVE  [AsFiles!Next]_(AsFiles!vars)
<1> TypeOK
  BY DEF BlockInv
<1>1. CASE WritePage
  <2>1. /\ pc = "write" /\ pc' \in {"data", "bit"}
        /\ UNCHANGED <<data, inode, node, offset, todo, crashes>>
    BY <1>1 DEF WritePage, WriteNext, disk, call
  <2>2. Writing /\ Writing'
    BY <2>1 DEF Writing
  <2>3. \A n \in Inum : SteadyAt(n)
    BY <2>1, SteadyDisk
  <2> QED
    BY <2>1, <2>2, <2>3, QuietSteps
<1>2. CASE FindEmptyBlock \/ ZeroBlock \/ SetPointer
  <2>1. /\ (\A n \in Inum : SteadyAt(n)) /\ UNCHANGED <<node, offset, todo, crashes>>
        /\ \A n \in Inum : inode'[n].type = inode[n].type /\ inode'[n].size = inode[n].size
                           /\ inode'[n].links = inode[n].links
        /\ pc \in {"bit", "zero", "pointer"} /\ pc' \in {"bit", "zero", "pointer", "data"}
    BY <1>2, GettingFiles
  <2>2. Writing /\ Writing'
    BY <2>1 DEF Writing
  <2> QED
    BY <2>1, <2>2, QuietSteps
<1>3. CASE WriteData
  <2>1. AsFiles!Next
    BY <1>3, DataOverwrites, CallWords DEF AsFiles!Next, Writing, WriteData, BlockInv
  <2> QED
    BY <2>1
<1>4. CASE SetSize
  <2>1. AsFiles!Next
    BY <1>4, SizeAdvances DEF AsFiles!Next, Writing, SetSize
  <2> QED
    BY <2>1
<1>5. CASE InitNewNode
  <2>1. AsFiles!Next
    BY <1>5, NodeStarts DEF AsFiles!Next
  <2> QED
    BY <2>1
<1> QED
  BY <1>1, <1>2, <1>3, <1>4, <1>5 DEF DiskWrite

\* An i-node is taken: users see nothing yet.
LEMMA IdleSteps ==
  ASSUME pc = "idle", pc' \in {"file", "dir"}, UNCHANGED <<data, inode, crashes>>
  PROVE  UNCHANGED AsFiles!vars
<1>1. [n \in Inum |-> Content(n)]' = [n \in Inum |-> Content(n)]
  BY DEF Content, WordAt, ReadBlock, BlockIdx, Filled
<1>2. ~Writing /\ ~Writing'
  BY DEF Writing
<1> QED
  BY <1>1, <1>2 DEF AsFiles!vars

\* Every step is one of the files, or is not seen.
LEMMA AsFilesStep ==
  ASSUME BobFSAssumption, ~Holes, BlockInv, FileInv, [Next]_vars
  PROVE  [AsFiles!Next]_(AsFiles!vars)
<1>1. CASE DiskWrite
  BY <1>1, DiskFilesStep
<1>2. CASE \E n \in Inum, at \in 0..MaxWords, buffer \in Buffers : WriteAll(n, at, buffer)
  BY <1>2, CallStarts DEF AsFiles!Next
<1>3. CASE \E d \in Inum, name \in Name : \E kind \in {"file", "dir"} : NewNode(d, name, kind)
  <2>1. pc = "idle" /\ pc' \in {"file", "dir"} /\ UNCHANGED <<data, inode, crashes>>
    BY <1>3 DEF NewNode
  <2> QED
    BY <2>1, IdleSteps
<1>4. CASE \E d \in Inum, name \in Name : \E n \in Inum : LinkNode(d, name, n)
  <2>1. \E n \in Inum : AsFiles!LinkNode(n)
    BY <1>4, LinkStarts
  <2> QED
    BY <2>1 DEF AsFiles!Next
<1>5. CASE CrashAndMount
  BY <1>5, FilesCrash DEF AsFiles!Next
<1>6. CASE UNCHANGED vars
  BY <1>6 DEF vars, disk, call, AsFiles!vars, Writing, Content, WordAt, ReadBlock, BlockIdx, Filled
<1> QED
  BY <1>1, <1>2, <1>3, <1>4, <1>5, <1>6, NextCases

\* The file system keeps what Files promises: contents change only by the call
\* in progress, from its first word to its last, a block that is skipped reads
\* as zeros, and a crash loses the rest of that call and nothing else
\* (bobfs.cc's writeAll, newNode and linkNode), if nobody writes to a block
\* once skipped.
THEOREM DoesWhatFilesDo ==
  ASSUME ~Holes
  PROVE  Spec => ImplementsFiles
<1>1. Init => AsFiles!Init
  BY StartOfFiles
<1>2. BlockInv /\ FileInv /\ [Next]_vars => [AsFiles!Next]_(AsFiles!vars)
  BY BobFSAssumption, AsFilesStep
<1> QED
  BY <1>1, <1>2, ContentsHold, PTL DEF Spec, ImplementsFiles, AsFiles!Spec
-----------------------------------------------------------------------------
(* Directories *)

\* A node that an entry may lead to.
Good(n) == n \in nodeBit /\ inode[n].type # "none"

\* An entry of d, at c, that has its length and stands in front of a torn one.
Entered(d, c) ==
  /\ inode[d].type = "dir"
  /\ c % 3 = 0 /\ c + 2 <= inode[d].size /\ c + 3 <= torn[d]

\* The entries with the i-number n.
Spots(n) == {p \in Inum \X Nat : Entered(p[1], p[2]) /\ WordAt(p[1], p[2] + 1) = n}

\* The node that the entry being written will lead to.
Target == IF Len(todo) = 3 THEN todo[1][1] ELSE WordAt(node, offset)
Promised(n) == pc # "idle" /\ Len(todo) > 1 /\ Target = n

\* A directory is made of whole entries, with what is left of the one that is
\* being written, and from the first torn one on of anything.
Coming(d) == IF pc # "idle" /\ node = d THEN Len(todo) ELSE 0
Aligned ==
  /\ torn \in [Inum -> Nat]
  /\ \A d \in Inum :
       /\ torn[d] % 3 = 0
       /\ torn[d] # Never => inode[d].type = "dir" /\ torn[d] <= inode[d].size
       /\ torn[d] = Never /\ inode[d].type = "dir" => (inode[d].size + Coming(d)) % 3 = 0

\* An entry has its length where it belongs and leads to a node that is there,
\* and what is being named is there too.
Leads ==
  /\ \A d \in Inum, c \in Nat : Entered(d, c) =>
       /\ WordAt(d, c + 2) = Length
       /\ WordAt(d, c + 1) \in Inum /\ Good(WordAt(d, c + 1))
  /\ pc # "idle" /\ Len(todo) = 2 => offset > 0
  /\ pc \notin {"idle", "file", "dir"} /\ Len(todo) > 1 => Target \in Inum /\ Good(Target)

\* The entries a node may have, and those it has or was promised.
Allowed(n) ==
  IF n = Root THEN 0
  ELSE IF inode[n].type = "dir" THEN 1
  ELSE IF inode[n].type = "file" THEN inode[n].links
  ELSE IF pc \in {"file", "dir"} /\ n = fresh THEN 1 ELSE 0
Claims(n) == Cardinality(Spots(n)) + (IF Promised(n) THEN 1 ELSE 0)
Counted == \A n \in Inum : IsFiniteSet(Spots(n)) /\ Claims(n) <= Allowed(n)

DirInv == Aligned /\ Leads /\ Counted

\* A step that leaves the words of the directories alone, and one that finds no
\* entry whole that was not.
Steady == \A d \in Inum : inode[d].type = "dir" => SteadyAt(d)
TornFalls == torn \in [Inum -> Nat] /\ \A d \in Inum : torn'[d] \in Nat /\ torn'[d] <= torn[d]

-----------------------------------------------------------------------------
(* Entries and links in every step *)

LEMMA TornSame == ASSUME Aligned, torn' = torn PROVE TornFalls
BY DEF Aligned, TornFalls

\* Directories only grow, those without a torn entry by whole entries.
LEMMA TornStays ==
  ASSUME Aligned, torn' = torn, TypeOK, inode' \in [Inum -> Inode],
         \A d \in Inum : inode[d].type = "dir" =>
           inode'[d].type = "dir" /\ inode'[d].size >= inode[d].size,
         \A d \in Inum : torn[d] = Never /\ inode'[d].type = "dir" =>
           (inode'[d].size + Coming(d)') % 3 = 0
  PROVE  Aligned'
<1>1. ASSUME NEW d \in Inum, torn[d] # Never
      PROVE  inode'[d].type = "dir" /\ torn[d] <= inode'[d].size
  <2>1. /\ torn[d] \in Nat /\ inode[d].size \in Nat /\ inode'[d].size \in Nat
        /\ inode[d].type = "dir" /\ torn[d] <= inode[d].size
    BY <1>1 DEF Aligned, TypeOK, Inode
  <2> QED
    BY <2>1
<1> QED
  BY <1>1 DEF Aligned, Never

\* An i-node that was no directory may become an empty one.
LEMMA FewerEntered ==
  ASSUME TypeOK, TornFalls, NEW d \in Inum, NEW c \in Nat, Entered(d, c)',
         \/ inode'[d].type = inode[d].type /\ (inode[d].type = "dir" => inode'[d].size = inode[d].size)
         \/ inode[d].type # "dir" /\ inode'[d].size = 0
  PROVE  Entered(d, c) /\ c + 1 \in 1..inode[d].size /\ c + 2 \in 1..inode[d].size
<1>1. inode'[d].type = "dir" /\ c % 3 = 0 /\ c + 2 <= inode'[d].size /\ c + 3 <= torn'[d]
  BY DEF Entered
<1>2. torn[d] \in Nat /\ torn'[d] \in Nat /\ torn'[d] <= torn[d] /\ inode[d].size \in Nat
  BY DEF TornFalls, TypeOK, Inode
<1>3. inode'[d].size # 0
  BY <1>1
<1>4. inode[d].type = "dir" /\ inode'[d].size = inode[d].size
  BY <1>1, <1>3
<1> QED
  BY <1>1, <1>2, <1>4 DEF Entered

\* Words and sizes that stay have the same entries, or fewer.
LEMMA FewerSpots ==
  ASSUME TypeOK, TornFalls, Steady,
         \A d \in Inum :
           \/ inode'[d].type = inode[d].type /\ (inode[d].type = "dir" => inode'[d].size = inode[d].size)
           \/ inode[d].type # "dir" /\ inode'[d].size = 0,
         NEW n
  PROVE  Spots(n)' \subseteq Spots(n)
<1>1. ASSUME NEW p \in Inum \X Nat, Entered(p[1], p[2])', WordAt(p[1], p[2] + 1)' = n
      PROVE  Entered(p[1], p[2]) /\ WordAt(p[1], p[2] + 1) = n
  <2>1. PICK d \in Inum, y \in Nat : d = p[1] /\ y = p[2] + 1
    BY <1>1
  <2>2. Entered(p[1], p[2]) /\ p[2] + 1 \in 1..inode[p[1]].size
    BY <1>1, FewerEntered
  <2>3. inode[d].type = "dir" /\ y \in 1..inode[d].size
    BY <2>1, <2>2 DEF Entered
  <2>4. WordAt(d, y)' = WordAt(d, y)
    BY <2>3 DEF Steady, SteadyAt
  <2> QED
    BY <1>1, <2>1, <2>2, <2>4
<1>2. ASSUME NEW p \in Inum \X Nat, p \in Spots(n)'
      PROVE  p \in Spots(n)
  BY <1>1, <1>2 DEF Spots
<1>3. Spots(n)' \subseteq Inum \X Nat
  BY DEF Spots
<1> QED
  BY <1>2, <1>3

\* Words and sizes that stay lead to the same nodes, which are still there.
LEMMA SameLeads ==
  ASSUME TypeOK, inode' \in [Inum -> Inode], TornFalls, Steady, Leads, nodeBit \subseteq nodeBit',
         \A d \in Inum :
           \/ inode'[d].type = inode[d].type /\ (inode[d].type = "dir" => inode'[d].size = inode[d].size)
           \/ inode[d].type = "none" /\ inode'[d].type # "none" /\ inode'[d].size = 0
  PROVE  /\ \A d \in Inum, c \in Nat : Entered(d, c)' =>
              /\ WordAt(d, c + 2)' = Length
              /\ WordAt(d, c + 1)' \in Inum /\ Good(WordAt(d, c + 1))'
         /\ \A n \in Inum : Good(n) => Good(n)'
<1>1. \A n \in Inum : Good(n) => Good(n)'
  BY DEF Good
<1>2. ASSUME NEW d \in Inum, NEW c \in Nat, Entered(d, c)'
      PROVE  /\ WordAt(d, c + 2)' = Length
             /\ WordAt(d, c + 1)' \in Inum /\ Good(WordAt(d, c + 1))'
  <2>1. PICK x \in Nat, y \in Nat : x = c + 2 /\ y = c + 1
    OBVIOUS
  <2>2. Entered(d, c) /\ x \in 1..inode[d].size /\ y \in 1..inode[d].size
    BY <1>2, <2>1, FewerEntered
  <2>3. WordAt(d, x)' = WordAt(d, x) /\ WordAt(d, y)' = WordAt(d, y)
    BY <2>2 DEF Entered, Steady, SteadyAt
  <2>4. WordAt(d, x) = Length /\ WordAt(d, y) \in Inum /\ Good(WordAt(d, y))
    BY <2>1, <2>2 DEF Leads
  <2>5. PICK w \in Inum : w = WordAt(d, y) /\ Good(w)
    BY <2>4
  <2>6. WordAt(d, y)' = w /\ Good(w)'
    BY <1>1, <2>3, <2>5
  <2>7. Good(WordAt(d, y))'
    BY <2>6 DEF Good
  <2> QED
    BY <2>1, <2>3, <2>4, <2>6, <2>7
<1> QED
  BY <1>1, <1>2

\* Nothing leads to a node that is not there.
LEMMA NoSpots ==
  ASSUME Leads, NEW n \in Inum, ~Good(n)
  PROVE  Spots(n) = {}
<1> SUFFICES ASSUME NEW p \in Spots(n) PROVE FALSE
  OBVIOUS
<1>1. p \in Inum \X Nat /\ Entered(p[1], p[2]) /\ WordAt(p[1], p[2] + 1) = n
  BY DEF Spots
<1>2. p[1] \in Inum /\ p[2] \in Nat
  BY <1>1
<1> QED
  BY <1>1, <1>2 DEF Leads

\* What is counted for a node never grows past what it may have.
LEMMA StillCounted ==
  ASSUME Counted, NEW n \in Inum, Spots(n)' \subseteq Spots(n),
         Promised(n)' => Promised(n), Allowed(n)' >= Allowed(n), Allowed(n) \in Nat, Allowed(n)' \in Nat
  PROVE  IsFiniteSet(Spots(n)') /\ Claims(n)' <= Allowed(n)'
<1>1. IsFiniteSet(Spots(n)) /\ Claims(n) <= Allowed(n)
  BY DEF Counted
<1>2. /\ Cardinality(Spots(n)) \in Nat /\ IsFiniteSet(Spots(n)')
      /\ Cardinality(Spots(n)') \in Nat /\ Cardinality(Spots(n)') <= Cardinality(Spots(n))
  BY <1>1, FS_CardinalityType, FS_Subset
<1>3. Claims(n)' <= Claims(n) /\ Claims(n)' \in Nat /\ Claims(n) \in Nat
  <2>1. Claims(n)' = Cardinality(Spots(n)') + (IF Promised(n)' THEN 1 ELSE 0)
    BY DEF Claims
  <2> QED
    BY <1>2, <2>1 DEF Claims
<1> QED
  BY <1>1, <1>2, <1>3

\* A node with no entry, and none coming, has not too many.
LEMMA UncountedIsFine ==
  ASSUME NEW n \in Inum, Spots(n)' = {}, ~Promised(n)', Allowed(n)' \in Nat
  PROVE  IsFiniteSet(Spots(n)') /\ Claims(n)' <= Allowed(n)'
<1>1. Claims(n)' = 0
  <2>1. Claims(n)' = Cardinality(Spots(n)') + (IF Promised(n)' THEN 1 ELSE 0)
    BY DEF Claims
  <2> QED
    BY <2>1, FS_EmptySet
<1> QED
  BY <1>1, FS_EmptySet

\* The entries allowed are a number.
LEMMA AllowedType ==
  ASSUME TypeOK, NEW n \in Inum
  PROVE  Allowed(n) \in Nat
BY DEF Allowed, TypeOK, Inode

\* The target stays while its entry is written, whatever else is.
LEMMA SameTarget ==
  ASSUME BlockInv, Leads, Steady, pc # "idle", Len(todo) > 1, UNCHANGED <<node, offset, todo>>
  PROVE  Target' = Target
<1> TypeOK /\ CallOK
  BY DEF BlockInv
<1>1. CASE Len(todo) = 3
  BY <1>1 DEF Target
<1>2. CASE Len(todo) # 3
  <2>1. NamingCall /\ Len(todo) = 2 /\ node \in Inum /\ offset \in Nat
    <3>1. Len(todo) \in 1..3 /\ (FileCall => Len(todo) = 1)
      BY Buffered
    <3>2. (NamingCall \/ FileCall) /\ node \in Inum /\ offset \in Nat
      BY DEF CallOK
    <3>3. Len(todo) = 2
      <4>1. PICK l \in 1..3 : l = Len(todo)
        BY <3>1
      <4>2. l # 3 /\ l > 1
        BY <1>2, <4>1
      <4> QED
        BY <4>1, <4>2
    <3>4. ~FileCall
      BY <3>1, <3>3
    <3> QED
      BY <3>2, <3>3, <3>4, Zenon
  <2>2. inode[node].type = "dir" /\ offset = inode[node].size /\ offset > 0
    BY <2>1 DEF NamingCall, Leads
  <2>3. PICK k \in Inum, x \in 1..inode[node].size : k = node /\ x = offset
    BY <2>1, <2>2
  <2>4. WordAt(k, x)' = WordAt(k, x)
    BY <2>2, <2>3 DEF Steady, SteadyAt
  <2>5. Target = WordAt(k, x)
    BY <1>2, <2>3 DEF Target
  <2>6. Target' = WordAt(k, x)'
    <3>1. Len(todo') # 3 /\ node' = k /\ offset' = x
      BY <1>2, <2>3
    <3> QED
      BY <3>1 DEF Target
  <2> QED
    BY <2>4, <2>5, <2>6
<1> QED
  BY <1>1, <1>2

\* The steps that write on, but neither a size nor an i-node.
LEMMA QuietDirs ==
  ASSUME BobFSAssumption, BlockInv, BlockInv', Aligned, Leads, Counted, Steady,
         pc \notin {"idle", "file", "dir"}, pc' \notin {"idle", "file", "dir"},
         UNCHANGED <<nodeBit, node, offset, todo, torn>>,
         \A d \in Inum : inode'[d].type = inode[d].type /\ inode'[d].size = inode[d].size
                         /\ inode'[d].links = inode[d].links
  PROVE  Aligned' /\ Leads' /\ Counted'
<1> TypeOK /\ TypeOK' /\ inode' \in [Inum -> Inode] /\ TornFalls
  BY TornSame DEF BlockInv, TypeOK
<1>1. Aligned'
  BY DEF Aligned, Coming, Never
<1>2. Len(todo) > 1 => Target' = Target
  BY SameTarget
<1>3. Leads'
  <2>1. Len(todo) > 1 => Target' \in Inum /\ Good(Target)'
    <3> SUFFICES ASSUME Len(todo) > 1 PROVE Target' \in Inum /\ Good(Target)'
      OBVIOUS
    <3>1. PICK w \in Inum : w = Target /\ Good(w)
      BY DEF Leads
    <3>2. Target' = w /\ Good(w)'
      BY <1>2, <3>1 DEF Good
    <3> QED
      BY <3>2 DEF Good
  <2>2. \A d \in Inum, c \in Nat : Entered(d, c)' =>
          /\ WordAt(d, c + 2)' = Length
          /\ WordAt(d, c + 1)' \in Inum /\ Good(WordAt(d, c + 1))'
    BY SameLeads
  <2>3. Len(todo) = 2 => offset > 0
    BY DEF Leads
  <2> QED
    BY <2>1, <2>2, <2>3 DEF Leads
<1>4. ASSUME NEW n \in Inum
      PROVE  IsFiniteSet(Spots(n)') /\ Claims(n)' <= Allowed(n)'
  <2>1. Spots(n)' \subseteq Spots(n)
    BY FewerSpots
  <2>2. Promised(n)' => Promised(n)
    BY <1>2 DEF Promised
  <2>3. Allowed(n)' = Allowed(n) /\ Allowed(n) \in Nat
    BY AllowedType DEF Allowed
  <2> QED
    BY <2>1, <2>2, <2>3, StillCounted
<1> QED
  BY <1>1, <1>3, <1>4 DEF Counted

\* The steps that only start the writing of a file, or end all writing.
LEMMA LeaveDirs ==
  ASSUME BobFSAssumption, BlockInv, BlockInv', TornFalls, Leads, Counted,
         UNCHANGED <<data, nodeBit>>, pc' \notin {"file", "dir"},
         \A d \in Inum : inode'[d].direct = inode[d].direct /\ inode'[d].indirect = inode[d].indirect
                         /\ inode'[d].type = inode[d].type /\ inode'[d].links = inode[d].links,
         \A d \in Inum : inode[d].type = "dir" => inode'[d].size = inode[d].size,
         pc' = "idle" \/ \E buffer : todo' = <<buffer>>
  PROVE  Leads' /\ Counted'
<1> TypeOK /\ TypeOK' /\ inode' \in [Inum -> Inode]
  BY DEF BlockInv, TypeOK
<1>0. pc' = "idle" \/ (~(Len(todo') > 1) /\ Len(todo') # 2)
  <2>1. ASSUME NEW buffer, todo' = <<buffer>>
        PROVE  ~(Len(todo') > 1) /\ Len(todo') # 2
    BY <2>1
  <2> QED
    BY <2>1
<1>1. Steady
  BY SteadyDisk DEF Steady
<1>2. Leads'
  <2>1. \A d \in Inum, c \in Nat : Entered(d, c)' =>
          /\ WordAt(d, c + 2)' = Length
          /\ WordAt(d, c + 1)' \in Inum /\ Good(WordAt(d, c + 1))'
    BY <1>1, SameLeads
  <2> QED
    BY <1>0, <2>1 DEF Leads
<1>3. ASSUME NEW n \in Inum
      PROVE  IsFiniteSet(Spots(n)') /\ Claims(n)' <= Allowed(n)'
  <2>1. Spots(n)' \subseteq Spots(n)
    BY <1>1, FewerSpots
  <2>2. ~Promised(n)'
    BY <1>0 DEF Promised
  <2>3. Allowed(n)' \in Nat /\ Allowed(n) \in Nat
    BY DEF Allowed, TypeOK, Inode
  <2>4. CASE Good(n)
    <3>1. Allowed(n)' = Allowed(n)
      BY <2>4 DEF Allowed, Good, TypeOK, Inode
    <3> QED
      BY <2>1, <2>2, <2>3, <3>1, StillCounted
  <2>5. CASE ~Good(n)
    BY <2>1, <2>2, <2>3, <2>5, NoSpots, UncountedIsFine
  <2> QED
    BY <2>4, <2>5
<1> QED
  BY <1>2, <1>3 DEF Counted

\* An entry is three words, the i-number first.
LEMMA EntryShape ==
  ASSUME NEW n, NEW name
  PROVE  Len(Entry(n, name)) = 3 /\ Entry(n, name)[1][1] = n
BY DEF Entry

\* NewNode: nothing leads to the i-node found, so one entry may come.
LEMMA NewNodeDirs ==
  ASSUME BobFSAssumption, BlockInv, DirInv,
         NEW d \in Inum, NEW name \in Name, NEW kind \in {"file", "dir"}, NewNode(d, name, kind)
  PROVE  DirInv'
<1> TypeOK /\ NodesOK /\ Leads /\ Counted /\ Aligned
  BY DEF BlockInv, DirInv
<1>1. /\ BlockInv' /\ pc = "idle" /\ pc' = kind /\ inode[d].type = "dir"
      /\ nodeBit' = nodeBit \cup {fresh'}
      /\ node' = d /\ offset' = inode[d].size /\ todo' = Entry(fresh', name)
  BY NewNodeBlocks
<1>2. data' = data /\ inode' = inode /\ torn' = torn /\ TornFalls
  BY TornSame DEF NewNode
<1>3. PICK f \in Inum \ nodeBit : f = fresh'
  BY NewNodeBlocks
<1>4. inode[f].type = "none" /\ f # Root /\ ~Good(f)
  BY <1>3 DEF NodesOK, Good
<1>5. Len(todo') = 3 /\ Target' = f
  BY <1>1, <1>3, EntryShape DEF Target
<1>6. Steady /\ inode' \in [Inum -> Inode]
  BY <1>2, SteadyDisk DEF TypeOK, Steady
<1>8. Aligned'
  <2> SUFFICES ASSUME NEW e \in Inum, torn[e] = Never, inode[e].type = "dir"
               PROVE  (inode[e].size + Coming(e)') % 3 = 0
    <3>1. \A e \in Inum : inode[e].size \in Nat
      BY DEF TypeOK, Inode
    <3> QED
      BY <3>1, <1>2, <1>6, TornStays
  <2>1. inode[e].size \in Nat /\ (inode[e].size + 0) % 3 = 0
    BY <1>1 DEF Aligned, Coming, TypeOK, Inode
  <2>2. Coming(e)' \in {0, 3}
    BY <1>1, <1>5 DEF Coming
  <2> QED
    BY <2>1, <2>2
<1>9. Leads'
  <2>1. \A e \in Inum, c \in Nat : Entered(e, c)' =>
          /\ WordAt(e, c + 2)' = Length
          /\ WordAt(e, c + 1)' \in Inum /\ Good(WordAt(e, c + 1))'
    BY <1>1, <1>2, <1>6, SameLeads
  <2>2. Len(todo') # 2 /\ pc' \in {"file", "dir"}
    BY <1>1, <1>5
  <2> QED
    BY <2>1, <2>2 DEF Leads
<1>10. ASSUME NEW n \in Inum
       PROVE  IsFiniteSet(Spots(n)') /\ Claims(n)' <= Allowed(n)'
  <2>1. Spots(n)' \subseteq Spots(n)
    BY <1>2, <1>6, FewerSpots
  <2>2. CASE n = f
    <3>1. Spots(n)' = {}
      BY <1>4, <2>1, <2>2, NoSpots
    <3>2. Allowed(n)' = 1
      BY <1>1, <1>2, <1>3, <1>4, <2>2 DEF Allowed
    <3>3. Claims(n)' = Cardinality(Spots(n)') + (IF Promised(n)' THEN 1 ELSE 0)
      BY DEF Claims
    <3> QED
      BY <3>1, <3>2, <3>3, FS_EmptySet
  <2>3. CASE n # f
    <3>1. ~Promised(n)'
      BY <1>5, <2>3 DEF Promised
    <3>2. Allowed(n)' = Allowed(n) /\ Allowed(n) \in Nat
      BY <1>1, <1>2, <1>3, <2>3, AllowedType DEF Allowed
    <3> QED
      BY <2>1, <3>1, <3>2, StillCounted
  <2> QED
    BY <2>2, <2>3
<1> QED
  BY <1>8, <1>9, <1>10 DEF DirInv, Counted

\* InitNewNode: the node is there before any word of its entry.
LEMMA InitDirs ==
  ASSUME BobFSAssumption, BlockInv, DirInv, InitNewNode
  PROVE  DirInv'
<1> TypeOK /\ NodesOK /\ Leads /\ Counted /\ Aligned
  BY DEF BlockInv, DirInv
<1>1. /\ pc \in {"file", "dir"} /\ pc' = "write"
      /\ UNCHANGED <<data, nodeBit, node, offset, todo, torn>> /\ TornFalls
  BY TornSame DEF InitNewNode, call
<1>2. PICK f \in Inum : f = fresh
  BY InitBlocks
<1>3. /\ BlockInv' /\ f # node /\ inode' \in [Inum -> Inode]
      /\ \A n \in Inum : n # f => inode'[n] = inode[n]
      /\ inode'[f].type = pc /\ inode'[f].size = 0 /\ inode'[f].links = 1
  BY <1>2, InitBlocks
<1>4. PICK name \in Name : todo = Entry(f, name)
  BY <1>1, <1>2 DEF NodesOK
<1>5. f \in nodeBit /\ inode[f].type = "none" /\ f # Root /\ Root \in Inum
  BY <1>1, <1>2, Shape DEF NodesOK
<1>6. Len(todo) = 3 /\ Target = f /\ Target' = f
  BY <1>1, <1>4, EntryShape DEF Target
<1>7. Steady
  BY <1>1, <1>3, <1>5, SteadyDisk DEF Steady
<1>9. Aligned'
  <2> SUFFICES ASSUME NEW e \in Inum, torn[e] = Never, inode'[e].type = "dir"
               PROVE  (inode'[e].size + Coming(e)') % 3 = 0
    <3>1. ASSUME NEW e \in Inum, inode[e].type = "dir"
          PROVE  inode'[e].type = "dir" /\ inode'[e].size >= inode[e].size
      <4>1. e # f /\ inode'[e] = inode[e] /\ inode[e].size \in Nat
        BY <3>1, <1>3, <1>5 DEF TypeOK, Inode
      <4> QED
        BY <3>1, <4>1
    <3> QED
      BY <3>1, <1>1, <1>3, TornStays
  <2>1. Coming(e)' = Coming(e)
    BY <1>1 DEF Coming
  <2>2. CASE e = f
    <3>1. Coming(e)' = 0 /\ inode'[e].size = 0
      BY <2>2, <1>1, <1>3 DEF Coming
    <3> QED
      BY <3>1
  <2>3. CASE e # f
    BY <2>1, <2>3, <1>3 DEF Aligned
  <2> QED
    BY <2>2, <2>3
<1>10. Leads'
  <2>1. \A e \in Inum, c \in Nat : Entered(e, c)' =>
          /\ WordAt(e, c + 2)' = Length
          /\ WordAt(e, c + 1)' \in Inum /\ Good(WordAt(e, c + 1))'
    BY <1>1, <1>3, <1>5, <1>7, SameLeads
  <2>2. Good(Target)'
    BY <1>1, <1>3, <1>5, <1>6 DEF Good
  <2> QED
    BY <2>1, <2>2, <1>1, <1>6 DEF Leads
<1>11. ASSUME NEW n \in Inum
       PROVE  IsFiniteSet(Spots(n)') /\ Claims(n)' <= Allowed(n)'
  <2>1. Spots(n)' \subseteq Spots(n)
    BY <1>1, <1>3, <1>5, <1>7, FewerSpots
  <2>2. Promised(n)' => Promised(n)
    BY <1>1, <1>6 DEF Promised
  <2>3. Allowed(n)' = Allowed(n) /\ Allowed(n) \in Nat
    <3>1. CASE n = f
      BY <3>1, <1>1, <1>2, <1>3, <1>5 DEF Allowed
    <3>2. CASE n # f
      <4>1. inode'[n] = inode[n] /\ n # fresh
        BY <3>2, <1>2, <1>3
      <4>2. Allowed(n)' = Allowed(n)
        BY <4>1, <1>1 DEF Allowed
      <4> QED
        BY <4>2, AllowedType
    <3> QED
      BY <3>1, <3>2
  <2> QED
    BY <2>1, <2>2, <2>3, StillCounted
<1> QED
  BY <1>9, <1>10, <1>11 DEF DirInv, Counted

\* LinkNode counts the link before it writes the entry.
LEMMA LinkDirs ==
  ASSUME BobFSAssumption, BlockInv, DirInv,
         NEW d \in Inum, NEW name \in Name, NEW n \in Inum, LinkNode(d, name, n)
  PROVE  DirInv'
<1> TypeOK /\ NodesOK /\ Leads /\ Counted /\ Aligned
  BY DEF BlockInv, DirInv
<1>1. /\ BlockInv' /\ pc = "idle" /\ pc' = "write"
      /\ inode[d].type = "dir" /\ inode[n].type = "file"
      /\ node' = d /\ offset' = inode[d].size /\ todo' = Entry(n, name)
      /\ inode' \in [Inum -> Inode] /\ inode'[n].links = inode[n].links + 1
      /\ inode'[n].type = "file" /\ inode'[n].size = inode[n].size
      /\ \A m \in Inum : m # n => inode'[m] = inode[m]
  BY LinkBlocks
<1>2. data' = data /\ nodeBit' = nodeBit /\ torn' = torn /\ TornFalls
  BY TornSame DEF LinkNode
<1>3. \A m \in Inum : inode'[m].type = inode[m].type /\ inode'[m].size = inode[m].size
  BY <1>1
<1>4. Len(todo') = 3 /\ Target' = n /\ n # Root /\ Good(n)
  BY <1>1, EntryShape DEF Target, NodesOK, Good
<1>5. Steady
  BY <1>1, <1>2, SteadyDisk DEF Steady
<1>7. Aligned'
  <2> SUFFICES ASSUME NEW e \in Inum, torn[e] = Never, inode[e].type = "dir"
               PROVE  (inode'[e].size + Coming(e)') % 3 = 0
    <3>1. \A e \in Inum : inode[e].size \in Nat
      BY DEF TypeOK, Inode
    <3> QED
      BY <3>1, <1>1, <1>2, <1>3, TornStays
  <2>1. inode[e].size \in Nat /\ (inode[e].size + 0) % 3 = 0 /\ inode'[e].size = inode[e].size
    BY <1>1, <1>3 DEF Aligned, Coming, TypeOK, Inode
  <2>2. Coming(e)' \in {0, 3}
    BY <1>1, <1>4 DEF Coming
  <2> QED
    BY <2>1, <2>2
<1>8. Leads'
  <2>1. \A e \in Inum, c \in Nat : Entered(e, c)' =>
          /\ WordAt(e, c + 2)' = Length
          /\ WordAt(e, c + 1)' \in Inum /\ Good(WordAt(e, c + 1))'
    BY <1>1, <1>2, <1>3, <1>5, SameLeads
  <2>2. Good(Target)'
    BY <1>2, <1>3, <1>4 DEF Good
  <2>3. Len(todo') # 2 /\ Target' \in Inum
    BY <1>4
  <2> QED
    BY <2>1, <2>2, <2>3 DEF Leads
<1>9. ASSUME NEW m \in Inum
      PROVE  IsFiniteSet(Spots(m)') /\ Claims(m)' <= Allowed(m)'
  <2>1. Spots(m)' \subseteq Spots(m)
    BY <1>1, <1>2, <1>3, <1>5, FewerSpots
  <2>2. CASE m = n
    <3>1. IsFiniteSet(Spots(m)) /\ Claims(m) <= Allowed(m)
      BY DEF Counted
    <3>2. /\ Cardinality(Spots(m)) \in Nat /\ IsFiniteSet(Spots(m)')
          /\ Cardinality(Spots(m)') \in Nat /\ Cardinality(Spots(m)') <= Cardinality(Spots(m))
      BY <2>1, <3>1, FS_CardinalityType, FS_Subset
    <3>3. Allowed(m) = inode[n].links /\ inode[n].links \in Nat /\ Allowed(m)' = inode[n].links + 1
      BY <2>2, <1>1, <1>4 DEF Allowed, TypeOK, Inode
    <3>4. Claims(m) = Cardinality(Spots(m))
      BY <1>1, <3>2 DEF Claims, Promised
    <3>5. Claims(m)' = Cardinality(Spots(m)') + (IF Promised(m)' THEN 1 ELSE 0)
      BY DEF Claims
    <3> QED
      BY <3>1, <3>2, <3>3, <3>4, <3>5
  <2>3. CASE m # n
    <3>1. ~Promised(m)'
      BY <1>4, <2>3 DEF Promised
    <3>2. Allowed(m)' = Allowed(m) /\ Allowed(m) \in Nat
      BY <1>1, <2>3, AllowedType DEF Allowed
    <3> QED
      BY <2>1, <3>1, <3>2, StillCounted
  <2> QED
    BY <2>2, <2>3
<1> QED
  BY <1>7, <1>8, <1>9 DEF DirInv, Counted

\* The words of an entry, one by one: i-number, length, name.
LEMMA NamingShape ==
  ASSUME NamingCall, NamingCall => todo' = Tail(todo)
  PROVE  /\ Len(todo) = 1 => todo[1][1] \in Name /\ todo' = <<>>
         /\ Len(todo) = 2 => todo[1][1] = Length /\ \E name : todo' = <<<<name>>>>
         /\ Len(todo) = 3 => todo[1][1] \in Inum /\ \E name : todo' = <<<<Length>>, <<name>>>>
         /\ Len(todo) = 1 \/ Len(todo) = 2 \/ Len(todo) = 3
<1>1. PICK n \in Inum, name \in Name :
        todo \in {Entry(n, name), <<<<Length>>, <<name>>>>, <<<<name>>>>}
  BY DEF NamingCall
<1>2. CASE todo = Entry(n, name)
  <2>1. Len(todo) = 3 /\ todo[1][1] = n /\ todo' = <<<<Length>>, <<name>>>>
    BY <1>2 DEF Entry
  <2> QED
    BY <2>1
<1>3. CASE todo = <<<<Length>>, <<name>>>>
  <2>1. Len(todo) = 2 /\ todo[1][1] = Length /\ todo' = <<<<name>>>>
    BY <1>3
  <2> QED
    BY <2>1
<1>4. CASE todo = <<<<name>>>>
  <2>1. Len(todo) = 1 /\ todo[1][1] = name /\ todo' = <<>>
    BY <1>4
  <2> QED
    BY <2>1
<1> QED
  BY <1>1, <1>2, <1>3, <1>4

\* Only the length of an entry is written where a length belongs, in front of a torn one.
LEMMA LengthsInPlace ==
  ASSUME Aligned, CallOK, pc = "size", NamingCall, todo' = Tail(todo),
         NEW c \in Nat, c % 3 = 0, c + 1 = offset, c + 3 <= torn[node]
  PROVE  Len(todo) = 2
<1>1. PICK k \in Inum : k = node /\ inode[k].type = "dir" /\ inode[k].size = offset
  BY DEF CallOK, NamingCall
<1>2. torn[k] = Never
  BY <1>1 DEF Aligned
<1>3. Coming(k) = Len(todo)
  BY <1>1 DEF Coming
<1>4. (c + 1 + Len(todo)) % 3 = 0
  BY <1>1, <1>2, <1>3 DEF Aligned
<1>5. (c + 1 + 1) % 3 # 0 /\ (c + 1 + 3) % 3 # 0
  OBVIOUS
<1>6. Len(todo) = 1 \/ Len(todo) = 2 \/ Len(todo) = 3
  BY NamingShape
<1> QED
  BY <1>4, <1>5, <1>6

\* SetSize of a file changes no directory.
LEMMA FileSizeDirs ==
  ASSUME BobFSAssumption, BlockInv, DirInv, SetSize, FileCall
  PROVE  DirInv'
<1> TypeOK /\ CallOK /\ Aligned /\ Leads /\ Counted
  BY DEF BlockInv, DirInv
<1>1. UNCHANGED <<data, nodeBit, torn>> /\ pc = "size" /\ TornFalls
  BY TornSame DEF SetSize
<1>2. /\ node' = node /\ pc' = (IF todo' = <<>> THEN "idle" ELSE "write")
      /\ todo' = <<>> \/ \E buffer \in Seq(Data) \ {<<>>} : todo' = <<buffer>>
      /\ inode' \in [Inum -> Inode]
      /\ \A n \in Inum : inode'[n].direct = inode[n].direct /\ inode'[n].indirect = inode[n].indirect
                         /\ inode'[n].type = inode[n].type /\ inode'[n].links = inode[n].links
      /\ \A n \in Inum : n # node => inode'[n] = inode[n]
  BY Advance
<1>3. inode[node].type = "file" /\ BlockInv'
  BY SizeBlocks DEF FileCall
<1>4. pc' \notin {"file", "dir"} /\ (pc' = "idle" \/ \E buffer : todo' = <<buffer>>)
  BY <1>2
<1>5. \A d \in Inum : inode[d].type = "dir" => d # node /\ inode'[d].size = inode[d].size
  BY <1>2, <1>3
<1>6. Leads' /\ Counted'
  BY <1>1, <1>2, <1>3, <1>4, <1>5, LeaveDirs
<1>8. Aligned'
  <2> SUFFICES ASSUME NEW d \in Inum, torn[d] = Never, inode[d].type = "dir"
               PROVE  (inode'[d].size + Coming(d)') % 3 = 0
    <3>1. \A d \in Inum : inode[d].size \in Nat
      BY DEF TypeOK, Inode
    <3> QED
      BY <3>1, <1>1, <1>2, <1>5, TornStays
  <2>1. Coming(d)' = Coming(d) /\ inode'[d].size = inode[d].size
    BY <1>2, <1>5 DEF Coming
  <2> QED
    BY <2>1 DEF Aligned
<1> QED
  BY <1>6, <1>8 DEF DirInv

\* SetSize of a directory: one word more, and when it is the length the entry
\* that was promised is there.
LEMMA NamingSizeDirs ==
  ASSUME BobFSAssumption, BlockInv, WrittenIs, DirInv, SetSize, NamingCall
  PROVE  DirInv'
<1> TypeOK /\ CallOK /\ Aligned /\ Leads /\ Counted
  BY DEF BlockInv, DirInv
<1>1. UNCHANGED <<data, nodeBit, torn>> /\ pc = "size"
  BY DEF SetSize
<1>2. /\ node' = node /\ offset' = offset + Count
      /\ pc' = (IF todo' = <<>> THEN "idle" ELSE "write")
      /\ NamingCall => Count = 1 /\ todo' = Tail(todo)
      /\ inode' \in [Inum -> Inode]
      /\ \A n \in Inum : inode'[n].direct = inode[n].direct /\ inode'[n].indirect = inode[n].indirect
                         /\ inode'[n].type = inode[n].type /\ inode'[n].links = inode[n].links
      /\ \A n \in Inum : n # node => inode'[n] = inode[n]
      /\ inode'[node].size =
           IF inode[node].size <= offset + Count THEN offset + Count ELSE inode[node].size
  BY Advance
<1>3. PICK k \in Inum, s \in Nat :
        /\ k = node /\ s = offset /\ inode[k].type = "dir" /\ inode[k].size = s
  BY <1>1 DEF CallOK, NamingCall
<1>4. /\ offset' = s + 1 /\ inode'[k].size = s + 1 /\ Count = 1 /\ todo' = Tail(todo)
      /\ \A n \in Inum : n # k => inode'[n].size = inode[n].size
  BY <1>2, <1>3
<1>5. \A n \in Inum : \A i : WordAt(n, i)' = WordAt(n, i)
  BY <1>1, <1>2 DEF WordAt, ReadBlock, BlockIdx, Filled
<1>6. WordAt(k, s + 1) = todo[1][1]
  BY <1>1, <1>3, <1>4 DEF WrittenIs
<1>7. /\ Len(todo) = 1 => todo[1][1] \in Name /\ todo' = <<>>
      /\ Len(todo) = 2 => todo[1][1] = Length /\ \E name : todo' = <<<<name>>>>
      /\ Len(todo) = 3 => todo[1][1] \in Inum /\ \E name : todo' = <<<<Length>>, <<name>>>>
      /\ Len(todo) = 1 \/ Len(todo) = 2 \/ Len(todo) = 3
  BY <1>4, NamingShape
<1>8. /\ Len(todo') = Len(todo) - 1
      /\ Len(todo) = 1 <=> pc' = "idle"
      /\ Len(todo) # 1 => pc' = "write"
  <2>1. CASE Len(todo) = 1
    BY <2>1, <1>2, <1>7
  <2>2. CASE Len(todo) = 2
    <3>1. PICK name : todo' = <<<<name>>>>
      BY <2>2, <1>7
    <3> QED
      BY <2>2, <3>1, <1>2
  <2>3. CASE Len(todo) = 3
    <3>1. PICK name : todo' = <<<<Length>>, <<name>>>>
      BY <2>3, <1>7
    <3> QED
      BY <2>3, <3>1, <1>2
  <2> QED
    BY <2>1, <2>2, <2>3, <1>7
<1>9. \A n : Good(n)' <=> n \in nodeBit /\ inode'[n].type # "none"
  BY <1>1 DEF Good
<1>10. /\ Len(todo) = 3 => Target = todo[1][1] /\ Target' = Target
       /\ Len(todo) = 2 => Target = WordAt(k, s)
  <2>1. Len(todo) = 2 => Target = WordAt(k, s)
    BY <1>3 DEF Target
  <2>2. ASSUME Len(todo) = 3 PROVE Target = todo[1][1] /\ Target' = Target
    <3>1. Target = todo[1][1]
      BY <2>2 DEF Target
    <3>2. Len(todo') = 2 /\ node' = k /\ offset' = s + 1
      BY <2>2, <1>2, <1>3, <1>4, <1>8
    <3>3. Target' = WordAt(k, s + 1)'
      BY <3>2 DEF Target
    <3> QED
      BY <3>1, <3>3, <1>5, <1>6
  <2> QED
    BY <2>1, <2>2
<1>11. ASSUME NEW c \in Nat, c % 3 = 0, c + 1 = s, c + 3 <= torn[k]
       PROVE  Len(todo) = 2
  BY <1>11, <1>1, <1>3, <1>4, LengthsInPlace
<1>12. ASSUME NEW d \in Inum, NEW c \in Nat, Entered(d, c)', ~Entered(d, c)
       PROVE  d = k /\ c + 1 = s /\ Len(todo) = 2
  <2>1. /\ inode'[d].type = "dir" /\ c % 3 = 0 /\ c + 2 <= inode'[d].size /\ c + 3 <= torn[d]
    BY <1>1, <1>12 DEF Entered
  <2>2. inode[d].type = "dir" /\ ~(c + 2 <= inode[d].size)
    BY <1>2, <1>12, <2>1 DEF Entered
  <2>3. d = k /\ c + 1 = s
    BY <2>1, <2>2, <1>3, <1>4
  <2> QED
    BY <2>1, <2>3, <1>11
<1>13. Aligned'
  <2> SUFFICES ASSUME NEW d \in Inum, torn[d] = Never, inode[d].type = "dir"
               PROVE  (inode'[d].size + Coming(d)') % 3 = 0
    <3>1. ASSUME NEW d \in Inum PROVE inode'[d].size >= inode[d].size
      <4>1. inode[d].size \in Nat
        BY DEF TypeOK, Inode
      <4> QED
        BY <4>1, <1>3, <1>4
    <3> QED
      BY <3>1, <1>1, <1>2, TornStays
  <2>1. (inode[d].size + Coming(d)) % 3 = 0
    BY DEF Aligned
  <2>2. CASE d # k
    <3>1. Coming(d)' = Coming(d) /\ inode'[d].size = inode[d].size
      BY <2>2, <1>2, <1>3, <1>4 DEF Coming
    <3> QED
      BY <2>1, <3>1
  <2>3. CASE d = k
    <3>1. Coming(d) = Len(todo) /\ Coming(d)' = Len(todo) - 1
      BY <2>3, <1>1, <1>2, <1>3, <1>7, <1>8 DEF Coming
    <3>2. inode'[d].size = s + 1 /\ inode[d].size = s
      BY <2>3, <1>3, <1>4
    <3> QED
      BY <2>1, <3>1, <3>2, <1>7
  <2> QED
    BY <2>2, <2>3
<1>14. Leads'
  <2>1. ASSUME NEW d \in Inum, NEW c \in Nat, Entered(d, c)'
        PROVE  /\ WordAt(d, c + 2)' = Length
               /\ WordAt(d, c + 1)' \in Inum /\ Good(WordAt(d, c + 1))'
    <3>1. WordAt(d, c + 2) = Length /\ WordAt(d, c + 1) \in Inum /\ Good(WordAt(d, c + 1))
      <4>1. CASE Entered(d, c)
        BY <4>1 DEF Leads
      <4>2. CASE ~Entered(d, c)
        <5>1. d = k /\ c + 1 = s /\ c + 2 = s + 1 /\ Len(todo) = 2
          BY <2>1, <4>2, <1>12
        <5>2. Target \in Inum /\ Good(Target) /\ WordAt(k, s) = Target
          BY <5>1, <1>1, <1>10 DEF Leads
        <5>3. WordAt(k, s + 1) = Length
          BY <5>1, <1>6, <1>7
        <5> QED
          BY <5>1, <5>2, <5>3
      <4> QED
        BY <4>1, <4>2
    <3>2. PICK w \in Inum : w = WordAt(d, c + 1) /\ Good(w)
      BY <3>1
    <3>3. WordAt(d, c + 1)' = w /\ Good(w)'
      BY <3>2, <1>2, <1>5, <1>9 DEF Good
    <3>4. WordAt(d, c + 2)' = Length
      BY <3>1, <1>5
    <3> QED
      BY <3>3, <3>4 DEF Good
  <2>2. ASSUME Len(todo) = 3 PROVE Target' \in Inum /\ Good(Target)'
    <3>1. PICK w \in Inum : w = Target /\ Good(w)
      BY <2>2, <1>1 DEF Leads
    <3>2. Target' = w /\ Good(w)'
      BY <2>2, <3>1, <1>2, <1>9, <1>10 DEF Good
    <3> QED
      BY <3>2 DEF Good
  <2>3. Len(todo') > 1 => Len(todo) = 3
    BY <1>7, <1>8
  <2>4. offset' > 0
    BY <1>4
  <2> QED
    BY <2>1, <2>2, <2>3, <2>4 DEF Leads
<1>15. ASSUME NEW n \in Inum
       PROVE  IsFiniteSet(Spots(n)') /\ Claims(n)' <= Allowed(n)'
  <2>1. Allowed(n)' = Allowed(n) /\ Allowed(n) \in Nat
    <3>1. Allowed(n)' = Allowed(n)
      BY <1>1, <1>2 DEF Allowed
    <3> QED
      BY <3>1, AllowedType
  <2>2. ASSUME NEW p \in Spots(n)', p \notin Spots(n)
        PROVE  Len(todo) = 2 /\ n = Target /\ p = <<k, s - 1>>
    <3>1. PICK d \in Inum, c \in Nat :
            p = <<d, c>> /\ Entered(d, c)' /\ WordAt(d, c + 1)' = n
      <4>1. p \in Inum \X Nat /\ Entered(p[1], p[2])' /\ WordAt(p[1], p[2] + 1)' = n
        BY <2>2 DEF Spots
      <4>2. p[1] \in Inum /\ p[2] \in Nat /\ p = <<p[1], p[2]>>
        BY <4>1
      <4> QED
        BY <4>1, <4>2
    <3>2. WordAt(d, c + 1) = n
      BY <3>1, <1>5
    <3>3. ~Entered(d, c)
      BY <2>2, <3>1, <3>2 DEF Spots
    <3>4. d = k /\ c + 1 = s /\ Len(todo) = 2
      BY <3>1, <3>3, <1>12
    <3> QED
      BY <3>1, <3>2, <3>4, <1>10
  <2>3. CASE Len(todo) = 2 /\ n = Target
    <3>1. IsFiniteSet(Spots(n)) /\ Claims(n) <= Allowed(n) /\ Cardinality(Spots(n)) \in Nat
      BY FS_CardinalityType DEF Counted
    <3>2. Claims(n) = Cardinality(Spots(n)) + 1
      BY <2>3, <1>1 DEF Claims, Promised
    <3>3. Claims(n)' = Cardinality(Spots(n)') + 0
      <4>1. ~Promised(n)'
        BY <2>3, <1>8 DEF Promised
      <4>2. Claims(n)' = Cardinality(Spots(n)') + (IF Promised(n)' THEN 1 ELSE 0)
        BY DEF Claims
      <4> QED
        BY <4>1, <4>2
    <3>4. PICK one : IsFiniteSet(one) /\ Cardinality(one) = Cardinality(Spots(n)) + 1 /\ Spots(n)' \subseteq one
      <4>1. CASE \E p \in Spots(n)' : p \notin Spots(n)
        <5>1. PICK p \in Spots(n)' : p \notin Spots(n)
          BY <4>1
        <5>2. ASSUME NEW q \in Spots(n)', q \notin Spots(n)
              PROVE  q = p
          BY <2>2, <5>1, <5>2
        <5> WITNESS Spots(n) \cup {p}
        <5> QED
          BY <3>1, <5>1, <5>2, FS_AddElement
      <4>2. CASE ~\E p \in Spots(n)' : p \notin Spots(n)
        <5>1. Spots(n)' \subseteq Spots(n)
          BY <4>2
        <5>2. PICK x : x \notin Spots(n)
          <6>1. <<0, 0>> \notin Spots(n)
            BY DEF Spots
          <6> QED
            BY <6>1
        <5> WITNESS Spots(n) \cup {x}
        <5> QED
          BY <3>1, <5>1, <5>2, FS_AddElement
      <4> QED
        BY <4>1, <4>2
    <3>5. /\ IsFiniteSet(Spots(n)') /\ Cardinality(Spots(n)') \in Nat
          /\ Cardinality(Spots(n)') <= Cardinality(Spots(n)) + 1
      BY <3>4, FS_Subset, FS_CardinalityType
    <3> QED
      BY <2>1, <3>1, <3>2, <3>3, <3>5
  <2>4. CASE ~(Len(todo) = 2 /\ n = Target)
    <3>1. Spots(n)' \subseteq Spots(n)
      BY <2>2, <2>4
    <3>2. Promised(n)' => Promised(n)
      BY <2>4, <1>1, <1>7, <1>8, <1>10 DEF Promised
    <3> QED
      BY <2>1, <3>1, <3>2, StillCounted
  <2> QED
    BY <2>3, <2>4
<1> QED
  BY <1>13, <1>14, <1>15 DEF DirInv, Counted

\* The writes before SetSize change nothing a directory shows.
LEMMA WriteSteps ==
  ASSUME BobFSAssumption, BlockInv, BlockInv', FileInv, DirInv,
         WritePage \/ FindEmptyBlock \/ ZeroBlock \/ SetPointer \/ WriteData
  PROVE  DirInv'
<1> Aligned /\ Leads /\ Counted /\ TypeOK /\ PageIs
  BY DEF DirInv, BlockInv, FileInv
<1>1. /\ pc \in {"write", "bit", "zero", "pointer", "data"}
      /\ pc' \in {"bit", "zero", "pointer", "data", "size"}
      /\ UNCHANGED <<nodeBit, node, offset, todo, torn>>
  BY DEF WritePage, WriteNext, FindEmptyBlock, ZeroBlock, SetPointer, WriteData, disk, call
<1>2. Steady /\ \A n \in Inum : inode'[n].type = inode[n].type /\ inode'[n].size = inode[n].size
                               /\ inode'[n].links = inode[n].links
  <2>1. CASE WritePage
    <3>1. data' = data /\ inode' = inode
      BY <2>1 DEF WritePage, disk
    <3> QED
      BY <3>1, SteadyDisk DEF Steady
  <2>2. CASE FindEmptyBlock \/ ZeroBlock \/ SetPointer
    BY <2>2, GettingFiles DEF Steady
  <2>3. CASE WriteData
    <3>1. inode' = inode /\ pc = "data"
      BY <2>3 DEF WriteData
    <3>2. ASSUME NEW d \in Inum, inode[d].type = "dir", NEW i \in 1..inode[d].size
          PROVE  WordAt(d, i)' = WordAt(d, i)
      <4>1. d = node => offset = inode[d].size
        BY <3>1, <3>2 DEF BlockInv, CallOK, NamingCall, FileCall
      <4>2. inode[d].size \in Nat
        BY DEF TypeOK, Inode
      <4>3. ~(d = node /\ i \in offset + 1..offset + Count)
        BY <4>1, <4>2
      <4> QED
        BY <2>3, <4>3, DataWords
    <3> QED
      BY <3>1, <3>2 DEF Steady, SteadyAt
  <2> QED
    BY <2>1, <2>2, <2>3
<1> QED
  BY <1>1, <1>2, QuietDirs DEF DirInv

\* WriteAll: a file is no directory.
LEMMA WriteAllDirs ==
  ASSUME BobFSAssumption, ~Holes, BlockInv, DirInv,
         NEW n \in Inum, NEW at \in 0..MaxWords, NEW buffer \in Buffers, WriteAll(n, at, buffer)
  PROVE  DirInv'
<1> Aligned /\ Leads /\ Counted /\ TypeOK
  BY DEF DirInv, BlockInv
<1>1. /\ BlockInv' /\ pc = "idle" /\ pc' = "write" /\ inode[n].type = "file"
      /\ node' = n /\ todo' = <<buffer>>
  BY WriteAllBlocks
<1>2. UNCHANGED <<data, nodeBit, inode, torn>> /\ TornFalls
  BY TornSame DEF WriteAll, disk
<1>3. Leads' /\ Counted'
  BY <1>1, <1>2, LeaveDirs
<1>5. Aligned'
  <2> SUFFICES ASSUME NEW d \in Inum, torn[d] = Never, inode[d].type = "dir"
               PROVE  (inode[d].size + Coming(d)') % 3 = 0
    <3>1. \A d \in Inum : inode[d].size \in Nat
      BY DEF TypeOK, Inode
    <3> QED
      BY <3>1, <1>2, TornStays DEF TypeOK
  <2>1. Coming(d)' = 0 /\ Coming(d) = 0
    BY <1>1 DEF Coming
  <2> QED
    BY <2>1 DEF Aligned
<1> QED
  BY <1>3, <1>5 DEF DirInv

\* CrashAndMount: an entry that was promised is forgotten, and what there is of
\* it is torn.
LEMMA CrashDirs ==
  ASSUME BobFSAssumption, BlockInv, DirInv, CrashAndMount
  PROVE  DirInv'
<1> Aligned /\ Leads /\ Counted /\ TypeOK /\ CallOK /\ NodesOK
  BY DEF DirInv, BlockInv
<1>1. /\ pc' = "idle" /\ UNCHANGED <<data, nodeBit, inode>>
      /\ torn' = [d \in Inum |-> IF InsideEntry /\ d = node /\ torn[d] = Never
                                THEN offset + Len(todo) - 3 ELSE torn[d]]
  BY DEF CrashAndMount, disk
<1>2. ASSUME NEW d \in Inum
      PROVE  /\ torn'[d] \in Nat /\ torn'[d] <= torn[d] /\ torn'[d] % 3 = 0
             /\ torn'[d] # Never => inode[d].type = "dir" /\ torn'[d] <= inode[d].size
             /\ torn'[d] = Never /\ inode[d].type = "dir" => inode[d].size % 3 = 0
  <2>1. /\ torn[d] \in Nat /\ torn[d] % 3 = 0 /\ inode[d].size \in Nat
        /\ torn[d] # Never => inode[d].type = "dir" /\ torn[d] <= inode[d].size
        /\ torn[d] = Never /\ inode[d].type = "dir" => (inode[d].size + Coming(d)) % 3 = 0
    BY DEF Aligned, TypeOK, Inode
  <2>2. CASE InsideEntry /\ d = node /\ torn[d] = Never
    <3>1. NamingCall /\ pc # "idle" /\ Len(todo) < 3
      BY <2>2 DEF InsideEntry, Naming, CallOK, FileCall
    <3>2. PICK s \in Nat, l \in 1..2 :
            s = offset /\ l = Len(todo) /\ inode[d].size = s /\ s + l <= MaxWords
      <4>1. Len(todo) \in 1..3 /\ Left = Len(todo) /\ offset \in Nat /\ offset + Left <= MaxWords
        BY <3>1, Buffered DEF CallOK
      <4>2. inode[d].size = offset
        BY <2>2, <3>1 DEF NamingCall
      <4>3. Len(todo) \in 1..2 /\ inode[d].size + Len(todo) <= MaxWords
        BY <3>1, <4>1, <4>2
      <4> QED
        BY <4>1, <4>2, <4>3
    <3>3. Coming(d) = l /\ (s + l) % 3 = 0 /\ inode[d].type = "dir"
      BY <2>1, <2>2, <3>1, <3>2 DEF Coming, NamingCall
    <3>4. torn'[d] = s + l - 3
      BY <1>1, <2>2, <3>2
    <3>5. s + l - 3 \in Nat /\ (s + l - 3) % 3 = 0 /\ s + l - 3 < s
      BY <3>2, <3>3
    <3>6. s + l - 3 < Never /\ torn[d] = Never /\ Never \in Nat
      BY <2>1, <2>2, <3>2, <3>5, BobFSAssumption DEF BobFSAssumption, Never
    <3> QED
      BY <3>2, <3>3, <3>4, <3>5, <3>6
  <2>3. CASE ~(InsideEntry /\ d = node /\ torn[d] = Never)
    <3>1. torn'[d] = torn[d]
      BY <1>1, <2>3
    <3>2. ASSUME torn[d] = Never, inode[d].type = "dir"
          PROVE  inode[d].size % 3 = 0
      <4>1. Coming(d) = 0 \/ Coming(d) = 3
        <5>1. ASSUME pc # "idle", node = d PROVE Len(todo) = 3
          <6>1. CASE pc \in {"file", "dir"}
            BY <6>1, EntryShape DEF NodesOK
          <6>2. CASE pc \notin {"file", "dir"}
            <7>1. Len(todo) \in 1..3
              BY <5>1, Buffered
            <7>2. Naming
              BY <3>2, <5>1, <6>2 DEF Naming
            <7>3. ~(Len(todo) < 3)
              BY <2>3, <3>2, <5>1, <7>2 DEF InsideEntry
            <7>4. \A l \in 1..3 : ~(l < 3) => l = 3
              OBVIOUS
            <7> QED
              BY <7>1, <7>3, <7>4
          <6> QED
            BY <6>1, <6>2
        <5> QED
          BY <5>1 DEF Coming
      <4>2. (inode[d].size + Coming(d)) % 3 = 0
        BY <2>1, <3>2
      <4> QED
        BY <2>1, <4>1, <4>2
    <3> QED
      BY <2>1, <3>1, <3>2
  <2> QED
    BY <2>2, <2>3
<1>3. TornFalls
  BY <1>2 DEF TornFalls, Aligned
<1>4. Leads' /\ Counted'
  BY <1>1, <1>3, CrashBlocks, LeaveDirs
<1>5. Aligned'
  <2>1. torn' \in [Inum -> Nat]
    BY <1>1, <1>2
  <2>2. \A d \in Inum : Coming(d)' = 0
    BY <1>1 DEF Coming
  <2>3. \A d \in Inum : inode[d].size + 0 = inode[d].size
    BY DEF TypeOK, Inode
  <2> QED
    BY <1>1, <1>2, <2>1, <2>2, <2>3 DEF Aligned, Never
<1> QED
  BY <1>4, <1>5 DEF DirInv

\* Nothing happens.
LEMMA IdleDirs ==
  ASSUME DirInv, UNCHANGED vars
  PROVE  DirInv'
<1>1. UNCHANGED <<data, nodeBit, inode, pc, node, offset, todo, fresh, torn>>
  BY DEF vars, disk, call
<1>2. \A d : \A i : WordAt(d, i)' = WordAt(d, i)
  BY <1>1 DEF WordAt, ReadBlock, BlockIdx, Filled
<1>3. \A d, c : Entered(d, c)' <=> Entered(d, c)
  BY <1>1 DEF Entered
<1>4. Aligned'
  BY <1>1 DEF DirInv, Aligned, Coming, Never
<1>5. Target' = Target /\ \A n : Good(n)' = Good(n)
  BY <1>1, <1>2 DEF Target, Good
<1>6. Leads'
  BY <1>1, <1>2, <1>3, <1>5 DEF DirInv, Leads, Good
<1>7. Counted'
  <2>1. \A n : Spots(n)' = Spots(n)
    BY <1>1, <1>2, <1>3 DEF Spots
  <2>2. \A n : Claims(n)' = Claims(n)
    BY <1>1, <1>5, <2>1 DEF Claims, Promised
  <2>3. \A n : Allowed(n)' = Allowed(n)
    BY <1>1 DEF Allowed
  <2> QED
    BY <2>1, <2>2, <2>3 DEF DirInv, Counted
<1> QED
  BY <1>4, <1>6, <1>7 DEF DirInv

\* mkfs makes an empty directory.
LEMMA MkfsDirs ==
  ASSUME BobFSAssumption, Init
  PROVE  DirInv
<1>1. pc = "idle" /\ inode = [n \in Inum |-> NewInode(IF n = Root THEN "dir" ELSE "none")]
  BY DEF Init
<1>2. \A n \in Inum : inode[n].size = 0
  BY <1>1 DEF NewInode
<1>3. torn = [n \in Inum |-> Never] /\ Never \in Nat /\ Never % 3 = 0
  BY DEF Init, Never, BobFSAssumption
<1>4. Aligned
  BY <1>1, <1>2, <1>3 DEF Aligned, Coming
<1>5. Leads
  BY <1>1, <1>2 DEF Leads, Entered
<1>6. ASSUME NEW n \in Inum
      PROVE  IsFiniteSet(Spots(n)) /\ Claims(n) <= Allowed(n)
  <2>1. Spots(n) = {}
    BY <1>2 DEF Spots, Entered
  <2>2. Claims(n) = 0
    BY <1>1, <2>1, FS_EmptySet DEF Claims, Promised
  <2>3. Allowed(n) \in Nat
    BY MkfsBlocks, AllowedType DEF BlockInv
  <2> QED
    BY <2>1, <2>2, <2>3, FS_EmptySet
<1> QED
  BY <1>4, <1>5, <1>6 DEF DirInv, Counted

\* Every step keeps the directories in order.
LEMMA DirsStep ==
  ASSUME BobFSAssumption, ~Holes, BlockInv, FileInv, DirInv, [Next]_vars
  PROVE  DirInv'
<1> WrittenIs
  BY DEF FileInv
<1>1. CASE SetSize
  <2>1. NamingCall \/ FileCall
    BY <1>1 DEF SetSize, BlockInv, CallOK
  <2> QED
    BY <1>1, <2>1, FileSizeDirs, NamingSizeDirs
<1>2. CASE DiskWrite /\ ~SetSize
  BY <1>2, BlocksStep, WriteSteps, InitDirs DEF DiskWrite
<1>3. CASE \E n \in Inum, at \in 0..MaxWords, buffer \in Buffers : WriteAll(n, at, buffer)
  BY <1>3, WriteAllDirs
<1>4. CASE \E d \in Inum, name \in Name : \E kind \in {"file", "dir"} : NewNode(d, name, kind)
  BY <1>4, NewNodeDirs
<1>5. CASE \E d \in Inum, name \in Name : \E n \in Inum : LinkNode(d, name, n)
  BY <1>5, LinkDirs
<1>6. CASE CrashAndMount
  BY <1>6, CrashDirs
<1>7. CASE UNCHANGED vars
  BY <1>7, IdleDirs
<1> QED
  BY <1>1, <1>2, <1>3, <1>4, <1>5, <1>6, <1>7, NextCases

\* The directories of the file system, also after crashes in newNode and
\* linkNode: in front of the first entry that a crash left incomplete, each entry
\* has its length where findNode looks for it and leads to a node that is there,
\* and no node has more of them, with the one being written, than it may.
THEOREM DirectoriesHold ==
  ASSUME ~Holes
  PROVE  Spec => [](BlockInv /\ FileInv /\ DirInv)
<1>1. Init => BlockInv /\ FileInv /\ DirInv
  BY BobFSAssumption, MkfsBlocks, MkfsFiles, MkfsDirs
<1>2. BlockInv /\ FileInv /\ DirInv /\ [Next]_vars => BlockInv' /\ FileInv' /\ DirInv'
  BY BobFSAssumption, BlocksStep, FilesStep, DirsStep
<1> QED
  BY <1>1, <1>2, PTL DEF Spec

-----------------------------------------------------------------------------
(* What findNode comes to *)

LEMMA ThreesApart ==
  ASSUME NEW a \in Nat, NEW b \in Nat, a % 3 = 0, b % 3 = 0, a < b
  PROVE  a + 3 <= b
OBVIOUS

\* In front of a torn entry findNode and dump come to entries only: each has its
\* length in place, and so leads to the next.
LEMMA EntriesAreEntered ==
  ASSUME BobFSAssumption, TypeOK, Aligned, Leads, pc = "idle",
         NEW d \in Inum, NEW c \in Entries(d)
  PROVE  c \in Nat /\ Entered(d, c)
<1>1. /\ torn[d] \in Nat /\ torn[d] % 3 = 0 /\ inode[d].size \in Nat
      /\ torn[d] # Never => torn[d] <= inode[d].size
      /\ torn[d] = Never /\ inode[d].type = "dir" => inode[d].size % 3 = 0
  <2>1. Coming(d) = 0 /\ inode[d].size \in Nat
    BY DEF Coming, TypeOK, Inode
  <2>2. \A s \in Nat : s + 0 = s
    OBVIOUS
  <2> QED
    BY <2>1, <2>2 DEF Aligned
<1>2. /\ c \in Visits(d, torn[d]) /\ c < torn[d]
      /\ c \in Offsets(d) /\ inode[d].type = "dir" /\ Offsets(d) = 0..inode[d].size - 1
  <2>1. c \in Visits(d, torn[d]) /\ c < torn[d]
    BY DEF Entries
  <2>2. c \in Offsets(d)
    BY <2>1 DEF Visits
  <2> QED
    BY <2>1, <2>2 DEF Offsets
<1>3. ASSUME NEW x \in Offsets(d), x % 3 = 0, x < torn[d]
      PROVE  x \in Nat /\ x + 3 <= inode[d].size /\ Entered(d, x)
  <2>1. x \in Nat /\ x < inode[d].size
    BY <1>1, <1>2
  <2>2. x + 3 <= torn[d]
    BY <2>1, <1>1, <1>3, ThreesApart
  <2>3. x + 3 <= inode[d].size
    <3>1. CASE torn[d] = Never
      BY <3>1, <2>1, <1>1, <1>2, <1>3, ThreesApart
    <3>2. CASE torn[d] # Never
      BY <3>2, <2>1, <2>2, <1>1
    <3> QED
      BY <3>1, <3>2
  <2> QED
    BY <2>1, <2>2, <2>3, <1>1, <1>2, <1>3 DEF Entered
<1> DEFINE S == {x \in Offsets(d) : x % 3 = 0 \/ x >= torn[d]}
<1>4. 0 \in S
  BY <1>1, <1>2
<1>5. ASSUME NEW x \in S, NEW next \in Offsets(d), x < torn[d], MayFollow(d, x, next)
      PROVE  next \in S
  <2>1. x \in Nat /\ x % 3 = 0 /\ x + 3 <= inode[d].size /\ Entered(d, x)
    BY <1>1, <1>2, <1>3, <1>5
  <2>2. WordAt(d, x + 2) = Length
    BY <2>1 DEF Leads
  <2>3. x + 2 <= inode[d].size
    BY <2>1, <1>1
  <2>4. next = x + 2 + 1
    BY <2>2, <2>3, <1>5 DEF MayFollow, BobFSAssumption
  <2>5. next % 3 = 0
    BY <2>1, <2>4
  <2> QED
    BY <2>5
<1>6. c \in S
  <2> HIDE DEF S
  <2>1. S \in SUBSET Offsets(d)
    BY DEF S
  <2>2. \A p \in {q \in Offsets(d) \X Offsets(d) : q[1] < torn[d] /\ MayFollow(d, q[1], q[2])} :
          p[1] \in S => p[2] \in S
    BY <1>5
  <2> QED
    BY <1>2, <1>4, <2>1, <2>2 DEF Visits
<1>7. c \in Nat /\ c % 3 = 0
  BY <1>1, <1>2, <1>6
<1> QED
  BY <1>2, <1>3, <1>7

\* Induction, over a set.
LEMMA Induction ==
  ASSUME NEW T, 0 \in T, \A n \in Nat : n \in T => n + 1 \in T
  PROVE  \A n \in Nat : n \in T
<1> SUFFICES ASSUME NEW n \in Nat, n \notin T PROVE FALSE
  OBVIOUS
<1> DEFINE A == {x \in 0..n : x \in T}
           f == [x \in A |-> x + 1]
<1>1. IsFiniteSet(A) /\ IsFiniteSet(A \ {0})
  <2>1. IsFiniteSet(0..n)
    BY FS_Interval
  <2> QED
    BY <2>1, FS_Subset
<1>2. Cardinality(A \ {0}) < Cardinality(A)
  <2>1. 0 \in A
    OBVIOUS
  <2>2. Cardinality(A \ {0}) = Cardinality(A) - 1
    BY <1>1, <2>1, FS_RemoveElement
  <2>3. Cardinality(A) \in Nat
    BY <1>1, FS_CardinalityType
  <2> QED
    BY <2>2, <2>3
<1>3. f \in [A -> A \ {0}]
  OBVIOUS
<1>4. \E x, y \in A : x # y /\ f[x] = f[y]
  <2> HIDE DEF A, f
  <2> QED
    BY <1>1, <1>2, <1>3, FS_PigeonHole
<1> QED
  BY <1>4

\* What findNode comes to with no torn entry: every entry there is.
AllVisited == \A d \in Inum, c \in Nat :
  torn[d] = Never /\ Entered(d, c) => c \in Visits(d, Never)

\* An entry that findNode does not come to, the first of its directory, has one
\* in front of it to which it does come, and whose length leads to it.
LEMMA WholeIsVisited ==
  ASSUME BobFSAssumption, TypeOK, Leads
  PROVE  AllVisited
<1> SUFFICES ASSUME NEW d \in Inum, NEW c \in Nat, torn[d] = Never, Entered(d, c)
             PROVE  c \in Visits(d, Never)
  BY DEF AllVisited
<1>1. /\ inode[d].size \in Nat /\ Never \in Nat /\ Offsets(d) = 0..inode[d].size - 1
      /\ inode[d].type = "dir" /\ c % 3 = 0 /\ c + 2 <= inode[d].size /\ c + 3 <= Never
  BY DEF TypeOK, Inode, Entered, Offsets, Never, BobFSAssumption
<1>2. c \in Offsets(d)
  BY <1>1
<1> SUFFICES ASSUME NEW S \in SUBSET Offsets(d), 0 \in S,
                    \A p \in {q \in Offsets(d) \X Offsets(d) :
                              q[1] < Never /\ MayFollow(d, q[1], q[2])} :
                      p[1] \in S => p[2] \in S
             PROVE  c \in S
  BY <1>2 DEF Visits
<1>6. \A x, y \in Offsets(d) : x \in S /\ x < Never /\ MayFollow(d, x, y) => y \in S
  <2> SUFFICES ASSUME NEW x \in Offsets(d), NEW y \in Offsets(d),
                      x \in S, x < Never, MayFollow(d, x, y)
               PROVE  y \in S
    OBVIOUS
  <2>1. <<x, y>> \in {q \in Offsets(d) \X Offsets(d) : q[1] < Never /\ MayFollow(d, q[1], q[2])}
    OBVIOUS
  <2> QED
    BY <2>1
<1> DEFINE T == {n \in Nat : \A x \in 0..n : x % 3 = 0 /\ x <= c => x \in S}
<1>3. 0 \in T
  OBVIOUS
<1>4. ASSUME NEW n \in Nat, n \in T
      PROVE  n + 1 \in T
  <2>0. \A x \in 0..n : x % 3 = 0 /\ x <= c => x \in S
    BY <1>4
  <2> SUFFICES ASSUME (n + 1) % 3 = 0, n + 1 <= c PROVE n + 1 \in S
    <3>1. \A x \in 0..n + 1 : x \in 0..n \/ x = n + 1
      OBVIOUS
    <3>2. n + 1 \in Nat
      OBVIOUS
    <3> QED
      BY <2>0, <3>1, <3>2
  <2>1. PICK b \in Nat : n + 1 = b + 3 /\ b % 3 = 0
    <3>1. n - 2 \in Nat /\ (n - 2) % 3 = 0 /\ n + 1 = (n - 2) + 3
      OBVIOUS
    <3> QED
      BY <3>1
  <2>2. b \in S
    <3>1. b \in 0..n /\ b <= c
      BY <1>1, <2>1
    <3> QED
      BY <2>0, <2>1, <3>1
  <2>3. Entered(d, b)
    <3>1. b + 2 <= inode[d].size /\ b + 3 <= Never
      BY <1>1, <2>1
    <3> QED
      BY <3>1, <1>1, <2>1 DEF Entered
  <2>4. MayFollow(d, b, n + 1)
    <3>1. WordAt(d, b + 2) = Length
      BY <2>3 DEF Leads
    <3>2. n + 1 = b + 2 + 1
      BY <2>1
    <3> QED
      BY <3>1, <3>2 DEF MayFollow, BobFSAssumption
  <2>5. b \in Offsets(d) /\ n + 1 \in Offsets(d) /\ b < Never
    BY <1>1, <2>1
  <2> QED
    BY <2>2, <2>4, <2>5, <1>6
<1>5. \A n \in Nat : n \in T
  <2> HIDE DEF T
  <2> QED
    BY <1>3, <1>4, Induction
<1> QED
  <2>1. c \in T
    BY <1>5
  <2>2. \A x \in 0..c : x % 3 = 0 /\ x <= c => x \in S
    BY <2>1
  <2>3. c \in 0..c /\ c <= c /\ c % 3 = 0
    BY <1>1
  <2> QED
    BY <2>2, <2>3

-----------------------------------------------------------------------------
(* What the runs check *)

\* A node has no more entries than it may.
LEMMA EntriesCounted ==
  ASSUME BobFSAssumption, TypeOK, DirInv, pc = "idle", NEW n \in Inum
  PROVE  /\ IsFiniteSet(EntriesOf(n)) /\ Cardinality(EntriesOf(n)) \in Nat
         /\ Cardinality(EntriesOf(n)) <= Allowed(n)
<1>0. Aligned /\ Leads /\ Counted
  BY DEF DirInv
<1>1. ASSUME NEW p \in EntriesOf(n) PROVE p \in Spots(n)
  <2>1. PICK d \in Inum : \E c \in Entries(d) : p = <<d, c>> /\ NodeAt(d, c) = n
    BY DEF EntriesOf
  <2>2. PICK c \in Entries(d) : p = <<d, c>> /\ NodeAt(d, c) = n
    BY <2>1
  <2>3. c \in Nat /\ Entered(d, c) /\ WordAt(d, c + 1) = n
    BY <1>0, <2>2, EntriesAreEntered DEF NodeAt
  <2> QED
    BY <2>2, <2>3 DEF Spots
<1>2. IsFiniteSet(Spots(n)) /\ Claims(n) <= Allowed(n) /\ Cardinality(Spots(n)) \in Nat
  BY <1>0, FS_CardinalityType DEF Counted
<1>3. /\ IsFiniteSet(EntriesOf(n)) /\ Cardinality(EntriesOf(n)) \in Nat
      /\ Cardinality(EntriesOf(n)) <= Cardinality(Spots(n))
  BY <1>1, <1>2, FS_Subset, FS_CardinalityType
<1>4. Allowed(n) \in Nat /\ Claims(n) >= Cardinality(Spots(n)) /\ Claims(n) \in Nat
  BY <1>2, AllowedType DEF Claims
<1> QED
  BY <1>2, <1>3, <1>4

\* Nothing a user does changes the superblock, if nobody writes to a block once
\* skipped: every mount finds the root (bobfs.cc's mount).
THEOREM SuperblockIsKept ==
  ASSUME ~Holes
  PROVE  Spec => []SuperblockKept
BY BlocksHold, PTL DEF BlockInv

\* No block belongs to two files, or twice to one, and none that belongs to a
\* file is free in the bitmap, also after a crash anywhere in writeBlock.
THEOREM EveryBlockIsOwned ==
  ASSUME ~Holes
  PROVE  Spec => []BlocksOwned
BY BlocksHold, PTL DEF BlockInv

\* What findNode and dump come to in a directory, in front of the first entry
\* that a crash left incomplete, leads to a node that is there: newNode writes
\* the i-node before its entry.
THEOREM EntriesLead ==
  ASSUME ~Holes
  PROVE  Spec => []EntriesLeadToNodes
<1>1. BlockInv /\ DirInv => EntriesLeadToNodes
  <2> SUFFICES ASSUME TypeOK, Aligned, Leads, pc = "idle", NEW d \in Inum, NEW c \in Entries(d)
               PROVE  NodeAt(d, c) \in nodeBit /\ inode[NodeAt(d, c)].type # "none"
    BY DEF BlockInv, DirInv, EntriesLeadToNodes
  <2>1. c \in Nat /\ Entered(d, c)
    BY BobFSAssumption, EntriesAreEntered
  <2>2. Good(WordAt(d, c + 1))
    BY <2>1 DEF Leads
  <2> QED
    BY <2>2 DEF Good, NodeAt
<1> QED
  BY <1>1, DirectoriesHold, PTL

\* Each directory but the root has at most one entry in front of torn ones and
\* the root has none, so a dump() that meets no torn entry comes to an end.
THEOREM DirectoriesFormATree ==
  ASSUME ~Holes
  PROVE  Spec => []DirectoriesAreATree
<1>1. BlockInv /\ DirInv => DirectoriesAreATree
  <2> SUFFICES ASSUME BlockInv, TypeOK, DirInv, pc = "idle"
               PROVE  /\ \A n \in Inum : inode[n].type = "dir" => Cardinality(EntriesOf(n)) <= 1
                      /\ EntriesOf(Root) = {}
    BY DEF BlockInv, DirectoriesAreATree
  <2>1. ASSUME NEW n \in Inum, inode[n].type = "dir"
        PROVE  Cardinality(EntriesOf(n)) <= 1
    <3>1. Allowed(n) <= 1
      BY <2>1 DEF Allowed
    <3> QED
      BY <3>1, BobFSAssumption, EntriesCounted, AllowedType
  <2>2. EntriesOf(Root) = {}
    <3>1. Root \in Inum /\ Allowed(Root) = 0
      BY BobFSAssumption DEF BobFSAssumption, Allowed
    <3>2. Cardinality(EntriesOf(Root)) = 0 /\ IsFiniteSet(EntriesOf(Root))
      BY <3>1, BobFSAssumption, EntriesCounted
    <3> QED
      BY <3>2, FS_EmptySet
  <2> QED
    BY <2>1, <2>2
<1> QED
  BY <1>1, DirectoriesHold, PTL

\* nlinks counts at least the entries of a file that stand in front of torn ones:
\* linkNode counts before it writes, also when the machine stops in between.
THEOREM LinksAreCounted ==
  ASSUME ~Holes
  PROVE  Spec => []LinksCounted
<1>1. BlockInv /\ DirInv => LinksCounted
  <2> SUFFICES ASSUME TypeOK, NodesOK, DirInv, pc = "idle",
                      NEW n \in Inum, inode[n].type = "file"
               PROVE  Cardinality(EntriesOf(n)) <= inode[n].links
    BY DEF BlockInv, LinksCounted
  <2>1. Allowed(n) = inode[n].links
    BY DEF Allowed, NodesOK
  <2> QED
    BY <2>1, BobFSAssumption, EntriesCounted
<1> QED
  BY <1>1, DirectoriesHold, PTL

\* The last write of newNode or linkNode makes the entry whole.
LEMMA NamedIsEntered ==
  ASSUME BobFSAssumption, BlockInv, DirInv, TypeOK', Aligned', [Next]_vars,
         Named, torn[node] = Never
  PROVE  \E d \in Inum, c \in Nat :
           d = node' /\ c = LastEntry' /\ torn'[d] = Never /\ Entered(d, c)'
<1> TypeOK /\ CallOK
  BY DEF BlockInv
<1>1. SetSize
  <2>1. pc = "size" /\ pc' = "idle" /\ crashes' = crashes /\ crashes \in Nat
    BY DEF Named, TypeOK
  <2>2. ~CrashAndMount /\ vars' # vars
    BY <2>1 DEF CrashAndMount, vars
  <2> QED
    BY <2>1, <2>2, NextCases DEF DiskWrite, WritePage, FindEmptyBlock, ZeroBlock,
         SetPointer, WriteData, InitNewNode, WriteAll, NewNode, LinkNode
<1>2. NamingCall /\ node \in Inum /\ offset \in Nat
  BY DEF Named, CallOK, FileCall
<1>3. /\ node' = node /\ Count = 1 /\ torn' = torn
      /\ inode'[node].size =
           IF inode[node].size <= offset + Count THEN offset + Count ELSE inode[node].size
      /\ inode'[node].type = "dir"
  BY <1>1, <1>2, Advance DEF SetSize, Named
<1>4. PICK s \in Nat : s = offset /\ inode[node].size = s /\ inode'[node].size = s + 1
  BY <1>2, <1>3 DEF NamingCall
<1>5. s + 1 <= MaxWords
  <2>1. Left \in Nat /\ Left >= 1 /\ offset + Left <= MaxWords
    BY <1>2, Buffered DEF CallOK, Named
  <2> QED
    BY <2>1, <1>4, BobFSAssumption DEF BobFSAssumption
<1>6. (s + 1) % 3 = 0
  <2>1. Coming(node)' = 0
    BY DEF Named, Coming
  <2>2. (inode'[node].size + Coming(node)') % 3 = 0
    BY <1>2, <1>3 DEF Aligned
  <2> QED
    BY <2>1, <2>2, <1>4
<1>7. s - 2 \in Nat /\ (s - 2) % 3 = 0 /\ LastEntry' = s - 2
  <2>1. s + 1 >= 3
    BY <1>6
  <2> QED
    BY <2>1, <1>3, <1>4, <1>6 DEF LastEntry
<1>8. s - 2 + 2 <= s + 1 /\ s - 2 + 3 <= Never
  BY <1>4, <1>5, BobFSAssumption DEF BobFSAssumption, Never
<1>9. Entered(node, s - 2)'
  BY <1>3, <1>4, <1>7, <1>8 DEF Entered
<1>10. PICK d \in Inum : d = node
  BY <1>2
<1>11. Entered(d, s - 2)'
  BY <1>3, <1>9, <1>10 DEF Entered
<1> QED
  BY <1>3, <1>7, <1>10, <1>11

\* findNode comes to what newNode or linkNode has just entered, unless a crash
\* left an entry of this directory incomplete.
THEOREM NamedAreFound ==
  ASSUME ~Holes
  PROVE  Spec => EntriesAreFound
<1>1. BlockInv /\ DirInv => AllVisited /\ TypeOK /\ Aligned
  BY BobFSAssumption, WholeIsVisited DEF BlockInv, DirInv
<1>2. /\ BlockInv /\ DirInv /\ [Next]_vars
      /\ AllVisited' /\ TypeOK' /\ Aligned'
      => [Named /\ torn[node] = Never => LastEntry' \in Visits(node, Never)']_vars
  <2> SUFFICES ASSUME BlockInv, DirInv, [Next]_vars, AllVisited', TypeOK', Aligned',
                      Named, torn[node] = Never
               PROVE  LastEntry' \in Visits(node, Never)'
    OBVIOUS
  <2>1. PICK d \in Inum, c \in Nat :
          d = node' /\ c = LastEntry' /\ torn'[d] = Never /\ Entered(d, c)'
    BY BobFSAssumption, NamedIsEntered
  <2>2. c \in Visits(d, Never)'
    BY <2>1 DEF AllVisited, Never
  <2> QED
    BY <2>1, <2>2
<1> QED
  BY <1>1, <1>2, DirectoriesHold, PTL DEF Spec, EntriesAreFound
=============================================================================
