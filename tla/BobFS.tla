------------------------------- MODULE BobFS -------------------------------
(***************************************************************************)
(* The file system of p6_file_system/kernel (bobfs.cc, bobfs.h): one user  *)
(* at a time, one step per write to the disk, and a crash between any two. *)
(*                                                                         *)
(* Sizes are in words of 32 bits, as block pointers and the fields of a    *)
(* directory entry are; a name is one word.  An i-node is written by       *)
(* fields, its five first fields in one step: nothing leads to it yet.     *)
(***************************************************************************)
EXTENDS Naturals, Sequences, SequencesExt, FiniteSetsExt, FiniteSets

CONSTANTS Inum,        \* i-numbers
          Root,        \* i-number of the root, which mkfs makes; the code's is 0
          Block,       \* numbers of data blocks
          Zero,        \* the word 0, block 0 being the superblock
          Magic,       \* "BOBFS439"
          Length,      \* the length of a name, which may be an i-number too
          Name, Data,  \* names, and words of files
          AsLength,    \* the words of a name that a word, taken for a length, announces
          Order,       \* the order in which an i-node's Random tries the blocks
          Stale,       \* what the words of the disk are before mkfs
          BlockWords,  \* words of a block, and pointers of an indirect block
          MaxWords,    \* bound on the size of a file
          Buffers,     \* what a user may write in one call
          MaxLinks,    \* bound on linkNode's calls for a file
          MaxCrashes,  \* bound on the crashes
          Holes        \* whether users write to a block they once skipped

\* What a word of the disk may be.
Word == Inum \cup Block \cup {Zero, Magic, Length, Stale} \cup Name \cup Data

ASSUME BobFSAssumption ==
  /\ Root \in Inum /\ Zero \notin Block
  /\ AsLength \in [Word -> Nat] /\ AsLength[Length] = 1
  /\ Order \in [Inum -> [1..Cardinality(Block) -> Block]]
  /\ \A n \in Inum : Range(Order[n]) = Block
  /\ BlockWords \in Nat /\ BlockWords >= 2
  /\ MaxWords \in Nat /\ MaxWords <= BlockWords * (BlockWords + 1)
  /\ Buffers \subseteq Seq(Data) \ {<<>>}
  /\ MaxLinks \in Nat /\ MaxCrashes \in Nat
  /\ Holes \in BOOLEAN

VARIABLES
  data,      \* the words of every block, and of the superblock, block Zero
  blockBit,  \* blocks whose bit is set
  nodeBit,   \* i-nodes whose bit is set
  inode,     \* the i-nodes
  iroot,     \* in memory: the root of the mounted file system
  pc,        \* what is written to the disk next, or "idle"
  node, offset, todo,  \* the node written to, where, and the buffers to write
  page, fresh,         \* writeBlock's buffer, and the block or i-node it found
  crashes,
  made,      \* i-nodes that users have from newNode since the boot
  torn       \* history: where a directory has its first entry that a crash left
             \* incomplete

disk == <<data, blockBit, nodeBit, inode>>
call == <<node, offset, todo>>
vars == <<disk, iroot, pc, call, page, fresh, crashes, torn, made>>

Filled(w) == [i \in 1..BlockWords |-> w]
Superblock == [Filled(Zero) EXCEPT ![1] = Magic, ![2] = Root]
\* Behind every end, and where an entry might begin.
Never == 3 * MaxWords
NewInode(kind) == [type |-> kind, links |-> 1, size |-> 0,
                   direct |-> Zero, indirect |-> Zero]

\* mkfs
Init ==
  /\ data = [b \in Block \cup {Zero} |-> IF b = Zero THEN Superblock ELSE Filled(Stale)]
  /\ blockBit = {}
  /\ nodeBit = {Root}
  /\ inode = [n \in Inum |-> NewInode(IF n = Root THEN "dir" ELSE "none")]
  /\ iroot = Root
  /\ pc = "idle"
  /\ node = Zero /\ offset = 0 /\ todo = <<>>
  /\ page = Filled(Zero) /\ fresh = Zero
  /\ crashes = 0
  /\ made = {}
  /\ torn = [n \in Inum |-> Never]

-----------------------------------------------------------------------------
(* Reading *)

TotalBlocks(n) == (inode[n].size + BlockWords - 1) \div BlockWords

\* The block that holds the b-th block of n: 0 is a hole.
BlockIdx(n, b) == IF b = 0 THEN inode[n].direct ELSE data[inode[n].indirect][b]

ReadBlock(n, b) ==
  IF BlockIdx(n, b) = Zero THEN Filled(Zero) ELSE data[BlockIdx(n, b)]

\* What readAll reads as the i-th word of a node, and from its start to its end.
WordAt(n, i) == ReadBlock(n, (i - 1) \div BlockWords)[((i - 1) % BlockWords) + 1]
Content(n) == [i \in 1..inode[n].size |-> WordAt(n, i)]

Offsets(n) == IF inode[n].type = "dir" THEN 0..inode[n].size - 1 ELSE {}

\* Whether findNode and dump, having read an entry at c, may go on to next.  A
\* length behind the end is not read: it is whatever was in the variable, and
\* with it the sum of 32 bits may come to any offset.
MayFollow(d, c, next) ==
  c + 2 <= inode[d].size => next = c + 2 + AsLength[WordAt(d, c + 2)]

\* The offsets findNode and dump may come to, reading on from those below limit.
Visits(d, limit) ==
  LET follow == {p \in Offsets(d) \X Offsets(d) : p[1] < limit /\ MayFollow(d, p[1], p[2])}
      closed == {S \in SUBSET Offsets(d) :
                   0 \in S /\ \A p \in follow : p[1] \in S => p[2] \in S}
  IN {c \in Offsets(d) : \A S \in closed : c \in S}

-----------------------------------------------------------------------------
(* Node::write: one block of the buffer at the head of todo *)

Current == offset \div BlockWords
Start == offset % BlockWords
Count == Min({Len(Head(todo)), BlockWords - Start})

\* Mutant: the block right behind the last one is taken to be there.
LackingTooLate ==
  IF Current <= TotalBlocks(node) THEN "none"
  ELSE IF inode[node].direct = Zero THEN "direct"
  ELSE IF Current = 0 THEN "none"
  ELSE IF inode[node].indirect = Zero THEN "indirect"
  ELSE "entry"

\* The pointer writeBlock lacks: it asks for all it may need when the block is
\* past the last one, and for none otherwise.
Lacking ==
  IF Current < TotalBlocks(node) THEN "none"
  ELSE IF inode[node].direct = Zero THEN "direct"
  ELSE IF Current = 0 THEN "none"
  ELSE IF inode[node].indirect = Zero THEN "indirect"
  ELSE "entry"

WriteNext == pc' = IF Lacking = "none" THEN "data" ELSE "bit"

\* Mutant: the old words of a block are not read first.
WritePageClean ==
  /\ pc = "write"
  /\ page' = [i \in 1..BlockWords |->
       IF i \in Start + 1..Start + Count THEN Head(todo)[i - Start] ELSE Zero]
  /\ WriteNext
  /\ UNCHANGED <<disk, iroot, call, fresh, crashes, torn, made>>

WritePage ==
  /\ pc = "write"
  /\ page' = [i \in 1..BlockWords |->
       IF i \in Start + 1..Start + Count THEN Head(todo)[i - Start]
       ELSE IF Current >= TotalBlocks(node) THEN Zero
       ELSE ReadBlock(node, Current)[i]]
  /\ WriteNext
  /\ UNCHANGED <<disk, iroot, call, fresh, crashes, torn, made>>

\* The first free block in the order of the i-node's generator, which starts
\* anew at every search.
FirstEmpty(b) ==
  \E i \in DOMAIN Order[node] :
    /\ b = Order[node][i] /\ b \notin blockBit
    /\ \A j \in 1..i - 1 : Order[node][j] \in blockBit

\* Mutant: the bit is not set.
FindEmptyBlockUnmarked ==
  /\ pc = "bit"
  /\ \E b \in Block : FirstEmpty(b) /\ fresh' = b
  /\ pc' = "zero"
  /\ UNCHANGED <<disk, iroot, call, page, crashes, torn, made>>

\* With every bit set the search goes on for ever.
FindEmptyBlock ==
  /\ pc = "bit"
  /\ \E b \in Block :
       /\ FirstEmpty(b)
       /\ fresh' = b
       /\ blockBit' = blockBit \cup {b}
  /\ pc' = "zero"
  /\ UNCHANGED <<data, nodeBit, inode, iroot, call, page, crashes, torn, made>>

ZeroBlock ==
  /\ pc = "zero"
  /\ data' = [data EXCEPT ![fresh] = Filled(Zero)]
  /\ pc' = "pointer"
  /\ UNCHANGED <<blockBit, nodeBit, inode, iroot, call, page, fresh, crashes, torn, made>>

SetPointer ==
  /\ pc = "pointer"
  /\ \/ /\ Lacking = "direct"
        /\ inode' = [inode EXCEPT ![node].direct = fresh]
        /\ pc' = IF Current = 0 THEN "data" ELSE "bit"
        /\ UNCHANGED data
     \/ /\ Lacking = "indirect"
        /\ inode' = [inode EXCEPT ![node].indirect = fresh]
        /\ pc' = "bit"
        /\ UNCHANGED data
     \/ /\ Lacking = "entry"
        /\ data' = [data EXCEPT ![inode[node].indirect][Current] = fresh]
        /\ pc' = "data"
        /\ UNCHANGED inode
  /\ fresh' = Zero
  /\ UNCHANGED <<blockBit, nodeBit, iroot, call, page, crashes, torn, made>>

WriteData ==
  /\ pc = "data"
  /\ data' = [data EXCEPT ![BlockIdx(node, Current)] = page]
  /\ page' = Filled(Zero)
  /\ pc' = "size"
  /\ UNCHANGED <<blockBit, nodeBit, inode, iroot, call, fresh, crashes, torn, made>>

\* writeAll goes on with the rest of the buffer, newNode with its next buffer.
SetSize ==
  LET rest == SubSeq(Head(todo), Count + 1, Len(Head(todo))) IN
  /\ pc = "size"
  /\ inode' = [inode EXCEPT ![node].size = Max({@, offset + Count})]
  /\ offset' = offset + Count
  /\ todo' = IF rest = <<>> THEN Tail(todo) ELSE <<rest>> \o Tail(todo)
  /\ pc' = IF todo' = <<>> THEN "idle" ELSE "write"
  /\ UNCHANGED <<data, blockBit, nodeBit, iroot, node, page, fresh, crashes, torn, made>>

-----------------------------------------------------------------------------
(* The calls of a user, one at a time *)

Call(n, at, buffers) ==
  /\ node' = n
  /\ offset' = at
  /\ todo' = buffers

\* Mutant: the length is written before the i-number.
EntrySwapped(n, name) == <<<<Length>>, <<n>>, <<name>>>>

Entry(n, name) == <<<<n>>, <<Length>>, <<name>>>>

IsDir(n) == inode[n].type = "dir"
IsFile(n) == inode[n].type = "file"

\* Between their calls users hold the root and what newNode and findNode gave them.
\* What findNode makes of words that are no node's number is left alone.
Found == UNION {{WordAt(d, c + 1) : c \in Visits(d, Never)} : d \in Inum}
Held == IF pc = "idle" THEN {n \in Inum : n \in {iroot} \cup made \/ n \in Found} ELSE {}

\* No block below the end that the buffer touches is a hole.
AvoidsHoles(n, at, buffer) ==
  \A i \in at..at + Len(buffer) - 1 :
    LET b == i \div BlockWords IN b < TotalBlocks(n) => BlockIdx(n, b) # Zero

WriteAll(n, at, buffer) ==
  /\ pc = "idle"
  /\ IsFile(n)
  /\ at + Len(buffer) <= MaxWords
  /\ Holes \/ AvoidsHoles(n, at, buffer)
  /\ Call(n, at, <<buffer>>)
  /\ pc' = "write"
  /\ UNCHANGED <<disk, iroot, page, fresh, crashes, torn, made>>

RoomForEntry(d) == inode[d].size + 3 <= MaxWords

NewNode(d, name, kind) ==
  /\ pc = "idle"
  /\ IsDir(d) /\ RoomForEntry(d)
  /\ \E n \in Inum \ nodeBit :
       /\ nodeBit' = nodeBit \cup {n}
       /\ fresh' = n
       /\ made' = made \cup {n}
       /\ Call(d, inode[d].size, Entry(n, name))
  /\ pc' = kind
  /\ UNCHANGED <<data, blockBit, inode, iroot, page, crashes, torn>>

\* Mutant: the entry is written before the i-node is.
InitNewNodeForgotten ==
  /\ pc \in {"file", "dir"}
  /\ fresh' = Zero
  /\ pc' = "write"
  /\ UNCHANGED <<disk, iroot, call, page, crashes, torn, made>>

InitNewNode ==
  /\ pc \in {"file", "dir"}
  /\ inode' = [inode EXCEPT ![fresh] = NewInode(pc)]
  /\ fresh' = Zero
  /\ pc' = "write"
  /\ UNCHANGED <<data, blockBit, nodeBit, iroot, call, page, crashes, torn, made>>

\* Mutant: directories may be linked too.
LinkAnyNode(d, name, n) ==
  /\ pc = "idle"
  /\ IsDir(d) /\ RoomForEntry(d)
  /\ inode[n].links <= MaxLinks
  /\ inode' = [inode EXCEPT ![n].links = @ + 1]
  /\ Call(d, inode[d].size, Entry(n, name))
  /\ pc' = "write"
  /\ UNCHANGED <<data, blockBit, nodeBit, iroot, page, fresh, crashes, torn, made>>

\* Mutant: addLink is not called.
LinkUncounted(d, name, n) ==
  /\ pc = "idle"
  /\ IsDir(d) /\ RoomForEntry(d)
  /\ IsFile(n)
  /\ Call(d, inode[d].size, Entry(n, name))
  /\ pc' = "write"
  /\ UNCHANGED <<disk, iroot, page, fresh, crashes, torn, made>>

LinkNode(d, name, n) ==
  /\ pc = "idle"
  /\ IsDir(d) /\ RoomForEntry(d)
  /\ IsFile(n) /\ inode[n].links <= MaxLinks
  /\ inode' = [inode EXCEPT ![n].links = @ + 1]
  /\ Call(d, inode[d].size, Entry(n, name))
  /\ pc' = "write"
  /\ UNCHANGED <<data, blockBit, nodeBit, iroot, page, fresh, crashes, torn, made>>

\* The call has written a part of its entry.
Naming == pc \notin {"idle", "file", "dir"} /\ inode[node].type = "dir"
InsideEntry == Naming /\ Len(todo) < 3

\* The machine stops between two writes; the next boot mounts the disk.
CrashAndMount ==
  /\ crashes < MaxCrashes
  /\ crashes' = crashes + 1
  /\ iroot' = data[Zero][2]
  /\ pc' = "idle"
  /\ Call(Zero, 0, <<>>)
  /\ page' = Filled(Zero) /\ fresh' = Zero
  /\ made' = {}
  /\ torn' = [d \in Inum |-> IF InsideEntry /\ d = node /\ torn[d] = Never
                              THEN offset + Len(todo) - 3 ELSE torn[d]]
  /\ UNCHANGED disk

-----------------------------------------------------------------------------
DiskWrite == WritePage \/ FindEmptyBlock \/ ZeroBlock \/ SetPointer
             \/ WriteData \/ SetSize \/ InitNewNode

Next ==
  \/ DiskWrite
  \/ \E n \in Held :
       \/ \E at \in 0..MaxWords, buffer \in Buffers : WriteAll(n, at, buffer)
       \/ \E name \in Name :
            \/ \E kind \in {"file", "dir"} : NewNode(n, name, kind)
            \/ \E m \in Held : LinkNode(n, name, m)
  \/ CrashAndMount

Spec == Init /\ [][Next]_vars

-----------------------------------------------------------------------------
(* Properties *)

\* The pointers of an i-node: those to its blocks 0, 1, ... and to the indirect block.
Indirect == BlockWords + 1
Slot == 0..Indirect
Pointer(n, s) ==
  IF s = 0 THEN inode[n].direct
  ELSE IF s = Indirect THEN inode[n].indirect
  ELSE IF inode[n].indirect = Zero THEN Zero ELSE data[inode[n].indirect][s]

\* No block belongs to two files, or twice to one, and no block that belongs to
\* a file is free in the bitmap: not even when the machine stops in writeBlock.
BlocksOwned ==
  \A n, m \in Inum : \A s, t \in Slot : Pointer(n, s) # Zero =>
    /\ Pointer(n, s) \in blockBit
    /\ Pointer(n, s) = Pointer(m, t) => n = m /\ s = t

\* The entries findNode and dump come to, in front of the first that a crash
\* has left incomplete; with no such entry they are all they come to.
Entries(d) == {c \in Visits(d, torn[d]) : c < torn[d]}
NodeAt(d, c) == WordAt(d, c + 1)

\* What a directory names, in front of a torn entry, is there: a node is
\* written before the first word of its entry, so a crash in newNode between
\* the two leaves at worst a node without an entry.
EntriesLeadToNodes == pc = "idle" =>
  \A d \in Inum : \A c \in Entries(d) :
    NodeAt(d, c) \in nodeBit /\ inode[NodeAt(d, c)].type # "none"

\* In front of torn entries the directories are a tree: each but the root has
\* one entry, however it is linked, so a dump() that meets no torn entry ends.
EntriesOf(n) == UNION {{<<d, c>> : c \in {e \in Entries(d) : NodeAt(d, e) = n}} :
                       d \in Inum}
DirectoriesAreATree == pc = "idle" =>
  /\ \A n \in Inum : inode[n].type = "dir" => Cardinality(EntriesOf(n)) <= 1
  /\ EntriesOf(Root) = {}

\* nlinks counts at least the entries of a file that stand in front of torn ones:
\* linkNode counts before it writes.
LinksCounted == pc = "idle" =>
  \A n \in Inum : inode[n].type = "file" =>
    Cardinality(EntriesOf(n)) <= inode[n].links

\* newNode or linkNode returns: the last three words are its entry.
Named ==
  /\ pc = "size" /\ inode[node].type = "dir"
  /\ pc' = "idle" /\ crashes' = crashes
LastEntry == inode[node].size - 3

\* findNode comes to the entry that newNode or linkNode has just written, unless a
\* crash left an entry of this directory incomplete: then it may read past it.
EntriesAreFound ==
  [][Named /\ torn[node] = Never => LastEntry' \in Visits(node, Never)']_vars

\* Nothing a user does changes the superblock, and every mount finds the root.
SuperblockKept == data[Zero] = Superblock

Writing == pc \notin {"idle", "file", "dir"}

\* The files as their users see them.
AsFiles == INSTANCE Files WITH
  kind <- [n \in Inum |-> inode[n].type],
  links <- [n \in Inum |-> inode[n].links],
  content <- [n \in Inum |-> Content(n)],
  target <- IF Writing THEN node ELSE Zero,
  at <- IF Writing THEN offset ELSE 0,
  words <- IF Writing THEN FlattenSeq(todo) ELSE <<>>,
  crashed <- crashes > 0

ImplementsFiles == AsFiles!Spec
=============================================================================
