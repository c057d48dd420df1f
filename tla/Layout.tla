------------------------------- MODULE Layout -------------------------------
(***************************************************************************)
(* Where the file system of p6_file_system/kernel (bobfs.cc, bobfs.h) puts *)
(* what it stores, byte by byte.  BobFS takes the fields of the i-nodes,   *)
(* the bits and the blocks for variables of their own, and each write of a *)
(* field for one step that a crash cannot cut in two.  Here it is proved   *)
(* that it may.                                                            *)
(***************************************************************************)
EXTENDS Integers, TLAPS

BLOCK_SIZE == 1024
START_OF_BLOCK_BITMAP == 1024
START_OF_INODE_BITMAP == 2 * 1024
START_OF_INODES == 3 * 1024
START_OF_BLOCK == 3 * 1024 + 128 * 1024
SectorSize == 512

Byte == 0..255
Drive == [Nat -> Byte]

\* i-numbers and bits of the block bitmap: what random.next() % (8*1024) may be.
Inumber == {n \in Nat : n < 8 * 1024}
Bit == {x \in Nat : x < 8 * 1024}

\* Ide::readAll and Ide::writeAll.
readAll(d, at, n) == [i \in 0..n - 1 |-> d[at + i]]
writeAll(d, at, value, n) == [a \in Nat |-> IF a \in at..at + n - 1 THEN value[a - at] ELSE d[a]]

-----------------------------------------------------------------------------
(* An i-node: 16 bytes, the lowest of a number first *)

Field == {"type", "links", "size", "direct", "indirect"}
offset(f) == CASE f = "type" -> 0 [] f = "links" -> 2 [] f = "size" -> 4 [] f = "direct" -> 8 [] OTHER -> 12
width(f) == IF f \in {"type", "links"} THEN 2 ELSE 4

FieldAt(n, f) == START_OF_INODES + 16 * n + offset(f)
Values(f) == [0..width(f) - 1 -> Byte]
get(d, n, f) == readAll(d, FieldAt(n, f), width(f))
set(d, n, f, value) == writeAll(d, FieldAt(n, f), value, width(f))

Bytes(k, n) == [i \in 0..n - 1 |-> IF i = 0 THEN k % 256 ELSE IF i = 1 THEN (k \div 256) % 256 ELSE 0]
Number(value) == value[0] + 256 * value[1]

getType(d, n) == get(d, n, "type")
getLinks(d, n) == get(d, n, "links")
getSize(d, n) == get(d, n, "size")
getDirect(d, n) == get(d, n, "direct")
getIndirect(d, n) == get(d, n, "indirect")

\* The count is a word of 32 bits in memory and 16 bits on the drive.
addLink(d, n) == set(d, n, "links", Bytes(Number(getLinks(d, n)) + 1, 2))

initNewNode(d, n, type) ==
  LET typed == set(d, n, "type", Bytes(type, 2))
      linked == set(typed, n, "links", Bytes(1, 2))
      sized == set(linked, n, "size", Bytes(0, 4))
      direct == set(sized, n, "direct", Bytes(0, 4))
  IN  set(direct, n, "indirect", Bytes(0, 4))

-----------------------------------------------------------------------------
(* Superblock, bitmaps and blocks *)

MagicAt == 0
RootAt == 8
BlockBitAt(x) == BLOCK_SIZE + x \div 8
NodeBitAt(x) == 2 * BLOCK_SIZE + x \div 8

\* The block that findEmptyBlock returns for a bit.
block(x) == x + 3 + 128
BlockAt(b) == b * BLOCK_SIZE
Inside(x) == BlockAt(block(x))..BlockAt(block(x)) + BLOCK_SIZE - 1

\* The pointer to block number k of a file, k >= 1, in its indirect block b.
PointerAt(b, k) == BlockAt(b) + (k - 1) * 4

-----------------------------------------------------------------------------
(* Where newNode and findEmptyBlock look for a free place: class Random, of *)
(* which only w reaches the bits that are used                              *)

Seeded(seed) == IF seed = 0 \/ seed = 18000 * 65536 - 1 THEN seed + 1 ELSE seed
Multiplied(factor, v) == factor * (v % 65536) + v \div 65536
next(w, z) == (Multiplied(36969, z) * 65536 + Multiplied(18000, w)) % (65536 * 65536)
place(w, z) == next(w, z) % (8 * 1024)

\* What w may be.
Turning == {w \in Nat : 0 < w /\ w < 18000 * 65536 - 1}

-----------------------------------------------------------------------------
(* What a byte belongs to *)

LEMMA FieldBounds ==
  ASSUME NEW n \in Inumber, NEW f \in Field
  PROVE  /\ offset(f) \in Int /\ width(f) \in Int
         /\ offset(f) >= 0 /\ width(f) > 0 /\ offset(f) + width(f) <= 16
         /\ FieldAt(n, f) \in Nat /\ FieldAt(n, f) >= START_OF_INODES
         /\ FieldAt(n, f) + width(f) <= START_OF_BLOCK
<1>1. /\ offset(f) \in Int /\ width(f) \in Int
      /\ offset(f) >= 0 /\ width(f) > 0 /\ offset(f) + width(f) <= 16
  BY DEF Field, offset, width
<1> QED
  BY <1>1 DEF Inumber, FieldAt, START_OF_INODES, START_OF_BLOCK

\* Two fields have no byte in common, unless they are the same field of the same node.
LEMMA FieldsDisjoint ==
  \A n, m \in Inumber, f, g \in Field : \A a \in Nat :
    /\ a \in FieldAt(n, f)..FieldAt(n, f) + width(f) - 1
    /\ a \in FieldAt(m, g)..FieldAt(m, g) + width(g) - 1
    => n = m /\ f = g
<1> SUFFICES ASSUME NEW n \in Inumber, NEW m \in Inumber, NEW f \in Field, NEW g \in Field,
                    NEW a \in Nat,
                    a \in FieldAt(n, f)..FieldAt(n, f) + width(f) - 1,
                    a \in FieldAt(m, g)..FieldAt(m, g) + width(g) - 1
             PROVE  n = m /\ f = g
  OBVIOUS
<1> DEFINE base == a - START_OF_INODES
<1>1. /\ offset(f) + width(f) <= 16 /\ offset(f) >= 0 /\ offset(f) \in Int /\ width(f) \in Int
      /\ offset(g) + width(g) <= 16 /\ offset(g) >= 0 /\ offset(g) \in Int /\ width(g) \in Int
  BY FieldBounds
<1>2. /\ 16 * n + offset(f) <= base /\ base <= 16 * n + offset(f) + width(f) - 1
      /\ 16 * m + offset(g) <= base /\ base <= 16 * m + offset(g) + width(g) - 1
  BY <1>1 DEF FieldAt, START_OF_INODES, Inumber
<1>3. n = m
  BY <1>1, <1>2 DEF Inumber, START_OF_INODES
<1>4. offset(f) < offset(g) + width(g) /\ offset(g) < offset(f) + width(f)
  BY <1>1, <1>2, <1>3 DEF Inumber, START_OF_INODES
<1>5. f = g
  BY <1>4 DEF Field, offset, width
<1> QED
  BY <1>3, <1>5

\* A field that is written is read as it was written, and every other field of
\* every node as it was.
THEOREM NodesApart ==
  \A d \in Drive, n, m \in Inumber, f, g \in Field : \A v \in Values(f) :
    /\ set(d, n, f, v) \in Drive
    /\ get(set(d, n, f, v), m, g) = IF n = m /\ f = g THEN v ELSE get(d, m, g)
<1> SUFFICES ASSUME NEW d \in Drive, NEW n \in Inumber, NEW m \in Inumber,
                    NEW f \in Field, NEW g \in Field, NEW v \in Values(f)
             PROVE  /\ set(d, n, f, v) \in Drive
                    /\ get(set(d, n, f, v), m, g) = IF n = m /\ f = g THEN v ELSE get(d, m, g)
  OBVIOUS
<1> DEFINE s == set(d, n, f, v)
<1>1. s \in Drive
  BY FieldBounds DEF set, writeAll, Drive, Values
<1>2. \A a \in Nat : s[a] = IF a \in FieldAt(n, f)..FieldAt(n, f) + width(f) - 1
                            THEN v[a - FieldAt(n, f)] ELSE d[a]
  BY DEF set, writeAll
<1>3. CASE n = m /\ f = g
  <2>1. \A i \in 0..width(f) - 1 : s[FieldAt(n, f) + i] = v[i]
    BY <1>2, FieldBounds
  <2>2. get(s, n, f) = [i \in 0..width(f) - 1 |-> v[i]]
    BY <2>1 DEF get, readAll
  <2>3. v = [i \in 0..width(f) - 1 |-> v[i]]
    BY DEF Values
  <2> QED
    BY <1>1, <1>3, <2>2, <2>3
<1>4. CASE ~(n = m /\ f = g)
  <2>1. \A i \in 0..width(g) - 1 : s[FieldAt(m, g) + i] = d[FieldAt(m, g) + i]
    <3> TAKE i \in 0..width(g) - 1
    <3> DEFINE a == FieldAt(m, g) + i
    <3>1. a \in Nat /\ a \in FieldAt(m, g)..FieldAt(m, g) + width(g) - 1
      BY FieldBounds
    <3>2. a \notin FieldAt(n, f)..FieldAt(n, f) + width(f) - 1
      BY <1>4, <3>1, FieldsDisjoint
    <3> QED
      BY <1>2, <3>1, <3>2
  <2>2. get(s, m, g) = get(d, m, g)
    BY <2>1 DEF get, readAll
  <2> QED
    BY <1>1, <1>4, <2>2
<1> QED
  BY <1>1, <1>3, <1>4

-----------------------------------------------------------------------------
(* What the operations do *)

NewValue(type, f) == CASE f = "type" -> Bytes(type, 2) [] f = "links" -> Bytes(1, 2) [] OTHER -> Bytes(0, 4)

LEMMA BytesAreValues ==
  ASSUME NEW k \in Nat, NEW n \in {2, 4}
  PROVE  Bytes(k, n) \in [0..n - 1 -> Byte]
  BY DEF Bytes, Byte

\* After initNewNode the node is what newNode wants it to be, whatever was there
\* before, and no other node has changed.
THEOREM InitNewNodeMakesOne ==
  ASSUME NEW d \in Drive, NEW n \in Inumber, NEW m \in Inumber, NEW f \in Field, NEW type \in {1, 2}
  PROVE  get(initNewNode(d, n, type), m, f) = IF m = n THEN NewValue(type, f) ELSE get(d, m, f)
<1> DEFINE typed == set(d, n, "type", Bytes(type, 2))
           linked == set(typed, n, "links", Bytes(1, 2))
           sized == set(linked, n, "size", Bytes(0, 4))
           direct == set(sized, n, "direct", Bytes(0, 4))
           made == set(direct, n, "indirect", Bytes(0, 4))
<1>1. made = initNewNode(d, n, type)
  BY DEF initNewNode
<1>2. /\ Bytes(type, 2) \in Values("type") /\ Bytes(1, 2) \in Values("links")
      /\ Bytes(0, 4) \in Values("size") /\ Bytes(0, 4) \in Values("direct") /\ Bytes(0, 4) \in Values("indirect")
  BY BytesAreValues DEF Values, width
<1>3. {"type", "links", "size", "direct", "indirect"} \subseteq Field
  BY DEF Field
<1> HIDE DEF typed, linked, sized, direct, made
<1>4. typed \in Drive /\ get(typed, m, f) = IF n = m /\ f = "type" THEN Bytes(type, 2) ELSE get(d, m, f)
  BY <1>2, <1>3, NodesApart DEF typed
<1>5. linked \in Drive /\ get(linked, m, f) = IF n = m /\ f = "links" THEN Bytes(1, 2) ELSE get(typed, m, f)
  BY <1>2, <1>3, <1>4, NodesApart DEF linked
<1>6. sized \in Drive /\ get(sized, m, f) = IF n = m /\ f = "size" THEN Bytes(0, 4) ELSE get(linked, m, f)
  BY <1>2, <1>3, <1>5, NodesApart DEF sized
<1>7. direct \in Drive /\ get(direct, m, f) = IF n = m /\ f = "direct" THEN Bytes(0, 4) ELSE get(sized, m, f)
  BY <1>2, <1>3, <1>6, NodesApart DEF direct
<1>8. get(made, m, f) = IF n = m /\ f = "indirect" THEN Bytes(0, 4) ELSE get(direct, m, f)
  BY <1>2, <1>3, <1>7, NodesApart DEF made
<1> QED
  BY <1>1, <1>4, <1>5, <1>6, <1>7, <1>8 DEF NewValue, Field

LEMMA NumberBounds ==
  ASSUME NEW v, v[0] \in Byte, v[1] \in Byte
  PROVE  Number(v) \in Nat /\ Number(v) < 65536
<1>1. \A low, high \in Byte : low + 256 * high \in Nat /\ low + 256 * high < 65536
  BY DEF Byte
<1> QED
  BY <1>1 DEF Number

LEMMA NumberCounts ==
  ASSUME NEW k \in Nat, k < 65536
  PROVE  Number(Bytes(k + 1, 2)) = (k + 1) % 65536
<1>1. Bytes(k + 1, 2)[0] = (k + 1) % 256 /\ Bytes(k + 1, 2)[1] = ((k + 1) \div 256) % 256
  BY DEF Bytes
<1>2. ((k + 1) % 256) + 256 * (((k + 1) \div 256) % 256) = (k + 1) % 65536
  OBVIOUS
<1> QED
  BY <1>1, <1>2 DEF Number

\* addLink counts in 16 bits: the 65536th link of a node leaves it with none,
\* but with its type and its size, and the others with theirs.
THEOREM AddLinkCounts ==
  ASSUME NEW d \in Drive, NEW n \in Inumber, NEW m \in Inumber, NEW f \in Field
  PROVE  /\ Number(getLinks(addLink(d, n), n)) = (Number(getLinks(d, n)) + 1) % 65536
         /\ n # m \/ f # "links" => get(addLink(d, n), m, f) = get(d, m, f)
<1>1. "links" \in Field /\ width("links") = 2
  BY DEF Field, width
<1>2. getLinks(d, n)[0] \in Byte /\ getLinks(d, n)[1] \in Byte
  <2>1. FieldAt(n, "links") \in Nat
    BY <1>1, FieldBounds
  <2>2. d[FieldAt(n, "links") + 0] \in Byte /\ d[FieldAt(n, "links") + 1] \in Byte
    BY <2>1 DEF Drive
  <2>3. getLinks(d, n) = [i \in 0..2 - 1 |-> d[FieldAt(n, "links") + i]]
    BY <1>1 DEF getLinks, get, readAll
  <2> QED
    BY <2>2, <2>3
<1>3. Number(getLinks(d, n)) \in Nat /\ Number(getLinks(d, n)) < 65536
  BY <1>2, NumberBounds
<1>4. PICK k \in Nat : k = Number(getLinks(d, n)) /\ k < 65536
  BY <1>3
<1>5. Bytes(k + 1, 2) \in Values("links")
  <2>1. k + 1 \in Nat
    OBVIOUS
  <2>2. Bytes(k + 1, 2) \in [0..2 - 1 -> Byte]
    BY <2>1, BytesAreValues
  <2> QED
    BY <1>1, <2>2 DEF Values
<1>6. addLink(d, n) = set(d, n, "links", Bytes(k + 1, 2))
  BY <1>4 DEF addLink
<1>7. /\ getLinks(addLink(d, n), n) = Bytes(k + 1, 2)
      /\ n # m \/ f # "links" => get(addLink(d, n), m, f) = get(d, m, f)
  BY <1>1, <1>5, <1>6, NodesApart DEF getLinks
<1> QED
  BY <1>4, <1>7, NumberCounts

-----------------------------------------------------------------------------
(* Areas *)

\* Each field of an i-node and each pointer of an indirect block lies in one
\* sector: a crash leaves it as it was or as it was to be.
THEOREM WrittenWhole ==
  /\ \A n \in Inumber, f \in Field :
       FieldAt(n, f) \div SectorSize = (FieldAt(n, f) + width(f) - 1) \div SectorSize
  /\ \A x \in Bit, k \in 1..256 :
       PointerAt(block(x), k) \div SectorSize = (PointerAt(block(x), k) + 3) \div SectorSize
<1>1. ASSUME NEW n \in Inumber, NEW f \in Field
      PROVE  FieldAt(n, f) \div SectorSize = (FieldAt(n, f) + width(f) - 1) \div SectorSize
  <2>1. PICK q \in Int, r \in 0..31 : n = 32 * q + r
    <3>1. (n \div 32) \in Int /\ (n % 32) \in 0..31 /\ n = 32 * (n \div 32) + (n % 32)
      BY DEF Inumber
    <3> QED
      BY <3>1
  <2>2. FieldAt(n, f) = 512 * (6 + q) + (16 * r + offset(f))
    BY <2>1, FieldBounds DEF FieldAt, START_OF_INODES
  <2>3. 16 * r + offset(f) >= 0 /\ 16 * r + offset(f) + width(f) - 1 < 512
    BY <2>1, FieldBounds
  <2> QED
    BY <2>1, <2>2, <2>3, FieldBounds DEF SectorSize
<1>2. ASSUME NEW x \in Bit, NEW k \in 1..256
      PROVE  PointerAt(block(x), k) \div SectorSize = (PointerAt(block(x), k) + 3) \div SectorSize
  <2>1. PICK q \in Int, r \in 0..127 : k - 1 = 128 * q + r
    OBVIOUS
  <2>2. PointerAt(block(x), k) = 512 * (2 * (x + 131) + q) + 4 * r
    BY <2>1 DEF PointerAt, BlockAt, block, BLOCK_SIZE, Bit
  <2>3. 4 * r >= 0 /\ 4 * r + 3 < 512
    BY <2>1
  <2>4. 2 * (x + 131) + q \in Int
    BY <2>1 DEF Bit
  <2> QED
    BY <2>1, <2>2, <2>3, <2>4 DEF SectorSize
<1> QED
  BY <1>1, <1>2

LEMMA BitsInBitmap ==
  /\ \A x \in Bit : x \div 8 \in Nat /\ x \div 8 < 1024
  /\ \A n \in Inumber : n \div 8 \in Nat /\ n \div 8 < 1024
<1>1. \A x \in Bit : x \div 8 \in Nat /\ x \div 8 < 1024
  BY DEF Bit
<1>2. \A n \in Inumber : n \div 8 \in Nat /\ n \div 8 < 1024
  BY DEF Inumber
<1> QED
  BY <1>1, <1>2

\* The superblock, the two bitmaps, the i-nodes and the blocks have no byte in
\* common, and neither have two blocks.
THEOREM AreasApart ==
  ASSUME NEW x \in Bit, NEW y \in Bit, NEW n \in Inumber, NEW f \in Field
  PROVE  /\ RootAt + 4 <= BlockBitAt(x) /\ MagicAt + 8 <= RootAt
         /\ BlockBitAt(x) < NodeBitAt(n)
         /\ NodeBitAt(n) < FieldAt(n, f)
         /\ BlockBitAt(x) < START_OF_INODE_BITMAP /\ NodeBitAt(n) < START_OF_INODES
         /\ \A a \in Inside(x) : a >= START_OF_BLOCK /\ a >= FieldAt(n, f) + width(f)
         /\ x # y => Inside(x) \cap Inside(y) = {}
<1>1. /\ RootAt + 4 <= BlockBitAt(x) /\ MagicAt + 8 <= RootAt
      /\ BlockBitAt(x) < START_OF_INODE_BITMAP
  BY BitsInBitmap DEF RootAt, MagicAt, BlockBitAt, BLOCK_SIZE, START_OF_INODE_BITMAP
<1>2. START_OF_INODE_BITMAP <= NodeBitAt(n) /\ NodeBitAt(n) < START_OF_INODES
  BY BitsInBitmap DEF NodeBitAt, BLOCK_SIZE, START_OF_INODE_BITMAP, START_OF_INODES
<1>3. BlockBitAt(x) \in Int /\ NodeBitAt(n) \in Int
  <2>1. x \div 8 \in Int /\ n \div 8 \in Int
    BY BitsInBitmap
  <2> QED
    BY <2>1 DEF BlockBitAt, NodeBitAt, BLOCK_SIZE
<1>4. \A a \in Inside(x) : a >= START_OF_BLOCK
  <2>1. BlockAt(block(x)) \in Int /\ BlockAt(block(x)) >= START_OF_BLOCK
    BY DEF BlockAt, block, Bit, BLOCK_SIZE, START_OF_BLOCK
  <2> QED
    BY <2>1 DEF Inside, BLOCK_SIZE, START_OF_BLOCK
<1>5. \A a \in Inside(x) : a \in Int
  BY DEF Inside, BlockAt, block, Bit, BLOCK_SIZE
<1>6. x # y => Inside(x) \cap Inside(y) = {}
  BY DEF Inside, BlockAt, block, Bit, BLOCK_SIZE
<1>7. START_OF_INODE_BITMAP \in Int /\ START_OF_INODES \in Int /\ START_OF_BLOCK \in Int
  BY DEF START_OF_INODE_BITMAP, START_OF_INODES, START_OF_BLOCK
<1>8. /\ FieldAt(n, f) \in Nat /\ FieldAt(n, f) >= START_OF_INODES /\ width(f) \in Int
      /\ FieldAt(n, f) + width(f) <= START_OF_BLOCK
  BY FieldBounds
<1>9. \A a \in Inside(x) : a >= FieldAt(n, f) + width(f)
  BY <1>4, <1>5, <1>7, <1>8
<1> QED
  BY <1>1, <1>2, <1>3, <1>4, <1>6, <1>7, <1>8, <1>9

\* The pointers to the blocks 1 to 256 of a file are in its indirect block; the
\* next one, which nothing refuses, is in the block behind it, whoever owns that.
THEOREM PointersInside ==
  ASSUME NEW x \in Bit, NEW k \in 1..256
  PROVE  /\ PointerAt(block(x), k) \in Inside(x) /\ PointerAt(block(x), k) + 3 \in Inside(x)
         /\ PointerAt(block(x), 257) \in Inside(x + 1)
  BY DEF PointerAt, Inside, BlockAt, block, Bit, BLOCK_SIZE

-----------------------------------------------------------------------------
(* The search *)

\* The search cannot get stuck at one place, nor run into a loop that it did not
\* start in: w never comes to a value that it keeps, and no value follows on two.
\* It does not overflow, and the place does not depend on z.
THEOREM SearchGoesOn ==
  /\ \A n \in Inumber : Seeded(n) \in Turning
  /\ \A v, w \in Turning :
       /\ Multiplied(18000, w) \in Turning /\ Multiplied(18000, w) # w
       /\ Multiplied(18000, v) = Multiplied(18000, w) => v = w
  /\ \A w \in Turning, z \in Nat : place(w, z) = Multiplied(18000, w) % (8 * 1024)
<1>1. \A n \in Inumber : Seeded(n) \in Turning
  BY DEF Inumber, Seeded, Turning
<1>2. \A w \in Turning :
        /\ w % 65536 \in Nat /\ w % 65536 < 65536 /\ w \div 65536 \in Nat /\ w \div 65536 < 18000
        /\ w = 65536 * (w \div 65536) + (w % 65536)
  BY DEF Turning
<1>3. ASSUME NEW w \in Turning
      PROVE  Multiplied(18000, w) \in Turning /\ Multiplied(18000, w) # w
  <2> DEFINE low == w % 65536
             high == w \div 65536
  <2>1. /\ low \in Nat /\ low < 65536 /\ high \in Nat /\ high < 18000
        /\ w = 65536 * high + low /\ w > 0 /\ w < 18000 * 65536 - 1
    BY <1>2 DEF Turning
  <2>2. Multiplied(18000, w) = 18000 * low + high
    BY DEF Multiplied
  <2> HIDE DEF low, high
  <2>3. 18000 * low + high > 0 /\ 18000 * low + high < 18000 * 65536 - 1
    BY <2>1
  <2>4. 18000 * low + high # 65536 * high + low
    BY <2>1
  <2> QED
    BY <2>1, <2>2, <2>3, <2>4 DEF Turning
<1>4. ASSUME NEW v \in Turning, NEW w \in Turning, Multiplied(18000, v) = Multiplied(18000, w)
      PROVE  v = w
  <2> DEFINE low(a) == a % 65536
             high(a) == a \div 65536
  <2>1. \A a \in {v, w} : /\ low(a) \in Nat /\ high(a) \in Nat /\ high(a) < 18000
                         /\ a = 65536 * high(a) + low(a)
    BY <1>2
  <2>2. 18000 * low(v) + high(v) = 18000 * low(w) + high(w)
    BY <1>4 DEF Multiplied
  <2> HIDE DEF low, high
  <2>3. low(v) = low(w)
    BY <2>1, <2>2
  <2> QED
    BY <2>1, <2>2, <2>3
<1>5. ASSUME NEW w \in Turning, NEW z \in Nat
      PROVE  place(w, z) = Multiplied(18000, w) % (8 * 1024)
  BY <1>3 DEF place, next, Multiplied, Turning
<1> QED
  BY <1>1, <1>3, <1>4, <1>5
=============================================================================
