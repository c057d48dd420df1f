CONSTANTS
  b1 = b1
  b2 = b2
  b3 = b3
  b4 = b4
  b5 = b5
  b6 = b6
  d1 = d1
  d2 = d2
  Block = {b1, b2, b3, b4, b5, b6}
  zero = zero
  i1 = i1
  i2 = i2
  Inum = {zero, i1, i2}
  Root = zero
  Zero = zero
  Magic = magic
  Length = i1
  AsLength <- Lengths
  Name = {n1}
  Data = {d1, d2}
  Order <- Orders
  Stale = stale
  BlockWords = 2
  MaxWords = 6
  Buffers <- SomeBuffers
  MaxLinks = 1
  MaxCrashes = 0
  Holes = TRUE
SPECIFICATION Spec
CHECK_DEADLOCK FALSE
INVARIANT SuperblockKept
