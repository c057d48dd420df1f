CONSTANTS
  ArrayLen = 28
  Words = 22
  CountDown = 2
  Bytes = {1, 12, 21}
  Caller = {k1, k2}
VIEW HeapView
SYMMETRY Symmetric
SPECIFICATION HeapsSpec
INVARIANTS
  BlocksAndLists
PROPERTIES
  PayloadKept
  ImplementsAllocator
  CallsAreOneStep
