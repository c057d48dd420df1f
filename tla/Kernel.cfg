CONSTANTS
  N = 3
  None = none
  NoCall = nocall
  Memories <- McMemories
  Drive = {0, 1}
  SectorSize = 2
  Capacity = 4
  Value = {0, 1}
  Calls <- McCalls
  Images = {5, 7, 9, 16}
  Counts = 16
  Places = 8
  Usable = 6
  Loaded = 2
  Reports <- McReports
SPECIFICATION McSpec
INVARIANTS
  NothingUsedTooEarly
  TicksAreHandled
  MainRunsLast
PROPERTIES
  KernelArrives
  ImplementsDisk
  EveryCallReturns
CHECK_DEADLOCK FALSE
