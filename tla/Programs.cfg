CONSTANTS
  N = 3
  MaxDepth = 2
  Workers = 2
  Cores = 3
  Rounds = 2
  Slots = 2
  Words = 22
  Small = {1}
  Large = 16
  Expected = 16
  Others = 9
  Many = 4
SPECIFICATION ProgramsSpec
CHECK_DEADLOCK FALSE
INVARIANTS
  MutualExclusion
  StacksExclusive
  PrintsWhatIsExpected
PROPERTY EverybodyGetsThrough
