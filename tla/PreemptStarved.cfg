CONSTANTS
  None = none
  Core = {c1}
  User = {u1, u2}
SPECIFICATION FairSpec
CHECK_DEADLOCK FALSE
PROPERTY EveryThreadRuns
