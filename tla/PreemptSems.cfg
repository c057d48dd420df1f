CONSTANTS
  None = none
  Core = {c1, c2}
  User = {u1, u2, u3}
  Sem = {s1}
  MaxCount = 1
SPECIFICATION SpecSems
CHECK_DEADLOCK FALSE
INVARIANT ActiveIsCurrent
