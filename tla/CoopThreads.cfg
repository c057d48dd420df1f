CONSTANTS
  Core = {c1, c2}
  User = {u1, u2, u3}
  None = none
SPECIFICATION Spec
CHECK_DEADLOCK FALSE
INVARIANT DeletedAfterSwitch
