CONSTANTS
  c1 = c1
  c2 = c2
  u1 = u1
  u2 = u2
  s1 = s1
  Reaper = reaper
  None = none
  Sem = {s1}
  User = {u1, u2}
  InitCount <- NoCount
  MaxCount = 1
  Core = {c1, c2}
SPECIFICATION BootedSpec
SYMMETRY Symmetric
INVARIANTS
  NoZombieDropped
