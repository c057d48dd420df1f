CONSTANTS
  p1 = p1
  p2 = p2
  g1 = g1
  g2 = g2
  x = x
  y = y
  t1 = t1
  t2 = t2
  t3 = t3
  t4 = t4
  Guest = {t1, t2, t3, t4}
  Setter = t1
  Unset = unset
  Value = value
  Thread = {p1, p2, g1, g2}
  Producer = {p1, p2}
  Consumer = {g1, g2}
  Sem = {"nEmpty", "nFull", "lock"}
  Item = {x, y}
  Junk = junk
  N = 2
  Width = 8
  MaxLen = 100
  Stopped = 1
SPECIFICATION SyncSpec
CHECK_DEADLOCK FALSE
INVARIANTS
  RingExclusive
  NobodyPassesEarly
  LinesWhole
PROPERTIES
  ImplementsChannel
  EverybodyGetsThrough
