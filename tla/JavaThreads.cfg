SPECIFICATION Spec
CONSTANTS
  m = m
  c1 = c1
  c2 = c2
  j1 = j1
  j2 = j2
  m2 = m2
  None = None
  Mains = {m, m2}
  Children = {c1, c2}
  Objects = {j1, j2}
  Starters = {m}
  Joiners = {m, m2}
INVARIANTS JoinWaits SamePermit NoLostUnpark HandleNotShared
PROPERTY InterruptKept
CHECK_DEADLOCK FALSE
