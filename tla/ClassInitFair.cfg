SPECIFICATION FairSpec
CONSTANTS
  t1 = t1
  t2 = t2
  a = a
  b = b
  d = d
  None = None
  Threads = {t1, t2}
  Loaders = {t1, t2}
  Classes = {a, d}
  Origin <- SharedOrigin
  Uses <- SharedUses
  MaxFails = 1
PROPERTY RequestsAnswered
CHECK_DEADLOCK FALSE
