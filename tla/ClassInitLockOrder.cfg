SPECIFICATION FairSpec
CONSTANTS
  t1 = t1
  t2 = t2
  a = a
  b = b
  d = d
  None = None
  Threads = {t1, t2}
  Loaders = {t1}
  Classes = {a, b}
  Origin <- PairOrigin
  Uses <- PairUses
  MaxFails = 0
PROPERTY RequestsAnswered
CHECK_DEADLOCK FALSE
