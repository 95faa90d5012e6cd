SPECIFICATION Spec
CONSTANTS
  t1 = t1
  t2 = t2
  a = a
  b = b
  d = d
  None = None
  Threads = {t1, t2}
  Loaders = {t1}
  Classes = {a, b, d}
  Origin <- LoadOrigin
  Uses <- LoadUses
  MaxFails = 1
INVARIANTS OneInitializer UsableIsInitialized DescribedWhenVisible
PROPERTY InitializedForGood
CHECK_DEADLOCK FALSE
