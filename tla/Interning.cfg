SPECIFICATION Spec
CONSTANTS
  t1 = t1
  t2 = t2
  t3 = t3
  a = a
  b = b
  Null = Null
  Threads = {t1, t2, t3}
  Strings = {a, b}
  ClassStrings = {a}
  MaxSlots = 4
INVARIANTS
  PoolOfOwnValue
  NativeInternedOnce
CHECK_DEADLOCK FALSE
