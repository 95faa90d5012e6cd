SPECIFICATION Spec
CONSTANTS
  Threads = {t1, t2, t3}
  Objects = {o1, o2}
  NoThread = NoThread
  MaxDepth = 2
SYMMETRY Symmetry
INVARIANTS
  TypeOK
  Ownership
  NoLostWakeup
  WaitersCounted
  EntryKept
PROPERTY ImplementsJavaMonitor
CHECK_DEADLOCK FALSE
