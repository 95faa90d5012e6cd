SPECIFICATION Spec
CONSTANTS
  Fields = {f1}
  Null = Null
  None = None
  TlabSize = 1
  MaxSlots = 7
  MaxAllocs = 4
  MaxRoots = 2
INVARIANTS
  TypeOK
  NoDangling
  TlabFree
  Accounting
  BoundariesOrdered
PROPERTIES
  GcKeepsReachable
  MajorCollectsAll
CHECK_DEADLOCK FALSE
