SPECIFICATION Spec
CONSTANTS
  Accessor = {t, u}
  Datum <- MCDatum
  IntBits = 2
  LongBits = 2
  IoThread = {t, u}
  Stream = {a, b, c}
  MaxFiles = 3
  MaxEntries = 2
  Classes = {"A", "B", "C"}
  Interfaces = {"I", "J"}
  Root = "A"
  Shapes <- MCShapes
SYMMETRY Symmetry
INVARIANTS OwnFile LengthsAgree DispatchAgrees
PROPERTY ImplementsCells
CHECK_DEADLOCK FALSE
