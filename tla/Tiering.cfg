SPECIFICATION Spec
CONSTANTS
  Methods = {m, n}
  Guarded = {n}
  Compilable = {m, n}
  MaxDepth = 3
  MaxVersions = 2
INVARIANTS HelpersFindVm PendingIsOwn MetadataOfEntry
PROPERTY GivenUpForGood
