CONSTANTS
  w1 = w1
  w2 = w2
  Hashes = {h1}
  Entries = {e1}
  Workers = {w1, w2}
  NoDoc = NoDoc
  None = None
  MaxRequests = 6
  MaxCrashes = 1
SPECIFICATION Spec
SYMMETRY Symmetry
INVARIANTS
  TypeOK
  ReferencedIsKept
  ServedAsStored
  ImportRestores
CHECK_DEADLOCK FALSE
