CONSTANTS
  w1 = w1
  w2 = w2
  e1 = e1
  e2 = e2
  a = a
  b = b
  k1 = k1
  h1 = h1
  h2 = h2
  None = None
  Torn = Torn
  NoKey = NoKey
  Workers = {w1, w2}
  Ids = {e1, e2}
  Bodies = {a, b}
  Keys = {k1}
  Hashes = {h1, h2}
  KeyOf <- MCKeyOf
  Complete <- MCComplete
  UploadsOf <- MCUploadsOf
  InitialDocs <- MCOneInitialDoc
  Ops <- AllOps
  MaxVersions = 1
  MaxClock = 1
  MaxRequests = 2
  MaxCrashes = 1
SPECIFICATION Spec
SYMMETRY Symmetry
PROPERTY ImplementsEntryStore
INVARIANTS
  TypeOK
  ReferencesTrackContent
  KeysUnique
CHECK_DEADLOCK FALSE
