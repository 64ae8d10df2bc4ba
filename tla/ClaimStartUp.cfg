CONSTANTS
  OldUsers = {u1, u2}
  NewUsers = {n1}
  Files = {f1, f2}
  NoDir = NoDir
  NoTable = NoTable
  Nobody = Nobody
  MaxStops = 2
SPECIFICATION Spec
INVARIANT GrantsIdempotent
