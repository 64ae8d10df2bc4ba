CONSTANTS
  w1 = w1
  w2 = w2
  p = p
  q = q
  a = a
  b = b
  s1 = s1
  s2 = s2
  Entries = {p}
  Bodies = {a, b}
  RefTo <- MCRefTo
  Schemas = {s1}
  Workers = {w1, w2}
  NoDoc = NoDoc
  None = None
  Absent = Absent
  Torn = Torn
  Empty = Empty
  MaxRequests = 2
  MaxEdits = 1
SPECIFICATION FairSpec
INVARIANTS
  TypeOK
  TagsFollowDocs
  CacheAgrees
PROPERTY OpenApiFollows
CHECK_DEADLOCK FALSE
