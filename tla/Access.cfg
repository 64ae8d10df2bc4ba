CONSTANTS
  w1 = w1
  w2 = w2
  u1 = u1
  u2 = u2
  Users = {u1, u2}
  Slugs = {"default", "blog"}
  Default = "default"
  Workers = {w1, w2}
  FirstApps = {"default", "blog"}
  Scenarios <- MCScenarios
  MaxRequests = 3
  MaxCrashes = 1
SPECIFICATION Spec
SYMMETRY Symmetry
INVARIANTS TypeOK AnAdministrator RolesAsAsked AccessAsAsked NothingInherited
CHECK_DEADLOCK FALSE
