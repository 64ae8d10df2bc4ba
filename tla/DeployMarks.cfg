CONSTANTS
  m1 = m1
  m2 = m2
  t1 = t1
  t2 = t2
  t3 = t3
  r1 = r1
  a1 = a1
  a2 = a2
  None = None
  Never = Never
  Mutations = {m1, m2}
  Configs = {c1}
  Tasks = {t1, t2}
  Clients = {k1}
  Retries = {r1}
  Admins = {a1}
  MaxRequests = 1
  MaxManual = 1
  MaxCrashes = 0
SPECIFICATION Spec
SYMMETRY Symmetry
INVARIANTS
  TaskPerDeployment
  TypeOK
  MarkCoversDeployed
CHECK_DEADLOCK FALSE
