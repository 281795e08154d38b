SPECIFICATION Spec
CONSTANTS
  p1 = p1
  p2 = p2
  t1 = t1
  t2 = t2
  t3 = t3
  u1 = u1
  u2 = u2
  s1 = s1
  s2 = s2
  Users = {u1, u2}
  ServicePrincipals = {s1, s2}
  Processes = {p1, p2}
  Tasks = {t1, t2, t3}
  ProcessOf <- TwoProcesses
  Storages = {"file", "vault"}
  Parallel = FALSE
  MaxBytes = 3
  LengthOf <- Lengths
INVARIANTS
  NoDuplicates
  AloneIsExact
PROPERTIES
  VaultKeepsOthers
