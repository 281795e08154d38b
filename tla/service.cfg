SPECIFICATION Spec
CONSTANTS
  c1 = c1
  c2 = c2
  c3 = c3
  Commands = {c1, c2, c3}
  KindsOf <- ThreeCommands
  EndpointNames = {"e1", "e2"}
  ChangeSpace <- SomeChanges
  Luns = {0}
  InitialNames = {2}
INVARIANTS
  AloneIsExact
  NothingTemporaryLeft
  UniqueEndpoints
PROPERTIES
  VmsGoByDeletion
  EveryCommandEnds
