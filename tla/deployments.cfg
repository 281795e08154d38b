SPECIFICATION Spec
CONSTANTS
  c1 = c1
  c2 = c2
  c3 = c3
  Commands = {c1, c2, c3}
  KindsOf <- ThreeCommands
  Names = {1, 2}
INVARIANTS
  StopMissesNothing
  WaitsToTheEnd
PROPERTIES
  EveryCommandEnds
