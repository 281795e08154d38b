SPECIFICATION Spec
CONSTANTS
  BlockCount = 3
  Threads = 2
INVARIANTS
  CleanedUp
