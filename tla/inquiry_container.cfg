SPECIFICATION Spec
INVARIANTS
  MissingBlobIsNoError
