SPECIFICATION Spec
CONSTANTS
  IndexCount = 4
  Threads = 2
  OptionSpace <- AllOptions
INVARIANTS
  SuccessMeansUploaded
  EveryIndexAccountedFor
  GivenUpIsQuiet
  GivenUpAfterManyErrors
  AlreadyExistedIsAccurate
  CalledBackOnce
PROPERTIES
  ImplementsTransfer
