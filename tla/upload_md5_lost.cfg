SPECIFICATION Spec
CONSTANTS
  IndexCount = 2
  Threads = 2
  OptionSpace <- WithoutTelemetry
INVARIANTS
  SuccessMeansMd5
