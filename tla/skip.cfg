SPECIFICATION Spec
CONSTANTS
  Largest = 5
  Bound = 5
  MaxFileSize = 5
  Ranges <- AllRanges
  NonZeroBlockSize = 4
  UploadBlockSizes = {2, 4}
INVARIANTS
  WellFormed
  SkippedRightly
PROPERTIES
  ImplementsIntegerSet
