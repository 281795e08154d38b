SPECIFICATION Preparation
CONSTANTS
  BlockCount = 4
  Threads = 2
INVARIANTS
  InfoIsComplete
  ForcedCreationFindsContainer
  OneRegionLeftAtMost
  UploadedRegionsAreExact
  NotReadyAfterFailure
PROPERTIES
  PreparationEnds
