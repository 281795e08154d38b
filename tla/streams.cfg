SPECIFICATION StreamsSpec
CONSTANTS
  SectorSize = 2
  StartBit = 1
  Bits = 4
  MaxLength = 5
  MaskSpace <- AllMasks
  Depth = 3
  BlockCount = 2
  SectorsPerBlock = 2
  UploadsPerBlock = 2
  HeaderSectors = 4
  ChainSpace <- AllRoots
  CurrentSizes <- WholeBlocks
INVARIANTS
  OutputIsMerge
  NothingHeldBack
  EndMeansComplete
  OutputIsContent
  AllDataIsSent
PROPERTIES
  NothingAfterTheEnd
  MergeEnds
