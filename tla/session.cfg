SPECIFICATION Spec
CONSTANTS
  DataRegions = {r1, r2, r3}
  Footer = footer
  None = none
  Mine = mine
  OfBase = ofBase
  Other = other
  Threads = 4
  VhdSpace <- AllVhds
  OptionSpace <- SomeOptions
  InitialBlobs <- AnyBlob
SYMMETRY Symmetry
INVARIANTS
  SuccessMeansNothingMissing
  FooterVouches
  SuccessMeansRightContent
  SuccessMeansRightMd5
PROPERTIES
  NothingIsLost
