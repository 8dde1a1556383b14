SPECIFICATION ListingSpec
CONSTANTS
  p = p
  q = q
  a = a
  b = b
  Paths <- OnePath
  LocalPaths <- NoPaths
  Names <- TwoNames
  NoPath = NoPath
  NoName = NoName
  Versions <- TwoVersions
  MaxWalks = 3
  MaxChanges = 1
SYMMETRY NameSymmetry
CONSTRAINT Explored
INVARIANTS
  RowsMatchIdentities
  SettledListingIsCurrent
PROPERTIES
  RowsHoldStillUnderEditor
CHECK_DEADLOCK FALSE
