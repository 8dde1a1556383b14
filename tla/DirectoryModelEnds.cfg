SPECIFICATION EndsSpec
CONSTANTS
  p = p
  q = q
  a = a
  b = b
  Paths <- TwoPaths
  LocalPaths <- OnePath
  Names <- TwoNames
  NoPath = NoPath
  NoName = NoName
  Versions <- OneVersion
  MaxWalks = 2
  MaxChanges = 1
INVARIANTS
  ClosedWithLastLocation
PROPERTIES
  WalksEnd
CHECK_DEADLOCK FALSE
