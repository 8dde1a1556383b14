SPECIFICATION FairSpec
CONSTANTS
  Processes <- TwoProcesses
  Paths <- SomePaths
  LocalPaths <- SomeLocalPaths
  HomePath = "home"
  None = "none"
  Workers <- SomeWorkers
  Listing = "listing"
  Again <- OutsideWorkers
  MaxSessions = 2
  MaxOpens = 1
INVARIANTS
  StateIsLastSession
  QuitsAfterWorkers
PROPERTIES
  Closes
CHECK_DEADLOCK FALSE
