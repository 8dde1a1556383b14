SPECIFICATION TrashSpec
CONSTANTS
  p1 = p1
  p2 = p2
  a1 = a1
  a2 = a2
  c1 = c1
  Processes <- SomeProcesses
  Paths <- SomePaths
  Items <- SomeItems
  PathOf <- SomePathOf
  BaseName <- SomeBaseName
  HomePaths <- SomeHomePaths
  HomeTrash = "Trash"
  TopTrashes <- SomeTopTrashes
  MaxAttempts = 2
  None = None
SYMMETRY ProcessSymmetry
INVARIANTS
  InfosMatch
PROPERTIES
  NothingLost
CHECK_DEADLOCK FALSE
