SPECIFICATION PartsSpec
CONSTANTS
  Base = "config"
  Profiles <- TwoProfiles
  NoFile = "none"
  Directory = "dir"
  Above = "above"
  MaxChanges = 3
  Paths = {"a", "b", "c", "d"}
  Names = {"x", "y"}
  NoName = "no name"
  NoPath = "no path"
  Capacity = 3
  MaxCount = 2
  Entries = {"d", "e"}
  Folders = {"d"}
  Directories = {"home", "work"}
  Offers <- SomeOffers
  NotLocal <- Http
  View = 1
  Blocks = {"finder"}
  MaxDrops = 1
  Services = {"a", "b"}
  Nothing <- NoFacts
  Facts <- SomeFacts
  Values <- SomeValues
  MaxMeasures = 3
  NoService = "none"
INVARIANTS
  NothingMissed
PROPERTIES
  KeepsHistory
  DropsAreMeant
  CardIsCurrent
CHECK_DEADLOCK FALSE
