SPECIFICATION Spec
CONSTANTS
  Paths <- SomePaths
  NoPath = "none"
  HomePath = "home"
  Parent <- SomeParents
  NameOf <- SomeNamesOf
  Names <- SomeNames
  NoName = 0
  Capacity = 3
  MaxCount = 1
  Home = "home row"
  Standard = {}
  Bookmarks <- NoBookmarks
  PathOf <- NoPaths
  Startups = {"resolved"}
  MaxRechecks = 0
  MaxNavigations = 3
INVARIANTS
  EntriesAreTrue
PROPERTIES
  CursorKept
  RestoreFindsTheEntry
  NamesTrusted
  QuickLookPinned
