SPECIFICATION FairSpec
CONSTANTS
  Paths <- TwoPaths
  NoPath = "none"
  HomePath = "home"
  Parent <- TwoParents
  NameOf <- TwoNamesOf
  Names <- EmptyDirectories
  NoName = 0
  Capacity = 2
  MaxCount = 1
  Home = "home row"
  Standard = {}
  Bookmarks <- OneBookmark
  PathOf <- OnePath
  Startups = {"resolved", "candidate"}
  MaxRechecks = 2
  MaxNavigations = 2
INVARIANTS
  NewestDecides
PROPERTIES
  BookmarkOpensAsAsked
  StartupSettles
