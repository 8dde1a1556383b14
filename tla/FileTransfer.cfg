SPECIFICATION Spec
CONSTANTS
  Nodes <- TreeNodes
  Root = "top"
  Parent <- TreeParent
  Own = "own"
  New = "new"
  Foreign = "foreign"
  MaxSourceChanges = 1
  MaxDestChanges = 1
INVARIANTS
  OnlyChangesLost
  SourceRetained
  ResultIsTrue
  TemporariesGo
PROPERTIES
  ForeignEntriesStay
CHECK_DEADLOCK FALSE
