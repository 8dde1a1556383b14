SPECIFICATION FairSpec
CONSTANTS
  TransferKinds <- OneKind
  MaxTasks = 2
  MaxItems = 2
  MaxTokens = 2
INVARIANTS
  PromptsAreLive
  ReportsAreTrue
  NothingDestroyedUnasked
PROPERTIES
  TasksStartInTurn
  KeepsPromise
  EndsWhenTold
CHECK_DEADLOCK FALSE
