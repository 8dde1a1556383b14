SPECIFICATION Spec
CONSTANTS
  Names <- TwoNames
  Queries <- SomeQueries
  Match <- SomeMatch
  None = 0
  Placeholder = 99
  Modes = {"visual", "insert", "search"}
INVARIANTS
  EditorStays
PROPERTIES
  EditedOrKept
  SearchIsTrue
  SpanKept
