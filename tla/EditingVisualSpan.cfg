SPECIFICATION Spec
CONSTANTS
  Names <- ThreeNames
  Queries <- NoQueries
  Match <- NoMatch
  None = 0
  Placeholder = 99
  Modes = {"visual"}
INVARIANTS
  VisualSpansToCursor
