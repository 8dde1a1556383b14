SPECIFICATION CommandsSpec
CONSTANTS
  Names <- ThreeNames
  Folders <- OneFolder
  Hidden <- OneHidden
  Placeholder = 99
  None = 0
  Keys <- AllKeys
  Timeout = 2
INVARIANTS
  PlaceholderFits
PROPERTIES
  RowsStay
  KeysAreMeant
