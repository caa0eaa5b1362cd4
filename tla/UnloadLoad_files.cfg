SPECIFICATION FileSpec
CONSTANTS
  Modes <- MCModes
  Tables <- MCTables
  Texts <- MCTexts
  QueryLimits = {0, 1}
  MaxRows = 2
  Alphabet <- MCAlphabet
  MaxTyped = 6
  BufferSize = 3
CHECK_DEADLOCK FALSE
INVARIANTS RoundTrip RecordIsWhole CountChecked CellsKept
