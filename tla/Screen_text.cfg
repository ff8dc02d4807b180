\* Every text of up to six characters with every backspace.
CONSTANTS
  Rows = 3
  Cols = 2
  Chars = {a}
  MaxLen = 3
  MaxLog = 6
  Preempt = FALSE
SPECIFICATION StepsSpec
INVARIANTS
  TypeOK
  ShowsText
  CallsAddUp
  CursorReturns
  StoresNear
PROPERTY ErasesTyped
