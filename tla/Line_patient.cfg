\* ENTER is pressed only for a read that waits.
CONSTANTS
  NumTerm = 2
  Chars = {a}
  MaxLen = 2
  MaxLines = 2
  TypeAhead = FALSE
SPECIFICATION LiveSpec
INVARIANTS
  OwnInput
  ConsumedOnce
PROPERTY QueueOfLines
