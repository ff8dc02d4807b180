\* One process reads and sets the clock, another sets it as well.
CONSTANTS
  NumProcs = 2
  Readers = {0}
  Writers = {0, 1}
  Requests <- EdgeRequests
SPECIFICATION LiveSpec
INVARIANTS
  NeverMuted
  WritesReturn
  RateAsWritten
PROPERTY ReadsReturn
