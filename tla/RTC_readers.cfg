\* Two processes read the clock.
CONSTANTS
  NumProcs = 3
  Readers = {1, 2}
  Writers = {}
  Requests <- EdgeRequests
SPECIFICATION LiveSpec
PROPERTY ReadsReturn
