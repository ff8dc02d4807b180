\* One process opens and sets the clock.
CONSTANTS
  NumProcs = 1
  Readers = {}
  Writers = {0}
  Requests <- EdgeRequests
SPECIFICATION Spec
INVARIANT FrequencyAsAsked
