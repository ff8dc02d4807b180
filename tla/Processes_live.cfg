CONSTANTS
  NumTerm = 2
  NumPids = 3
  Programs = {sh, prog}
  Shell = sh
  Statuses = {0, 1}
  Fault = 0
  Overlap = {}
SPECIFICATION LiveSpec
PROPERTIES
  CallsComplete
  StatusInParent
