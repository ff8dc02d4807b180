CONSTANTS
  NumTerm = 2
  NumPids = 3
  Programs = {sh, prog}
  Shell = sh
  Statuses = {0}
  Fault = 0
  Overlap = {"halt"}
SPECIFICATION Spec
INVARIANT NeverWild
