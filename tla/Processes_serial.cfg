CONSTANTS
  NumTerm = 2
  NumPids = 4
  Programs = {sh, prog}
  Shell = sh
  Statuses = {0}
  Fault = 0
  Overlap = {}
SPECIFICATION Spec
INVARIANTS
  UserAgreement
  NeverWild
  BaseSlotsKept
  NoSlotLeaked
PROPERTY CallsNest
