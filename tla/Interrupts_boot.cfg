\* From boot on; an exception stops the system for good.
CONSTANTS
  NumTerms = 2
  MaxDepth = 2
SPECIFICATION Spec
INVARIANTS
  NothingTooEarly
  OneHandlerEach
PROPERTIES
  HandlersEnd
  KeysServed
  TerminalsRun
CHECK_DEADLOCK FALSE
