\* The PIT interrupts the keyboard handler.
CONSTANTS
  NumTerm = 2
  Preempt = TRUE
  Direct = {}
SPECIFICATION Spec
INVARIANT EchoConfined
