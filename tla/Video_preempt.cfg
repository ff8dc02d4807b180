\* The PIT interrupts the keyboard handler; programs use vidmap.
CONSTANTS
  NumTerm = 2
  Preempt = TRUE
  Direct = {0, 1}
SPECIFICATION Spec
INVARIANTS
  OutputConfined
  MappedHome
  WindowFollows
