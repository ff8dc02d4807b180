---------------------------- MODULE ProcessTree ----------------------------
(***************************************************************************)
(* What execute and halt promise: on each terminal runs one process, with  *)
(* a chain of callers that wait for it down to the terminal's base shell.  *)
(* execute puts a program on top of the chain, in a slot nobody has; halt  *)
(* takes it off and goes on with its caller, which finds its own program   *)
(* as it left it.                                                          *)
(***************************************************************************)
EXTENDS Integers

CONSTANTS
  Terminals,
  Slots,
  Programs,
  Shell,
  None       \* no slot, no caller

Process == [caller : Slots \cup {None}, prog : Programs]
Free    == [caller |-> None, prog |-> "free"]

VARIABLES
  top,       \* the process each terminal runs, None before its shell started
  proc       \* the process in each slot, or Free

vars == <<top, proc>>

Init ==
  /\ top = [t \in Terminals |-> None]
  /\ proc = [p \in Slots |-> Free]

Start(t, p, caller, prog) ==
  /\ proc[p] = Free
  /\ proc' = [proc EXCEPT ![p] = [caller |-> caller, prog |-> prog]]
  /\ top' = [top EXCEPT ![t] = p]

Boot(t) == top[t] = None /\ \E p \in Slots : Start(t, p, None, Shell)

Run(t) ==
  /\ top[t] # None
  /\ \E p \in Slots, prog \in Programs : Start(t, p, top[t], prog)

\* A base shell has no caller: it never goes.
Exit(t) ==
  /\ top[t] # None
  /\ proc[top[t]].caller # None
  /\ top' = [top EXCEPT ![t] = proc[top[t]].caller]
  /\ proc' = [proc EXCEPT ![top[t]] = Free]

\* Every step changes the process of one terminal.
Next == \E t \in Terminals : top'[t] # top[t] /\ (Boot(t) \/ Run(t) \/ Exit(t))

Spec == Init /\ [][Next]_vars
=============================================================================
