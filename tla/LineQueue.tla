----------------------------- MODULE LineQueue -----------------------------
(***************************************************************************)
(* What the terminal driver promises a program that reads its keyboard:    *)
(* each terminal is a queue of lines.  A line that was entered is answered *)
(* to one read, whole, with its length and its newline counted, in the     *)
(* order of entry, and a read that has a line to wait for no longer gets   *)
(* it.  Terminals do not affect each other.                                *)
(***************************************************************************)
EXTENDS Integers, Sequences

CONSTANTS
  Terminals,
  Lines       \* what a user may enter

VARIABLES
  entered,    \* lines entered on each terminal
  answered,   \* lines and lengths its reads returned
  reading     \* whether its process waits in read

vars == <<entered, answered, reading>>

Init ==
  /\ entered = [t \in Terminals |-> <<>>]
  /\ answered = [t \in Terminals |-> <<>>]
  /\ reading = [t \in Terminals |-> FALSE]

Enter(t) ==
  /\ \E l \in Lines : entered' = [entered EXCEPT ![t] = Append(@, l)]
  /\ UNCHANGED <<answered, reading>>

Ask(t) ==
  /\ ~reading[t]
  /\ reading' = [reading EXCEPT ![t] = TRUE]
  /\ UNCHANGED <<entered, answered>>

\* The first line that no read has returned.
NextLine(t) == entered[t][Len(answered[t]) + 1]

Answer(t) ==
  /\ reading[t]
  /\ Len(answered[t]) < Len(entered[t])
  /\ answered' = [answered EXCEPT ![t] = Append(@, <<NextLine(t), Len(NextLine(t)) + 1>>)]
  /\ reading' = [reading EXCEPT ![t] = FALSE]
  /\ UNCHANGED entered

Next == \E t \in Terminals : Enter(t) \/ Ask(t) \/ Answer(t)

\* What may happen, and that a read with a line to return gets it.
Safety == Init /\ [][Next]_vars

Spec == Safety /\ \A t \in Terminals : WF_vars(Answer(t))
=============================================================================
