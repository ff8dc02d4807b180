---------------------------- MODULE MCProcesses ----------------------------
(* Processes for TLC: two terminals, so that one can overtake the other,   *)
(* and two slots beyond the base shells, so that a program can be nested   *)
(* in a program and the table can fill up.                                 *)
EXTENDS Processes
=============================================================================
