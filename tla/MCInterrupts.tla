---------------------------- MODULE MCInterrupts ----------------------------
(* Interrupts for TLC: with two terminals a shell is started from the boot   *)
(* thread and from the other shell's, and two handlers may nest.             *)
EXTENDS Interrupts
=============================================================================
