------------------------------ MODULE MCScreen ------------------------------
(* ScreenSteps for TLC: three rows of two columns, so that a typed line may *)
(* span rows and scroll, and be taken back over both.                       *)
EXTENDS ScreenSteps
=============================================================================
