------------------------------ MODULE MCVideo ------------------------------
(* Video for TLC: two terminals are enough for a visible and a hidden one,  *)
(* with the thread the keyboard handler is nested on being either.          *)
EXTENDS Video
=============================================================================
