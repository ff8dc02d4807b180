-------------------------- MODULE MCLineDiscipline --------------------------
(* LineDiscipline for TLC: two terminals, two characters, lines of up to    *)
(* two characters, so that a longer line can be overwritten by a shorter one. *)
EXTENDS LineDiscipline

\* The characters differ in nothing the properties see.
Symmetry == Permutations(Chars)
=============================================================================
