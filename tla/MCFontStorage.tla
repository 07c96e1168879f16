---------------------------- MODULE MCFontStorage ----------------------------
(* Instances of FontStorage for TLC. *)
EXTENDS FontStorage, TLC

CONSTANTS f1, f2, u1, d1, p1, e1

Fonts == Permutations({f1, f2} \cap Font)
=============================================================================
