-------------------------- MODULE MCDuplicateFaces --------------------------
(* Instances of DuplicateFaces for TLC. *)
EXTENDS DuplicateFaces, TLC

CONSTANTS k, l

Symmetric == Permutations(Face)
=============================================================================
