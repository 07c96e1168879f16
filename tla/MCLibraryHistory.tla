-------------------------- MODULE MCLibraryHistory --------------------------
(* Instances of LibraryHistory for TLC. *)
EXTENDS LibraryHistory, TLC

CONSTANTS d1, d2, f1, f2, f3

OneFace == [f \in Font |-> "face"]

(* The files the server refuses only lengthen the declarations. *)
Symmetry == Permutations(Device) \cup Permutations(Font \ Valid)
=============================================================================
