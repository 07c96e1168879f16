---------------------------- MODULE MCFontLibrary ----------------------------
(* Instances of FontLibrary for TLC. *)
EXTENDS FontLibrary, TLC

CONSTANTS d1, d2, d3, f1, f2, f3

OneFace == [f \in Font |-> "face"]

Symmetry == Permutations(Device) \cup Permutations(Valid)

(* Two fonts with one device, or several devices with one font.            *)
FontsOrDevices == Cardinality(db.rows) <= 1 \/ Cardinality(db.devices) <= 1
=============================================================================
