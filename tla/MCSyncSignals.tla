--------------------------- MODULE MCSyncSignals ---------------------------
(* Instances of SyncSignals for TLC. *)
EXTENDS SyncSignals, TLC

CONSTANTS d1, d2, c1, c2, c3

Symmetry == Permutations(Conn)
=============================================================================
