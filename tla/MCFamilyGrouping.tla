-------------------------- MODULE MCFamilyGrouping --------------------------
(* Instances of FamilyGrouping for TLC. *)
EXTENDS FamilyGrouping, TLC

CONSTANTS f1, f2, s1, s2

OneName == [f \in Font |-> s1]
Ids == Permutations(Family) \cup Permutations(Request)
=============================================================================
