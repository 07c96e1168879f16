----------------------------- MODULE MCFontSync -----------------------------
(* Instances of FontSync for TLC. *)
EXTENDS FontSync, TLC

CONSTANTS d1, f1, f2, listener, launchd

OneFace == [f \in Font |-> "face"]

(* Both processes run on the one device. *)
OneHost == [r \in Run |-> d1]

Varying == {{"auto_pull", "auto_push", "propagate_deletions"}, {"auto_push"}}
=============================================================================
