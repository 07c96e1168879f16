-------------------------- MODULE MCFontInstaller --------------------------
(* Instances of FontInstaller for TLC. *)
EXTENDS FontInstaller

CONSTANTS n, m, nA, nB, a, b, own

(* The names the agent makes are not users' names. *)
OwnNames == [p \in Name \X Content |->
               CASE p[2] = a -> IF p[1] = nA THEN m ELSE nA
                 [] OTHER    -> IF p[1] = nB THEN m ELSE nB]

SameName == {<<n, a>>, <<n, b>>}
OneName  == {<<n, b>>}
=============================================================================
