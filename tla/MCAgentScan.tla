---------------------------- MODULE MCAgentScan ----------------------------
(* Instances of AgentScan for TLC. *)
EXTENDS AgentScan, TLC

CONSTANTS a, b, r1, r2

(* a and dotted in ~/Library/Fonts, off in disabled/, shared in            *)
(* /Library/Fonts; ignore_patterns leaves dotted out.                      *)
Paths == {"a", "off", "shared", "dotted"}
Where == [p \in Path |-> CASE p = "off" -> "disabled"
                           [] p = "shared" -> "elsewhere"
                           [] OTHER -> "fonts"]
Dotted == {"dotted"}
Symmetric == Permutations(Content) \cup Permutations(Run)
=============================================================================
