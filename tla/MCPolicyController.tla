------------------------ MODULE MCPolicyController ------------------------
(***************************************************************************)
(* Instances of PolicyController for TLC: two labels, a selector for one   *)
(* of them, the nil selector that matches every pod, and an invalid one.   *)
(***************************************************************************)
EXTENDS PolicyController, TLC

MCLabels == {"app", "other"}
MCSelectors == {{"app"}, MCLabels}
Symmetry == Permutations(Pods) \cup Permutations(Policies)
============================================================================
