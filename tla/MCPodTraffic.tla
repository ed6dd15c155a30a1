---------------------------- MODULE MCPodTraffic ----------------------------
(***************************************************************************)
(* Instances of PodTraffic for TLC: two injected pods and one without.     *)
(***************************************************************************)
EXTENDS PodTraffic, TLC

Symmetry == Permutations(Calls)
============================================================================
