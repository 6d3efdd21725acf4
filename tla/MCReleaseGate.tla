---------------------------- MODULE MCReleaseGate ----------------------------
(* ReleaseGate for TLC: nothing tells two artifacts, contents or resources  *)
(* apart.                                                                   *)
EXTENDS ReleaseGate, TLC

Symmetry == Permutations(Artifacts) \cup Permutations(Versions) \cup Permutations(Resources)
=============================================================================
