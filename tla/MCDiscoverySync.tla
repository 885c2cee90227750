-------------------------- MODULE MCDiscoverySync --------------------------
(***************************************************************************)
(* Instances of DiscoverySync for TLC.                                     *)
(***************************************************************************)
EXTENDS DiscoverySync, TLC

ServerSymmetry == Permutations(Workflow) \cup Permutations(Policy)
============================================================================
