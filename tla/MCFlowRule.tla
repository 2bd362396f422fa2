---------------------------- MODULE MCFlowRule ----------------------------
(***************************************************************************)
(* FlowRule for TLC.  The rules are alike and so are the device's flows,   *)
(* and nothing checked with this module is a liveness property, so states  *)
(* that differ by a permutation of either need be explored only once.      *)
(***************************************************************************)
EXTENDS FlowRule, TLC

Symmetry == Permutations(Rule) \cup Permutations(Flow)
============================================================================
