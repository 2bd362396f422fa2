---------------------------- MODULE MCFlowTables ----------------------------
(* The tables other than the root are interchangeable: they differ only by *)
(* what a behaviour does with them.                                        *)
EXTENDS FlowTables, TLC

Symmetry == Permutations(Table \ {Root})
=============================================================================
