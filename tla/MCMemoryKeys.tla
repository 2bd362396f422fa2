---------------------------- MODULE MCMemoryKeys ----------------------------
(* Three key objects over two identifiers of the device; lengths that      *)
(* reach the end of the address space and do not fit 32 or 16 bits.        *)
EXTENDS MemoryKeys, TLC

MCRegions == {<<0, 1>>, <<1, 0>>, <<1, 2>>, <<2, 1>>, <<2, 7>>}
MCUnchecked == {<<0, 0>>, <<1, 6>>}
MCBlock == {[stride |-> 2, len |-> 3]}
MCSymmetry == Permutations(Key) \cup Permutations(Id)
=============================================================================
