---------------------------- MODULE MCReassembly ----------------------------
(* TLC instances of Reassembly: the devices are interchangeable.           *)
EXTENDS Reassembly, TLC

DevSymmetry == Permutations(Dev)
=============================================================================
