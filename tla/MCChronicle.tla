---------------------------- MODULE MCChronicle ----------------------------
(* Instances of Chronicle for TLC.                                         *)
EXTENDS Chronicle, TLC

Symmetry == Permutations(Process)
=============================================================================
