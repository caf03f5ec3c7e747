--------------------------- MODULE MCSealPreview ---------------------------
(* Instances of SealPreview for TLC.                                       *)
EXTENDS SealPreview, TLC

Symmetry == Permutations(Session) \cup Permutations(Key)
=============================================================================
