------------------------- MODULE MCArtifactStorage --------------------------
(* An instance of ArtifactStorage for TLC: one Reference Set that retains  *)
(* another, and two pins that contend for the Journal's quota and for the  *)
(* next place in the Chronicle.                                            *)
EXTENDS ArtifactStorage, TLC

CONSTANTS r1, r2, p1, p2

MCClass == {"JOURNAL", "CONTROL_RECORD"}
MCLimit == [JOURNAL |-> 3, CONTROL_RECORD |-> 1]
MCClaim == {[JOURNAL |-> 2, CONTROL_RECORD |-> 1], [JOURNAL |-> 1, CONTROL_RECORD |-> 0]}
MCEdges == r1 :> {r2} @@ r2 :> {}
MCEventType == {"patch.proposed", "analysis.sealed"}
MCPinType == p1 :> "patch.proposed" @@ p2 :> "analysis.sealed"
MCPinRoots == p1 :> {r1} @@ p2 :> {r2}
=============================================================================
