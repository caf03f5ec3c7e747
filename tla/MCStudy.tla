------------------------------ MODULE MCStudy ------------------------------
(* Instances of Study for TLC.                                             *)
EXTENDS Study, TLC

CONSTANTS p1, p2, pt1, pt2, h1, e1

HomeP1 == [h \in Hypothesis |-> p1]

(* The confirmatory study compares e1 and takes both Runs as its Pilot. *)
Registered == [comparisons |-> {e1}, pilots |-> Run]
Confirmatory == [id |-> pt1, program |-> p1, hypotheses |-> {h1}, mode |-> "confirmatory",
                 spec |-> Registered]
Exploratory == [id |-> pt2, program |-> p2, hypotheses |-> {}, mode |-> "exploratory",
                spec |-> NoSpec]

OneStudy == {Confirmatory}
TwoStudies == {Confirmatory, Exploratory}

PilotRuns == [arm : Arms, phase : {"PILOT"}, included : {TRUE}]
LostRun == [arm |-> "control", phase |-> "FORMAL", included |-> FALSE]

AnyRuns == PilotRuns \cup {LostRun}

Symmetry == Permutations(Run)
=============================================================================
