-------------------------- MODULE MCExecutionPlane --------------------------
(* An instance of ExecutionPlane for TLC: a Job retried once, and a single  *)
(* Attempt with a log stream.                                               *)
EXTENDS ExecutionPlane, TLC

MCInput ==
  {[attempts |-> 2, authorized |-> {2}, quarantined |-> {1}, streams |-> {},
    workerMoves |-> {}, sessionMoves |-> {}],
   [attempts |-> 1, authorized |-> {1}, quarantined |-> {}, streams |-> {"STDOUT"},
    workerMoves |-> {"QUARANTINED"}, sessionMoves |-> {"QUARANTINED", "CLOSED"}]}

Symmetry == Permutations(Lease)
=============================================================================
