---------------------------- MODULE MCExecution ----------------------------
(* Instances of ExecutionJournal for TLC.                                  *)
EXTENDS ExecutionJournal, TLC

Symmetry == Permutations(Client) \cup Permutations(Job)
              \cup Permutations(Request) \cup Permutations(CancelKey)
=============================================================================
