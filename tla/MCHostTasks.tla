---------------------------- MODULE MCHostTasks ----------------------------
(* Instances of HostTasks for TLC.                                         *)
EXTENDS HostTasks, TLC

CONSTANTS p1, p2, r1

Narrow == [form |-> "v1", circles |-> {"read"}, approval |-> TRUE]
Lax == [form |-> "v1", circles |-> {"read", "write"}, approval |-> FALSE]
Wide == [form |-> "v2", circles |-> {"read", "write"}, approval |-> FALSE]

ThreeContracts == {Narrow, Lax, Wide}

(* The contract of local reviews is edited: back and forth, too. *)
InitialContracts ==
  [cap \in Capability |-> IF cap = "bench.review.accept" THEN Lax ELSE Narrow]
SomeEdits == [capability : {"bench.review.local"}, contract : ThreeContracts]

Order(cap, p, r, circle) ==
  [capability |-> cap, program |-> p, review |-> r, circle |-> circle]

SomeOrders ==
  { Order("bench.review.local", p1, r1, "write"),
    Order("bench.review.external", p2, r1, "read"),
    Order("bench.review.accept", p2, r1, "read") }

Symmetry == Permutations(Task)
=============================================================================
