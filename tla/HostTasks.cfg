\* Two Tasks of two Programs, one Review, and a registry edited meanwhile.
SPECIFICATION Spec
CONSTANTS
  Program = {p1, p2}
  Review = {r1}
  Task = {t1, t2}
  Capability = {"bench.review.local", "bench.review.external", "bench.review.accept"}
  Circle = {"read", "write"}
  Contracts <- ThreeContracts
  Default <- InitialContracts
  Edits <- SomeEdits
  Orders <- SomeOrders
  p1 = p1
  p2 = p2
  r1 = r1
  NoReview = NoReview
  MaxEvents = 5
  MaxEdits = 2
  MaxChanges = 1
INVARIANTS
  ResultsFresh
  DisclosureFirst
  ResultsPermitted
  ReviewsInOrder
SYMMETRY Symmetry
CHECK_DEADLOCK FALSE
