\* Two servers commit previews of a Protocol and of a Decision, retry and are killed.
SPECIFICATION Spec
CONSTANTS
  Session = {s1, s2}
  Once = {"protocol"}
  Repeatable = {"decision"}
  Key = {k1, k2}
  Free = Free
  MaxEvents = 5
  MaxPreviews = 2
  MaxKills = 2
INVARIANTS
  CommitsOnce
  AnswersAreSeals
  SealedOnce
SYMMETRY Symmetry
CHECK_DEADLOCK FALSE
