\* Two clients race on one Job; kills fall inside every append.
SPECIFICATION Spec
CONSTANTS
  Client = {c1, c2}
  Job = {j1}
  Request = {q1, q2}
  CancelKey = {k1, k2}
  Results = {"SUCCEEDED", "FAILED"}
  Limit = 1
  ClockStepsBack = FALSE
  MaxEvents = 6
  MaxClock = 1
  MaxKills = 1
INVARIANTS
  StartsAreKept
  CancelsSettle
  OutcomesAgree
  CancellationWins
  PagesArePrefix
PROPERTIES
  ImplementsJobs
SYMMETRY Symmetry
CHECK_DEADLOCK FALSE
