SPECIFICATION Spec
CONSTANTS
  w1 = w1
  s1 = s1
  l1 = l1
  l2 = l2
  Worker = {w1}
  Session = {s1}
  Lease = {l1, l2}
  Capacity = 2
  Reservation = 1
  Limit = 2
  Ending = {"SUCCEEDED", "FAILED"}
  Input <- MCInput
  MaxChunks = 1
SYMMETRY Symmetry
INVARIANTS
  CapacityCounted
  LedgerBalances
  LeasesAreTimed
  FinishedJobs
PROPERTIES
  StopIsFinal
  ImplementsFencing
CHECK_DEADLOCK FALSE
