\* The command line appends between a commit's head check and its seal.
SPECIFICATION Spec
CONSTANTS
  Session = {s1, s2}
  Once = {"protocol"}
  Repeatable = {"decision"}
  Key = {k1, k2}
  Free = Free
  MaxEvents = 5
  MaxPreviews = 2
  MaxKills = 2
INVARIANT
  SealsAreFresh
CHECK_DEADLOCK FALSE
