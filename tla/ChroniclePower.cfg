\* Kills, short writes of both kinds and power failures.
SPECIFICATION Spec
CONSTANTS
  Process = {p1, p2}
  Free = Free
  Torn = Torn
  NoHead = NoHead
  MaxEvents = 3
  MaxFaults = 3
  ShortWrites = {"torn", "unterminated"}
  PowerFails = TRUE
INVARIANTS
  AckedEventsInPlace
CHECK_DEADLOCK FALSE
SYMMETRY Symmetry
