\* Kills at every step; an interrupted append may leave a torn line.
SPECIFICATION FairSpec
CONSTANTS
  Process = {p1, p2}
  Free = Free
  Torn = Torn
  NoHead = NoHead
  MaxEvents = 3
  MaxFaults = 3
  ShortWrites = {"torn"}
  PowerFails = FALSE
INVARIANTS
  AtMostOneTailEvent
  AckedEventsParse
  NeverBricked
PROPERTIES
  ImplementsLog
  LockIsReleased
  EventuallyReadable
CHECK_DEADLOCK FALSE
