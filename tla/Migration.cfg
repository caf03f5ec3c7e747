\* Kills at every step of the migration and of the commands that follow,
\* and power failures that take back renames.
SPECIFICATION FairSpec
CONSTANTS
  Process = {p1, p2}
  Free = Free
  OldEvents = 1
  MaxEvents = 3
  MaxFaults = 4
INVARIANTS
  NeverStranded
  AckedKept
  ReportIsDurable
PROPERTIES
  EventuallyMigrated
CHECK_DEADLOCK FALSE
