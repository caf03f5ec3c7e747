SPECIFICATION Spec
CONSTANTS
  r1 = r1
  r2 = r2
  p1 = p1
  p2 = p2
  Class <- MCClass
  Limit <- MCLimit
  Claim <- MCClaim
  RefSet = {r1, r2}
  Edges <- MCEdges
  Policy = {"P"}
  Protection = {1, 2}
  Pin = {p1, p2}
  EventType <- MCEventType
  PinType <- MCPinType
  PinRoots <- MCPinRoots
  MaxRecoveries = 2
  MaxEpoch = 4
  MaxChronicle = 2
INVARIANTS
  QuotaBalances
  FailedProtectionHolds
PROPERTIES
  StrandedPinsHold
