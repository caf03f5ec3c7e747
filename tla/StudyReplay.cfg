\* Records that refer to a Reproduction Record.
SPECIFICATION Spec
CONSTANTS
  Program = {p1}
  Hypothesis = {h1}
  HomeOf <- HomeP1
  Protocol = {pt1}
  Experiment = {e1}
  Run = {r1, r2}
  Artifact = {a1}
  Issue = {i1}
  Deviation = {}
  Reproduction = {x1}
  Drafts <- OneStudy
  Recordings <- PilotRuns
  NoSpec = NoSpec
  NoWorking = NoWorking
  NoArm = NoArm
  p1 = p1
  p2 = p1
  pt1 = pt1
  pt2 = pt1
  h1 = h1
  e1 = e1
  Outcomes = {}
  Kinds = {"implementation", "other"}
  MaxWorkings = 0
  MaxBundles = 1
  MaxAssessments = 1
  MaxDecisions = 1
  MaxRecords = 3
INVARIANT
  LedgerReplays
SYMMETRY Symmetry
CHECK_DEADLOCK FALSE
