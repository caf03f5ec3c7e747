\* One Program, two Workings of one Protocol, to the end.
SPECIFICATION Spec
CONSTANTS
  Program = {p1}
  Hypothesis = {h1, h2}
  HomeOf <- HomeP1
  Protocol = {pt1}
  Experiment = {e1, e2}
  Run = {r1, r2}
  Artifact = {a1}
  Issue = {}
  Deviation = {}
  Reproduction = {}
  Drafts <- OneStudy
  Recordings <- AnyRuns
  NoSpec = NoSpec
  NoWorking = NoWorking
  NoArm = NoArm
  p1 = p1
  p2 = p1
  pt1 = pt1
  pt2 = pt1
  h1 = h1
  e1 = e1
  Outcomes = {"STOP"}
  Kinds = {"implementation"}
  MaxWorkings = 2
  MaxBundles = 1
  MaxAssessments = 2
  MaxDecisions = 1
  MaxRecords = 1
INVARIANTS
  WorkingsJustified
  ProgramKeepsUp
  OnePilotPerProtocol
  AnalysisIsSealed
  VerdictsAssessed
PROPERTIES
  StatusStaysEarned
SYMMETRY Symmetry
CHECK_DEADLOCK FALSE
