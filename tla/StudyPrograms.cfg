\* Two Programs, whose records may refer to one another's objects.
SPECIFICATION Spec
CONSTANTS
  Program = {p1, p2}
  Hypothesis = {h1}
  HomeOf <- HomeP1
  Protocol = {pt1, pt2}
  Experiment = {e1}
  Run = {r1, r2}
  Artifact = {a1}
  Issue = {i1}
  Deviation = {d1}
  Reproduction = {x1}
  Drafts <- TwoStudies
  Recordings <- PilotRuns
  NoSpec = NoSpec
  NoWorking = NoWorking
  NoArm = NoArm
  p1 = p1
  p2 = p2
  pt1 = pt1
  pt2 = pt2
  h1 = h1
  e1 = e1
  Outcomes = {"CONTINUE"}
  Kinds = {"implementation", "other"}
  MaxWorkings = 1
  MaxBundles = 1
  MaxAssessments = 1
  MaxDecisions = 1
  MaxRecords = 2
INVARIANTS
  LineageInProgram
SYMMETRY Symmetry
CHECK_DEADLOCK FALSE
