SPECIFICATION Spec
CONSTANTS
  Projects = {p1}
  Units = {1}
  ProjectOf <- MCOneProject
  GoldAnswer <- MCNoGold
  Annotators = {a1, a2, a3}
  Answers = {yes, no}
  Variants = {plain}
  LabelsPerUnit = 2
  MaxLabelsPerUnit = 3
  None = None
  MinConsensus = 67
  OnDisagreement = "grow_then_escalate"
  GoldThreshold = 70
  GoldMinSamples = 1
  GoldWindow = 2
  VoidLookback = 1
  SplitMayPass = FALSE
  GoldNum = 0
  GoldDen = 1
  Priorities = {0}
  MaxLabelRows = 3
SYMMETRY Symmetry
INVARIANTS
  FilledByOneLabel
  StatusFollowsRows
  AutoDecisionHasEvidence
  CollectedIsRouted
PROPERTIES
  HumanDecisionKept
