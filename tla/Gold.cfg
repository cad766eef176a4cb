SPECIFICATION CollectSpec
CONSTANTS
  Projects = {p1}
  Units = {1, 2}
  ProjectOf <- MCOneProject
  GoldAnswer <- MCFirstIsGold
  Annotators = {a1, a2}
  Answers = {yes, no}
  Variants = {AB, BA}
  LabelsPerUnit = 2
  MaxLabelsPerUnit = 4
  None = None
  MinConsensus = 67
  OnDisagreement = "grow_then_escalate"
  GoldThreshold = 70
  GoldMinSamples = 1
  GoldWindow = 2
  VoidLookback = 2
  SplitMayPass = TRUE
  GoldNum = 1
  GoldDen = 2
  Priorities = {0}
  MaxLabelRows = 3
SYMMETRY AnnotatorSymmetry
INVARIANTS
  OneTaskAtATime
  HolderMaySubmit
  FilledByOneLabel
  PausedHoldsNothing
  VariantsBalanced
