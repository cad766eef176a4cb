SPECIFICATION Spec
CONSTANTS
  Sessions = {s1, s2}
  Annotators = {a1}
  Units = {1}
  Slots = {1}
  UnitOf <- MCOneUnit
  Served = {"next", "submit", "decide", "route"}
  MaxLabelRows = 2
  MaxFinalRows = 2
  None = None
SYMMETRY TransactionSymmetry
PROPERTIES
  VerdictStands
