SPECIFICATION Spec
CONSTANTS
  Sessions = {s1, s2}
  Annotators = {a1, a2, a3}
  Units = {1}
  Slots = {1, 2}
  UnitOf <- MCOneUnit
  Served = {"next", "available", "submit", "skip", "decide", "route"}
  MaxLabelRows = 2
  MaxFinalRows = 2
  None = None
SYMMETRY TransactionSymmetry
INVARIANTS
  RowsAgree
  NoDeadlock
PROPERTIES
  GrantedAtOnce
  VerdictKept
