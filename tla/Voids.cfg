SPECIFICATION Spec
CONSTANTS
  Sessions = {s1, s2}
  Annotators = {a1, a2}
  Units = {1}
  Slots = {1, 2}
  UnitOf <- MCOneUnit
  Served = {"next", "submit", "void"}
  MaxLabelRows = 2
  MaxFinalRows = 1
  None = None
SYMMETRY TransactionSymmetry
INVARIANTS
  FullUnitNotice
PROPERTIES
  LeaseHonoured
