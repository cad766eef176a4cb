SPECIFICATION Spec
CONSTANTS
  j1 = j1
  j2 = j2
  Judges = {j1, j2}
  Enrolled <- MCEnrolled
  Buildable = {j1}
  Budget <- MCBudget
  Runs = {r1, r2}
  Units = {1, 2}
  Golds = {2}
  Slots = {1, 2, 3, 4}
  UnitOf <- MCUnitOf
  VariantOf <- MCVariantOf
  Limits = {2}
  Attempts = 2
  Price = 1
  Tokens = 2
  MaxEvents = 1
  None = None
CHECK_DEADLOCK FALSE
SYMMETRY RunSymmetry
INVARIANTS
  CapHeld
  AnswersItsPrompt
  NoLeaseLeft
  ReportsAddUp
  PaidOnce
