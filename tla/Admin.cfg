SPECIFICATION Spec
CONSTANTS
  s1 = s1
  s2 = s2
  m = m
  Sessions = {s1, s2}
  Shapes = {"plain", "pair"}
  VariantsOf <- MCVariantsOf
  Overlaps <- MCOverlaps
  Models = {m}
  Genesis <- MCGenesis
  MaxRequests = 2
  MaxEvents = 1
  MaxProjects = 3
  MaxSlot = 2
  Bundled = TRUE
  None = None
SYMMETRY SessionSymmetry
CHECK_DEADLOCK FALSE
INVARIANTS
  OneOfEach
  CollectsK
PROPERTIES
  ShapeKept
  LineageWhole
  BundleRestores
  WorkKept
