CONSTANTS
  Layers = {l1, l2, l3}
  MaxIteration = 1
SPECIFICATION Spec
SYMMETRY Symmetry
INVARIANTS
  TypeOK
  PhaseInvariant
PROPERTIES
  ReportedOnlyWhenFulfilled
  LastSpecStartsAnalysis
  ClosedIsLeftByReopening
CHECK_DEADLOCK FALSE
