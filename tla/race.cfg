CONSTANTS
  Layers = {l1, l2}
  Handlers = {h1, h2}
  Endpoints <- AllButEdit
  MaxIteration = 1
SPECIFICATION Spec
INVARIANTS
  AnalysedLayersEvaluated
PROPERTIES
  AnalysisIsNotUndone
SYMMETRY Symmetry
