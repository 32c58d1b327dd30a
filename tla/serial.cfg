CONSTANTS
  Layers = {l1, l2, l3}
  Handlers = {h1}
  Endpoints <- AllButEdit
  MaxIteration = 1
SPECIFICATION Spec
INVARIANTS
  FulfilledRequestIsReported
  GroupReadyAwaitsSpecs
PROPERTIES
  ImplementsWorkflow
SYMMETRY Symmetry
