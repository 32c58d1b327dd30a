CONSTANTS
  Layers = {l1, l2}
  Handlers = {h1, h2}
  Endpoints <- EditAndSpecs
  MaxIteration = 0
SPECIFICATION Spec
PROPERTIES
  EditIsSelfLoop
