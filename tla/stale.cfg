CONSTANTS
  Layers = {l1, l2}
  Handlers = {h1, h2}
  Endpoints <- AllButEdit
  MaxIteration = 1
SPECIFICATION Spec
PROPERTIES
  RequestFollowsTable
