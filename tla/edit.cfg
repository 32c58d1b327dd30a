CONSTANTS
  Layers = {l1, l2, l3}
  Handlers = {h1, h2}
  Endpoints <- EditAndSpecs
  MaxIteration = 0
SPECIFICATION Spec
INVARIANTS
  TypeOK
PROPERTIES
  DeletedStaysDeleted
SYMMETRY Symmetry
