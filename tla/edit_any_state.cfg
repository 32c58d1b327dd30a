CONSTANTS
  Layers = {l1, l2}
  MaxIteration = 0
SPECIFICATION Spec
PROPERTIES
  EditOnlyWhileModifiable
CHECK_DEADLOCK FALSE
