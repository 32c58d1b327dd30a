CONSTANTS
  l1 = l1
  l2 = l2
  l3 = l3
  Layers = {l1, l2, l3}
  Handlers = {h1, h2, h3}
  NoHandler = NoHandler
  Limits <- MCLimits
SPECIFICATION FairSpec
PROPERTIES
  HandlersFinish
  OnlyPoolStops
