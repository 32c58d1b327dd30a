CONSTANTS
  a1 = a1
  h1 = h1
  h2 = h2
  Assets = {a1}
  Handlers = {h1, h2}
  Versions <- MCVersions
  PageSize = 1
  Regimes <- MCRegimes
SPECIFICATION Spec
SYMMETRY Symmetry
INVARIANTS
  TypeOK
  BaselinesHaveNoGap
  LiveAssetHasCurrent
  ApprovedIsApprovedThere
  QuietReindexRestores
PROPERTIES
  ForksOnlyFromStaleEntities
  RemovedStaysRemoved
