SPECIFICATION Spec
SYMMETRY Symmetry
CHECK_DEADLOCK FALSE
CONSTANTS
  o1 = o1
  o2 = o2
  t1 = t1
  t2 = t2
  Types = {t1, t2}
  TypeVersionIds <- MCTypeIds
  Editors = {o1, o2}
  Kinds = {"hosts", "runs", "uses"}
  NoKind = NoKind
  InverseOf <- MCInverse
  RowIds <- MCRowIds
  ClientModes <- MCClientModes
  e1 = e1
  e2 = e2
  e3 = e3
  d1 = d1
  d2 = d2
  d3 = d3
  People = {e1, e2, e3}
  Departments = {d1, d2, d3}
  Linked = {e1, e2}
  Orgs <- MCOrgs
  f1 = f1
  f2 = f2
  f3 = f3
  n1 = n1
  n2 = n2
  a1 = a1
  a2 = a2
  j1 = j1
  j2 = j2
  j3 = j3
  Files = {f1, f2, f3}
  Imports = {j1, j2, j3}
  NoImport = NoImport
  NoAddress = NoAddress
  NoFile = NoFile
  Template <- MCTemplate
  RowsOf <- MCRowsOf
  Within <- MCWithin
  Registered <- MCRegistered
INVARIANTS
  CatalogueTypeOK
  OneLine
  RelationsLeadToVersions
  FailuresOnlyNarrow
  ScopeIsComplete
  ChangesOnlyWhatItSees
  TwinsFromOverlap
  EveryRowAnswered
  RetryCompletes
PROPERTIES
  MirrorsBreakByOverlap
  WalksAdvance
