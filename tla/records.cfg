SPECIFICATION Spec
SYMMETRY Symmetry
CHECK_DEADLOCK FALSE
CONSTANTS
  k1 = k1
  k2 = k2
  r1 = r1
  r2 = r2
  l1 = l1
  l2 = l2
  i1 = i1
  v1 = v1
  v2 = v2
  Clerks = {k1, k2}
  Requests = {r1, r2}
  LogLayers = {l1, l2}
  Owner <- MCOwner
  SpecItems = {i1}
  Values = {v1, v2}
  RowIds <- MCRowIds
  ChangeIds <- MCChangeIds
  Crews <- MCCrews
  u1 = u1
  u2 = u2
  x1 = x1
  x2 = x2
  g1 = g1
  h1 = h1
  h2 = h2
  Users = {u1, u2}
  RoleIds = {x1, x2}
  SeededRoles = {x1}
  Loads <- MCLoads
  GroupIds = {g1}
  Lead <- MCLead
  BelongIds <- MCBelongIds
  Admins = {h1, h2}
  b1 = b1
  c1 = c1
  c2 = c2
  c3 = c3
  c4 = c4
  Bases = {b1}
  Creates = {c1, c2, c3, c4}
  LastNumber = 3
INVARIANTS
  RecordsTypeOK
  NoChangeLost
  LoggedOnce
  LayerLogsOwnChanges
  HistoryIsComplete
  RolesArrive
  NumbersRunOn
PROPERTIES
  UpdateSetsMembers
