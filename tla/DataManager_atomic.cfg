SPECIFICATION Spec
CONSTANTS
  q1 = q1
  q2 = q2
  rowA = rowA
  rowB = rowB
  v1 = v1
  v2 = v2
  Request <- MCOne
  RowId <- MCRows
  Value <- MCValues
  Null = 0
  Foreign <- MCForeign
  TrustClients = TRUE
  DistinctRows = TRUE
  ReadsMayFail = FALSE
  LeaseMayExpire = FALSE
  MaxChanges = 2
  MaxTicket = 8
  MaxFailures = 2
INVARIANTS TypeOK RowsAreLogged Revertible LinearHistory PullsConverge ReadsSeeNothingPending
PROPERTIES AtomicChangeSets
SYMMETRY RowSymmetry
CHECK_DEADLOCK FALSE
