SPECIFICATION Spec
CONSTANTS
  q1 = q1
  q2 = q2
  rowA = rowA
  rowB = rowB
  v1 = v1
  v2 = v2
  Request <- MCTwo
  RowId <- MCRows
  Value <- MCOneValue
  Null = 0
  Foreign <- MCForeign
  TrustClients = TRUE
  DistinctRows = TRUE
  ReadsMayFail = TRUE
  LeaseMayExpire = TRUE
  MaxChanges = 1
  MaxTicket = 5
  MaxFailures = 1
INVARIANTS ChainsGoBack 
SYMMETRY Symmetry
CHECK_DEADLOCK FALSE
