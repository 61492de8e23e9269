SPECIFICATION Spec
CONSTANTS
  r1 = r1
  r2 = r2
  tableA = tableA
  Request <- MCRequest
  Resource <- MCResource
  ResourceOf <- MCResourceOf
  Lease = 2
  Tries = 2
  MaxTime = 4
INVARIANTS MutualExclusion
CHECK_DEADLOCK FALSE
