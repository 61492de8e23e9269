SPECIFICATION Spec
CONSTANTS
  r1 = r1
  r2 = r2
  Request <- MCRequest
  CheckInterval = 0
  UpdateInterval = 1
  MaxWork = 1
  Skews <- MCFast
  MaxTime = 4
  MaxChanges = 1
  MaxFailures = 1
SYMMETRY Threads
INVARIANTS TypeOK RolesAreRecent UsersAreRecent FlagsAreNoticed
CHECK_DEADLOCK FALSE
