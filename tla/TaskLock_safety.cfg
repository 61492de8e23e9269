SPECIFICATION FairSpec
CONSTANTS
  r1 = r1
  r2 = r2
  tableA = tableA
  Request <- MCRequest
  Resource <- MCResource
  ResourceOf <- MCResourceOf
  Lease = 2
  Tries = 3
  MaxTime = 5
INVARIANTS TypeOK OneRowPerResource HolderKeepsRow ExclusiveUnlessOvertaken
PROPERTIES ExpiredRowsNeverBlock RequestsReturn
CHECK_DEADLOCK FALSE
