SPECIFICATION Spec
CONSTANTS
  q1 = q1
  q2 = q2
  pathA = pathA
  pathB = pathB
  short = short
  long = long
  Request <- MCRequest
  Path <- MCPath
  Content <- MCContent
  Parts <- MCParts
  Uploads <- MCUploads
  MaxRecords = 2
  MaxFailures = 3
SYMMETRY Requests
INVARIANTS TypeOK StoredIsWhole PostedIsServed RemovedMeansGone RepeatsSucceed
CHECK_DEADLOCK FALSE
