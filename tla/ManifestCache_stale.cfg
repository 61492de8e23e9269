SPECIFICATION FairSpec
CONSTANTS
  d1 = d1
  d2 = d2
  w1 = w1
  w2 = w2
  verA = verA
  verB = verB
  pathA = pathA
  c1 = c1
  c2 = c2
  Path <- MCPath
  Content <- MCContent
  QueriesMayFail = FALSE
  Device <- MCOneDevice
  Writer <- MCOneWriter
  Version <- MCOneVersion
  VersionOf <- MCOneVersionOf
  MaxWrites = 3
  MaxFailures = 0
PROPERTIES DevicesCatchUp
CHECK_DEADLOCK FALSE
