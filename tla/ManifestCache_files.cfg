SPECIFICATION FairSpec
CONSTANTS
  d1 = d1
  d2 = d2
  w1 = w1
  w2 = w2
  verA = verA
  verB = verB
  pathA = pathA
  c1 = c1
  c2 = c2
  Path <- MCPath
  Content <- MCContent
  QueriesMayFail = FALSE
  Device <- MCDevice
  Writer <- MCOneWriter
  Version <- MCVersion
  VersionOf <- MCVersionOf
  MaxWrites = 3
  MaxFailures = 1
INVARIANTS TypeOK OneEntryPerPath ConfirmedIsListed TimelyETagsAreTrue
PROPERTIES CatchUpUnlessMisled
CHECK_DEADLOCK FALSE
