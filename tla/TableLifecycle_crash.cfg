SPECIFICATION FairSpec
CONSTANTS
  t1 = t1
  t2 = t2
  colA = colA
  colB = colB
  colItems = colItems
  Request <- MCRequest
  Column <- MCColumn
  Schemas <- MCSchemas
  Items <- MCNoItems
  Others <- MCOthers
  RequestsRace = FALSE
  MaxSchema = 2
  MaxData = 1
  MaxFailures = 1
INVARIANTS TypeOK LiveHasRelations NothingIsLost OwnerKeepsTable NoOldAttachments AnswersAreTrue
PROPERTIES AppearsWhole RequestsEnd
CHECK_DEADLOCK FALSE
