SPECIFICATION Spec
CONSTANTS
  Uri <- MCUri
  Value <- MCValue
  Parsed <- MCParsed
  FetchLimit = 2
  QueriesFail = TRUE
  MaxChanges = 1
INVARIANTS EachRowOnce
PROPERTIES BackwardAdjoins
CHECK_DEADLOCK FALSE
