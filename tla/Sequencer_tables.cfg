SPECIFICATION Spec
CONSTANTS
  w1 = w1
  w2 = w2
  tableA = tableA
  tableB = tableB
  Worker <- MCWorker
  Table <- MCTable
  TableOf <- MCTwoTables
  ClockMayGoBack = FALSE
  MaxTime = 3
  MaxBase = 6
  MaxCount = 2
PROPERTIES SequencesIncrease
CHECK_DEADLOCK FALSE
