SPECIFICATION FairSpec
CONSTANTS
  Tables <- MCTables
  MaxHandle <- MCMaxHandle
  MaxChanges = 3
  Wide = FALSE
INVARIANTS TypeOK MirrorsDevice ActiveIsComplete
PROPERTIES InitEnds CatchesUp
CHECK_DEADLOCK FALSE
