SPECIFICATION Spec
CONSTANTS
  Tables <- MCTables
  MaxHandle <- MCMaxHandle
  MaxChanges = 3
  Wide = TRUE
INVARIANT ListensAgain
CHECK_DEADLOCK FALSE
