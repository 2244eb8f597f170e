SPECIFICATION FairSpec
CONSTANTS
  Ops <- MCOps
  NoOp = "none"
  MaxRequests = 4
INVARIANTS TypeOK OwnAnswer NoLeftovers SilenceIsFinal
PROPERTIES WaitReturns KeepsPromise
CHECK_DEADLOCK FALSE
