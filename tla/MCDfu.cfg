SPECIFICATION FairSpec
CONSTANTS
  Len <- MCLen
  BlockSize <- MCBlockSize
  Payload = 2
  MaxFaults = 2
  RetryCounts <- MCRetryCounts
  Foreign <- MCForeign
  MaxRuns = 2
  StrictSizes = FALSE
INVARIANTS TypeOK SuccessMeansInstalled DataAfterInit InStep AttemptsSuffice
PROPERTIES ExecutedIsVerified Returns KeepsPromise
CHECK_DEADLOCK FALSE
