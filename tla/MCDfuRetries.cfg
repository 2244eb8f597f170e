SPECIFICATION Spec
CONSTANTS
  Len <- MCLen
  BlockSize <- MCBlockSize
  Payload = 2
  MaxFaults = 2
  RetryCounts <- MCLargeRetries
  Foreign <- MCForeign
  MaxRuns = 1
  StrictSizes = FALSE
INVARIANT RetriesHonoured
CHECK_DEADLOCK FALSE
