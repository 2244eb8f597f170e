SPECIFICATION Spec
CONSTANTS
  Len <- MCLen
  BlockSize <- MCBlockSize
  Payload = 2
  MaxFaults = 1
  RetryCounts <- MCRetryCounts
  Foreign <- MCForeign
  MaxRuns = 1
  StrictSizes = FALSE
INVARIANT RetransmissionFits
CHECK_DEADLOCK FALSE
