SPECIFICATION FairSpec
CONSTANTS
  MaxFd = 7
  MaxEntries = 6
  Places <- MCPlaces
  MaxUpdates = 2
  MaxConnects = 3
  MaxRequests = 2
  MaxInbox = 2
INVARIANTS TypeOK TablesAgree TimerPerRequest OnlyTimersStale
PROPERTIES GivenUpInTime RequestEnds
CHECK_DEADLOCK FALSE
