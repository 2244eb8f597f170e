SPECIFICATION FairSpec
CONSTANTS
  MaxOps = 3
  MaxPeer = 2
INVARIANTS TypeOK OnlyRequestsOvertaken OneRequestAtATime PeerNotBlamed NoLostWakeup
PROPERTIES FateIsFinal EverythingSettles
CHECK_DEADLOCK FALSE
