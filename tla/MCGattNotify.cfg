SPECIFICATION FairSpec
CONSTANTS
  r1 = r1
  r2 = r2
  r3 = r3
  r4 = r4
  Regs <- MCRegs
  UnregisterEarly = FALSE
  RegisterLate = FALSE
  MaxChanges = 2
INVARIANTS TypeOK NeverAborts EnabledWhileServed CountIsServed NobodyForgotten
PROPERTY EveryoneTold
CHECK_DEADLOCK FALSE
