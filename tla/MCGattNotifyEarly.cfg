SPECIFICATION Spec
CONSTANTS
  r1 = r1
  r2 = r2
  r3 = r3
  r4 = r4
  Regs <- MCPair
  UnregisterEarly = TRUE
  RegisterLate = FALSE
  MaxChanges = 0
INVARIANT NeverAborts
CHECK_DEADLOCK FALSE
