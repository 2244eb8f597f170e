SPECIFICATION Spec
CONSTANTS
  d1 = d1
  d2 = d2
  d3 = d3
  d4 = d4
  Data <- MCData
  MaxEntries = 5
INVARIANTS QueueOK
PROPERTIES Implements
