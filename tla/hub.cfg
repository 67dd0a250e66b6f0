SPECIFICATION Spec
CONSTANTS
  Connections = {c1, c2}
  SendBuffer = 1
  MaxMessages = 2
INVARIANTS TypeOK NoPanic NoGaps WrittenInOrder
PROPERTIES LeavesNothingBehind BroadcastReturns
CHECK_DEADLOCK FALSE
