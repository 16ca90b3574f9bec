SPECIFICATION Spec
CONSTANTS
  other1 = other1
  Loop = Loop
  Others <- MCOthers
  MsgLen = 2
  KernelRoom = 1
  MaxSends = 2
  MaxCalls = 3
INVARIANT FinAfterData
CHECK_DEADLOCK FALSE
