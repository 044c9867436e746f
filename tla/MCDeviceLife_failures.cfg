SPECIFICATION Spec
CONSTANTS
  Boards <- AllBoards
  Attached <- Mixed
  MayFail <- TimerDevice
  Reqs = {}
  UnitNums = {}
  MaxOpens = 0
INVARIANTS CleansUp
\* No client opens the device; it may fail to start.
CHECK_DEADLOCK FALSE
