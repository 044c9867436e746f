SPECIFICATION Spec
CONSTANTS
  Boards <- AllBoards
  Attached <- Mixed
  MayFail <- Everything
  Reqs = {r1, r2}
  UnitNums = {5, 10}
  MaxOpens = 1
INVARIANTS TypeOK UsesWhatIsThere NothingIsLeft ListedServe UnitsAreFound CountsAgree
PROPERTY InitReturns
\* The device may fail to start, and clients need not open it.
CHECK_DEADLOCK FALSE
