SPECIFICATION Spec
CONSTANTS
  Columns = 2
  Rows = 2
  RowCodes = 4
  FineLines = 2
  LowCodes = 4
  Fetches = 4
  Lines = 2
  Scrolls = {7}
  Highs = {18}
  Lows = {3}
  Tables = {3}
  MaxAccesses = 2
INVARIANTS TypeOK ScrollFollowsT
PROPERTIES OffNeverMoves
CHECK_DEADLOCK TRUE
