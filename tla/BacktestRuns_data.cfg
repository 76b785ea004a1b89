SPECIFICATION Spec
CONSTANTS
  r1 = r1  r2 = r2  btc = btc  eth = eth
  Calls = {r1, r2}
  Symbols = {btc, eth}
  LastBar = 4
  Interval = 2
  Batch = 2
  Gaps <- MCGaps
  Stored <- MCStored
  Requests <- MCRequests
  Worthless <- MCWorthless
CHECK_DEADLOCK FALSE
INVARIANTS TypeOK ReplaysUsableBars RowTellsTheEnd
PROPERTIES HandlerEnds
