SPECIFICATION Spec
CONSTANTS
  b1 = b1
  b2 = b2
  s1 = s1
  s2 = s2
  None = None
  Txs = {b1, b2, s1, s2}
  MaxTime = 3
  MaxSats = 2
  MaxFee = 1
  Histories <- MCHistories
  Readers = {"replay", "daily_series"}
  DayOf <- MCDayOf
  DayPrice <- MCDayPrice
INVARIANTS
  TypeOK
  OnlyOldestTouched
  RaisesIffShort
  FiguresAreFifo
  ChartIsFifo
CHECK_DEADLOCK FALSE
