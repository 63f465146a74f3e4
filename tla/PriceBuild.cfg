SPECIFICATION FairSpec
CONSTANTS
  Today = 4
  PageLimit = 2
  MaxPages = 3
  MaxRetries = 2
  Candles <- MCCandles
  Publications <- MCPublications
  Nothing = Nothing
INVARIANTS
  SnapshotIsRight
  SnapshotIsComplete
PROPERTIES
  BuildEnds
CHECK_DEADLOCK FALSE
