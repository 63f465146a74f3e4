SPECIFICATION FairSpec
CONSTANTS
  t1 = t1
  t2 = t2
  t3 = t3
  p = p
  q = q
  None = None
  Txs <- MCTxs
  ToFetch = {t1, t2, t3}
  Parents <- MCParents
  Concurrency = 2
INVARIANTS
  PermitsAccounted
  NothingLeftBehind
PROPERTIES
  AsksOnce
  IngestEnds
CHECK_DEADLOCK FALSE
