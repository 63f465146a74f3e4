SPECIFICATION FairSpec
CONSTANTS
  x1 = x1
  addr1 = addr1
  adrA = adrA
  adrB = adrB
  foreign = foreign
  t1 = t1
  t2 = t2
  None = None
  Syncs = {s1, s2}
  Values = {x1, addr1}
  Single = {addr1}
  Derive <- MCDerive
  TxId = {t1}
  Tx <- MCTx
  Parents <- MCParents
  Quoted = {t1}
  Currencies = {CHF}
  MaxEdits = 3
  MaxFaults = 0
PROPERTIES
  QuietSyncSettles
  EventuallySettled
CHECK_DEADLOCK FALSE
