SPECIFICATION Spec
CONSTANTS
  x1 = x1
  addr1 = addr1
  adrA = adrA
  adrB = adrB
  foreign = foreign
  t1 = t1
  t2 = t2
  None = None
  Syncs = {s1}
  Values = {x1, addr1}
  Single = {addr1}
  Derive <- MCDerive
  TxId = {t1, t2}
  Tx <- MCTx
  Parents <- MCParents
  Quoted = {t1, t2}
  Currencies = {CHF, EUR}
  MaxEdits = 3
  MaxFaults = 1
INVARIANTS
  TypeOK
  ClassMatchesFlags
PROPERTIES
  QuietSyncSettles
  PriceIsFinal
CHECK_DEADLOCK FALSE
