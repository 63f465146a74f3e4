SPECIFICATION Spec
CONSTANTS
  a = a
  b = b
  Address = {a, b}
  Foreign = x
  MaxSats = 3
  MaxTxs = 2
  MaxTime = 2
  None = None
SYMMETRY Wallets
INVARIANTS
  DocumentedClass
  BalancesAreCoins
  TotalIsAccounted
  ShortOnlyOverGaps
PROPERTIES
  ImportKeepsOutflows
CHECK_DEADLOCK FALSE
