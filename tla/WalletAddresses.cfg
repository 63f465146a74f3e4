SPECIFICATION Spec
CONSTANTS
  k1 = k1
  k2 = k2
  k3 = k3
  slip = slip
  Garbled <- MCGarbled
  Imports <- MCImports
  GapLimits = {1}
  MaxAddresses = 2
  MaxKeys = 2
  MaxWallets = 2
  MaxPaid = 2
  None = None
INVARIANTS
  TypeOK
  RecognisesMoney
  SparrowNeverBlocks
