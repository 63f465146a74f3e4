SPECIFICATION FairSpec
CONSTANTS
  GapLimit = 2
  MaxAddresses = 5
INVARIANTS
  TypeOK
  NoUsedAddressMissed
PROPERTIES
  MatchesSerialScanner
  ScanEnds
CHECK_DEADLOCK FALSE
