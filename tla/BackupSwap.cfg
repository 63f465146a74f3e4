SPECIFICATION FairSpec
CONSTANTS
  i1 = i1
  p1 = p1
  old = old
  new = new
  None = None
  Importers = {i1}
  Pages = {p1}
  Inodes = {1, 2, 3, 4, 5, 6, 7}
  Rows <- MCRows
  OldRows = {old}
  Uploads <- MCUploads
  MaxImports = 2
  MaxFaults = 2
  MaxCrashes = 1
INVARIANTS
  TypeOK
  EndedAllOrNothing
  OldDatabaseKept
  EngineServesLive
  ExportIsWhole
PROPERTIES
  ImportEnds
CHECK_DEADLOCK FALSE
