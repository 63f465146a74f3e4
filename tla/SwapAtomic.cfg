SPECIFICATION Spec
CONSTANTS
  i1 = i1
  p1 = p1
  old = old
  new = new
  None = None
  Importers = {i1}
  Pages = {p1}
  Inodes = {1, 2, 3, 4, 5, 6, 7}
  Rows <- MCRows
  OldRows = {old}
  Uploads <- MCUploads
  MaxImports = 1
  MaxFaults = 0
  MaxCrashes = 1
INVARIANTS
  AllOrNothing
CHECK_DEADLOCK FALSE
