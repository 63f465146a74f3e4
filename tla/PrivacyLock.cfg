SPECIFICATION Spec
CONSTANTS
  Sessions = {s1, s2, s3}
  Passwords = {p1, p2}
  Malformed = Malformed
  MaxImports = 2
  None = None
  Unread = Unread
SYMMETRY MCSymmetry
INVARIANTS
  TypeOK
  CachedHashIsStored
  MaskedUntilEntered
PROPERTIES
  PasswordIsImmutable
