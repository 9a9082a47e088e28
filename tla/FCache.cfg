\* Four pages of two bytes and a cache of two of them: every case of the
\* read-ahead rule.  Two writes, or changes by others.
CONSTANTS
  PageSize = 2
  FSize = 4
  FileSize = 8
  Bytes = {zero, a, b}
  Zero = zero
  MaxEdits = 2
SYMMETRY Symmetry
SPECIFICATION Spec
CHECK_DEADLOCK FALSE
INVARIANTS
  TypeOK
  ServerReadsAligned
  CleanIsSeen
PROPERTY
  ShowsOneFile
