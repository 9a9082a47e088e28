\* Two edits, and reads of the pages they are in.
CONSTANTS
  PageSize = 2
  FSize = 4
  FileSize = 4
  Bytes = {zero, a, b}
  Zero = zero
  MaxEdits = 2
SPECIFICATION Spec
CHECK_DEADLOCK FALSE
INVARIANT
  ReadsAreRight
