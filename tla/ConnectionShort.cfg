\* A read that brings less than was asked for, and the operation after it.
CONSTANTS
  MaxReq = 2
  MaxCount = 2
  MaxLines = 1
  BufSize = 3
SPECIFICATION Spec
CHECK_DEADLOCK FALSE
INVARIANT
  ShortReadsHarmless
