\* What an operation meets after one that left garbage behind.
CONSTANTS
  MaxReq = 2
  MaxCount = 2
  MaxLines = 1
  BufSize = 3
SPECIFICATION Spec
CHECK_DEADLOCK FALSE
PROPERTY
  GarbageCleared
