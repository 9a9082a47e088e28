\* Three operations in a row, and everything that can go wrong between them.
\* No deadlock check: a behaviour ends with its last operation.
CONSTANTS
  MaxReq = 3
  MaxCount = 2
  MaxLines = 1
  BufSize = 3
SPECIFICATION Spec
CHECK_DEADLOCK FALSE
INVARIANTS
  TypeOK
  RepliesAreOwn
  NothingLeftBehind
  GarbageCoversServer
  DataNotExecuted
  WritesStored
PROPERTY
  OperationsEnd
