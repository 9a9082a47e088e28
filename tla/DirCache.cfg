\* Two sweeps of a directory of three names; the first page holds one pointer.
CONSTANTS
  Name = {1, 2, 3}
  Sweep = {r1, r2}
  TTL = 1
  PageSize = 2
  Start = 1
  MaxRoom = 2
  MaxEvents = 2
  None = None
SPECIFICATION MCSpec
CHECK_DEADLOCK FALSE
INVARIANTS
  TypeOK
  SweepExact
  RemovalSafe
PROPERTY ListsOneDirectory
SYMMETRY SweepSymmetry
