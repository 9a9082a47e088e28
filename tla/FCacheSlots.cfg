\* Three files on two inodes, two caches, three calls of open.  No deadlock
\* check: the bound on opens ends every behaviour.
CONSTANTS
  Files = {f1, f2, f3}
  Inodes = {i1, i2}
  Objs = {o1, o2, o3}
  CacheMax = 2
  MaxOpens = 3
  NoObj = NoObj
  NoInode = NoInode
  NoFile = NoFile
  Lister = Lister
SYMMETRY Symmetry
SPECIFICATION Spec
CHECK_DEADLOCK FALSE
INVARIANTS
  TypeOK
  SlotAccounting
  LimitHolds
  ApartIsSafe
  SlotsComeBack
