\* Two files of one inode.
CONSTANTS
  Files = {f1, f2}
  Inodes = {i1}
  Objs = {o1, o2, o3}
  CacheMax = 2
  MaxOpens = 2
  NoObj = NoObj
  NoInode = NoInode
  NoFile = NoFile
  Lister = Lister
SPECIFICATION Spec
CHECK_DEADLOCK FALSE
INVARIANT
  NothingLeaks
