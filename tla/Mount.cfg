\* Two mounts and one unmount over two mount points.
CONSTANTS
  m1 = m1
  m2 = m2
  Mounter = {m1, m2}
  Unmounter = {u1}
  Dir = {d1, d2}
  Opts <- MCOpts
SPECIFICATION Spec
CHECK_DEADLOCK FALSE
INVARIANTS
  TypeOK
  OneWriter
  LockAccounted
  MtabAgrees
  HandedOverClean
  CacheSizeFits
PROPERTIES
  OthersKept
  DaemonEnds
