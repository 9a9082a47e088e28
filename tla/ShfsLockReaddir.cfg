\* One thread lists one directory whose inode is old.
CONSTANTS
  Procs = {t1}
  NoOne = NoOne
SPECIFICATION Spec
CHECK_DEADLOCK FALSE
PROPERTY
  ReaddirRevalidates
