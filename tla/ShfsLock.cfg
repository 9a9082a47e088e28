\* Two threads, any mix of calls and signals.  Threads may wait for
\* themselves for ever, and an unmounted super block stops: no deadlock check.
CONSTANTS
  Procs = {t1, t2}
  NoOne = NoOne
SPECIFICATION Spec
CHECK_DEADLOCK FALSE
INVARIANTS
  TypeOK
  OneConversation
  LockBalanced
  NestedCallsNeverTalk
  PageLockBeforeMutex
  OnlyDRevalidateSticks
PROPERTY
  SignalFreesMutex
