--------------------------- MODULE ShfsLockProof ---------------------------
(***************************************************************************)
(* Proofs about ShfsLock, for any set of threads.                          *)
(*                                                                         *)
(* LockBalanced says which thread owns the mutex, and makes the others     *)
(* nearly inductive; what it lacks is that the labels behind a nested      *)
(* sock_lock or a nested mutex_lock are not reached: a thread gets past    *)
(* such a wait only if the mutex is free, and it has the mutex itself.     *)
(***************************************************************************)
EXTENDS ShfsLock, TLAPS

\* Threads that are past a nested wait: there are none.
NoNested ==
  \A p \in Procs :
    /\ pc[p] = "talk" => back[p] \notin {"revalidate_out", "read_back"}
    /\ pc[p] = "read_back" => res[p] = "err"
    /\ pc[p] \in {"refresh", "revalidate_out"} => up[p] # "d_revalidate_out"
    /\ pc[p] = "sock_lock" /\ back[p] = "revalidate_out"
         => up[p] # "d_revalidate_out"

\* The inductive invariant.
IInv == TypeOK /\ LockBalanced /\ NoNested

\* The mount starts with a free lock and no thread inside.
LEMMA InitIInv == Init => IInv
  BY NoOneAssumption
  DEF Init, IInv, TypeOK, LockBalanced, NoNested, Holders, Labels, BackLabels, UpLabels

\* Every action keeps the types of the variables.
LEMMA NextTypeOK == TypeOK /\ [Next]_vars => TypeOK'
<1> SUFFICES ASSUME TypeOK, [Next]_vars PROVE TypeOK'
  OBVIOUS
<1> USE DEF TypeOK, Labels, BackLabels, UpLabels, UninterruptibleWaits,
            Goto, CallFops, CallRevalidate, Enter, locks
<1>1. ASSUME NEW p \in Procs, Step(p) PROVE TypeOK'
  <2>1. CASE SockLock(p)
    BY <2>1 DEF SockLock
  <2>2. CASE SockLockInterrupted(p)
    BY <2>2 DEF SockLockInterrupted
  <2>3. CASE SockUnlock(p)
    BY <2>3 DEF SockUnlock
  <2>4. CASE Changed(p)
    BY <2>4 DEF Changed
  <2>5. CASE InvalidDirCache(p)
    BY <2>5 DEF InvalidDirCache
  <2>6. CASE RevalidateLock(p)
    BY <2>6 DEF RevalidateLock
  <2>7. CASE RefreshLocally(p)
    BY <2>7 DEF RefreshLocally
  <2>8. CASE RefreshStat(p)
    BY <2>8 DEF RefreshStat
  <2>9. CASE RevalidateUnlock(p)
    BY <2>9 DEF RevalidateUnlock
  <2>10. CASE DRevalidateLock(p)
    BY <2>10 DEF DRevalidateLock
  <2>11. CASE DRevalidateLocally(p)
    BY <2>11 DEF DRevalidateLocally
  <2>12. CASE DRevalidateOld(p)
    BY <2>12 DEF DRevalidateOld
  <2>13. CASE DRevalidateUnlock(p)
    BY <2>13 DEF DRevalidateUnlock
  <2>14. CASE ReadLock(p)
    BY <2>14 DEF ReadLock
  <2>15. CASE ReadLocally(p)
    BY <2>15 DEF ReadLocally
  <2>16. CASE ReadServer(p)
    BY <2>16 DEF ReadServer
  <2>17. CASE ReadBack(p)
    BY <2>17 DEF ReadBack
  <2>18. CASE ReadUnlock(p)
    BY <2>18 DEF ReadUnlock
  <2>19. CASE ReaddirFails(p)
    BY <2>19 DEF ReaddirFails
  <2>20. CASE GrabPage(p)
    BY <2>20 DEF GrabPage
  <2>21. CASE NoPage(p)
    BY <2>21 DEF NoPage
  <2>22. CASE ReaddirHit(p)
    BY <2>22 DEF ReaddirHit
  <2>23. CASE ReaddirMiss(p)
    BY <2>23 DEF ReaddirMiss
  <2>24. CASE InvalidateEntries(p)
    BY <2>24 DEF InvalidateEntries
  <2>25. CASE ReleasePage(p)
    BY <2>25 DEF ReleasePage
  <2>26. CASE Synced(p)
    BY <2>26 DEF Synced
  <2>27. CASE WritebackLock(p)
    BY <2>27 DEF WritebackLock
  <2>28. CASE WritebackUnlock(p)
    BY <2>28 DEF WritebackUnlock
  <2>29. CASE PutSuper(p)
    BY <2>29 DEF PutSuper
  <2> QED
    BY <1>1, <2>1, <2>2, <2>3, <2>4, <2>5, <2>6, <2>7, <2>8, <2>9, <2>10,
       <2>11, <2>12, <2>13, <2>14, <2>15, <2>16, <2>17, <2>18, <2>19, <2>20,
       <2>21, <2>22, <2>23, <2>24, <2>25, <2>26, <2>27, <2>28, <2>29 DEF
       Step
<1>2. ASSUME NEW p \in Procs, Call(p) PROVE TypeOK'
  <2>1. CASE EnterFops(p)
    BY <2>1 DEF EnterFops
  <2>2. CASE EnterChange(p)
    BY <2>2 DEF EnterChange
  <2>3. CASE EnterGetattr(p)
    BY <2>3 DEF EnterGetattr
  <2>4. CASE EnterDRevalidate(p)
    BY <2>4 DEF EnterDRevalidate
  <2>5. CASE EnterRead(p)
    BY <2>5 DEF EnterRead
  <2>6. CASE EnterReaddir(p)
    BY <2>6 DEF EnterReaddir
  <2>7. CASE EnterFlush(p)
    BY <2>7 DEF EnterFlush
  <2>8. CASE EnterPutSuper(p)
    BY <2>8 DEF EnterPutSuper
  <2>9. CASE Signal(p)
    BY <2>9 DEF Signal
  <2> QED
    BY <1>2, <2>1, <2>2, <2>3, <2>4, <2>5, <2>6, <2>7, <2>8, <2>9 DEF Call
<1>3. CASE UNCHANGED vars
  BY <1>3 DEF vars
<1> QED BY <1>1, <1>2, <1>3 DEF Next

\* Every action keeps the account of who owns the mutex, and no nested wait
\* is ever passed.  The steps that take the mutex find it free, so the
\* thread was in no section of its own: that is where LockBalanced is used.
LEMMA NextLocks == IInv /\ [Next]_vars => LockBalanced' /\ NoNested'
<1> SUFFICES ASSUME IInv, [Next]_vars PROVE LockBalanced' /\ NoNested'
  OBVIOUS
<1> USE NoOneAssumption
    DEF IInv, TypeOK, LockBalanced, NoNested, Holders, BackLabels, UpLabels,
        Goto, CallFops, CallRevalidate, Enter, locks
<1>1. ASSUME NEW p \in Procs, Step(p) PROVE LockBalanced' /\ NoNested'
  <2>1. CASE SockLock(p)
    BY <2>1 DEF SockLock
  <2>2. CASE SockLockInterrupted(p)
    BY <2>2 DEF SockLockInterrupted
  <2>3. CASE SockUnlock(p)
    BY <2>3 DEF SockUnlock
  <2>4. CASE Changed(p)
    BY <2>4 DEF Changed
  <2>5. CASE InvalidDirCache(p)
    BY <2>5 DEF InvalidDirCache
  <2>6. CASE RevalidateLock(p)
    BY <2>6 DEF RevalidateLock
  <2>7. CASE RefreshLocally(p)
    BY <2>7 DEF RefreshLocally
  <2>8. CASE RefreshStat(p)
    BY <2>8 DEF RefreshStat
  <2>9. CASE RevalidateUnlock(p)
    BY <2>9 DEF RevalidateUnlock
  <2>10. CASE DRevalidateLock(p)
    BY <2>10 DEF DRevalidateLock
  <2>11. CASE DRevalidateLocally(p)
    BY <2>11 DEF DRevalidateLocally
  <2>12. CASE DRevalidateOld(p)
    BY <2>12 DEF DRevalidateOld
  <2>13. CASE DRevalidateUnlock(p)
    BY <2>13 DEF DRevalidateUnlock
  <2>14. CASE ReadLock(p)
    BY <2>14 DEF ReadLock
  <2>15. CASE ReadLocally(p)
    BY <2>15 DEF ReadLocally
  <2>16. CASE ReadServer(p)
    BY <2>16 DEF ReadServer
  <2>17. CASE ReadBack(p)
    BY <2>17 DEF ReadBack
  <2>18. CASE ReadUnlock(p)
    BY <2>18 DEF ReadUnlock
  <2>19. CASE ReaddirFails(p)
    BY <2>19 DEF ReaddirFails
  <2>20. CASE GrabPage(p)
    BY <2>20 DEF GrabPage
  <2>21. CASE NoPage(p)
    BY <2>21 DEF NoPage
  <2>22. CASE ReaddirHit(p)
    BY <2>22 DEF ReaddirHit
  <2>23. CASE ReaddirMiss(p)
    BY <2>23 DEF ReaddirMiss
  <2>24. CASE InvalidateEntries(p)
    BY <2>24 DEF InvalidateEntries
  <2>25. CASE ReleasePage(p)
    BY <2>25 DEF ReleasePage
  <2>26. CASE Synced(p)
    BY <2>26 DEF Synced
  <2>27. CASE WritebackLock(p)
    BY <2>27 DEF WritebackLock
  <2>28. CASE WritebackUnlock(p)
    BY <2>28 DEF WritebackUnlock
  <2>29. CASE PutSuper(p)
    BY <2>29 DEF PutSuper
  <2> QED
    BY <1>1, <2>1, <2>2, <2>3, <2>4, <2>5, <2>6, <2>7, <2>8, <2>9, <2>10,
         <2>11, <2>12, <2>13, <2>14, <2>15, <2>16, <2>17, <2>18, <2>19, <2>20,
         <2>21, <2>22, <2>23, <2>24, <2>25, <2>26, <2>27, <2>28, <2>29
    DEF Step
<1>2. ASSUME NEW p \in Procs, Call(p) PROVE LockBalanced' /\ NoNested'
  <2>1. CASE EnterFops(p)
    BY <2>1 DEF EnterFops
  <2>2. CASE EnterChange(p)
    BY <2>2 DEF EnterChange
  <2>3. CASE EnterGetattr(p)
    BY <2>3 DEF EnterGetattr
  <2>4. CASE EnterDRevalidate(p)
    BY <2>4 DEF EnterDRevalidate
  <2>5. CASE EnterRead(p)
    BY <2>5 DEF EnterRead
  <2>6. CASE EnterReaddir(p)
    BY <2>6 DEF EnterReaddir
  <2>7. CASE EnterFlush(p)
    BY <2>7 DEF EnterFlush
  <2>8. CASE EnterPutSuper(p)
    BY <2>8 DEF EnterPutSuper
  <2>9. CASE Signal(p)
    BY <2>9 DEF Signal
  <2> QED BY <1>2, <2>1, <2>2, <2>3, <2>4, <2>5, <2>6, <2>7, <2>8, <2>9 DEF Call
<1>3. CASE UNCHANGED vars
  BY <1>3 DEF vars
<1> QED BY <1>1, <1>2, <1>3 DEF Next

\* The inductive invariant holds in every reachable state.
LEMMA InductiveInvariant == Spec => []IInv
<1>1. IInv /\ [Next]_vars => IInv'
  BY NextTypeOK, NextLocks DEF IInv
<1> QED BY InitIInv, <1>1, PTL DEF Spec

-----------------------------------------------------------------------------

\* Type correctness of the lock's users.
THEOREM TypeCorrect == Spec => []TypeOK
  BY InductiveInvariant, PTL DEF IInv

\* Every path through the handlers pairs its lock with its unlock.
THEOREM Balanced == Spec => []LockBalanced
  BY InductiveInvariant, PTL DEF IInv

\* Mutual exclusion of the conversations with the server.
THEOREM ConversationsExclude == Spec => []OneConversation
<1>1. IInv => OneConversation
  BY DEF IInv, LockBalanced, Holders, OneConversation
<1> QED BY <1>1, InductiveInvariant, PTL

\* A handler that holds the mutex never reaches the server.
THEOREM NestedCallsFail == Spec => []NestedCallsNeverTalk
<1>1. IInv => NestedCallsNeverTalk
  BY DEF IInv, NoNested, NestedCallsNeverTalk
<1> QED BY <1>1, InductiveInvariant, PTL

\* The two locks are taken in one order.
THEOREM LockOrder == Spec => []PageLockBeforeMutex
<1>1. IInv => PageLockBeforeMutex
  BY DEF IInv, LockBalanced, Holders, PageLockBeforeMutex
<1> QED BY <1>1, InductiveInvariant, PTL

\* Only a revalidation from shfs_d_revalidate waits for itself beyond the
\* reach of signals.
THEOREM StickyWaits == Spec => []OnlyDRevalidateSticks
<1>1. IInv => OnlyDRevalidateSticks
  BY DEF IInv, LockBalanced, Holders, UninterruptibleWaits, OnlyDRevalidateSticks
<1> QED BY <1>1, InductiveInvariant, PTL

=============================================================================
