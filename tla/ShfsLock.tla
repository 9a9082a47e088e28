------------------------------ MODULE ShfsLock ------------------------------
(***************************************************************************)
(* The one lock of a shfs mount, info->shfs_mutex, and every way the VFS   *)
(* entry points of module/ take it.  It was introduced in place of the big *)
(* kernel lock AND of the socket semaphore, so two kinds of section now    *)
(* share it:                                                               *)
(*                                                                         *)
(*   - sock_lock (proc.h) waits interruptibly and brackets a conversation  *)
(*     with the remote server (every info->fops call);                     *)
(*   - mutex_lock waits uninterruptibly and brackets sections of dir.c,    *)
(*     dcache.c, inode.c and file.c, some of which call info->fops.        *)
(*                                                                         *)
(* A Linux mutex is not recursive: a thread that waits for a mutex it owns *)
(* waits for itself.  Which thread can do so, and which of them a signal   *)
(* frees, is what this module is about.  The lock of page 0 of a           *)
(* directory (the head of its readdir cache) is modelled too, because      *)
(* readdir keeps it while it takes the mutex.                              *)
(*                                                                         *)
(* What is abstracted: the conversation itself (module Connection), and    *)
(* the age of dentries and inodes, which is a choice at each check.        *)
(***************************************************************************)

CONSTANTS Procs,    \* threads inside system calls on the mount
          NoOne     \* the owner of a free lock

ASSUME NoOneAssumption == NoOne \notin Procs

VARIABLES owner,      \* owner of info->shfs_mutex
          pageOwner,  \* owner of the lock of the directory's page 0
          pc,         \* where each thread is
          back,       \* where its current info->fops call returns to
          up,         \* where its current shfs_revalidate_inode returns to
          res,        \* result of its last call: "ok" or "err"
          sig,        \* it has a signal pending
          mounted     \* the super block is in use

vars == <<owner, pageOwner, pc, back, up, res, sig, mounted>>
locks == <<owner, pageOwner>>

\* Waiting in mutex_lock: no signal ends it.
UninterruptibleWaits == {"revalidate", "d_revalidate", "readpage",
                         "invalidate_entries", "writeback"}

BackLabels == {"idle", "changed", "revalidate_out", "read_back",
               "release_page", "synced", "put_super"}
UpLabels == {"idle", "d_revalidate_out", "grab_page"}

Labels == UninterruptibleWaits \cup BackLabels \cup UpLabels \cup
          {"sock_lock", "talk", "invalid_dir", "refresh", "d_valid",
           "read_in", "read_out", "readdir", "writeback_out", "freed"}

TypeOK ==
  /\ owner \in Procs \cup {NoOne}
  /\ pageOwner \in Procs \cup {NoOne}
  /\ pc \in [Procs -> Labels]
  /\ back \in [Procs -> BackLabels]
  /\ up \in [Procs -> UpLabels]
  /\ res \in [Procs -> {"ok", "err"}]
  /\ sig \in [Procs -> BOOLEAN]
  /\ mounted \in BOOLEAN

Init ==
  /\ owner = NoOne
  /\ pageOwner = NoOne
  /\ pc = [p \in Procs |-> "idle"]
  /\ back = [p \in Procs |-> "idle"]
  /\ up = [p \in Procs |-> "idle"]
  /\ res = [p \in Procs |-> "ok"]
  /\ sig = [p \in Procs |-> FALSE]
  /\ mounted = TRUE

Goto(p, label) == pc' = [pc EXCEPT ![p] = label]

\* Call an operation of info->fops: it starts with sock_lock.
CallFops(p, return) ==
  /\ Goto(p, "sock_lock")
  /\ back' = [back EXCEPT ![p] = return]

\* Call shfs_revalidate_inode: it starts with mutex_lock.
CallRevalidate(p, return) ==
  /\ Goto(p, "revalidate")
  /\ up' = [up EXCEPT ![p] = return]

\* A thread enters the kernel; a signal it had was delivered before.
Enter(p) ==
  /\ mounted
  /\ pc[p] = "idle"
  /\ sig' = [sig EXCEPT ![p] = FALSE]
  /\ res' = [res EXCEPT ![p] = "ok"]
  /\ UNCHANGED <<owner, pageOwner, mounted>>

-----------------------------------------------------------------------------
(* sock_lock ... sock_unlock *)

\* Mutant: the test of sock_lock misses -EINTR.
SockLockIgnoringEintr(p) ==
  /\ pc[p] = "sock_lock"
  /\ owner = NoOne \/ sig[p]
  /\ owner' = p
  /\ Goto(p, "talk")
  /\ UNCHANGED <<pageOwner, back, up, res, sig, mounted>>

\* Mutant: a recursive lock, as the big kernel lock was.
SockLockRecursive(p) ==
  /\ pc[p] = "sock_lock"
  /\ owner \in {NoOne, p}
  /\ owner' = p
  /\ Goto(p, "talk")
  /\ UNCHANGED <<pageOwner, back, up, res, sig, mounted>>

SockLock(p) ==
  /\ pc[p] = "sock_lock"
  /\ owner = NoOne
  /\ owner' = p
  /\ Goto(p, "talk")
  /\ UNCHANGED <<pageOwner, back, up, res, sig, mounted>>

\* Mutant: mutex_lock in sock_lock.
SockLockUninterruptible(p) == pc[p] = "sock_lock" /\ FALSE

\* mutex_lock_interruptible gives up only when it would have to wait.
SockLockInterrupted(p) ==
  /\ pc[p] = "sock_lock"
  /\ owner # NoOne
  /\ sig[p]
  /\ res' = [res EXCEPT ![p] = "err"]
  /\ Goto(p, back[p])
  /\ UNCHANGED <<locks, back, up, sig, mounted>>

\* Mutant: the reply REP_NOTEMPTY is handed to callers that know 0 or < 0.
SockUnlockRawReply(p) ==
  /\ pc[p] = "talk"
  /\ owner' = NoOne
  /\ \E r \in {"ok", "err", "notempty"} : res' = [res EXCEPT ![p] = r]
  /\ Goto(p, back[p])
  /\ UNCHANGED <<pageOwner, back, up, sig, mounted>>

SockUnlock(p) ==
  /\ pc[p] = "talk"
  /\ owner' = NoOne
  /\ \E r \in {"ok", "err"} : res' = [res EXCEPT ![p] = r]
  /\ Goto(p, back[p])
  /\ UNCHANGED <<pageOwner, back, up, sig, mounted>>

-----------------------------------------------------------------------------
(* Calls that hold no lock of their own: lookup, open, readlink, statfs,   *)
(* setattr and the chmod of release.                                       *)

EnterFops(p) ==
  /\ Enter(p)
  /\ CallFops(p, "idle")
  /\ UNCHANGED up

\* mkdir, create, link, symlink, rmdir, unlink, rename
EnterChange(p) ==
  /\ Enter(p)
  /\ CallFops(p, "changed")
  /\ UNCHANGED up

\* The first four return at once on an error, the others invalidate the
\* parent's directory cache in any case.
Changed(p) ==
  /\ pc[p] = "changed"
  /\ \/ Goto(p, "invalid_dir")
     \/ res[p] = "err" /\ Goto(p, "idle")
  /\ UNCHANGED <<locks, back, up, res, sig, mounted>>

\* shfs_invalid_dir_cache locks page 0, ages its head and unlocks it; then
\* the caller returns, or instantiates the new entry with a stat (after a
\* success), or sends the chmod of release.
InvalidDirCache(p) ==
  /\ pc[p] = "invalid_dir"
  /\ pageOwner = NoOne
  /\ \/ Goto(p, "idle") /\ UNCHANGED back
     \/ /\ back[p] = "synced" \/ res[p] = "ok"
        /\ CallFops(p, "idle")
  /\ UNCHANGED <<locks, up, res, sig, mounted>>

-----------------------------------------------------------------------------
(* shfs_revalidate_inode, called by getattr, dir_open, readdir and         *)
(* d_revalidate *)

EnterGetattr(p) ==
  /\ Enter(p)
  /\ CallRevalidate(p, "idle")
  /\ UNCHANGED back

RevalidateLock(p) ==
  /\ pc[p] = "revalidate"
  /\ owner = NoOne
  /\ owner' = p
  /\ Goto(p, "refresh")
  /\ UNCHANGED <<pageOwner, back, up, res, sig, mounted>>

\* A bad inode, a fresh one, or the root: nothing is asked of the server.
RefreshLocally(p) ==
  /\ pc[p] = "refresh"
  /\ res' = [res EXCEPT ![p] = "ok"]
  /\ Goto(p, "revalidate_out")
  /\ UNCHANGED <<locks, back, up, sig, mounted>>

\* shfs_refresh_inode calls info->fops.stat with the mutex held.
\* What it does after a stat that succeeds is left out: none can
\* (NestedCallsNeverTalk).
RefreshStat(p) ==
  /\ pc[p] = "refresh"
  /\ CallFops(p, "revalidate_out")
  /\ UNCHANGED <<locks, up, res, sig, mounted>>

\* Mutant: readdir keeps the mutex until it has its listing.
RevalidateKeepsMutex(p) ==
  /\ pc[p] = "revalidate_out"
  /\ owner' = IF up[p] = "grab_page" THEN owner ELSE NoOne
  /\ Goto(p, up[p])
  /\ UNCHANGED <<pageOwner, back, up, res, sig, mounted>>

RevalidateUnlock(p) ==
  /\ pc[p] = "revalidate_out"
  /\ owner' = NoOne
  /\ Goto(p, up[p])
  /\ UNCHANGED <<pageOwner, back, up, res, sig, mounted>>

-----------------------------------------------------------------------------
(* shfs_d_revalidate *)

EnterDRevalidate(p) ==
  /\ Enter(p)
  /\ Goto(p, "d_revalidate")
  /\ UNCHANGED <<back, up>>

DRevalidateLock(p) ==
  /\ pc[p] = "d_revalidate"
  /\ owner = NoOne
  /\ owner' = p
  /\ Goto(p, "d_valid")
  /\ UNCHANGED <<pageOwner, back, up, res, sig, mounted>>

\* Young enough, or the inode is bad.
DRevalidateLocally(p) ==
  /\ pc[p] = "d_valid"
  /\ Goto(p, "d_revalidate_out")
  /\ UNCHANGED <<locks, back, up, res, sig, mounted>>

\* An old dentry: shfs_revalidate_inode is called with the mutex held.
DRevalidateOld(p) ==
  /\ pc[p] = "d_valid"
  /\ CallRevalidate(p, "d_revalidate_out")
  /\ UNCHANGED <<locks, back, res, sig, mounted>>

DRevalidateUnlock(p) ==
  /\ pc[p] = "d_revalidate_out"
  /\ owner' = NoOne
  /\ Goto(p, "idle")
  /\ UNCHANGED <<pageOwner, back, up, res, sig, mounted>>

-----------------------------------------------------------------------------
(* shfs_file_readpage and shfs_slow_read *)

EnterRead(p) ==
  /\ Enter(p)
  /\ Goto(p, "readpage")
  /\ UNCHANGED <<back, up>>

ReadLock(p) ==
  /\ pc[p] = "readpage"
  /\ owner = NoOne
  /\ owner' = p
  /\ Goto(p, "read_in")
  /\ UNCHANGED <<pageOwner, back, up, res, sig, mounted>>

\* The file cache has the bytes, or the name is too long.
ReadLocally(p) ==
  /\ pc[p] = "read_in"
  /\ Goto(p, "read_out")
  /\ UNCHANGED <<locks, back, up, res, sig, mounted>>

\* fcache_file_read or the handler itself calls info->fops.read or .write.
ReadServer(p) ==
  /\ pc[p] = "read_in"
  /\ CallFops(p, "read_back")
  /\ UNCHANGED <<locks, up, res, sig, mounted>>

\* readpage goes round its loop until the page is full or a read fails.
ReadBack(p) ==
  /\ pc[p] = "read_back"
  /\ \E more \in IF res[p] = "ok" THEN BOOLEAN ELSE {FALSE} :
       Goto(p, IF more THEN "read_in" ELSE "read_out")
  /\ UNCHANGED <<locks, back, up, res, sig, mounted>>

\* Mutant: the error path of readpage returns without its mutex_unlock.
ReadForgetsUnlock(p) ==
  /\ pc[p] = "read_out"
  /\ owner' = IF res[p] = "err" THEN owner ELSE NoOne
  /\ Goto(p, "idle")
  /\ UNCHANGED <<pageOwner, back, up, res, sig, mounted>>

ReadUnlock(p) ==
  /\ pc[p] = "read_out"
  /\ owner' = NoOne
  /\ Goto(p, "idle")
  /\ UNCHANGED <<pageOwner, back, up, res, sig, mounted>>

-----------------------------------------------------------------------------
(* shfs_readdir *)

EnterReaddir(p) ==
  /\ Enter(p)
  /\ CallRevalidate(p, "grab_page")
  /\ UNCHANGED back

ReaddirFails(p) ==
  /\ pc[p] = "grab_page"
  /\ res[p] = "err"
  /\ Goto(p, "idle")
  /\ UNCHANGED <<locks, back, up, res, sig, mounted>>

GrabPage(p) ==
  /\ pc[p] = "grab_page"
  /\ res[p] = "ok"
  /\ pageOwner = NoOne
  /\ pageOwner' = p
  /\ Goto(p, "readdir")
  /\ UNCHANGED <<owner, back, up, res, sig, mounted>>

\* No page to be had: the listing is read without a cache.
NoPage(p) ==
  /\ pc[p] = "grab_page"
  /\ res[p] = "ok"
  /\ CallFops(p, "release_page")
  /\ UNCHANGED <<locks, up, res, sig, mounted>>

ReaddirHit(p) ==
  /\ pc[p] = "readdir"
  /\ Goto(p, "release_page")
  /\ UNCHANGED <<locks, back, up, res, sig, mounted>>

ReaddirMiss(p) ==
  /\ pc[p] = "readdir"
  /\ Goto(p, "invalidate_entries")
  /\ UNCHANGED <<locks, back, up, res, sig, mounted>>

\* shfs_invalidate_dircache_entries walks the children under the mutex and
\* blocks nowhere in between; then the listing is read.
InvalidateEntries(p) ==
  /\ pc[p] = "invalidate_entries"
  /\ owner = NoOne
  /\ CallFops(p, "release_page")
  /\ UNCHANGED <<locks, up, res, sig, mounted>>

ReleasePage(p) ==
  /\ pc[p] = "release_page"
  /\ pageOwner' = IF pageOwner = p THEN NoOne ELSE pageOwner
  /\ Goto(p, "idle")
  /\ UNCHANGED <<owner, back, up, res, sig, mounted>>

-----------------------------------------------------------------------------
(* shfs_file_flush and shfs_file_release *)

\* fcache_file_sync and fcache_file_close write a dirty cache back, and do
\* so before the mutex is taken.
EnterFlush(p) ==
  /\ Enter(p)
  /\ \/ CallFops(p, "synced")
     \/ Goto(p, "synced") /\ UNCHANGED back
  /\ UNCHANGED up

Synced(p) ==
  /\ pc[p] = "synced"
  /\ Goto(p, IF res[p] = "ok" THEN "writeback" ELSE "invalid_dir")
  /\ back' = [back EXCEPT ![p] = "synced"]
  /\ UNCHANGED <<locks, up, res, sig, mounted>>

WritebackLock(p) ==
  /\ pc[p] = "writeback"
  /\ owner = NoOne
  /\ owner' = p
  /\ Goto(p, "writeback_out")
  /\ UNCHANGED <<pageOwner, back, up, res, sig, mounted>>

\* release may still have a chmod to send.
WritebackUnlock(p) ==
  /\ pc[p] = "writeback_out"
  /\ owner' = NoOne
  /\ \/ Goto(p, "idle") /\ UNCHANGED back
     \/ CallFops(p, "idle")
  /\ UNCHANGED <<pageOwner, up, res, sig, mounted>>

-----------------------------------------------------------------------------
(* shfs_put_super: only when no other call is inside the mount *)

EnterPutSuper(p) ==
  /\ mounted
  /\ \A q \in Procs : pc[q] = "idle"
  /\ mounted' = FALSE
  /\ sig' = [sig EXCEPT ![p] = FALSE]
  /\ CallFops(p, "put_super")
  /\ UNCHANGED <<locks, up, res>>

\* The mutex is taken and never released: the structure it is in is freed.
PutSuper(p) ==
  /\ pc[p] = "put_super"
  /\ owner = NoOne
  /\ owner' = p
  /\ Goto(p, "freed")
  /\ UNCHANGED <<pageOwner, back, up, res, sig, mounted>>

-----------------------------------------------------------------------------
\* A signal for a thread inside the kernel.
Signal(p) ==
  /\ pc[p] # "idle"
  /\ ~sig[p]
  /\ sig' = [sig EXCEPT ![p] = TRUE]
  /\ UNCHANGED <<locks, pc, back, up, res, mounted>>

\* What the scheduler runs once a thread is in the kernel.
Step(p) ==
  \/ SockLock(p) \/ SockLockInterrupted(p) \/ SockUnlock(p)
  \/ Changed(p) \/ InvalidDirCache(p)
  \/ RevalidateLock(p) \/ RefreshLocally(p) \/ RefreshStat(p)
  \/ RevalidateUnlock(p)
  \/ DRevalidateLock(p) \/ DRevalidateLocally(p) \/ DRevalidateOld(p)
  \/ DRevalidateUnlock(p)
  \/ ReadLock(p) \/ ReadLocally(p) \/ ReadServer(p) \/ ReadBack(p)
  \/ ReadUnlock(p)
  \/ ReaddirFails(p) \/ GrabPage(p) \/ NoPage(p) \/ ReaddirHit(p)
  \/ ReaddirMiss(p) \/ InvalidateEntries(p) \/ ReleasePage(p)
  \/ Synced(p) \/ WritebackLock(p) \/ WritebackUnlock(p)
  \/ PutSuper(p)

\* What users and the world do.
Call(p) ==
  \/ EnterFops(p) \/ EnterChange(p) \/ EnterGetattr(p)
  \/ EnterDRevalidate(p) \/ EnterRead(p) \/ EnterReaddir(p)
  \/ EnterFlush(p) \/ EnterPutSuper(p) \/ Signal(p)

Next == \E p \in Procs : Step(p) \/ Call(p)

\* A runnable thread is scheduled, and the server answers: nothing is
\* assumed of calls and signals.
Fairness == \A p \in Procs : WF_vars(Step(p))

Spec == Init /\ [][Next]_vars /\ Fairness

-----------------------------------------------------------------------------
(* Correctness *)

\* Threads whose current call has the mutex.
Holders ==
  {p \in Procs :
     \/ pc[p] \in {"talk", "refresh", "revalidate_out", "d_valid",
                   "d_revalidate_out", "read_in", "read_out", "read_back",
                   "writeback_out", "freed"}
     \/ pc[p] = "sock_lock" /\ back[p] \in {"revalidate_out", "read_back"}
     \/ pc[p] = "revalidate" /\ up[p] = "d_revalidate_out"}

\* At most one thread is in a conversation with the server, and it owns the
\* mutex: what "sock_lock held" asks of sock_write, sock_read and sock_readln
\* (proc.c), whose buffers are shared by the whole mount.
OneConversation ==
  \A p, q \in Procs :
    pc[p] = "talk" => owner = p /\ (pc[q] = "talk" => q = p)

\* The mutex is owned exactly by the thread that is between a lock and its
\* unlock, on every path through the handlers, their early returns included:
\* no call returns to user space with the mutex held, none releases the
\* mutex of another thread.
LockBalanced == \A p \in Procs : owner = p <=> p \in Holders

\* A handler that took the mutex before it called info->fops never gets
\* through to the server: its sock_lock finds the mutex owned by itself.  A
\* refresh of an old inode and a read that misses the file cache can end
\* with an error only.
NestedCallsNeverTalk ==
  \A p \in Procs :
    /\ pc[p] = "talk" => back[p] \notin {"revalidate_out", "read_back"}
    /\ pc[p] = "read_back" => res[p] = "err"

\* The page lock of the directory is never waited for with the mutex held
\* (readdir takes the two in the other order), so the two locks cannot make
\* two threads wait for each other.
PageLockBeforeMutex ==
  \A p \in Procs : pc[p] \in {"invalid_dir", "grab_page"} => owner # p

\* The only wait for the mutex by its own owner that no signal can end is the
\* one of shfs_d_revalidate calling shfs_revalidate_inode.
OnlyDRevalidateSticks ==
  \A p \in Procs :
    owner = p /\ pc[p] \in UninterruptibleWaits =>
      pc[p] = "revalidate" /\ up[p] = "d_revalidate_out"

\* A thread that waits for itself in sock_lock gives the mutex back once it
\* is signalled: the mount works again for the others.
SignalFreesMutex ==
  \A p \in Procs :
    (owner = p /\ pc[p] = "sock_lock" /\ sig[p]) ~> owner # p

\* What readdir means by "make sure our inode is up-to-date" (dir.c): it
\* comes back from the revalidation, whatever the others do.
ReaddirRevalidates ==
  \A p \in Procs :
    (pc[p] = "refresh" /\ up[p] = "grab_page") ~> (pc[p] = "grab_page")

=============================================================================
