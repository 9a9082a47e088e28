----------------------------- MODULE FCacheSlots -----------------------------
(***************************************************************************)
(* Who owns the read/write caches of module/fcache.c.  An inode has at     *)
(* most one cache (p->cache), every open file of the inode uses it, and    *)
(* the whole mount may have CacheMax of them (mount option cachemax): the  *)
(* counter info->fcache_free is what is left.                              *)
(*                                                                         *)
(* Only that counter has a lock, fcache_lock.  The pointer p->cache has    *)
(* none.  Reads, writes and the listing of a directory (which refreshes    *)
(* the inodes it meets) run under info->shfs_mutex, so they exclude each   *)
(* other; open, flush and release do not take it.  The module interleaves  *)
(* them at every point where one of them may be preempted or sleep.        *)
(*                                                                         *)
(* What is in a cache is abstracted to one bit, "it has dirty bytes": the  *)
(* contents are the subject of module FCache.  A file has one operation in *)
(* progress at a time.                                                     *)
(***************************************************************************)
EXTENDS Integers, FiniteSets

CONSTANTS Files,      \* struct file's of the mount
          Inodes,     \* inodes of regular files
          Objs,       \* addresses where a struct shfs_file may be
          CacheMax,   \* mount option cachemax
          MaxOpens,   \* bound: number of calls of open
          NoObj, NoInode, NoFile, Lister

ASSUME CacheMaxAssumption == CacheMax \in Nat
ASSUME MaxOpensAssumption == MaxOpens \in Nat
ASSUME FiniteAssumption == IsFiniteSet(Files) /\ IsFiniteSet(Objs)
ASSUME NoneAssumption ==
  /\ NoObj \notin Objs /\ NoInode \notin Inodes
  /\ {NoFile, Lister} \cap Files = {} /\ NoFile # Lister

VARIABLES
  free,        \* info->fcache_free
  home,        \* the inode a cache was allocated for (NoInode: not allocated)
  cache,       \* p->cache of an inode
  dirty,       \* caches of type SHFS_FCACHE_WRITE with a count
  ino,         \* inode of an open file
  pc, op,      \* where a file's operation is, and which it is
  local,       \* its (and the directory listing's) copy of p->cache
  mutex,       \* owner of info->shfs_mutex
  listing,     \* the inode the directory listing refreshes
  \* history
  opens,       \* calls of open so far
  lost,        \* slots taken for a cache that could not be allocated
  extra,       \* slots given back for a cache that was free already
  syncFailed,  \* a release gave up because the server refused the data
  overlapped,  \* two operations that clash ran at the same time
  stray        \* memory was touched that is not the inode's cache

files == <<ino, pc, op, local>>
history == <<opens, lost, extra, syncFailed, overlapped, stray>>
vars == <<free, home, cache, dirty, files, mutex, listing, history>>

Labels == {"closed", "ready", "test", "slot", "kmem", "attach", "load",
           "use", "asleep", "sync", "writing", "free", "unslot", "detach"}

TypeOK ==
  /\ free \in Nat
  /\ home \in [Objs -> Inodes \cup {NoInode}]
  /\ cache \in [Inodes -> Objs \cup {NoObj}]
  /\ dirty \subseteq Objs
  /\ ino \in [Files -> Inodes \cup {NoInode}]
  /\ pc \in [Files -> Labels]
  /\ op \in [Files -> {"none", "open", "access", "flush", "release"}]
  /\ local \in [Files \cup {Lister} -> Objs \cup {NoObj}]
  /\ mutex \in Files \cup {NoFile, Lister}
  /\ listing \in Inodes \cup {NoInode}
  /\ opens \in 0..MaxOpens
  /\ lost \in Nat /\ extra \in Nat
  /\ syncFailed \in BOOLEAN /\ overlapped \in BOOLEAN /\ stray \in BOOLEAN
  /\ \A f \in Files : pc[f] = "closed" \/ ino[f] \in Inodes
  /\ \A f \in Files : pc[f] \in {"use", "asleep", "writing"} => local[f] \in Objs

\* Mount: fcache_free is the default or the option's value.
Init ==
  /\ free = CacheMax
  /\ home = [o \in Objs |-> NoInode]
  /\ cache = [i \in Inodes |-> NoObj]
  /\ dirty = {}
  /\ ino = [f \in Files |-> NoInode]
  /\ pc = [f \in Files |-> "closed"]
  /\ op = [f \in Files |-> "none"]
  /\ local = [f \in Files \cup {Lister} |-> NoObj]
  /\ mutex = NoFile
  /\ listing = NoInode
  /\ opens = 0 /\ lost = 0 /\ extra = 0
  /\ syncFailed = FALSE /\ overlapped = FALSE /\ stray = FALSE

\* The allocated caches.
live == {o \in Objs : home[o] # NoInode}

Goto(f, label) == pc' = [pc EXCEPT ![f] = label]

Resting == {"closed", "ready"}

\* The operations in progress on inode i.
Running(i) ==
  {op[f] : f \in {g \in Files : ino[g] = i /\ pc[g] \notin Resting}}
    \cup IF listing = i THEN {"list"} ELSE {}

\* A release may not run beside anything else, an open not beside what may
\* allocate too.
Clash(a, b) ==
  \/ "release" \in {a, b}
  \/ "open" \in {a, b} /\ {a, b} \subseteq {"open", "access"}

\* An operation starts on inode i.
Overlap(i, what) ==
  overlapped' = (overlapped \/ \E other \in Running(i) : Clash(what, other))

Begin(f, i, what) ==
  /\ op' = [op EXCEPT ![f] = what]
  /\ Overlap(i, what)

\* o is used as the cache of inode i: is it that?
Touch(i, o) ==
  stray' = (stray \/ home[o] # i)

-----------------------------------------------------------------------------
(* alloc_fcache, called by fcache_file_open and by the first access *)

\* Mutant: the test of fcache_free is off by one.
AllocSlotOneMore(f) ==
  /\ pc[f] = "slot"
  /\ IF free >= 0
     THEN free' = free - 1 /\ Goto(f, "kmem") /\ UNCHANGED local
     ELSE UNCHANGED free /\ Goto(f, "attach") /\ local' = [local EXCEPT ![f] = NoObj]
  /\ UNCHANGED <<home, cache, dirty, ino, op, mutex, listing, history>>

\* Under fcache_lock.
AllocSlot(f) ==
  /\ pc[f] = "slot"
  /\ IF free > 0
     THEN free' = free - 1 /\ Goto(f, "kmem") /\ UNCHANGED local
     ELSE UNCHANGED free /\ Goto(f, "attach") /\ local' = [local EXCEPT ![f] = NoObj]
  /\ UNCHANGED <<home, cache, dirty, ino, op, mutex, listing, history>>

\* kmem_cache_alloc and vmalloc, which may sleep.
AllocMemory(f) ==
  /\ pc[f] = "kmem"
  /\ \E o \in Objs \ live :
       /\ home' = [home EXCEPT ![o] = ino[f]]
       /\ dirty' = dirty \ {o}
       /\ local' = [local EXCEPT ![f] = o]
  /\ Goto(f, "attach")
  /\ UNCHANGED <<free, cache, ino, op, mutex, listing, history>>

\* One of the two fails: the slot is not given back.
AllocFails(f) ==
  /\ pc[f] = "kmem"
  /\ lost' = lost + 1
  /\ local' = [local EXCEPT ![f] = NoObj]
  /\ Goto(f, "attach")
  /\ UNCHANGED <<free, home, cache, dirty, ino, op, mutex, listing, opens,
                 extra, syncFailed, overlapped, stray>>

\* p->cache = alloc_fcache(info), whatever p->cache is by now.
Attach(f) ==
  /\ pc[f] = "attach"
  /\ cache' = [cache EXCEPT ![ino[f]] = local[f]]
  /\ Goto(f, IF op[f] = "open" THEN "ready" ELSE "load")
  /\ UNCHANGED <<free, home, dirty, ino, op, local, mutex, listing, history>>

-----------------------------------------------------------------------------
(* shfs_file_open, after the server agreed *)

Open(f, i) ==
  /\ pc[f] = "closed"
  /\ opens < MaxOpens
  /\ opens' = opens + 1
  /\ ino' = [ino EXCEPT ![f] = i]
  /\ Begin(f, i, "open")
  /\ Goto(f, "test")
  /\ UNCHANGED <<free, home, cache, dirty, local, mutex, listing, lost, extra,
                 syncFailed, stray>>

\* if (!p->cache) of fcache_file_open, _read and _write
Test(f) ==
  /\ pc[f] = "test"
  /\ Goto(f, CASE cache[ino[f]] = NoObj -> "slot"
               [] op[f] = "open" -> "ready"
               [] OTHER -> "load")
  /\ UNCHANGED <<free, home, cache, dirty, ino, op, local, mutex, listing, history>>

-----------------------------------------------------------------------------
(* fcache_file_read and fcache_file_write, under info->shfs_mutex *)

Access(f) ==
  /\ pc[f] = "ready"
  /\ mutex = NoFile
  /\ mutex' = f
  /\ Begin(f, ino[f], "access")
  /\ Goto(f, "test")
  /\ UNCHANGED <<free, home, cache, dirty, ino, local, listing, opens, lost,
                 extra, syncFailed, stray>>

\* Without a cache the server is asked directly.
Load(f) ==
  /\ pc[f] = "load"
  /\ local' = [local EXCEPT ![f] = cache[ino[f]]]
  /\ IF cache[ino[f]] = NoObj THEN Goto(f, "ready") /\ mutex' = NoFile
     ELSE Goto(f, "use") /\ UNCHANGED mutex
  /\ UNCHANGED <<free, home, cache, dirty, ino, op, listing, history>>

\* The bytes are copied to or from the cache; or the server has to be asked
\* first, and the thread sleeps.
Use(f) ==
  /\ pc[f] = "use"
  /\ Touch(ino[f], local[f])
  /\ \/ Goto(f, "asleep") /\ UNCHANGED <<mutex, dirty>>
     \/ /\ Goto(f, "ready")
        /\ mutex' = NoFile
        /\ \/ dirty' = dirty \cup {local[f]}
           \/ UNCHANGED dirty
  /\ UNCHANGED <<free, home, cache, ino, op, local, listing, opens, lost,
                 extra, syncFailed, overlapped>>

\* The server answered: the cache is touched again, whatever the answer.  A
\* read that found dirty bytes wrote them; an access may leave new ones.
Wake(f) ==
  /\ pc[f] = "asleep"
  /\ Touch(ino[f], local[f])
  /\ \/ Goto(f, "use") /\ UNCHANGED mutex
     \/ Goto(f, "ready") /\ mutex' = NoFile
  /\ dirty' \in {dirty \cup {local[f]}, dirty \ {local[f]}}
  /\ UNCHANGED <<free, home, cache, ino, op, local, listing, opens, lost,
                 extra, syncFailed, overlapped>>

-----------------------------------------------------------------------------
(* fcache_file_sync, for shfs_file_flush and shfs_file_release *)

Flush(f) ==
  /\ pc[f] = "ready"
  /\ Begin(f, ino[f], "flush")
  /\ Goto(f, "sync")
  /\ UNCHANGED <<free, home, cache, dirty, ino, local, mutex, listing, opens,
                 lost, extra, syncFailed, stray>>

Release(f) ==
  /\ pc[f] = "ready"
  /\ Begin(f, ino[f], "release")
  /\ Goto(f, "sync")
  /\ UNCHANGED <<free, home, cache, dirty, ino, local, mutex, listing, opens,
                 lost, extra, syncFailed, stray>>

\* Where fcache_file_sync returns to.
Synced(f) == Goto(f, IF op[f] = "flush" THEN "ready" ELSE "free")

Sync(f) ==
  LET o == cache[ino[f]] IN
  /\ pc[f] = "sync"
  /\ local' = [local EXCEPT ![f] = o]
  /\ \/ o = NoObj /\ Synced(f) /\ UNCHANGED stray
     \/ /\ o # NoObj
        /\ Touch(ino[f], o)
        /\ IF o \in dirty THEN Goto(f, "writing") ELSE Synced(f)
  /\ UNCHANGED <<free, home, cache, dirty, ino, op, mutex, listing, opens,
                 lost, extra, syncFailed, overlapped>>

\* The server answered.  The cache counts as clean even if it refused.
SyncWrote(f) ==
  /\ pc[f] = "writing"
  /\ Touch(ino[f], local[f])
  /\ dirty' = dirty \ {local[f]}
  /\ \/ Synced(f) /\ UNCHANGED syncFailed
     \/ /\ Goto(f, IF op[f] = "flush" THEN "ready" ELSE "closed")
        /\ syncFailed' = (syncFailed \/ op[f] = "release")
  /\ UNCHANGED <<free, home, cache, ino, op, local, mutex, listing, opens,
                 lost, extra, overlapped>>

-----------------------------------------------------------------------------
(* free_fcache, for fcache_file_close *)

FreeNothing(f) ==
  /\ pc[f] = "free"
  /\ cache[ino[f]] = NoObj
  /\ Goto(f, "closed")
  /\ UNCHANGED <<free, home, cache, dirty, ino, op, local, mutex, listing, history>>

Free(f) ==
  /\ pc[f] = "free"
  /\ \E o \in Objs :
       /\ cache[ino[f]] = o
       /\ home' = [home EXCEPT ![o] = NoInode]
       /\ extra' = IF o \in live THEN extra ELSE extra + 1
  /\ Goto(f, "unslot")
  /\ UNCHANGED <<free, cache, dirty, ino, op, local, mutex, listing, opens,
                 lost, syncFailed, overlapped, stray>>

\* Mutant: fcache_free is set back to what the option says.
FreeSlotResets(f) ==
  /\ pc[f] = "unslot"
  /\ free' = CacheMax
  /\ Goto(f, "detach")
  /\ UNCHANGED <<home, cache, dirty, ino, op, local, mutex, listing, history>>

\* Mutant: the slot is not given back.
FreeSlotForgets(f) ==
  /\ pc[f] = "unslot"
  /\ Goto(f, "detach")
  /\ UNCHANGED <<free, home, cache, dirty, ino, op, local, mutex, listing, history>>

FreeSlot(f) ==
  /\ pc[f] = "unslot"
  /\ free' = free + 1
  /\ Goto(f, "detach")
  /\ UNCHANGED <<home, cache, dirty, ino, op, local, mutex, listing, history>>

\* Mutant: p->cache keeps pointing at what was freed.
DetachNothing(f) ==
  /\ pc[f] = "detach"
  /\ Goto(f, "closed")
  /\ UNCHANGED <<free, home, cache, dirty, ino, op, local, mutex, listing, history>>

Detach(f) ==
  /\ pc[f] = "detach"
  /\ cache' = [cache EXCEPT ![ino[f]] = NoObj]
  /\ Goto(f, "closed")
  /\ UNCHANGED <<free, home, dirty, ino, op, local, mutex, listing, history>>

-----------------------------------------------------------------------------
(* shfs_fill_cache meets the inode in a listing and finds it changed:      *)
(* fcache_file_clear, inside the conversation of do_ls *)

Clear(i) ==
  /\ mutex = NoFile
  /\ cache[i] # NoObj
  /\ mutex' = Lister
  /\ listing' = i
  /\ local' = [local EXCEPT ![Lister] = cache[i]]
  /\ Overlap(i, "list")
  /\ UNCHANGED <<free, home, cache, dirty, ino, pc, op, opens, lost, extra,
                 syncFailed, stray>>

\* Its count is read, and set to 0 if it is clean.
ClearDone ==
  /\ mutex = Lister
  /\ Touch(listing, local[Lister])
  /\ mutex' = NoFile
  /\ listing' = NoInode
  /\ UNCHANGED <<free, home, cache, dirty, files, opens, lost, extra,
                 syncFailed, overlapped>>

\* The inode is dropped when nobody has it open.  Nothing frees p->cache:
\* shfs_delete_inode is commented out.
Evict(i) ==
  /\ \A f \in Files : ino[f] = i => pc[f] = "closed"
  /\ listing # i
  /\ cache[i] # NoObj
  /\ cache' = [cache EXCEPT ![i] = NoObj]
  /\ UNCHANGED <<free, home, dirty, files, mutex, listing, history>>

-----------------------------------------------------------------------------
Step(f) ==
  \/ Test(f) \/ AllocSlot(f) \/ AllocMemory(f) \/ AllocFails(f) \/ Attach(f)
  \/ Load(f) \/ Use(f) \/ Wake(f)
  \/ Sync(f) \/ SyncWrote(f)
  \/ FreeNothing(f) \/ Free(f) \/ FreeSlot(f) \/ Detach(f)

Call(f) == (\E i \in Inodes : Open(f, i)) \/ Access(f) \/ Flush(f) \/ Release(f)

Next ==
  \/ \E f \in Files : Step(f) \/ Call(f)
  \/ \E i \in Inodes : Clear(i) \/ Evict(i)
  \/ ClearDone

Spec == Init /\ [][Next]_vars

-----------------------------------------------------------------------------
(* Correctness *)

In(label) == {f \in Files : pc[f] = label}
AllClosed == \A f \in Files : pc[f] = "closed"

\* What info->fcache_free counts: every slot is free, or in a cache, or on
\* its way between the two, or was lost in a failed allocation.  Slots
\* appear from nothing only where a cache is freed twice.
SlotAccounting ==
  free + Cardinality(live) + Cardinality(In("kmem")) + Cardinality(In("unslot"))
    + lost = CacheMax + extra

\* The limit of the mount holds through every interleaving of open, access
\* and release, as long as no cache is freed twice.
LimitHolds == extra = 0 => Cardinality(live) <= CacheMax

\* Files of one inode may share its cache, and may be opened, read, flushed
\* and closed in any order: if a release meets no other operation of the
\* inode, and an open no other open or access, then no thread touches a
\* cache that is not the inode's, and none is freed twice.
ApartIsSafe == ~overlapped => ~stray /\ extra = 0

\* Under the same condition the last close gives everything back: all slots
\* but the lost ones are free again.  (A release whose data the server
\* refused keeps the cache.)
SlotsComeBack ==
  AllClosed /\ ~overlapped /\ ~syncFailed =>
    live = {} /\ free + lost = CacheMax

\* "File cache memory leak hopefully fixed": with every file closed, and no
\* failure on the way, no cache is left.
NothingLeaks ==
  AllClosed /\ lost = 0 /\ ~syncFailed => live = {}

=============================================================================
