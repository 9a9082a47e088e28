# shfs: a TLA+ model

shfs mounts a remote directory through a plain shell connection: a kernel
module (`src/module`) turns VFS calls into lines of shell commands, writes them
to a socket, and parses what a remote shell (`src/tool/shell-code.in`, or a perl
variant) prints; `shfsmount` (`src/tool`) starts ssh, loads the remote code and
mounts. This directory holds TLA+ modules of its core, TLC configurations that
check them on small instances, and TLAPS proofs for all instances. Every
definition that stands for code is listed in `PROJECT.json` under `map` with the
lines it models.

## Inventory

| Component | State | Operations | Hard parts | What makes it correct |
|---|---|---|---|---|
| Locking (`proc.h`; callers in `dir.c`, `dcache.c`, `inode.c`, `file.c`) | `shfs_mutex`, lock of a directory's page 0, pending signals | `sock_lock`/`sock_unlock` around every conversation, `mutex_lock` sections of readpage, revalidate, d_revalidate, flush, dircache invalidation | one non-recursive mutex for two purposes, nested calls, interruptible and uninterruptible waits | mutual exclusion, balance on every path, lock order, no wait that nobody can end |
| Connection (`proc.c`, operations of `shell.c`) | socket, line buffer, noted garbage | `sock_write`, `sock_read`, `sock_readln`, `clear_garbage`; `do_command`, `do_ls`, `shell_read`, `shell_write`, `shell_readlink`, `shell_statfs` | no message boundaries, no request numbers, short reads, signals, hang-ups, full disks | an operation takes its own replies only; nothing is left behind; data are never run as commands; operations end |
| Remote server (`shell-code.in`, `perl-code.in`) | files, temporary directory | one shell function per request | paths that print nothing, or read what nobody sends | its output is what the client counts on |
| File cache, contents (`fcache.c`) | type, new, offset, bytes | read with read-ahead, write, sync, close, clear | refused writes, staleness, run boundaries, alignment | users see one file |
| File cache, ownership (`fcache.c`, `file.c`) | `p->cache`, `fcache_free` | open, access, flush, release, refresh, eviction | unlocked test and assignment, sleeping allocations and writes | limit, no leak, no use of freed memory |
| Directory cache (`dcache.c`, `dir.c`) | pages of dentry pointers, head (time, eof, end) | fill, lookup by position, invalidate | stale pages, listings longer than the caller's buffer | a listing shows each entry once, renames aside |
| Ageing (`dir.c`, `inode.c`) | `d_time`, `oldmtime`, inode attributes | renew, age, revalidate, refresh | boundaries of the ttl, age read before a wait | what is shown is not older than the ttl |
| Namespace (`dir.c`, `symlink.c`) | dentries, remote tree | lookup, mkdir, create, rename, link, ... | remote success and local failure, or the reverse | local view follows the remote tree |
| Attributes and options (`proc.c`) | inode attributes, mount options | `shfs_notify_change`, `parse_options`, `get_name` | several commands of which one fails | local attributes are what the server took |
| Mount tools (`shfsmount.c`, `shfsumount.c`, `proto.c`) | mtab, its lock file, socket | mount, reconnect loop, umount | crashes between steps, backoff, one lock file for both | mtab keeps every entry that a full disk lets it keep |

Interactions. The VFS handlers call `info->fops`, which lock the mutex, write one
command and read its replies; while they parse a listing they call back into the
directory cache and refresh inodes, which clears file caches. The file cache sits
between the page cache and `info->fops`. `shfsmount` passes the socket as a mount
option.

## Modules

| Module | Models | Proved in |
|---|---|---|
| `ShfsLock` | the mutex and every path that takes it | `ShfsLockProof` |
| `Connection` | client, stream and either server | `ConnectionProof` |
| `FCacheSlots` (`MCFCacheSlots`) | ownership of file caches | `FCacheSlotsProof` |
| `RemoteFile` | what the file cache promises: an abstract specification | `FCacheProof` (the refinement) |
| `FCache` (`MCFCache`) | the bytes in the file cache; implements `RemoteFile` | `FCacheProof`, `ReadAheadProof` |
| `RemoteDirectory` | what the cache of a listing promises: an abstract specification | `DirCacheProof` (the refinement) |
| `DirCache` (`MCDirCache`) | the pages of a directory's listing, and sweeps that read it; implements `RemoteDirectory` | `DirCacheProof` |
| `Namespace` (`MCNamespace`) | names of a directory: the server's, and the beliefs in dentries and inodes with their ages | `NamespaceProof` |
| `Mount` (`MCMount`) | `shfsmount`, `shfsumount`, and what the kernel does for them | `MountProof` |

The parts share their boundaries: `Connection` has one client because
`ShfsLock` shows that conversations exclude each other; `FCache` runs one
operation at a time because `FCacheSlots` has the interleavings; `ShfsLock` and
`FCacheSlots` reduce a conversation to one step because `Connection` has the rest.
`DirCache` and `Namespace` both have `shfs_fill_cache`: the one follows pointers and
positions, the other attributes and times. `Mount` ends where a connection is
handed to the kernel, in step (`HandedOverClean`), which is where `Connection`
begins.

**ShfsLock.** `pc[p]` is the place of thread `p` in its handler; labels that wait
for a lock are named after the handler. `back` and `up` are the return addresses
of `info->fops` calls and of `shfs_revalidate_inode`. `CallFops` is the call,
`SockLock`, `SockLockInterrupted` and `SockUnlock` the two functions of `proc.h`.
Ages, cache hits and replies are nondeterministic. What `shfs_refresh_inode` does
after a successful stat is not there, as no stat of it can succeed
(`NestedCallsNeverTalk`): were that repaired, its call of
`shfs_invalid_dir_cache` (inode.c:168) would wait for a page lock with the mutex
held. Pages of a directory other than page 0 are only locked by the owner of
page 0 and are left out.

**Connection.** Both directions are sequences of elements: a line, or a block of
raw bytes. Elements carry the number of the request they were written for, which
the program cannot see; the properties can. `prog` is what the running shell
function will still print or read; each function is a set of such programs, one
family for the shell server and one for the perl server; `variant` says which of
them runs. They differ where the code does: the shell drops the data of a write that
failed half way by reading the announced number once more, perl reads all data
before it stores any; perl refuses reads of a file it cannot open, the shell sends
zeros; perl's main loop answers an unknown command, the shell is silent. `cause`
records the five events after which client and server are known to be out
of step, each an action of the code:

- `short`: the socket brought less than `sock_read` was asked for;
- `blank`: `do_ls` took a blank line for the end;
- `abandoned`: `do_ls` stopped because `shfs_fill_cache` had no room;
- `unanswered`: the server's function prints fewer lines than are waited for;
- `unsized`: the perl server tells the size of a sequential read without a newline
  (perl-code.in:170), so that it runs into the data.

A symbolic link's target is printed as it is, so that it may be no line, one, or more
(`Targets`): with a newline in it `shell_readlink` notes garbage and leaves a reply in
the stream (shell.c:803). The safety properties hold until one of the causes happens;
while garbage is noted, `NothingLeftBehind` says only that garbage of a known length is
all the server's to read. The first is refuted on its
own by `connection_short`. Kernels from 2.6.19 are modelled (the other branch of
the `#if`s loops). The remote end may vanish at any time, and a sleeping client
may be killed.

**FCacheSlots.** One action for every stretch of `fcache.c` between two points at
which the thread may be preempted or sleep. A cache is an address of `Objs`; `home`
is the inode it was allocated for. Reads, writes and listings exclude each other
by the mutex, as in the code; open, flush and release do not. The history
variables say what went wrong: `stray` (memory touched that is not the inode's
cache), `extra` (freed twice), `lost` (slot gone with a failed allocation),
`overlapped` (a release ran beside another operation of the inode, or an open
beside an open or access).

**FCache and RemoteFile.** `file` is what the server has, `cache` the structure of
the code with its bytes. `RemoteFile` has one file `content`; the refinement maps
it to `Overlay`, the server's bytes with the dirty ones over them, `unsaved` to the
addresses of dirty bytes. It allows three departures from a plain file: stale
bytes until the next refresh (a truncation by `shfs_notify_change` does not tell
the cache either), loss of unsaved bytes in a step in which the server
refuses a write, and arbitrary reads while the run in the cache is `Misplaced`,
the case that `fcache_reads` shows. `fcache_file_write` has no caller in this tree
(the commit_write hook is commented out); it is modelled as the component's
interface. Likewise `info->fops` may succeed here: in this tree readpage holds the
mutex around it, so a read that misses the cache fails (`ShfsLock`); `FCache` says
what the cache does once that is repaired, and what sync and close do today. The
arithmetic of offsets is not bounded by 32 bits here.

**DirCache and RemoteDirectory.** A slot of a page holds the name whose dentry is at that address now,
or `None`; freeing a dentry empties the slots that point to it, and a new dentry may
land where one of them points (`Alloc`). `Begin`, `ServeCache` and `Refill` are one
call of `shfs_readdir`: the first entries and the refresh, then the rest from the
pages, or from the server with the pages filled anew. `Readings` are the listings a
refill may see, those that break off included: the code keeps these as whole ones.
`Rename` is one within the directory: `d_move` gives the dentry another name, and it
keeps its position and is where the slot points, so that a sweep may be given a name
again that another was renamed to (`taken`). One from another directory is a `Create`.
Ghosts: `got` is what a sweep was given, `excuse` the names nothing is promised of,
`taken` those just mentioned, `moved` says that the names in front of `f_pos` have
changed under the sweep, and `disturbed` that something happened that is known to do so. `RemoteDirectory` has one
set of names, `content`, and the sweeps without pages, dentries and positions; the
refinement maps `content` to `remote`, and the two halves of a call to one state
(`Shown`). There a call goes on with what its sweep was given, each name once (but for `taken`) and
rightly; the first call of a sweep may leave out what is `unlisted`, which a change from
this side takes a name out of and a change by others, or a listing that breaks off, puts
it in; a sweep whose names have moved is promised nothing.

**Namespace.** An operation is one step, as the VFS holds `i_mutex`; the names are
resolved first (`Resolve`: `shfs_d_revalidate`, then `shfs_lookup`). `mode` and `ops`
are apart because a listing overwrites `i_mode` and leaves the operations
(dcache.c:171). `dAge` and `iAge` are `jiffies - d_time` and `jiffies - oldmtime`. An
operation may be refused, done, or done without the client hearing of it. `suspect`
says for each name that a belief may be wrong, `same` that the inode is of the very thing
the server has, and not of another of the same type, `wrongFor` for how long the type
has been wrong, `renewed` that its time was renewed without an answer about it. The two
servers rename differently: perl's replaces the target, the shell's `mv -f` moves into a
directory, or a link to one, that is in the way (`MovedTo`). rmdir changes
nothing: `!d_unhashed` refuses every directory the VFS passes (dir.c:319). As in
`FCache`, a refresh may succeed here.

**Mount.** Every process runs once, from its start to its exit, and may be killed
between any two steps. A conversation in `init_sh` reads what the parsers make of the
remote side's lines, greetings included. `mounts` and `held` are the kernel's:
`DoMount` is `shfs_read_super` with the rounding of `cachesize`, `MountHangs` the mount
with `cachesize=0`, whose loop never ends. `update_mtab` is one action per file
operation, in both programs: `O_EXCL` on `mtab~`, then an entry appended, or a copy
without the mount point's entries renamed over mtab; every error path leaves the lock
file. What the programs do not look at may go wrong silently: an entry may not reach
mtab when its buffer is flushed (`AddEntry`), and only some entries the copy
(`CopyEntries`, noted by `cut`). An entry is written or not; the remains of one are not
an entry. A persistent `shfsmount` closes its socket, waits for its ssh, connects again
and calls an ioctl that nobody answers (`shfs_ioctl` is in no `file_operations`), so it
exits: the first broken connection is the last. A failed second `create_socket` is
not noticed, and descriptor -1 handed on (shfsmount.c:656-664).

## Runs

| Run | Result | Shows |
|---|---|---|
| `lock` | holds, 152,517 states | exclusion, balance, lock order; nested calls never reach the server; a signal frees a thread that waits for itself in `sock_lock` |
| `lock_readdir` | **violated** | readdir of an old directory never comes back from its refresh (inode.c:186) |
| `connection` | holds, 974,048 states | replies are the operation's own, nothing left behind unless garbage is noted, garbage covers what a failed write still makes the server read, data are not run as commands, success means stored, operations end |
| `connection_short` | **violated** | a short read shifts the replies of later operations (proc.c:288) |
| `connection_garbage` | **violated** | `clear_garbage` waits for the answer to a ping without newline (proc.c:471) |
| `fcache_slots` | holds, about 2 million states | slot accounting, limit, safety and return of slots when operations do not overlap |
| `fcache_slots_leak` | **violated** | two racing opens orphan a cache (fcache.c:108) |
| `fcache` | holds, 692,372 states | alignment of server reads, clean bytes were seen, refinement of `RemoteFile` |
| `fcache_reads` | **violated** | a run noted at the wrong offset returns shifted bytes (fcache.c:257) |
| `dircache` | holds, 2.2 million states | a sweep gives every name once, renames to it aside (`SweepExact`); removing what it gave moves nothing (`RemovalSafe`); refinement of `RemoteDirectory` (`ListsOneDirectory`) |
| `namespace` | holds, 459,636 states | a belief is wrong only for a named reason (`SuspectOnly`), and a wrong type is not trusted for longer than the ttl but for named exceptions (`BeliefBounded`) |
| `mount` | holds, 596,824 states | one writer of mtab, no entry of others lost but where a copy was cut short, mtab agrees with the mounts, clean handover, size of the cache, the daemon ends |

`SweepExact` excuses names that changed on the way and those that a listing which
broke off did not reach, and is silent on sweeps whose names have moved; what may
make them move is the subject of `RemovalSafe`, which excludes that `rm -rf` does it
by itself. It has one more exception: a dentry that a rename moved keeps its position,
so a sweep that was given 1 and 2 of 1, 2, 3 gets 1 again if 3 is renamed to it
(dir.c:331; the age of the cache is only looked at where a sweep begins, line 98).

`SuspectOnly` compares the very thing behind a name, not only its type. Its exceptions
are changes by others, errors and lost answers, a refused rename, and the one success
that misleads the client: with the shell server, a directory renamed over a directory
is moved into it (`MovedAway`), and the mount takes one for the other.

`BeliefBounded` names the ways in which a wrong belief outlives the ttl: a lookup inside
a directory that is gone (dir.c:214 renews the parents although the comment above
`shfs_renew_times` speaks of lookups that succeed), one that failed, an open, or a
rename; an inode whose mode a listing changed; a symbolic link; and a listing itself.
`shfs_age_dentry` sets an age that `shfs_d_revalidate` (`<=`, dir.c:466) still trusts
until the next tick. So a listing, whether it broke off or found the name gone, revives a
dentry that had expired, where the comment at dcache.c:59 says "Mark all dentries for 'parent' as
invalid, forcing them to be re-read". Which type a name has is bounded so; that it is
another thing of the same type is not noticed by the code at all.

`OthersKept` lets a rename lose entries of other mount points only where the copy was cut
short: `shfsumount` does not look at what `addmntent` and `endmntent` return
(shfsumount.c:86 and 94) and renames a partial copy over mtab. `MtabAgrees` is silent once
one of the known reasons has come up: `nomtab`, a mount over a mount, an unmount that
overlaps another update, a lock that was taken, a failed write, an update given up, or a
kill (`apart`).

Each property of a passing run has a mutated form of an action or helper beside
the original (comment "Mutant"), listed in `PROJECT.json`, under which TLC
violates it.

### Bounds

- `lock`: two threads. Every property relates at most two threads and the owner of
  a lock; the proofs cover any number. Calls are not bounded.
- `connection`: three requests (one leaves something, one clears or trips over it,
  one follows), up to two blocks of data so that a part may arrive, one line of a
  listing besides its end, up to two of a link's target, a line buffer of three
  elements, so that it can be full.
- `fcache_slots`: three opens of three files on two inodes and two slots, so that
  slots run out, two files share an inode and a third has another one; three
  addresses, so that a freed one can be reused while it is still pointed at.
  Files, inodes and addresses are symmetric.
- `fcache`: pages of two bytes, a cache of two pages, a file of four: a run can
  grow, be too long, and begin at a position that is not a multiple of the
  read-ahead length. Two edits (a write, or a change by others) and two byte
  values besides zero, which are symmetric. Reads are unbounded.
- `fcache_reads`: two pages suffice.
- `dircache`: three names and pages of two pointers, the first with room for one, so
  that a listing spans two pages and a call may end at a page's end or before; two
  sweeps, so that one refills under the other; ttl of one tick; two events (a change,
  something reclaimed, a broken listing), as every departure needs at most two. `MCSpec`
  starts with all three names, or without the middle one, which leaves a gap to create
  or rename into; changes lead from there to the other directories. Sweeps are
  symmetric.
- `namespace`: two names, as a rename relates two; ttl of two ticks, so that there is
  an age below, at and above it; two events. At the start a name is a file, a directory
  or nothing; links come up later. The names are symmetric.
- `mount`: two `shfsmount`, one `shfsumount`, two mount points: two entries of the same
  or of different mount points, and a third process to meet them. The constant `Opts`
  gives the options each may get: any variant, one that only perl satisfies, the
  shell; persistent or not; `nomtab`; cache sizes 0, 1, 3 and 4. While one process
  talks to its remote side the others wait (`Alone`): nothing they can see changes
  meanwhile. A broken connection is seen only while `shfsmount` can see it.

Deadlock is checked in `namespace`. It is not in the others: each of these behaviours
may end, at a bound (opens, requests, processes that run once) or, in `ShfsLock`, in an unmount or a thread that waits for itself.
`FCache` and `DirCache` never stop, as time and reads go on; a deadlock check of them
would show nothing.

### Fairness

- `ShfsLock`: weak fairness of the steps of each thread in the kernel: it is
  scheduled when it can run, and the server answers. Not of calls or signals, and
  no strong fairness of the mutex.
- `Connection`: weak fairness of the client's steps together and of the server's
  together: both are sequential programs that run. Not of new calls, kills or
  hang-ups.
- `Mount`: weak fairness of each process that has started, of its remote side, and of
  ssh at the end of its input. Not of starts, kills, failures or broken connections.
  `DaemonEnds` needs the ends of the socket to be closed in the right places, since
  ssh is only ended by the end of its input.
- `FCacheSlots`, `FCache`, `RemoteFile`, `DirCache`, `RemoteDirectory`, `Namespace`:
  safety only.

## Proofs

Every invariant and action property that a passing run checks, and the refinements of
`RemoteFile` and `RemoteDirectory`, are also theorems of their specifications, for all
values of the constants that the modules' assumptions admit. In each proof the property is part of, or follows
from, an inductive invariant; the invariants were checked on the runs before they were
proved.

**ShfsLockProof**, for any set `Procs`, from `NoOneAssumption` alone:
`TypeCorrect`, `Balanced`, `ConversationsExclude`, `NestedCallsFail`, `LockOrder`
and `StickyWaits`, which are `Spec => []P` for the six invariants of run `lock`.
`LockBalanced` is inductive together with `TypeOK`: the owner is exactly the
thread whose `pc`, `back` and `up` place it between a lock and its unlock. From it
exclusion and the lock order follow by looking at the labels; that nested calls
fail needs the observation that a holder in `sock_lock` is the owner, so that only
the interrupted branch can run.

**ConnectionProof**, for any positive bounds (`BoundsAssumption`) and both scripts:
`TypeCorrect`, `OwnReplies`, `NothingLeft`, `GarbageIsPaid`, `DataIsData`,
`SuccessIsStored`. As replies carry no number and have no end mark, the invariant has to
say what is still to come. `Agreement`: while `cause` is empty, what the client has
not taken yet followed by what the running shell function will still do is one of the
patterns (`Expected`) that the client is in the middle of. It has a case for each
situation the connection can be in: `Talk` (an answer is on its way), `Unread` (the
command is), `Clean` (nothing is), `Owing` (a write has failed; the blocks the server
still reads are noted as garbage), `Leftover` (the rest of a link's target is) and `Gone`
(the socket is closed). `Served` is the same
from the server's side: in its direction of the stream data come before everything else,
and a server in the middle of a write has as many reads left as there are blocks. The
programs of both scripts are shown to be of the patterns first, one shell function at a
time, so that the steps of the client and of the server do not depend on the script.

**FCacheProof** and **ReadAheadProof**, for pages, blocks and files of any size
(`SizesAssumption`: a block and a file are whole numbers of pages; `BytesAssumption`,
`MaxEditsAssumption`): `TypeCorrect`, `Aligned`, `CleanCache`, and `Implements`, which is
`Spec => ShowsOneFile`. The invariant has what is in the cache at each place of an
operation (`Shape`), how far it is (`Progress`) and that the present bytes are among the
seen ones (`NowIsSeen`). The refinement maps each step to one of `RemoteFile` or to a
stutter: a flush that goes on leaves `Overlay` alone, because the bytes it sends are those
that lay over the file. The alignment rests on the read-ahead rule (`ReadAheadRight`),
which ends with a greatest common divisor; that every common divisor divides it is shown
with the least common multiple, and both with the least element of a set of numbers.

**FCacheSlotsProof**, for any finite `Files` and `Objs`, any `Inodes`, limit and
number of opens (`NoneAssumption` keeps the names for "none" apart): `TypeCorrect`,
`EverySlotAccounted`, `LimitKept`, `ApartSafe` and `SlotsReturn`. The counting
invariant sums the free slots, the caches, the threads between taking a slot and
having memory (`kmem`), those between freeing and giving back (`unslot`), and the
lost ones; every step moves one unit between two of the summands. The limit
follows because no summand is negative. `Ownership` is behind the other two: until
`overlapped`, the threads of an inode exclude each other, `p->cache` is the inode's own
cache except between its release and the assignment of NULL, what a thread copied from it
is still there, and no cache is out of reach of the last close.

**DirCacheProof**, for any finite set of names and any sweeps, pages and bounds:
`TypeCorrect`, `SweepsExact`, `RemovalsSafe` and `Implements`. That the cache is exact although its
pointers may be anything is due to `Kept`: there is one listing `L`, that of the last
refill, such that every dentry with a position is the name `L` has there, the head knows
its end, and every sweep under way whose names have not moved was given the beginning of
it. A call served from the cache goes on with `L`, since `shfs_dget_fpos` compares the
position in the dentry; a call that finds nothing is at its end; a refill puts another
listing in the place of `L` and marks the sweeps for which that is not true any more. A
rename within the directory renames in `L`, too (`LaidRename`): what a sweep was given is
then the beginning of `L` but for the names that changed (`Follows`), and only a name
renamed to can be in it twice (`Apart`).
`Ahead` and `Further` are behind `RemovalsSafe`: in front of a sweep that nothing has
disturbed all pointers are valid and lead to names it has not been given, so that it
never has to read the directory again. `Listing` orders the names by their ranks; that
this lists each of them once is `Sorted`. `Implements`, which is `Spec => ListsOneDirectory`,
takes the invariant before and after a step: a call appends to what its sweep was given,
and the listing that is kept after it says that all of this is right (`GoesOn`), whether
the call found it in the cache or put another one in its place; that a sweep is moved only
when disturbed is `RemovalSafe` after the step.

**NamespaceProof**, for any names, ttl and number of events: `TypeCorrect`, `Suspects`
and `Bounded`. Every operation goes through `Become`, which clears the doubts of the names
that are right after it; the lemma on `Become` reduces each action to the names it may
leave wrong. The cases that need an argument are `Rename` (the belief of the source moves
with the dentry, and with it its doubt) and the listing (what it names is right, the
rest keeps its belief). `Bounded` needs that for how long a belief has been wrong is at
most the ages of its dentry and of its inode (`Ages`): no step but those that
`BeliefBounded` excuses makes a belief younger without asking about it.

**MountProof**, for any processes, mount points and options: `TypeCorrect`, `Writers`,
`Accounted`, `Others`, `MtabRight`, `HandedOver` and `CacheSizes`. Behind `Others` is
`CopyFresh`: while an unmounter is between its copy and the rename, `mtab.tmp` holds
entries of mtab that it has to keep, and all of them unless the copy was cut short,
since by `OneWriter` no other process writes either. `MtabRight` follows from `Agreement`: of each mount point at most one
update is under way, and where none is mtab and mounts agree; a copy cut short is noted in
`apart` (`CutSeen`). `HandedOver` follows from
`Stream`: "### 200" is said by the remote code and by `s_init` only, each of which is
written when nothing else is left to be said. The loop of shifts that rounds the cache
size is a recursive function on numbers; `CacheSizes` finds what it computes by the least
counterexample, for options of up to five digits (`OptionsAssumption`), which is what
`parse_options` takes.

Only model-checked: `SignalFreesMutex`, `OperationsEnd` and `DaemonEnds`, as liveness
under fairness is out of the prover's reach, and the runs that show a violation.

## Not modelled

- parsing of `ls` output and of dates, quoting and the limits of command lines, option
  strings and `get_name`: sequential text processing without state; the hazards it has
  (a name too long for the buffer) are undefined behaviour, or seen on samples;
- mode, owner and times in `shfs_notify_change`: nothing else depends on them;
- readlink and follow_link beyond their conversation; moves between two directories (in
  `DirCache` the arrival of one is a `Create`, without the position the dentry brings along);
- the wait for the mutex between the reading of a dentry's age and its use (dir.c:464-470):
  a revalidation is one step of `Namespace`;
- the body of `shfs_ioctl`, wired to no file operation in this tree;
- the length of the delay between reconnections: there is at most one;
- the kernel's page cache, and writepage, which returns an error here;
- the preserve mode of the perl server (it changes user around each operation);
- generated headers, which are the `.in` files as strings, build files, documentation.

Hazards of these parts are in `PROJECT.json` with a note.

## Plan

1. `Connection` with the `s_finish` of an unmount, and an operation that races it.
2. The preserve mode of the perl server, as a second identity a server program runs under.
