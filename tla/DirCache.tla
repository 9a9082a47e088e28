------------------------------ MODULE DirCache ------------------------------
(***************************************************************************)
(* The cache of one directory's listing (module/dcache.c, shfs_readdir in  *)
(* module/dir.c).  The listing is kept in the pages of the directory's     *)
(* inode as pointers to dentries, by position; page 0 begins with a head.  *)
(*                                                                         *)
(* A sweep reads the directory from its start to its end by many calls of  *)
(* readdir.  Calls, and the operations that change the directory from this *)
(* side, exclude each other (i_mutex).  Between two calls, and between the *)
(* two halves of one, memory is reclaimed, time passes, and others change  *)
(* the directory on the remote side.                                       *)
(*                                                                         *)
(* Abstraction.  A pointer in a slot is the child whose dentry is found at *)
(* that address now, or None: when a dentry is freed the slots that point  *)
(* to it become None, and a new dentry may be put where one of them points.*)
(* Slots beyond the end of the listing are never read and kept None.  Of   *)
(* renames those within the directory move a dentry; one that comes from   *)
(* another directory is a Create: the position it had there is forgotten.  *)
(* Bounds: TTL, MaxRoom; MaxEvents for the changes, the losses of memory   *)
(* and the listings that break off; a file that is deleted is not open.    *)
(***************************************************************************)
EXTENDS Integers, SequencesExt

CONSTANTS Name,      \* names, numbers in the order of the listing
          Sweep,     \* readers
          TTL,       \* SHFS_MAX_AGE, in ticks
          PageSize,  \* SHFS_DIRCACHE_SIZE, pointers per page
          Start,     \* SHFS_DIRCACHE_START, pointers the head takes up
          MaxRoom,   \* how many names the buffer of a call may have room for
          MaxEvents, \* how many events may hit the directory and its cache
          None

ASSUME NameAssumption == Name \subseteq Nat /\ IsFiniteSet(Name) /\ None \notin Name
ASSUME SizeAssumption ==
  /\ TTL \in Nat \ {0} /\ PageSize \in Nat \ {0} /\ MaxRoom \in Nat \ {0}
  /\ MaxEvents \in Nat
  /\ Start \in 0..(PageSize - 1)

Position == 2..(Cardinality(Name) + 1)
PageOf(p) == (p + Start - 2) \div PageSize
Page == {PageOf(p) : p \in Position} \cup {0}

VARIABLES
  remote,   \* names in the directory on the remote side
  stale,    \* the size or time of the directory known here is an old one
  inoAge,   \* jiffies - oldmtime of the directory
  up,       \* its pages that are there and up to date
  head,     \* the head in page 0
  unlisted, \* names of which the listing in the cache says nothing for sure
  slot,     \* the pointers
  dent,     \* the dentry of each name
  fsdata,   \* its d_fsdata, 0 for NULL
  phase,    \* of each sweep
  fpos,     \* its f_pos
  first,    \* its call is the one that began with "." and ".."
  got,      \* the names it was given
  excuse,   \* names nothing is promised of: changed on the way, not listed
  taken,    \* names that another was given on the way, in a rename
  moved,    \* the names in front of its f_pos are not those it was given
  disturbed,\* something happened that allows them to be others
  events    \* counts the events

cache == <<up, head, slot, unlisted>>
dentries == <<dent, fsdata>>
sweeps == <<phase, fpos, first, got, excuse, taken, moved, disturbed>>
vars == <<remote, stale, inoAge, cache, dentries, sweeps, events>>

Age == 0..TTL
CacheHead == [age : Age, end : Position \cup {1}, eof : BOOLEAN]
NoHead == [age |-> TTL, end |-> 1, eof |-> FALSE]

TypeOK ==
  /\ remote \subseteq Name /\ stale \in BOOLEAN /\ inoAge \in Age
  /\ up \subseteq Page /\ head \in CacheHead
  /\ unlisted \subseteq Name
  /\ slot \in [Position -> Name \cup {None}]
  /\ dent \in [Name -> {"none", "negative", "positive"}]
  /\ fsdata \in [Name -> Position \cup {0}]
  /\ phase \in [Sweep -> {"closed", "open", "read", "end", "failed"}]
  /\ fpos \in [Sweep -> {0} \cup Position \cup {Cardinality(Name) + 2}]
  /\ first \in [Sweep -> BOOLEAN]
  /\ got \in [Sweep -> Seq(Name)]
  /\ excuse \in [Sweep -> SUBSET Name] /\ taken \in [Sweep -> SUBSET Name]
  /\ moved \in [Sweep -> BOOLEAN] /\ disturbed \in [Sweep -> BOOLEAN]
  /\ events \in 0..MaxEvents

Init ==
  /\ remote \in SUBSET Name /\ stale = FALSE /\ inoAge = 0
  /\ up = {} /\ head = NoHead /\ slot = [p \in Position |-> None]
  /\ unlisted = {}
  /\ dent = [n \in Name |-> "none"] /\ fsdata = [n \in Name |-> 0]
  /\ phase = [r \in Sweep |-> "closed"] /\ fpos = [r \in Sweep |-> 0]
  /\ first = [r \in Sweep |-> FALSE]
  /\ got = [r \in Sweep |-> <<>>]
  /\ excuse = [r \in Sweep |-> {}] /\ taken = [r \in Sweep |-> {}]
  /\ moved = [r \in Sweep |-> FALSE] /\ disturbed = [r \in Sweep |-> FALSE]
  /\ events = 0

Event == events < MaxEvents /\ events' = events + 1

Under(r) == phase[r] \in {"open", "read"}
IMutexFree == \A r \in Sweep : phase[r] # "read"

-----------------------------------------------------------------------------
(* Pages, pointers and dentries *)

Without(n) == [p \in Position |-> IF slot[p] = n THEN None ELSE slot[p]]

\* A dentry is allocated: the memory may be where a stale pointer points.
Alloc(n, state) ==
  /\ dent' = [dent EXCEPT ![n] = state]
  /\ \/ UNCHANGED slot
     \/ \E p \in Position : /\ dent[n] = "none" /\ slot[p] = None /\ PageOf(p) \in up
                            /\ slot' = [slot EXCEPT ![p] = n]

\* Mutant: the cache is as good after the operation as before.
InvalidNothing == UNCHANGED head

\* shfs_invalid_dir_cache, with page 0 there and up to date
InvalidDirCache ==
  head' = IF 0 \in up THEN [head EXCEPT !.age = TTL] ELSE head

DropPages(S) ==
  /\ up' = up \ S
  /\ slot' = [p \in Position |-> IF PageOf(p) \in S THEN None ELSE slot[p]]
  /\ head' = IF 0 \in S THEN NoHead ELSE head
  /\ UNCHANGED unlisted

DisturbOpen == disturbed' = [r \in Sweep |-> disturbed[r] \/ Under(r)]

\* Mutant: shfs_dget_fpos does not compare the position.
ValidAnywhere(p) ==
  /\ PageOf(p) \in up
  /\ slot[p] # None
  /\ dent[slot[p]] = "positive"

\* The page is there, and shfs_dget_fpos returns the dentry the slot points
\* to: a child, at this position, with an inode.
Valid(p) ==
  /\ PageOf(p) \in up
  /\ slot[p] # None
  /\ fsdata[slot[p]] = p
  /\ dent[slot[p]] = "positive"

-----------------------------------------------------------------------------
(* shfs_readdir *)

Open(r) ==
  /\ phase[r] = "closed"
  /\ phase' = [phase EXCEPT ![r] = "open"]
  /\ fpos' = [fpos EXCEPT ![r] = 0]
  /\ excuse' = [excuse EXCEPT ![r] = Name]
  /\ UNCHANGED <<remote, stale, inoAge, cache, dentries, first, got, taken, moved, disturbed, events>>

Close(r) ==
  /\ phase[r] \in {"end", "failed"}
  /\ phase' = [phase EXCEPT ![r] = "closed"]
  /\ fpos' = [fpos EXCEPT ![r] = 0]
  /\ got' = [got EXCEPT ![r] = <<>>]
  /\ excuse' = [excuse EXCEPT ![r] = {}]
  /\ taken' = [taken EXCEPT ![r] = {}]
  /\ first' = [first EXCEPT ![r] = FALSE]
  /\ moved' = [moved EXCEPT ![r] = FALSE]
  /\ disturbed' = [disturbed EXCEPT ![r] = FALSE]
  /\ UNCHANGED <<remote, stale, inoAge, cache, dentries, events>>

\* "." and "..", then shfs_revalidate_inode.  The stat of a directory that
\* was changed need not show it (ls gives minutes): if it does, the pages
\* are dropped.  If it fails the error is only seen by a call that has given
\* no name.
Begin(r) ==
  /\ phase[r] = "open" /\ IMutexFree
  /\ fpos' = [fpos EXCEPT ![r] = IF @ = 0 THEN 2 ELSE @]
  /\ \/ /\ inoAge < TTL
        /\ phase' = [phase EXCEPT ![r] = "read"]
        /\ UNCHANGED <<stale, inoAge, cache, disturbed>>
     \/ /\ inoAge = TTL
        /\ phase' = [phase EXCEPT ![r] = "read"]
        /\ inoAge' = 0 /\ stale' = FALSE
        /\ \/ UNCHANGED <<cache, disturbed>>
           \/ stale /\ DropPages(Page) /\ DisturbOpen
     \/ /\ inoAge = TTL
        /\ phase' = [phase EXCEPT ![r] = IF fpos[r] = 0 THEN "open" ELSE "failed"]
        /\ UNCHANGED <<stale, inoAge, cache, disturbed>>
  /\ first' = [first EXCEPT ![r] = fpos[r] = 0 /\ phase'[r] = "read"]
  /\ UNCHANGED <<remote, dentries, got, excuse, taken, moved, events>>

\* Mutant: a name that finds no room is passed over.
GiveSkips(r, names, failed) ==
  LET given == names # <<>> \/ first[r] IN
  /\ phase' = [phase EXCEPT ![r] = IF given THEN "open" ELSE IF failed THEN "failed" ELSE "end"]
  /\ fpos' = [fpos EXCEPT ![r] = @ + Len(names) + 1]
  /\ first' = [first EXCEPT ![r] = FALSE]

\* What the call gives: the names it found, and whether it failed.  Without
\* any it is the end of the sweep.
Give(r, names, failed) ==
  LET given == names # <<>> \/ first[r] IN
  /\ phase' = [phase EXCEPT ![r] = IF given THEN "open" ELSE IF failed THEN "failed" ELSE "end"]
  /\ fpos' = [fpos EXCEPT ![r] = @ + Len(names)]
  /\ first' = [first EXCEPT ![r] = FALSE]

\* From the cache, as far as it is valid.
Run(from, room) ==
  {k \in 0..room : \A p \in from..(from + k - 1) : p <= head.end /\ Valid(p)}
Longest(from, room) == CHOOSE k \in Run(from, room) : \A j \in Run(from, room) : j <= k
Cached(from, k) == [i \in 1..k |-> slot[from + i - 1]]

\* Mutant: the age is looked at wherever the sweep is.
NoCacheAnywhere(r) ==
  0 \notin up \/ ~head.eof \/ head.age >= TTL

\* init_cache: all of it has to be read.
NoCache(r) ==
  \/ 0 \notin up \/ ~head.eof
  \/ fpos[r] = 2 /\ head.age >= TTL

ServeCache(r) ==
  /\ phase[r] = "read" /\ ~NoCache(r)
  /\ \E room \in 1..MaxRoom :
       LET k == Longest(fpos[r], room) IN
       /\ fpos[r] + k <= head.end => Valid(fpos[r] + k)
       /\ Give(r, Cached(fpos[r], k), FALSE)
       /\ got' = [got EXCEPT ![r] = IF moved[r] THEN <<>> ELSE @ \o Cached(fpos[r], k)]
  /\ excuse' = [excuse EXCEPT ![r] = IF fpos[r] = 2 THEN unlisted ELSE @]
  /\ taken' = [taken EXCEPT ![r] = IF fpos[r] = 2 THEN {} ELSE @]
  /\ disturbed' = [disturbed EXCEPT ![r] =
                     IF fpos[r] = 2 THEN \E p \in 2..head.end : ~Valid(p) ELSE @]
  /\ UNCHANGED <<remote, stale, inoAge, cache, dentries, moved, events>>

\* The names of a listing are put at their positions, in the dentries and in
\* the pages of P; all other dentries lose their position.
At(L, n) == CHOOSE i \in DOMAIN L : L[i] = n
FillCache(L, P) ==
  /\ slot' = [p \in Position |->
               IF p - 1 \in DOMAIN L /\ PageOf(p) \in P THEN L[p - 1] ELSE None]
  /\ dent' = [n \in Name |-> IF n \in ToSet(L) THEN "positive" ELSE dent[n]]
  /\ fsdata' = [n \in Name |-> IF n \in ToSet(L) THEN At(L, n) + 1 ELSE 0]
  /\ up' = P
  /\ head' = [age |-> 0, end |-> Len(L) + 1, eof |-> \A i \in DOMAIN L : PageOf(i + 1) \in P]

\* Names of a listing from a position on, at most so many; those before it.
Least(a, b) == IF a < b THEN a ELSE b
Names(L, from, room) == SubSeq(L, from - 1, Least(from - 2 + room, Len(L)))
Before(L, p) == SubSeq(L, 1, Least(p - 2, Len(L)))

\* What the listing yields, with the pages it can be kept in: all of it, or
\* its beginning where the server fails or the connection ends, which is
\* taken for a listing like any other; or, without memory for a page, as
\* much as is needed to fill the buffer.
Listing ==
  [i \in 1..Cardinality(remote) |-> CHOOSE n \in remote : Cardinality({m \in remote : m <= n}) = i]
PagesOf(L) == {0} \cup {PageOf(i + 1) : i \in DOMAIN L}
Readings(from, room) ==
  {[L |-> SubSeq(Listing, 1, n), P |-> PagesOf(SubSeq(Listing, 1, n)), failed |-> f] :
     n \in 0..Len(Listing), f \in BOOLEAN}
  \cup
  {[L |-> SubSeq(Listing, 1, n), P |-> {0}, failed |-> FALSE] :
     n \in {m \in 1..Len(Listing) :
             /\ PageOf(m + 1) # 0
             /\ m = Len(Listing) \/ (m >= from - 1 + room /\ (m > from - 1 + room => PageOf(m) = 0))}}

\* For every sweep under way: do the names in front of its f_pos change?
\* All is read again from the start; names are given from f_pos on.
ReadReally(r, room, served) ==
  LET from == fpos[r] + Len(served)
      left == room - Len(served) IN
  \E R \in Readings(from, left) :
    LET names == served \o Names(R.L, from, left)
        whole == IF PagesOf(R.L) = R.P THEN R.L ELSE Listing
        missed == remote \ ToSet(whole)
        partial == R.failed \/ R.L # Listing \/ R.P # PagesOf(Listing)
        mine == got[r] \o names
        differs(q) ==
          /\ Under(q)
          /\ IF q = r THEN mine # Before(whole, fpos[r] + Len(names))
                      ELSE got[q] # Before(whole, fpos[q]) IN
    /\ IF partial THEN Event ELSE UNCHANGED events
    /\ FillCache(R.L, R.P)
    /\ Give(r, names, R.failed)
    /\ moved' = [q \in Sweep |-> moved[q] \/ differs(q)]
    /\ got' = [q \in Sweep |-> IF moved'[q] THEN <<>> ELSE IF q = r THEN mine ELSE got[q]]
    /\ excuse' = [q \in Sweep |->
                   IF moved'[q] THEN Name
                   ELSE IF q = r /\ fpos[r] = 2 THEN missed
                   ELSE IF Under(q) THEN excuse[q] \cup missed ELSE excuse[q]]
    /\ taken' = [q \in Sweep |-> IF Under(q) THEN {} ELSE taken[q]]
    /\ unlisted' = missed
    /\ disturbed' = [q \in Sweep |->
                      IF q = r /\ fpos[r] = 2 THEN served # <<>> \/ partial
                      ELSE disturbed[q] \/ (Under(q) /\ (q # r \/ partial))]

Refill(r) ==
  /\ phase[r] = "read"
  /\ \E room \in 1..MaxRoom :
       \/ NoCache(r) /\ ReadReally(r, room, <<>>)
       \/ LET k == Longest(fpos[r], room) IN
          /\ ~NoCache(r) /\ fpos[r] + k <= head.end /\ ~Valid(fpos[r] + k)
          /\ ReadReally(r, room, Cached(fpos[r], k))
  /\ UNCHANGED <<remote, stale, inoAge>>

-----------------------------------------------------------------------------
(* Changes of the directory from this side: create stands for all that add *)
(* a name, unlink for all that remove one.  They are looked up first.      *)

Touch(S) ==
  excuse' = [r \in Sweep |-> IF phase[r] = "closed" THEN {} ELSE excuse[r] \cup S]

\* The sweep has not been given the name.
Awaits(r, n) == Under(r) /\ n \notin ToSet(got[r])

Create(n) ==
  /\ Event
  /\ IMutexFree
  /\ n \notin remote /\ dent[n] # "positive"
  /\ remote' = remote \cup {n} /\ stale' = TRUE
  /\ Alloc(n, "positive")
  /\ InvalidDirCache
  /\ Touch({n})
  /\ unlisted' = unlisted \ {n}
  /\ UNCHANGED <<inoAge, up, fsdata, phase, fpos, first, got, taken, moved, disturbed>>

Unlink(n) ==
  /\ Event
  /\ IMutexFree
  /\ n \in remote /\ dent[n] # "negative"
  /\ remote' = remote \ {n} /\ stale' = TRUE
  /\ Alloc(n, "negative")
  /\ InvalidDirCache
  /\ Touch({n})
  /\ unlisted' = unlisted \ {n}
  /\ disturbed' = [r \in Sweep |-> disturbed[r] \/ Awaits(r, n)]
  /\ UNCHANGED <<inoAge, up, fsdata, phase, fpos, first, got, taken, moved>>

\* Within the directory: d_delete takes the inode from the dentry that is in
\* the way, and d_move gives its name to the other, which keeps its position
\* (d_fsdata) and is where the slot points; the one in the way goes.
Rename(a, b) ==
  /\ Event
  /\ IMutexFree
  /\ a # b /\ a \in remote /\ dent[a] = "positive"
  /\ remote' = (remote \ {a}) \cup {b} /\ stale' = TRUE
  /\ dent' = [dent EXCEPT ![a] = "none", ![b] = "positive"]
  /\ fsdata' = [fsdata EXCEPT ![a] = 0, ![b] = fsdata[a]]
  /\ slot' = [p \in Position |-> CASE slot[p] = a -> b [] slot[p] = b -> None [] OTHER -> slot[p]]
  /\ InvalidDirCache
  /\ Touch({a, b})
  /\ unlisted' = unlisted \ {a, b}
  /\ taken' = [r \in Sweep |-> IF Under(r) /\ got[r] # <<>> THEN taken[r] \cup {b} ELSE taken[r]]
  /\ disturbed' = [r \in Sweep |->
       disturbed[r] \/ Awaits(r, a) \/ (dent[b] = "positive" /\ Awaits(r, b))]
  /\ UNCHANGED <<inoAge, up, phase, fpos, first, got, moved>>

\* The server refuses, when d_delete has been.
RenameFails(b) ==
  /\ Event
  /\ IMutexFree
  /\ dent[b] = "positive"
  /\ dent' = [dent EXCEPT ![b] = "negative"]
  /\ InvalidDirCache
  /\ disturbed' = [r \in Sweep |-> disturbed[r] \/ Awaits(r, b)]
  /\ UNCHANGED <<remote, stale, inoAge, up, slot, unlisted, fsdata>>
  /\ UNCHANGED <<phase, fpos, first, got, excuse, taken, moved>>

\* unlink and rmdir, and a rename to a name that is free, invalidate the cache
\* when they fail, too.
RemoveFails ==
  /\ Event
  /\ IMutexFree
  /\ InvalidDirCache
  /\ UNCHANGED <<remote, stale, inoAge, up, slot, unlisted, dentries, sweeps>>

-----------------------------------------------------------------------------
(* The rest of the world *)

RemoteChange(n) ==
  /\ Event
  /\ remote' = IF n \in remote THEN remote \ {n} ELSE remote \cup {n}
  /\ stale' = TRUE
  /\ unlisted' = unlisted \cup {n}
  /\ Touch({n})
  /\ UNCHANGED <<inoAge, up, head, slot, dentries, phase, fpos, first, got, taken, moved, disturbed>>

\* A lookup of a name that has no dentry
Lookup(n) ==
  /\ Event
  /\ IMutexFree
  /\ dent[n] = "none"
  /\ Alloc(n, IF n \in remote THEN "positive" ELSE "negative")
  /\ UNCHANGED <<remote, stale, inoAge, up, head, unlisted, fsdata, sweeps>>

ReclaimPage(P) ==
  /\ Event
  /\ P \in up
  /\ DropPages({P})
  /\ DisturbOpen
  /\ UNCHANGED <<remote, stale, inoAge, dentries, phase, fpos, first, got, excuse, taken, moved>>

ReclaimDentry(n) ==
  /\ Event
  /\ dent[n] # "none"
  /\ dent' = [dent EXCEPT ![n] = "none"]
  /\ fsdata' = [fsdata EXCEPT ![n] = 0]
  /\ slot' = Without(n)
  /\ DisturbOpen
  /\ UNCHANGED <<remote, stale, inoAge, up, head, unlisted, phase, fpos, first, got, excuse, taken, moved>>

Tick ==
  /\ inoAge' = Least(inoAge + 1, TTL)
  /\ head' = IF 0 \in up THEN [head EXCEPT !.age = Least(@ + 1, TTL)] ELSE head
  /\ UNCHANGED <<remote, stale, up, slot, unlisted, dentries, sweeps, events>>

Next ==
  \/ \E r \in Sweep : Open(r) \/ Close(r) \/ Begin(r) \/ ServeCache(r) \/ Refill(r)
  \/ \E n \in Name : Create(n) \/ Unlink(n) \/ RemoteChange(n) \/ Lookup(n) \/ ReclaimDentry(n)
  \/ \E a, b \in Name : Rename(a, b)
  \/ \E n \in Name : RenameFails(n)
  \/ \E P \in Page : ReclaimPage(P)
  \/ RemoveFails \/ Tick

Spec == Init /\ [][Next]_vars

-----------------------------------------------------------------------------
(* Correctness *)

\* A sweep that has come to its end has given every name once that was in the
\* directory all the time, and none that was not: whatever the pages and the
\* dentries went through, and even if it was read from a listing made before
\* it began, changes from this side that came before it included.  Names are
\* excused that changed on the way, that others changed since the listing
\* was made, or that a listing which broke off did not reach; and nothing is
\* said of a sweep whose names have moved.  A name that changed on the way is
\* given once at most, too, unless another was renamed to it: its dentry keeps
\* its position.
SweepExact ==
  \A r \in Sweep : phase[r] = "end" /\ ~moved[r] =>
    /\ \A i, j \in DOMAIN got[r] : got[r][i] = got[r][j] => i = j \/ got[r][i] \in taken[r]
    /\ remote \ excuse[r] \subseteq ToSet(got[r])
    /\ ToSet(got[r]) \subseteq remote \cup excuse[r]

\* Removing what the sweep has given does not make its names move (the
\* cache "prevents rm -rf from complaining"): it takes memory that is short,
\* another sweep, a stat that shows the change, or the removal, or a rename,
\* of a name not given yet.
RemovalSafe == \A r \in Sweep : moved[r] => disturbed[r]

\* At every step the sweeps are those of one directory: names are given at
\* their turn, each once (but for renames) and rightly, and never taken back;
\* an operation from this side is seen by every sweep that begins after it,
\* though the listing is an old one; and no other step shows.
Shown == [r \in Sweep |-> IF phase[r] = "read" THEN "open" ELSE phase[r]]
Directory == INSTANCE RemoteDirectory WITH content <- remote, phase <- Shown
ListsOneDirectory == Directory!Spec

=============================================================================
