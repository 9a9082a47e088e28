-------------------------------- MODULE FCache --------------------------------
(***************************************************************************)
(* The read/write cache of one file (module/fcache.c) and what it does to  *)
(* the bytes.  The cache is one run of bytes: either clean, read ahead of  *)
(* the requests, or dirty, waiting to be written in one piece.             *)
(*                                                                         *)
(* Reads are those of shfs_file_readpage: whole pages.  Writes stay inside *)
(* a page, as those of a write_begin/write_end pair do; in this tree the   *)
(* address space operations have none, so fcache_file_write is modelled as *)
(* the interface of fcache.c that it is.  One operation runs at a time     *)
(* (module FCacheSlots has the interleavings); every call of info->fops    *)
(* may fail, and others may change the file between any two steps.         *)
(*                                                                         *)
(* The server pads what it reads with zeros (dd conv=sync), so a file has  *)
(* no length here: bytes never written are Zero.                             *)
(***************************************************************************)
EXTENDS Naturals, Sequences

CONSTANTS PageSize,    \* PAGE_SIZE, in bytes
          FSize,       \* info->fcache_size
          FileSize,    \* bound: bytes of the file
          Bytes,       \* values of a byte
          Zero,        \* the byte that pads
          MaxEdits     \* bound: calls of fcache_file_write, truncations, and
                       \* changes by others

\* parse_options makes the cache a power of two of pages.  Only that it is
\* whole pages matters here.
ASSUME SizesAssumption ==
  /\ PageSize \in Nat \ {0}
  /\ \E k \in 1..FSize : FSize = k * PageSize
  /\ \E n \in 0..FileSize : FileSize = n * PageSize
ASSUME BytesAssumption == Zero \in Bytes
ASSUME MaxEditsAssumption == MaxEdits \in Nat

VARIABLES
  file,     \* the bytes the server has
  cache,    \* struct shfs_file; type "NONE" when p->cache is NULL
  at,       \* where the running operation is
  op,       \* what is left of it; wrote is the result of a write so far
  got,      \* the bytes read
  res,      \* its result
  \* history
  past,     \* the values each byte had since the last fcache_file_clear
  event,    \* what the last step met
  edits

vars == <<file, cache, at, op, got, res, past, event, edits>>

Addr == 0..(FileSize - 1)
Smaller(x, y) == IF x < y THEN x ELSE y
Count == Len(cache.data)
End == cache.offset + Count
Dirty == cache.type = "WRITE" /\ Count > 0

\* The bytes a user of the mount should see.
Overlay ==
  [b \in Addr |-> IF cache.type = "WRITE" /\ cache.offset <= b /\ b < End
                  THEN cache.data[b - cache.offset + 1] ELSE file[b]]

NoCache == [type |-> "NONE", new |-> FALSE, offset |-> 0, data |-> <<>>]
NewCache == [type |-> "READ", new |-> TRUE, offset |-> 0, data |-> <<>>]
NoOp == [kind |-> "none", offset |-> 0, count |-> 0, val |-> Zero, wrote |-> 0]

\* The count of a cache never exceeds what vmalloc was asked for.
TypeOK ==
  /\ file \in [Addr -> Bytes]
  /\ cache.type \in {"NONE", "READ", "WRITE"} /\ cache.new \in BOOLEAN
  /\ cache.offset \in 0..FileSize
  /\ cache.data \in Seq(Bytes) /\ Count <= FSize
  /\ at \in {"idle", "hit", "flush", "fill", "put", "more", "probe", "done"}
  /\ op.kind \in {"none", "read", "write"} /\ op.val \in Bytes
  /\ op.offset \in 0..FileSize /\ op.count \in 0..PageSize /\ op.wrote \in 0..PageSize
  /\ got \in Seq(Bytes) /\ Len(got) <= PageSize
  /\ res \in {"ok", "err"}
  /\ past \in [Addr -> SUBSET Bytes]
  /\ event \in {"none", "refused", "others", "cut"}
  /\ edits \in 0..MaxEdits

Init ==
  /\ file = [b \in Addr |-> Zero]
  /\ cache = NoCache
  /\ at = "idle" /\ op = NoOp /\ got = <<>> /\ res = "ok"
  /\ past = [b \in Addr |-> {Zero}]
  /\ event = "none"
  /\ edits = 0

Remember == past' = [b \in Addr |-> past[b] \cup {Overlay'[b]}]

Done(r) == at' = "done" /\ op' = [op EXCEPT !.kind = "none"] /\ res' = r

-----------------------------------------------------------------------------
(* The server *)

\* info->fops.read of n bytes at o
ServerBytes(o, n) ==
  [k \in 1..n |-> IF o + k - 1 \in Addr THEN file[o + k - 1] ELSE Zero]

\* info->fops.write of the bytes s at o
Stored(o, s) ==
  [b \in Addr |-> IF o <= b /\ b < o + Len(s) THEN s[b - o + 1] ELSE file[b]]

ServerStores(o, s) == file' = Stored(o, s) /\ event' = "none"

\* A write that fails may have stored a part.
ServerRefuses(o, s) ==
  /\ \E n \in 0..Len(s) : file' = Stored(o, SubSeq(s, 1, n))
  /\ event' = "refused"

-----------------------------------------------------------------------------
(* Calls *)

Start(o) == at = "idle" /\ op' = o /\ got' = <<>> /\ event' = "none"

CallRead ==
  /\ \E b \in Addr :
       /\ b % PageSize = 0
       /\ Start([NoOp EXCEPT !.kind = "read", !.offset = b, !.count = PageSize])
  /\ at' = "hit"
  /\ UNCHANGED <<file, cache, res, past, edits>>

CallWrite ==
  /\ edits < MaxEdits
  /\ edits' = edits + 1
  /\ \E b \in Addr, n \in 1..PageSize, v \in Bytes \ {Zero} :
       /\ (b % PageSize) + n <= PageSize
       /\ Start([NoOp EXCEPT !.kind = "write", !.offset = b, !.count = n, !.val = v])
  /\ at' = "put"
  /\ UNCHANGED <<file, cache, res, past>>

\* alloc_fcache, at open or at the first access
Alloc ==
  /\ cache.type = "NONE"
  /\ at \in {"idle", "hit", "put"}
  /\ cache' = NewCache
  /\ event' = "none"
  /\ UNCHANGED <<file, at, op, got, res, past, edits>>

\* Bytes 1..n of s are the answer to the next n bytes of the read.
Deliver(s, n) ==
  /\ got' = got \o SubSeq(s, 1, n)
  /\ op' = [op EXCEPT !.offset = @ + n, !.count = @ - n,
                      !.kind = IF n = op.count THEN "none" ELSE @]

\* No cache to be had: the server is asked directly.
ReadDirect ==
  /\ at = "hit" /\ cache.type = "NONE"
  /\ \/ /\ Deliver(ServerBytes(op.offset, op.count), op.count)
        /\ at' = "done"
        /\ UNCHANGED res
     \/ UNCHANGED got /\ Done("err")
  /\ event' = "none"
  /\ UNCHANGED <<file, cache, past, edits>>

WriteDirect ==
  LET s == [k \in 1..op.count |-> op.val] IN
  /\ at = "put" /\ cache.type = "NONE"
  /\ \/ ServerStores(op.offset, s) /\ Done("ok")
     \/ ServerRefuses(op.offset, s) /\ Done("err")
  /\ UNCHANGED <<cache, got, edits>>
  /\ Remember

\* The caller has its result.
Return ==
  /\ at = "done"
  /\ at' = "idle" /\ op' = NoOp /\ got' = <<>> /\ res' = "ok"
  /\ event' = "none"
  /\ UNCHANGED <<file, cache, past, edits>>

-----------------------------------------------------------------------------
(* fcache_file_read *)

ReadHit ==
  LET s == IF cache.offset <= op.offset /\ op.offset < End
           THEN SubSeq(cache.data, op.offset - cache.offset + 1, Count) ELSE <<>>
      n == Smaller(op.count, Len(s)) IN
  /\ at = "hit" /\ cache.type # "NONE"
  /\ Deliver(s, n)
  /\ at' = IF n = op.count THEN "done" ELSE IF cache.type = "WRITE" THEN "flush" ELSE "fill"
  /\ event' = "none"
  /\ UNCHANGED <<file, cache, res, past, edits>>

\* Dirty bytes go to the server first.  Nobody looks at the result.
ReadFlush ==
  /\ at = "flush"
  /\ ServerStores(cache.offset, cache.data) \/ ServerRefuses(cache.offset, cache.data)
  /\ cache' = [cache EXCEPT !.type = "READ", !.offset = op.offset, !.data = <<>>]
  /\ at' = "fill"
  /\ UNCHANGED <<op, got, res, edits>>
  /\ Remember

\* Euclid's algorithm at the end of the read-ahead rule.
Gcd(y, z) ==
  CHOOSE d \in 1..z : /\ y % d = 0 /\ z % d = 0
                      /\ \A e \in (d + 1)..z : y % e # 0 \/ z % e # 0

PageUp(n) == ((n + PageSize - 1) \div PageSize) * PageSize

\* Mutant: the read-ahead rule without its last step.
ReadAheadUnaligned(o, need, have) ==
  Smaller(PageUp(IF have < need THEN need ELSE have), FSize)

\* How much to read at page offset o, for need bytes, after have bytes in a
\* row were read before.
ReadAhead(o, need, have) ==
  LET r == Smaller(PageUp(IF have < need THEN need ELSE have), FSize) IN
  IF o % r # 0 THEN Gcd(o, r) ELSE r

\* What the loop does before it asks the server: the run of bytes in the
\* cache grows if the read goes on where it ends and there is room; otherwise
\* a new run begins.
PageStart == op.offset - (op.offset % PageSize)
InPage == op.offset % PageSize
NewRun == [cache EXCEPT !.offset = PageStart, !.data = <<>>]
Kept == IF End = op.offset THEN cache ELSE NewRun
Ahead == ReadAhead(PageStart, InPage + op.count, Len(Kept.data))

\* Mutant: the room in the cache is not looked at.
RunGrows == Kept

Run == IF Len(Kept.data) + Ahead > FSize THEN NewRun ELSE Kept

\* One round of the loop.
ReadFill ==
  LET s == ServerBytes(PageStart, Ahead)
      n == Smaller(op.count, Ahead - InPage) IN
  /\ at = "fill"
  /\ \/ /\ cache' = [Run EXCEPT !.data = @ \o s]
        /\ Deliver(SubSeq(s, InPage + 1, Ahead), n)
        /\ at' = IF n = op.count THEN "done" ELSE "fill"
        /\ UNCHANGED res
     \/ /\ cache' = [Run EXCEPT !.data = <<>>]
        /\ Done("err")
        /\ UNCHANGED got
  /\ event' = "none"
  /\ UNCHANGED <<file, past, edits>>

-----------------------------------------------------------------------------
(* fcache_file_write *)

\* The first n bytes of the write are in the cache.
Took(n) == op' = [op EXCEPT !.offset = @ + n, !.count = @ - n, !.wrote = @ + n]

\* A clean cache starts a new run; bytes that begin in the run or right
\* after it are put there, as far as there is room.
WritePut ==
  LET c == IF cache.type = "READ"
           THEN [cache EXCEPT !.type = "WRITE", !.offset = op.offset, !.data = <<>>] ELSE cache
      o == op.offset - c.offset
      fits == c.offset <= op.offset /\ o <= Len(c.data)
      n == IF fits THEN Smaller(op.count, FSize - o) ELSE 0
      len == IF o + n > Len(c.data) THEN o + n ELSE Len(c.data) IN
  /\ at = "put" /\ cache.type # "NONE"
  /\ cache' = IF fits
              THEN [c EXCEPT !.data = [k \in 1..len |->
                      IF o < k /\ k <= o + n THEN op.val ELSE c.data[k]]]
              ELSE c
  /\ Took(n)
  /\ at' = IF n = op.count THEN "probe" ELSE "more"
  /\ event' = "none"
  /\ UNCHANGED <<file, got, res, edits>>
  /\ Remember

\* Mutant: the offset of the next run is set before the last one is written.
WriteMoreOffsetFirst ==
  LET n == Smaller(op.count, FSize) IN
  /\ at = "more"
  /\ ServerStores(op.offset, cache.data)
  /\ cache' = [cache EXCEPT !.offset = op.offset, !.data = [k \in 1..n |-> op.val]]
  /\ Took(n)
  /\ at' = IF n = op.count THEN "probe" ELSE "more"
  /\ UNCHANGED <<got, res, edits>>
  /\ Remember

\* The run is written and what is left begins the next one.
WriteMore ==
  LET n == Smaller(op.count, FSize) IN
  /\ at = "more"
  /\ \/ /\ ServerStores(cache.offset, cache.data)
        /\ cache' = [cache EXCEPT !.offset = op.offset, !.data = [k \in 1..n |-> op.val]]
        /\ Took(n)
        /\ at' = IF n = op.count THEN "probe" ELSE "more"
        /\ UNCHANGED res
     \/ /\ ServerRefuses(cache.offset, cache.data)
        /\ at' = "probe"
        /\ res' = "err"
        /\ UNCHANGED <<cache, op>>
  /\ UNCHANGED <<got, edits>>
  /\ Remember

\* The first write to a new cache sends its first byte, to find out at once
\* whether the file can be written.  The result of this one counts.
WriteProbe ==
  LET s == SubSeq(cache.data, 1, 1) IN
  /\ at = "probe"
  /\ IF cache.new /\ op.wrote > 0
     THEN /\ \/ ServerStores(cache.offset, s) /\ Done("ok")
             \/ ServerRefuses(cache.offset, s) /\ Done("err")
          /\ cache' = [cache EXCEPT !.new = FALSE]
     ELSE Done(res) /\ event' = "none" /\ UNCHANGED <<file, cache>>
  /\ UNCHANGED <<got, edits>>
  /\ Remember

-----------------------------------------------------------------------------
(* fcache_file_sync, _close and _clear, and the others *)

\* A clean cache is left whether the server took the bytes or not.
Flush ==
  /\ at = "idle" /\ Dirty
  /\ ServerStores(cache.offset, cache.data) \/ ServerRefuses(cache.offset, cache.data)
  /\ cache' = [cache EXCEPT !.type = "READ", !.data = <<>>]
  /\ UNCHANGED <<at, op, got, res, edits>>
  /\ Remember

\* Close keeps the cache if the server refused, and frees it otherwise.
Close ==
  /\ at = "idle" /\ cache.type # "NONE"
  /\ \/ /\ IF Dirty THEN ServerStores(cache.offset, cache.data)
           ELSE event' = "none" /\ UNCHANGED file
        /\ cache' = NoCache
     \/ /\ Dirty
        /\ ServerRefuses(cache.offset, cache.data)
        /\ cache' = [cache EXCEPT !.type = "READ", !.data = <<>>]
  /\ UNCHANGED <<at, op, got, res, edits>>
  /\ Remember

\* Mutant: a clean cache survives the news that the file has changed.
ClearNothing ==
  /\ at = "idle"
  /\ past' = [b \in Addr |-> {Overlay[b]}]
  /\ event' = "none"
  /\ UNCHANGED <<file, cache, at, op, got, res, edits>>

\* The attributes were refreshed and have changed.  Dirty bytes stay.
Clear ==
  /\ at = "idle"
  /\ cache' = IF cache.type = "READ" THEN [cache EXCEPT !.data = <<>>] ELSE cache
  /\ past' = [b \in Addr |-> {Overlay[b]}]
  /\ event' = "none"
  /\ UNCHANGED <<file, at, op, got, res, edits>>

\* shfs_notify_change with a size, done by the server (s_trunc); the kernel's
\* pages are cut, too, the cache of fcache.c is not looked at.  A size the
\* server refuses changes nothing.
Truncate ==
  /\ at = "idle"
  /\ edits < MaxEdits
  /\ edits' = edits + 1
  /\ \E size \in Addr : file' = [b \in Addr |-> IF b < size THEN file[b] ELSE Zero]
  /\ event' = "cut"
  /\ UNCHANGED <<cache, at, op, got, res>>
  /\ Remember

Change ==
  /\ edits < MaxEdits
  /\ edits' = edits + 1
  /\ \E b \in Addr, v \in Bytes : file' = [file EXCEPT ![b] = v]
  /\ event' = "others"
  /\ UNCHANGED <<cache, at, op, got, res>>
  /\ Remember

-----------------------------------------------------------------------------
Step ==
  \/ ReadDirect \/ ReadHit \/ ReadFlush \/ ReadFill
  \/ WriteDirect \/ WritePut \/ WriteMore \/ WriteProbe
  \/ Return

Next ==
  \/ Step
  \/ CallRead \/ CallWrite \/ Alloc \/ Flush \/ Close \/ Clear \/ Truncate \/ Change

Spec == Init /\ [][Next]_vars

-----------------------------------------------------------------------------
(* Correctness *)

\* "Data should be aligned (offset % count == 0)", says shell_read: only then
\* is one block read, and padded where the file ends.  The read-ahead rule
\* sees to it for every position and length of the run in the cache.
ServerReadsAligned ==
  /\ at = "fill" => PageStart % Ahead = 0 /\ InPage < Ahead
  /\ at = "hit" /\ cache.type = "NONE" => op.offset % op.count = 0

\* After fcache_file_read wrote dirty bytes in the middle of a page, the run
\* it reads next begins at a page but is noted at the read's offset.
Misplaced == cache.type = "READ" /\ Count > 0 /\ cache.offset % PageSize # 0

\* What a clean cache holds for an address is a value the file had there
\* since the last refresh, unless it is misplaced.
CleanIsSeen ==
  cache.type = "READ" /\ ~Misplaced =>
    \A b \in Addr : cache.offset <= b /\ b < End =>
      cache.data[b - cache.offset + 1] \in past[b]

Unsaved == {b \in Addr : Dirty /\ cache.offset <= b /\ b < End}

Request == [kind |-> op.kind, offset |-> op.offset, count |-> op.count, val |-> op.val]

Remote == INSTANCE RemoteFile WITH
            op <- Request, content <- Overlay, unsaved <- Unsaved, excused <- Misplaced

\* The cache shows its users one file: see RemoteFile.
ShowsOneFile == Remote!Spec

\* A read returns what the file had at its offset since the last refresh.
ReadsAreRight ==
  \A k \in DOMAIN got : got[k] \in past[op.offset - Len(got) + k - 1]

=============================================================================
