---------------------------- MODULE FCacheProof ----------------------------
(***************************************************************************)
(* Proofs about module FCache, for pages, caches and files of any size:    *)
(* the types, the alignment of the server's reads, what a clean cache      *)
(* holds, and that the cache implements RemoteFile.                        *)
(*                                                                         *)
(* The inductive invariant says what is in the cache at each place of an   *)
(* operation (Shape), how far the operation is (Progress), and that the    *)
(* present bytes are among those seen (NowIsSeen).                         *)
(***************************************************************************)
EXTENDS ReadAheadProof, SequenceTheorems

Caches == [type : {"NONE", "READ", "WRITE"}, new : BOOLEAN,
           offset : 0..FileSize, data : Seq(Bytes)]
Ops == [kind : {"none", "read", "write"}, offset : 0..FileSize, count : 0..PageSize,
        val : Bytes, wrote : 0..PageSize]

Types == TypeOK /\ cache \in Caches /\ op \in Ops

\* Only a dirty cache has bytes of a page, and it always has some.
Shape ==
  /\ cache.type = "NONE" => Count = 0
  /\ cache.type = "READ" => Count % PageSize = 0
  /\ cache.type = "WRITE" => Count > 0
  /\ at = "fill" => cache.type = "READ"
  /\ at \in {"flush", "more", "probe"} => cache.type = "WRITE"

\* What is left of a read reaches to the end of its page.
Progress ==
  /\ op.offset + op.count <= FileSize
  /\ at \in {"hit", "flush", "fill"} =>
       /\ op.kind = "read" /\ op.count > 0
       /\ (op.offset + op.count) % PageSize = 0
       /\ Len(got) + op.count = PageSize
  /\ at \in {"put", "more"} => op.kind = "write" /\ op.count > 0
  /\ at = "hit" => got = <<>>
  /\ at = "put" => op.wrote = 0
  /\ at = "probe" => op.kind = "write"
  /\ at \in {"put", "more", "probe"} => op.wrote + op.count <= PageSize
  /\ at \in {"idle", "done"} => op.kind = "none"

\* The present bytes of the file are among those it was seen to have.
NowIsSeen == \A b \in Addr : Overlay[b] \in past[b]

IInv == Types /\ Shape /\ Progress /\ NowIsSeen /\ CleanIsSeen

-----------------------------------------------------------------------------

LEMMA Sizes ==
  /\ PageSize \in Nat \ {0}
  /\ FSize \in Nat \ {0} /\ PageSize <= FSize
  /\ FileSize \in Nat /\ FileSize % PageSize = 0
  /\ Addr \in SUBSET Nat
  /\ Zero \in Bytes
<1>1. PageSize \in Nat \ {0}
  BY SizesAssumption
<1>2. PICK k \in 1..FSize : FSize = k * PageSize
  BY SizesAssumption
<1>3. PICK n \in 0..FileSize : FileSize = n * PageSize
  BY SizesAssumption
<1>4. FSize \in Nat \ {0} /\ FileSize \in Nat
  BY <1>2, <1>3
<1>5. PageSize <= k * PageSize
  BY <1>1, <1>2, <1>4
<1>6. (n * PageSize) % PageSize = 0
  BY <1>1, <1>3, <1>4, Multiples
<1> QED
  BY <1>1, <1>2, <1>3, <1>4, <1>5, <1>6, BytesAssumption DEF Addr

LEMMA InitInv == Init => IInv
<1> SUFFICES ASSUME Init
             PROVE  IInv
  OBVIOUS
<1> USE Sizes DEF Init, NoCache, NoOp
<1>1. Types
  BY MaxEditsAssumption DEF Types, TypeOK, Caches, Ops, Count, Addr
<1>2. Shape
  BY DEF Shape, Count
<1>3. Progress
  BY DEF Progress
<1>4. NowIsSeen /\ CleanIsSeen
  BY DEF NowIsSeen, CleanIsSeen, Overlay, End, Count, Misplaced, Addr
<1> QED
  BY <1>1, <1>2, <1>3, <1>4 DEF IInv

\* Once all dirty bytes are stored the server has what the users see.
LEMMA StoredAll ==
  ASSUME Types, cache.type = "WRITE"
  PROVE  Stored(cache.offset, cache.data) = Overlay
BY DEF Stored, Overlay, End, Count

\* Of a write that fails some bytes are stored, and no others are touched.
LEMMA StoredPart ==
  ASSUME Types, NEW n \in 0..Count
  PROVE  LET f == Stored(cache.offset, SubSeq(cache.data, 1, n)) IN
         /\ f \in [Addr -> Bytes]
         /\ \A b \in Addr : 
              f[b] = IF cache.offset <= b /\ b < cache.offset + n
                     THEN cache.data[b - cache.offset + 1] ELSE file[b]
<1> DEFINE s == SubSeq(cache.data, 1, n)
<1>1. /\ cache.data \in Seq(Bytes) /\ cache.offset \in Nat
      /\ n \in Nat /\ n <= Len(cache.data) /\ file \in [Addr -> Bytes]
  BY Sizes DEF Types, Caches, TypeOK, Count
<1>2. s \in Seq(Bytes) /\ Len(s) = n /\ \A i \in 1..n : s[i] = cache.data[i]
  BY <1>1
<1> HIDE DEF s
<1> DEFINE f == Stored(cache.offset, s)
<1>3. ASSUME NEW b \in Addr
      PROVE  /\ f[b] \in Bytes
             /\ f[b] = IF cache.offset <= b /\ b < cache.offset + n
                       THEN cache.data[b - cache.offset + 1] ELSE file[b]
  <2>1. f[b] = IF cache.offset <= b /\ b < cache.offset + n
               THEN s[b - cache.offset + 1] ELSE file[b]
    BY <1>2 DEF Stored
  <2>2. b \in Nat /\ file[b] \in Bytes
    BY <1>1, Sizes
  <2>3. CASE cache.offset <= b /\ b < cache.offset + n
    <3>1. b - cache.offset + 1 \in 1..n
      BY <1>1, <2>2, <2>3
    <3>2. s[b - cache.offset + 1] \in Bytes
      BY <1>2, <3>1
    <3> QED
      BY <1>2, <2>1, <2>3, <3>1, <3>2
  <2> QED
    BY <2>1, <2>2, <2>3
<1>4. f = [b \in Addr |-> f[b]]
  BY DEF Stored
<1> HIDE DEF f
<1>5. f \in [Addr -> Bytes]
  BY <1>3, <1>4
<1> QED
  BY <1>3, <1>5 DEF f, s

LEMMA OverlayIsFile ==
  ASSUME Types
  PROVE  /\ Overlay \in [Addr -> Bytes]
         /\ cache.type # "WRITE" => Overlay = file
BY Sizes DEF Types, TypeOK, Caches, Overlay, End, Count

-----------------------------------------------------------------------------
(* Types *)

Places == {"idle", "hit", "flush", "fill", "put", "more", "probe", "done"}

LEMMA TypesSay ==
  ASSUME Types
  PROVE  /\ file \in [Addr -> Bytes] /\ past \in [Addr -> SUBSET Bytes]
         /\ cache \in Caches /\ Count \in Nat /\ Count <= FSize
         /\ at \in Places /\ op \in Ops
         /\ got \in Seq(Bytes) /\ Len(got) <= PageSize
         /\ res \in {"ok", "err"}
         /\ event \in {"none", "refused", "others", "cut"} /\ edits \in 0..MaxEdits
BY DEF Types, TypeOK, Places, Caches, Count

LEMMA TypesFrom ==
  ASSUME file' \in [Addr -> Bytes], past' \in [Addr -> SUBSET Bytes],
         cache' \in Caches, Count' <= FSize, at' \in Places, op' \in Ops,
         got' \in Seq(Bytes), Len(got') <= PageSize, res' \in {"ok", "err"},
         event' \in {"none", "refused", "others", "cut"}, edits' \in 0..MaxEdits
  PROVE  Types'
BY DEF Types, TypeOK, Places, Caches, Ops, Count

\* The fields of the cache and of the operation.
LEMMA Fields ==
  ASSUME Types
  PROVE  /\ cache.type \in {"NONE", "READ", "WRITE"} /\ cache.new \in BOOLEAN
         /\ cache.offset \in 0..FileSize /\ cache.offset \in Nat /\ cache.data \in Seq(Bytes)
         /\ op.kind \in {"none", "read", "write"} /\ op.val \in Bytes
         /\ op.offset \in Nat /\ op.count \in Nat /\ op.count <= PageSize
         /\ op.wrote \in Nat
BY Sizes DEF Types, Caches, Ops

\* Positions after n of c bytes.
LEMMA Onwards ==
  ASSUME NEW o \in Nat, NEW c \in Nat, NEW f \in Nat, NEW p \in Nat,
         NEW n \in 0..c, o + c <= f, c <= p
  PROVE  n \in Nat /\ o + n \in 0..f /\ c - n \in 0..p
OBVIOUS

\* A read got n bytes.
LEMMA Delivered ==
  ASSUME Types, op.offset + op.count <= FileSize,
         NEW s \in Seq(Bytes), NEW n \in 0..op.count, n <= Len(s), Deliver(s, n)
  PROVE  /\ op' \in Ops
         /\ op'.offset = op.offset + n /\ op'.count = op.count - n
         /\ op'.val = op.val /\ op'.wrote = op.wrote
         /\ op'.kind = IF n = op.count THEN "none" ELSE op.kind
         /\ got' \in Seq(Bytes) /\ Len(got') = Len(got) + n
         /\ SubSeq(got', 1, Len(got)) = got
         /\ \A k \in 1..n : got'[Len(got) + k] = s[k]
<1>1. n \in Nat /\ op.offset + n \in 0..FileSize /\ op.count - n \in 0..PageSize
  <2>1. /\ op.offset \in Nat /\ op.count \in Nat /\ op.wrote \in Nat
        /\ FileSize \in Nat /\ PageSize \in Nat /\ op.count <= PageSize
    BY Fields, Sizes
  <2> QED
    BY <2>1, Onwards, Zenon
<1>2. op' = [op EXCEPT !.offset = op.offset + n, !.count = op.count - n,
                       !.kind = IF n = op.count THEN "none" ELSE op.kind]
  BY DEF Deliver
<1>3. op \in Ops /\ op.kind \in {"none", "read", "write"}
  BY TypesSay, Fields
<1>4. /\ op' \in Ops
      /\ op'.offset = op.offset + n /\ op'.count = op.count - n
      /\ op'.val = op.val /\ op'.wrote = op.wrote
      /\ op'.kind = IF n = op.count THEN "none" ELSE op.kind
  BY <1>1, <1>2, <1>3 DEF Ops
<1> DEFINE t == SubSeq(s, 1, n)
<1>5. t \in Seq(Bytes) /\ Len(t) = n /\ \A k \in 1..n : t[k] = s[k]
  BY <1>1
<1>6. got \in Seq(Bytes) /\ got' = got \o t /\ Len(got) \in Nat
  BY TypesSay DEF Deliver
<1> HIDE DEF t
<1>7. /\ got' \in Seq(Bytes) /\ Len(got') = Len(got) + n
      /\ \A k \in 1..Len(got') : got'[k] = IF k <= Len(got) THEN got[k] ELSE t[k - Len(got)]
  <2>1. /\ got \o t \in Seq(Bytes) /\ Len(got \o t) = Len(got) + Len(t)
        /\ \A k \in 1..(Len(got) + Len(t)) :
              (got \o t)[k] = IF k <= Len(got) THEN got[k] ELSE t[k - Len(got)]
    BY <1>5, <1>6, ConcatProperties, Zenon
  <2> QED
    BY <1>5, <1>6, <2>1, Zenon
<1>8. SubSeq(got', 1, Len(got)) = got
  <2>1. Len(got) <= Len(got')
    BY <1>1, <1>6, <1>7
  <2>2. /\ SubSeq(got', 1, Len(got)) \in Seq(Bytes)
        /\ Len(SubSeq(got', 1, Len(got))) = Len(got)
        /\ \A k \in 1..Len(got) : SubSeq(got', 1, Len(got))[k] = got'[k]
    BY <1>6, <1>7, <2>1
  <2>3. \A k \in 1..Len(got) : got'[k] = got[k]
    BY <1>6, <1>7, <2>1
  <2> QED
    BY <1>6, <2>2, <2>3, SeqEqual
<1>9. ASSUME NEW k \in 1..n
      PROVE  got'[Len(got) + k] = s[k]
  <2>1. Len(got) + k \in 1..Len(got') /\ ~(Len(got) + k <= Len(got)) /\ (Len(got) + k) - Len(got) = k
    BY <1>1, <1>6, <1>7
  <2> QED
    BY <1>5, <1>7, <2>1
<1> QED
  BY <1>4, <1>7, <1>8, <1>9

\* The operation ends.
LEMMA Ended ==
  ASSUME Types, NEW r \in {"ok", "err"}, Done(r)
  PROVE  /\ at' = "done" /\ res' \in {"ok", "err"}
         /\ op' \in Ops /\ op'.kind = "none"
         /\ op'.offset = op.offset /\ op'.count = op.count
         /\ op'.val = op.val /\ op'.wrote = op.wrote
BY TypesSay DEF Done, Ops

\* A write put n bytes.
LEMMA Put ==
  ASSUME Types, op.offset + op.count <= FileSize, op.wrote + op.count <= PageSize,
         NEW n \in 0..op.count, Took(n)
  PROVE  /\ op' \in Ops
         /\ op'.offset = op.offset + n /\ op'.count = op.count - n
         /\ op'.val = op.val /\ op'.wrote = op.wrote + n
         /\ op'.kind = op.kind
<1>1. n \in Nat /\ op.offset + n \in 0..FileSize /\ op.count - n \in 0..PageSize
      /\ op.wrote + n \in 0..PageSize
  <2>1. /\ op.offset \in Nat /\ op.count \in Nat /\ op.wrote \in Nat
        /\ FileSize \in Nat /\ PageSize \in Nat /\ op.count <= PageSize
    BY Fields, Sizes
  <2>2. n \in Nat /\ op.offset + n \in 0..FileSize /\ op.count - n \in 0..PageSize
    BY <2>1, Onwards, Zenon
  <2>3. \A w, c, l \in Nat : w + c <= l => \A i \in 0..c : w + i \in 0..l
    OBVIOUS
  <2>4. op.wrote + n \in 0..PageSize
    BY <2>1, <2>3, Zenon
  <2> QED
    BY <2>2, <2>4
<1>2. op' = [op EXCEPT !.offset = op.offset + n, !.count = op.count - n,
                       !.wrote = op.wrote + n]
  BY DEF Took
<1> QED
  BY <1>1, <1>2, TypesSay DEF Ops

\* What the server sends
LEMMA ServerSends ==
  ASSUME Types, NEW o \in Nat, NEW n \in Nat
  PROVE  /\ ServerBytes(o, n) \in Seq(Bytes) /\ Len(ServerBytes(o, n)) = n
         /\ \A k \in 1..n : o + k - 1 \in Addr => ServerBytes(o, n)[k] = file[o + k - 1]
<1>1. ASSUME NEW k \in 1..n
      PROVE  (IF o + k - 1 \in Addr THEN file[o + k - 1] ELSE Zero) \in Bytes
  BY TypesSay, Sizes
<1>2. ServerBytes(o, n) \in [1..n -> Bytes]
  BY <1>1 DEF ServerBytes
<1> QED
  BY <1>2 DEF ServerBytes

-----------------------------------------------------------------------------
(* What the bytes seen have to do with the steps *)

\* A step that changes neither file nor cache nor what was seen.
LEMMA UntouchedSeen ==
  ASSUME IInv, UNCHANGED <<file, cache, past>>
  PROVE  NowIsSeen' /\ CleanIsSeen'
BY DEF IInv, NowIsSeen, CleanIsSeen, Overlay, End, Count, Misplaced

\* A step that adds the present bytes to those seen.
LEMMA RememberedSeen ==
  ASSUME Remember
  PROVE  NowIsSeen' /\ \A b \in Addr : past[b] \subseteq past'[b]
BY DEF Remember, NowIsSeen

\* A cache that is empty or dirty holds nothing clean.
LEMMA NothingClean ==
  ASSUME Len(cache'.data) = 0 \/ cache'.type # "READ", cache'.offset \in Nat
  PROVE  CleanIsSeen'
BY Sizes DEF CleanIsSeen, End, Count, Misplaced

\* The same cache, while more was seen.
LEMMA SameCacheSeen ==
  ASSUME IInv, Remember, UNCHANGED cache
  PROVE  CleanIsSeen'
BY RememberedSeen DEF IInv, CleanIsSeen, End, Count, Misplaced

LEMMA RememberedType ==
  ASSUME Types, Remember, Overlay' \in [Addr -> Bytes]
  PROVE  past' \in [Addr -> SUBSET Bytes]
BY DEF Types, TypeOK, Remember

\* A whole page inside the file ends inside it, too.
LEMMA PageFits ==
  ASSUME NEW b \in Addr, b % PageSize = 0
  PROVE  b + PageSize <= FileSize /\ (b + PageSize) % PageSize = 0
<1>1. b \in Nat /\ b < FileSize
  BY Sizes DEF Addr
<1>2. (FileSize - b) % PageSize = 0 /\ FileSize - b \in Nat \ {0}
  <2>1. b <= FileSize /\ FileSize - b \in Nat \ {0}
    BY <1>1, Sizes
  <2> QED
    BY <1>1, <2>1, Sizes, SumOfMultiples
<1>3. PageSize <= FileSize - b
  BY <1>2, Sizes, DivisorBound
<1>4. PageSize % PageSize = 0
  BY Sizes
<1>5. (b + PageSize) % PageSize = 0
  BY <1>1, <1>4, Sizes, SumOfMultiples
<1> QED
  BY <1>1, <1>3, <1>5, Sizes

-----------------------------------------------------------------------------
(* Each step keeps the invariant *)

-----------------------------------------------------------------------------
(* Each step keeps the invariant *)

\* A call begins.
LEMMA Begun ==
  ASSUME NEW k \in {"read", "write"}, NEW b \in 0..FileSize, NEW n \in 0..PageSize,
         NEW v \in Bytes,
         op' = [kind |-> k, offset |-> b, count |-> n, val |-> v, wrote |-> 0]
  PROVE  /\ op' \in Ops /\ op'.kind = k /\ op'.offset = b /\ op'.count = n
         /\ op'.val = v /\ op'.wrote = 0
<1>1. 0 \in 0..PageSize
  BY Sizes
<1> QED
  BY <1>1 DEF Ops

LEMMA CallReadKeeps ==
  ASSUME IInv, CallRead
  PROVE  IInv'
<1> USE DEF IInv
<1>1. PICK b \in Addr : b % PageSize = 0 /\ Start([NoOp EXCEPT !.kind = "read", !.offset = b, !.count = PageSize])
  BY DEF CallRead
<1>2. b + PageSize <= FileSize /\ (b + PageSize) % PageSize = 0 /\ b \in 0..FileSize
  BY <1>1, PageFits, Sizes DEF Addr
<1>3. op' = [kind |-> "read", offset |-> b, count |-> PageSize, val |-> Zero, wrote |-> 0]
  BY <1>1 DEF Start, NoOp
<1>4. /\ op' \in Ops /\ op'.kind = "read" /\ op'.offset = b /\ op'.count = PageSize
      /\ at = "idle" /\ got' = <<>> /\ Len(got') = 0 /\ got' \in Seq(Bytes)
      /\ event' = "none"
  <2>1. PageSize \in 0..PageSize /\ Zero \in Bytes
    BY Sizes
  <2>2. op' \in Ops /\ op'.kind = "read" /\ op'.offset = b /\ op'.count = PageSize
    BY <1>2, <1>3, <2>1, Begun
  <2>3. at = "idle" /\ got' = <<>> /\ event' = "none"
    BY <1>1 DEF Start
  <2> QED
    BY <2>2, <2>3
<1>5. at' = "hit" /\ UNCHANGED <<file, cache, res, past, edits>>
  BY DEF CallRead
<1>6. Types'
  BY <1>4, <1>5, TypesSay, TypesFrom, Sizes DEF Places, Count
<1>7. Shape'
  BY <1>5 DEF Shape, Count
<1>8. Progress'
  BY <1>2, <1>4, <1>5, Sizes DEF Progress
<1> QED
  BY <1>5, <1>6, <1>7, <1>8, UntouchedSeen

LEMMA CallWriteKeeps ==
  ASSUME IInv, CallWrite
  PROVE  IInv'
<1> USE DEF IInv
<1>1. PICK b \in Addr, n \in 1..PageSize, v \in Bytes \ {Zero} :
        /\ (b % PageSize) + n <= PageSize
        /\ Start([NoOp EXCEPT !.kind = "write", !.offset = b, !.count = n, !.val = v])
  BY DEF CallWrite
<1>2. b + n <= FileSize /\ b \in 0..FileSize
  <2>1. b \in Nat /\ b < FileSize
    BY Sizes DEF Addr
  <2>2. PICK r \in Nat : r = b % PageSize
    BY <2>1, Sizes
  <2>3. PICK p \in Nat : p = b - r /\ p % PageSize = 0
    BY <2>1, <2>2, Sizes, Multiples
  <2>4. p \in Addr
    BY <2>1, <2>2, <2>3, Sizes DEF Addr
  <2>5. p + PageSize <= FileSize
    BY <2>3, <2>4, PageFits
  <2> QED
    BY <1>1, <2>1, <2>2, <2>3, <2>5, Sizes
<1>3. /\ op' \in Ops /\ op'.kind = "write" /\ op'.offset = b /\ op'.count = n /\ op'.wrote = 0
      /\ at = "idle" /\ got' = <<>> /\ Len(got') = 0 /\ got' \in Seq(Bytes)
      /\ event' = "none"
  <2>1. op' = [kind |-> "write", offset |-> b, count |-> n, val |-> v, wrote |-> 0]
    BY <1>1 DEF Start, NoOp
  <2>2. n \in 0..PageSize /\ v \in Bytes
    BY <1>1
  <2>3. op' \in Ops /\ op'.kind = "write" /\ op'.offset = b /\ op'.count = n /\ op'.wrote = 0
    BY <1>2, <2>1, <2>2, Begun
  <2>4. at = "idle" /\ got' = <<>> /\ event' = "none"
    BY <1>1 DEF Start
  <2> QED
    BY <2>3, <2>4
<1>4. at' = "put" /\ edits' \in 0..MaxEdits /\ UNCHANGED <<file, cache, res, past>>
  BY TypesSay, MaxEditsAssumption DEF CallWrite
<1>5. Types'
  BY <1>3, <1>4, TypesSay, TypesFrom, Sizes DEF Places, Count
<1>6. Shape'
  BY <1>4 DEF Shape, Count
<1>7. Progress'
  BY <1>2, <1>3, <1>4, Sizes DEF Progress
<1> QED
  BY <1>4, <1>5, <1>6, <1>7, UntouchedSeen

LEMMA AllocKeeps ==
  ASSUME IInv, Alloc
  PROVE  IInv' /\ Overlay' = Overlay
<1>1. cache' = [type |-> "READ", new |-> TRUE, offset |-> 0, data |-> <<>>]
  BY DEF Alloc, NewCache
<1>2. Types'
  BY <1>1, Sizes DEF IInv, Types, TypeOK, Alloc, Ops, Caches, Count
<1>3. Shape'
  BY <1>1, Sizes DEF IInv, Shape, Alloc, Count
<1>4. Progress'
  BY DEF IInv, Progress, Alloc
<1>5. Overlay' = Overlay
  BY <1>1, <1>2, OverlayIsFile DEF IInv, Alloc, Overlay
<1>6. NowIsSeen'
  BY <1>5 DEF IInv, NowIsSeen, Alloc
<1>7. CleanIsSeen'
  BY <1>1, NothingClean
<1> QED
  BY <1>2, <1>3, <1>4, <1>5, <1>6, <1>7 DEF IInv

LEMMA ReturnKeeps ==
  ASSUME IInv, Return
  PROVE  IInv'
<1> USE DEF IInv
<1>1. /\ at' = "idle" /\ op' = NoOp /\ got' = <<>> /\ Len(got') = 0 /\ got' \in Seq(Bytes) /\ res' = "ok"
      /\ event' = "none" /\ UNCHANGED <<file, cache, past, edits>>
  BY DEF Return
<1>2. op' \in Ops /\ op'.kind = "none" /\ op'.offset + op'.count <= FileSize
  BY <1>1, Sizes DEF NoOp, Ops
<1>3. Types'
  BY <1>1, <1>2, TypesSay, TypesFrom, Sizes DEF Places, Count
<1>4. Shape'
  BY <1>1 DEF Shape, Count
<1>5. Progress'
  BY <1>1, <1>2 DEF Progress
<1> QED
  BY <1>1, <1>3, <1>4, <1>5, UntouchedSeen

LEMMA ReadDirectKeeps ==
  ASSUME IInv, ReadDirect
  PROVE  IInv'
<1> USE DEF IInv
<1>1. /\ op.kind = "read" /\ op.count \in Nat /\ op.offset \in Nat /\ at = "hit"
      /\ Len(got) + op.count = PageSize /\ op.offset + op.count <= FileSize
  BY Fields DEF ReadDirect, Progress
<1>2. /\ op' \in Ops /\ op'.kind = "none" /\ op'.offset + op'.count <= FileSize
      /\ got' \in Seq(Bytes) /\ Len(got') <= PageSize
      /\ at' = "done" /\ res' \in {"ok", "err"}
  <2>1. CASE Deliver(ServerBytes(op.offset, op.count), op.count) /\ at' = "done" /\ UNCHANGED res
    <3>1. ServerBytes(op.offset, op.count) \in Seq(Bytes) /\ Len(ServerBytes(op.offset, op.count)) = op.count
      BY <1>1, ServerSends
    <3>2. op.count \in 0..op.count /\ op.count <= Len(ServerBytes(op.offset, op.count))
      BY <1>1, <3>1
    <3>3. /\ op' \in Ops /\ op'.kind = "none"
          /\ op'.offset = op.offset + op.count /\ op'.count = op.count - op.count
          /\ got' \in Seq(Bytes) /\ Len(got') = Len(got) + op.count
      BY <1>1, <2>1, <3>1, <3>2, Delivered
    <3> QED
      BY <1>1, <2>1, <3>3, TypesSay, Sizes
  <2>2. CASE UNCHANGED got /\ Done("err")
    BY <1>1, <2>2, Ended, TypesSay
  <2> QED
    BY <2>1, <2>2 DEF ReadDirect
<1>3. event' = "none" /\ UNCHANGED <<file, cache, past, edits>>
  BY DEF ReadDirect
<1>4. Types'
  BY <1>2, <1>3, TypesSay, TypesFrom DEF Places, Count
<1>5. Shape'
  BY <1>2, <1>3 DEF Shape, Count
<1>6. Progress'
  BY <1>2 DEF Progress
<1> QED
  BY <1>3, <1>4, <1>5, <1>6, UntouchedSeen

\* Dirty bytes go to the server, in whole or in part, and leave the cache.
LEMMA WrittenBack ==
  ASSUME IInv, cache.type = "WRITE", cache' \in Caches, cache'.type # "WRITE",
         ServerStores(cache.offset, cache.data) \/ ServerRefuses(cache.offset, cache.data)
  PROVE  /\ file' \in [Addr -> Bytes] /\ Overlay' = file'
         /\ event' \in {"none", "refused", "others", "cut"}
         /\ \/ Overlay' = Overlay
            \/ /\ event' = "refused"
               /\ \A b \in Addr \ Unsaved : Overlay'[b] = Overlay[b]
<1> USE DEF IInv
<1>1. /\ Overlay \in [Addr -> Bytes] /\ cache.data \in Seq(Bytes) /\ cache.offset \in Nat
      /\ Count \in Nat /\ Count > 0 /\ Addr \subseteq Nat
  BY OverlayIsFile, Fields, TypesSay, Sizes DEF Shape
<1>2. ASSUME file' \in [Addr -> Bytes]
      PROVE  Overlay' = file'
  BY <1>2 DEF Overlay
<1>3. CASE ServerStores(cache.offset, cache.data)
  <2>1. file' = Overlay
    BY <1>3, StoredAll DEF ServerStores
  <2>2. file' \in [Addr -> Bytes] /\ event' = "none"
    BY <1>1, <1>3, <2>1 DEF ServerStores
  <2> QED
    BY <1>2, <2>1, <2>2
<1>4. CASE ServerRefuses(cache.offset, cache.data)
  <2>1. PICK n \in 0..Count : file' = Stored(cache.offset, SubSeq(cache.data, 1, n))
    BY <1>4 DEF ServerRefuses, Count
  <2>2. /\ file' \in [Addr -> Bytes]
        /\ \A b \in Addr : (cache.offset <= b /\ b < cache.offset + n) \/ file'[b] = file[b]
    BY <2>1, StoredPart
  <2>3. ASSUME NEW b \in Addr \ Unsaved
        PROVE  file'[b] = Overlay[b]
    <3>1. b \in Nat /\ n \in Nat /\ n <= Count
      BY <1>1
    <3>2. ~(cache.offset <= b /\ b < cache.offset + Count)
      BY <1>1 DEF Unsaved, Dirty, End
    <3>3. ~(cache.offset <= b /\ b < cache.offset + n)
      BY <1>1, <3>1, <3>2
    <3>4. Overlay[b] = file[b]
      BY <3>2 DEF Overlay, End
    <3> QED
      BY <2>2, <3>3, <3>4
  <2> QED
    BY <1>2, <1>4, <2>2, <2>3 DEF ServerRefuses
<1> QED
  BY <1>3, <1>4

\* The cache is empty and clean.
LEMMA Emptied ==
  ASSUME Types, NEW o \in 0..FileSize,
         cache' = [cache EXCEPT !.type = "READ", !.offset = o, !.data = <<>>]
  PROVE  cache' \in Caches /\ cache'.type = "READ" /\ cache'.data = <<>> /\ Count' = 0 /\ CleanIsSeen'
<1>1. cache' \in Caches /\ cache'.type = "READ" /\ cache'.data = <<>> /\ cache'.offset = o
  <2>1. cache \in Caches /\ <<>> \in Seq(Bytes)
    BY TypesSay
  <2> QED
    BY <2>1 DEF Caches
<1>2. CleanIsSeen'
  BY <1>1, Sizes, NothingClean
<1> QED
  BY <1>1, <1>2 DEF Count

LEMMA ReadFlushKeeps ==
  ASSUME IInv, ReadFlush
  PROVE  IInv'
<1> USE DEF IInv
<1>1. /\ at = "flush" /\ cache.type = "WRITE"
      /\ ServerStores(cache.offset, cache.data) \/ ServerRefuses(cache.offset, cache.data)
      /\ at' = "fill" /\ UNCHANGED <<op, got, res, edits>> /\ Remember
  BY DEF ReadFlush, Shape
<1>2. op.offset \in 0..FileSize
  BY TypesSay DEF Ops
<1>3. cache' \in Caches /\ cache'.type = "READ" /\ Count' = 0 /\ CleanIsSeen'
  BY <1>2, Emptied DEF ReadFlush
<1>4. /\ file' \in [Addr -> Bytes] /\ Overlay' \in [Addr -> Bytes]
      /\ event' \in {"none", "refused", "others", "cut"}
  BY <1>1, <1>3, WrittenBack
<1>5. Types'
  BY <1>1, <1>3, <1>4, TypesSay, TypesFrom, RememberedType, Sizes DEF Places
<1>6. Shape'
  BY <1>1, <1>3, Sizes DEF Shape
<1>7. Progress'
  BY <1>1 DEF Progress
<1> QED
  BY <1>1, <1>3, <1>5, <1>6, <1>7, RememberedSeen

LEMMA FlushKeeps ==
  ASSUME IInv, Flush
  PROVE  IInv'
<1> USE DEF IInv
<1>1. /\ at = "idle" /\ cache.type = "WRITE"
      /\ ServerStores(cache.offset, cache.data) \/ ServerRefuses(cache.offset, cache.data)
      /\ UNCHANGED <<at, op, got, res, edits>> /\ Remember
  BY DEF Flush, Dirty
<1>2. cache.offset \in 0..FileSize /\ cache' = [cache EXCEPT !.type = "READ", !.offset = cache.offset, !.data = <<>>]
  BY TypesSay DEF Flush, Caches
<1>3. cache' \in Caches /\ cache'.type = "READ" /\ Count' = 0 /\ CleanIsSeen'
  BY <1>2, Emptied
<1>4. /\ file' \in [Addr -> Bytes] /\ Overlay' \in [Addr -> Bytes]
      /\ event' \in {"none", "refused", "others", "cut"}
  BY <1>1, <1>3, WrittenBack
<1>5. Types'
  BY <1>1, <1>3, <1>4, TypesSay, TypesFrom, RememberedType, Sizes
<1>6. Shape'
  BY <1>1, <1>3, Sizes DEF Shape
<1>7. Progress'
  BY <1>1 DEF Progress
<1> QED
  BY <1>1, <1>3, <1>5, <1>6, <1>7, RememberedSeen

\* What close does to the bytes is what a flush does, or nothing.
LEMMA Closed ==
  ASSUME IInv, Close
  PROVE  /\ cache' \in Caches /\ cache'.type # "WRITE" /\ Count' = 0 /\ CleanIsSeen'
         /\ file' \in [Addr -> Bytes] /\ Overlay' \in [Addr -> Bytes]
         /\ event' \in {"none", "refused", "others", "cut"}
         /\ \/ Overlay' = Overlay
            \/ /\ event' = "refused"
               /\ \A b \in Addr \ Unsaved : Overlay'[b] = Overlay[b]
<1> USE DEF IInv
<1>1. cache' \in Caches /\ cache'.type # "WRITE" /\ Count' = 0 /\ CleanIsSeen'
  <2>1. CASE cache' = NoCache
    <3>1. cache' \in Caches /\ cache'.type = "NONE" /\ cache'.data = <<>> /\ cache'.offset = 0
      BY <2>1, Sizes DEF NoCache, Caches
    <3>2. CleanIsSeen'
      BY <3>1, NothingClean
    <3> QED
      BY <3>1, <3>2 DEF Count
  <2>2. CASE cache' = [cache EXCEPT !.type = "READ", !.data = <<>>]
    <3>1. cache.offset \in 0..FileSize /\ cache' = [cache EXCEPT !.type = "READ", !.offset = cache.offset, !.data = <<>>]
      BY <2>2, TypesSay DEF Caches
    <3> QED
      BY <3>1, Emptied
  <2> QED
    BY <2>1, <2>2 DEF Close
<1>2. CASE Dirty
  <2>1. ServerStores(cache.offset, cache.data) \/ ServerRefuses(cache.offset, cache.data)
    BY <1>2 DEF Close
  <2>2. cache.type = "WRITE"
    BY <1>2 DEF Dirty
  <2> QED
    BY <1>1, <2>1, <2>2, WrittenBack
<1>3. CASE ~Dirty
  <2>1. event' = "none" /\ UNCHANGED file /\ cache.type # "WRITE"
    <3>1. cache.type = "WRITE" => Count > 0
      BY DEF Shape
    <3> QED
      BY <1>3, <3>1 DEF Close, Dirty
  <2>2. Overlay = file /\ file \in [Addr -> Bytes]
    BY <2>1, OverlayIsFile, TypesSay
  <2>3. Overlay' = file'
    BY <1>1, <2>1, <2>2 DEF Overlay
  <2> QED
    BY <1>1, <2>1, <2>2, <2>3
<1> QED
  BY <1>2, <1>3

LEMMA CloseKeeps ==
  ASSUME IInv, Close
  PROVE  IInv'
<1> USE DEF IInv
<1>1. at = "idle" /\ UNCHANGED <<at, op, got, res, edits>> /\ Remember
  BY DEF Close
<1>2. /\ cache' \in Caches /\ cache'.type # "WRITE" /\ Count' = 0 /\ CleanIsSeen'
      /\ file' \in [Addr -> Bytes] /\ Overlay' \in [Addr -> Bytes]
      /\ event' \in {"none", "refused", "others", "cut"}
  BY Closed
<1>3. Types'
  BY <1>1, <1>2, TypesSay, TypesFrom, RememberedType, Sizes
<1>4. Shape'
  BY <1>1, <1>2, Sizes DEF Shape
<1>5. Progress'
  BY <1>1 DEF Progress
<1> QED
  BY <1>1, <1>2, <1>3, <1>4, <1>5, RememberedSeen

LEMMA ClearKeeps ==
  ASSUME IInv, Clear
  PROVE  IInv' /\ Overlay' = Overlay
<1> USE DEF IInv
<1>1. /\ at = "idle" /\ past' = [b \in Addr |-> {Overlay[b]}] /\ event' = "none"
      /\ UNCHANGED <<file, at, op, got, res, edits>>
  BY DEF Clear
<1>2. cache' \in Caches /\ Count' <= FSize /\ CleanIsSeen' /\ Overlay' = Overlay /\ Shape'
  <2>1. CASE cache.type = "READ"
    <3>1. /\ cache.offset \in 0..FileSize
          /\ cache' = [cache EXCEPT !.type = "READ", !.offset = cache.offset, !.data = <<>>]
      BY <2>1, TypesSay DEF Clear, Caches
    <3>2. cache' \in Caches /\ cache'.type = "READ" /\ Count' = 0 /\ CleanIsSeen'
      BY <3>1, Emptied
    <3>3. Overlay' = file /\ Overlay = file
      BY <1>1, <2>1, <3>2, TypesSay DEF Overlay
    <3> QED
      BY <1>1, <3>2, <3>3, Sizes DEF Shape
  <2>2. CASE cache.type # "READ"
    <3>1. cache' = cache
      BY <2>2 DEF Clear
    <3> QED
      BY <1>1, <2>2, <3>1, TypesSay DEF CleanIsSeen, Overlay, End, Count, Shape
  <2> QED
    BY <2>1, <2>2
<1>3. Types'
  <2>1. past' \in [Addr -> SUBSET Bytes]
    BY <1>1, OverlayIsFile
  <2> QED
    BY <1>1, <1>2, <2>1, TypesSay, TypesFrom
<1>4. Progress'
  BY <1>1 DEF Progress
<1>5. NowIsSeen'
  BY <1>1, <1>2 DEF NowIsSeen
<1> QED
  BY <1>2, <1>3, <1>4, <1>5

\* The file changes under the cache.
LEMMA FileKeeps ==
  ASSUME IInv, file' \in [Addr -> Bytes], UNCHANGED <<cache, at, op, got, res>>, Remember,
         edits' \in 0..MaxEdits, event' \in {"none", "refused", "others", "cut"}
  PROVE  /\ IInv'
         /\ \A b \in Addr : Overlay'[b] = IF b \in Unsaved THEN Overlay[b] ELSE file'[b]
<1> USE DEF IInv
<1>1. cache.type = "WRITE" => Count > 0
  BY DEF Shape
<1>2. /\ Overlay' \in [Addr -> Bytes]
      /\ \A b \in Addr : Overlay'[b] = IF b \in Unsaved THEN Overlay[b] ELSE file'[b]
  <2>1. Overlay' = [b \in Addr |-> IF cache.type = "WRITE" /\ cache.offset <= b /\ b < End
                                  THEN cache.data[b - cache.offset + 1] ELSE file'[b]]
    BY DEF Overlay, End, Count
  <2>2. \A b \in Addr : b \in Unsaved <=> (cache.type = "WRITE" /\ cache.offset <= b /\ b < End)
    BY <1>1 DEF Unsaved, Dirty
  <2>3. \A b \in Addr : Overlay'[b] = IF b \in Unsaved THEN Overlay[b] ELSE file'[b]
    BY <2>1, <2>2 DEF Overlay
  <2>4. \A b \in Addr : Overlay'[b] \in Bytes
    BY <2>3, OverlayIsFile
  <2> QED
    BY <2>1, <2>3, <2>4
<1>3. Types'
  BY <1>2, TypesSay, TypesFrom, RememberedType DEF Count
<1>4. Shape' /\ Progress'
  BY DEF Shape, Progress, Count
<1> QED
  BY <1>2, <1>3, <1>4, RememberedSeen, SameCacheSeen

LEMMA TruncateKeeps ==
  ASSUME IInv, Truncate
  PROVE  IInv'
<1>1. PICK size \in Addr : file' = [b \in Addr |-> IF b < size THEN file[b] ELSE Zero]
  BY DEF Truncate
<1>2. file' \in [Addr -> Bytes] /\ edits' \in 0..MaxEdits
  BY <1>1, TypesSay, Sizes, MaxEditsAssumption DEF IInv, Truncate
<1> QED
  BY <1>2, FileKeeps DEF Truncate

LEMMA ChangeKeeps ==
  ASSUME IInv, Change
  PROVE  IInv'
<1>1. file' \in [Addr -> Bytes] /\ edits' \in 0..MaxEdits
  BY TypesSay, MaxEditsAssumption DEF IInv, Change
<1> QED
  BY <1>1, FileKeeps DEF Change

\* What a read finds in the cache.
LEMMA Hit ==
  ASSUME IInv, ReadHit
  PROVE  \E s \in Seq(Bytes), n \in 0..op.count :
           /\ n <= Len(s) /\ Deliver(s, n)
           /\ \A k \in 1..n : Misplaced \/ s[k] \in past[op.offset + k - 1]
           /\ at' = IF n = op.count THEN "done" ELSE IF cache.type = "WRITE" THEN "flush" ELSE "fill"
<1> USE DEF IInv
<1> DEFINE s == IF cache.offset <= op.offset /\ op.offset < End
                THEN SubSeq(cache.data, op.offset - cache.offset + 1, Count) ELSE <<>>
           n == Smaller(op.count, Len(s))
<1>1. /\ Deliver(s, n) /\ at = "hit" /\ cache.type # "NONE"
      /\ at' = IF n = op.count THEN "done" ELSE IF cache.type = "WRITE" THEN "flush" ELSE "fill"
  BY DEF ReadHit
<1>2. /\ cache.offset \in Nat /\ cache.data \in Seq(Bytes) /\ Count \in Nat
      /\ op.offset \in Nat /\ op.count \in Nat /\ op.offset + op.count <= FileSize
      /\ cache.type \in {"NONE", "READ", "WRITE"}
  BY Fields, TypesSay DEF Progress
<1>3. /\ s \in Seq(Bytes) /\ Len(s) \in Nat
      /\ \A k \in 1..Len(s) : /\ s[k] = cache.data[(op.offset + k - 1) - cache.offset + 1]
                              /\ cache.offset <= op.offset + k - 1 /\ op.offset + k - 1 < End
  <2>1. CASE cache.offset <= op.offset /\ op.offset < End
    <3>1. PICK m \in Nat : m = op.offset - cache.offset + 1 /\ m >= 1 /\ m <= Count
      BY <1>2, <2>1 DEF End
    <3>2. SubSeq(cache.data, m, Count) \in Seq(Bytes) /\ Len(SubSeq(cache.data, m, Count)) = Count - m + 1
          /\ \A k \in 1..(Count - m + 1) : SubSeq(cache.data, m, Count)[k] = cache.data[m + k - 1]
      <4>1. \A i \in m..Count : cache.data[i] \in Bytes
        BY <1>2, <3>1 DEF Count
      <4> QED
        BY <1>2, <3>1, <4>1, SubSeqProperties
    <3>3. s = SubSeq(cache.data, m, Count)
      BY <2>1, <3>1
    <3>4. \A k \in 1..(Count - m + 1) : m + k - 1 = (op.offset + k - 1) - cache.offset + 1
      <4>1. PICK a \in Nat, c \in Nat : a = op.offset /\ c = cache.offset
        BY <1>2, Zenon
      <4>2. m = a - c + 1
        BY <3>1, <4>1, Zenon
      <4>3. ASSUME NEW k \in 1..(Count - m + 1)
            PROVE  m + k - 1 = (op.offset + k - 1) - cache.offset + 1
        <5>1. k \in Nat
          OBVIOUS
        <5>2. m + k - 1 = (a + k - 1) - c + 1
          BY <4>2, <5>1
        <5> QED
          BY <4>1, <5>2, Zenon
      <4> QED
        BY <4>3
    <3>5. ASSUME NEW k \in 1..(Count - m + 1)
          PROVE  cache.offset <= op.offset + k - 1 /\ op.offset + k - 1 < End
      <4>1. \A a, c, l, i \in Nat :
              i = a - c + 1 /\ i >= 1 => \A j \in 1..(l - i + 1) : c <= a + j - 1 /\ a + j - 1 < c + l
        OBVIOUS
      <4>2. cache.offset <= op.offset + k - 1 /\ op.offset + k - 1 < cache.offset + Count
        BY <1>2, <3>1, <4>1, Zenon
      <4> QED
        BY <4>2 DEF End
    <3>6. Count - m + 1 \in Nat
      BY <1>2, <3>1
    <3> HIDE DEF s
    <3> QED
      BY <3>2, <3>3, <3>4, <3>5, <3>6
  <2>2. CASE ~(cache.offset <= op.offset /\ op.offset < End)
    BY <2>2
  <2> QED
    BY <2>1, <2>2
<1> HIDE DEF s
<1>4. n \in 0..op.count /\ n <= Len(s)
  BY <1>2, <1>3 DEF Smaller
<1>5. ASSUME NEW k \in 1..n
      PROVE  Misplaced \/ s[k] \in past[op.offset + k - 1]
  <2>1. k \in 1..Len(s) /\ n \in Nat
    BY <1>2, <1>3, <1>4
  <2>2. PICK b \in Nat : b = op.offset + k - 1
    BY <1>2
  <2>3. b \in Addr
    BY <1>2, <1>4, <2>2, Sizes DEF Addr
  <2>4. s[k] = cache.data[b - cache.offset + 1] /\ cache.offset <= b /\ b < End
    BY <1>3, <2>1, <2>2
  <2>5. CASE cache.type = "WRITE"
    <3>1. Overlay[b] = s[k]
      BY <2>3, <2>4, <2>5 DEF Overlay
    <3> QED
      BY <2>2, <2>3, <3>1 DEF NowIsSeen
  <2>6. CASE cache.type = "READ"
    BY <2>2, <2>3, <2>4, <2>6 DEF CleanIsSeen
  <2> QED
    BY <1>1, <1>2, <2>5, <2>6
<1> QED
  BY <1>1, <1>3, <1>4, <1>5

LEMMA ReadHitKeeps ==
  ASSUME IInv, ReadHit
  PROVE  IInv'
<1> USE DEF IInv
<1>1. PICK s \in Seq(Bytes), n \in 0..op.count :
        /\ n <= Len(s) /\ Deliver(s, n)
        /\ at' = IF n = op.count THEN "done" ELSE IF cache.type = "WRITE" THEN "flush" ELSE "fill"
  BY Hit
<1>2. /\ at = "hit" /\ op.kind = "read" /\ op.count \in Nat /\ op.offset \in Nat /\ op.count > 0
      /\ op.offset + op.count <= FileSize
      /\ (op.offset + op.count) % PageSize = 0
      /\ Len(got) + op.count = PageSize
      /\ Len(got) \in Nat
      /\ cache.type \in {"READ", "WRITE"}
      /\ event' = "none" /\ UNCHANGED <<file, cache, res, past, edits>>
  BY Fields, TypesSay DEF ReadHit, Progress
<1>3. /\ op' \in Ops
      /\ op'.offset = op.offset + n /\ op'.count = op.count - n
      /\ op'.kind = IF n = op.count THEN "none" ELSE "read"
      /\ got' \in Seq(Bytes) /\ Len(got') = Len(got) + n
  BY <1>1, <1>2, Delivered
<1>4. n \in Nat /\ n <= op.count
  BY <1>2
<1>5. Types'
  BY <1>1, <1>2, <1>3, <1>4, TypesSay, TypesFrom, Sizes DEF Places, Count
<1>6. Shape'
  BY <1>1, <1>2 DEF Shape, Count
<1>7. Progress'
  <2>1. op'.offset + op'.count = op.offset + op.count /\ Len(got') + op'.count = Len(got) + op.count
    <3>1. \A o, c, i \in Nat : (o + i) + (c - i) = o + c
      OBVIOUS
    <3>2. (op.offset + n) + (op.count - n) = op.offset + op.count
      BY <1>2, <1>4, <3>1, Zenon
    <3>3. (Len(got) + n) + (op.count - n) = Len(got) + op.count
      BY <1>2, <1>4, <3>1, Zenon
    <3> QED
      BY <1>3, <3>2, <3>3, Zenon
  <2>2. CASE n = op.count
    BY <1>1, <1>2, <1>3, <2>1, <2>2 DEF Progress
  <2>3. CASE n # op.count
    BY <1>1, <1>2, <1>3, <1>4, <2>1, <2>3 DEF Progress
  <2> QED
    BY <2>2, <2>3
<1> QED
  BY <1>2, <1>5, <1>6, <1>7, UntouchedSeen

\* Bytes the server stores are where they belong, the others are as before.
LEMMA StoredIs ==
  ASSUME Types, NEW o \in Nat, NEW s \in Seq(Bytes)
  PROVE  /\ Stored(o, s) \in [Addr -> Bytes]
         /\ \A b \in Addr : Stored(o, s)[b] = IF o <= b /\ b < o + Len(s) THEN s[b - o + 1] ELSE file[b]
<1>1. ASSUME NEW b \in Addr
      PROVE  (IF o <= b /\ b < o + Len(s) THEN s[b - o + 1] ELSE file[b]) \in Bytes
  <2>1. b \in Nat /\ file[b] \in Bytes /\ Len(s) \in Nat
    BY TypesSay, Sizes
  <2>2. CASE o <= b /\ b < o + Len(s)
    <3>1. b - o + 1 \in 1..Len(s)
      BY <2>1, <2>2
    <3> QED
      BY <2>2, <3>1
  <2> QED
    BY <2>1, <2>2
<1> QED
  BY <1>1 DEF Stored

\* The bytes of a write without a cache.
LEMMA Direct ==
  ASSUME Types, WriteDirect
  PROVE  /\ file' \in [Addr -> Bytes] /\ Overlay' = file' /\ Overlay = file
         /\ event' \in {"none", "refused", "others", "cut"}
         /\ \A b \in Addr : \/ file'[b] = file[b]
                            \/ op.offset <= b /\ b < op.offset + op.count /\ file'[b] = op.val
<1> DEFINE s == [k \in 1..op.count |-> op.val]
<1>1. op.offset \in Nat /\ op.count \in Nat /\ op.val \in Bytes /\ Addr \in SUBSET Nat
  BY Fields, Sizes
<1>2. s \in Seq(Bytes) /\ Len(s) = op.count /\ \A k \in 1..op.count : s[k] = op.val
  BY <1>1
<1>3. cache.type = "NONE" /\ UNCHANGED cache
  BY DEF WriteDirect
<1> DEFINE Right(f) == /\ f \in [Addr -> Bytes]
                       /\ \A b \in Addr : \/ f[b] = file[b]
                                          \/ op.offset <= b /\ b < op.offset + op.count /\ f[b] = op.val
<1>4. ASSUME NEW t \in Seq(Bytes), Len(t) <= op.count, \A k \in 1..Len(t) : t[k] = op.val
      PROVE  Right(Stored(op.offset, t))
  <2>1. ASSUME NEW b \in Addr, op.offset <= b /\ b < op.offset + Len(t)
        PROVE  b < op.offset + op.count /\ t[b - op.offset + 1] = op.val
    <3>1. b \in Nat /\ Len(t) \in Nat
      BY <1>1
    <3>2. b - op.offset + 1 \in 1..Len(t) /\ b < op.offset + op.count
      BY <1>1, <1>4, <2>1, <3>1
    <3> QED
      BY <1>4, <3>2
  <2> QED
    BY <1>1, <2>1, StoredIs
<1> HIDE DEF s
<1>5. Right(file') /\ event' \in {"none", "refused"}
  <2> HIDE DEF Right
  <2>1. CASE ServerStores(op.offset, s)
    <3>1. Right(Stored(op.offset, s))
      BY <1>1, <1>2, <1>4
    <3> QED
      BY <2>1, <3>1 DEF ServerStores
  <2>2. CASE ServerRefuses(op.offset, s)
    <3>1. PICK n \in 0..Len(s) : file' = Stored(op.offset, SubSeq(s, 1, n))
      BY <2>2 DEF ServerRefuses
    <3>2. /\ SubSeq(s, 1, n) \in Seq(Bytes) /\ Len(SubSeq(s, 1, n)) = n
          /\ \A k \in 1..n : SubSeq(s, 1, n)[k] = s[k]
      BY <1>1, <1>2
    <3>3. n <= op.count /\ \A k \in 1..n : SubSeq(s, 1, n)[k] = op.val
      BY <1>1, <1>2, <3>2
    <3>4. Right(Stored(op.offset, SubSeq(s, 1, n)))
      BY <1>4, <3>2, <3>3
    <3> QED
      BY <2>2, <3>1, <3>4 DEF ServerRefuses
  <2> QED
    BY <2>1, <2>2 DEF WriteDirect, s
<1>6. Overlay' = file' /\ Overlay = file
  BY <1>3, <1>5, TypesSay DEF Overlay
<1> QED
  BY <1>5, <1>6

LEMMA WriteDirectKeeps ==
  ASSUME IInv, WriteDirect
  PROVE  IInv'
<1> USE DEF IInv
<1>1. /\ at = "put" /\ cache.type = "NONE" /\ UNCHANGED <<cache, got, edits>> /\ Remember
      /\ \E r \in {"ok", "err"} : Done(r)
  BY DEF WriteDirect
<1>2. /\ file' \in [Addr -> Bytes] /\ Overlay' \in [Addr -> Bytes]
      /\ event' \in {"none", "refused", "others", "cut"}
  BY Direct
<1>3. /\ at' = "done" /\ res' \in {"ok", "err"} /\ op' \in Ops /\ op'.kind = "none"
      /\ op'.offset + op'.count <= FileSize
  BY <1>1, Ended DEF Progress
<1>4. Types'
  BY <1>1, <1>2, <1>3, TypesSay, TypesFrom, RememberedType DEF Places, Count
<1>5. Shape'
  BY <1>1, <1>3 DEF Shape, Count
<1>6. Progress'
  BY <1>3 DEF Progress
<1> QED
  BY <1>1, <1>4, <1>5, <1>6, RememberedSeen, SameCacheSeen

\* The first byte of the cache is sent, or nothing.
LEMMA Probed ==
  ASSUME IInv, WriteProbe
  PROVE  /\ file' \in [Addr -> Bytes] /\ Overlay' = Overlay
         /\ event' \in {"none", "refused", "others", "cut"}
         /\ cache' \in Caches /\ cache'.type = "WRITE" /\ UNCHANGED Count /\ UNCHANGED Unsaved
<1> USE DEF IInv
<1>1. /\ cache.type = "WRITE" /\ Count > 0 /\ Count \in Nat
      /\ cache.offset \in Nat /\ cache.data \in Seq(Bytes)
  BY Fields, TypesSay DEF WriteProbe, Shape
<1>2. CASE cache.new /\ op.wrote > 0
  <2>1. cache' = [cache EXCEPT !.new = FALSE]
    BY <1>2 DEF WriteProbe
  <2>2. /\ cache' \in Caches /\ cache'.type = "WRITE"
        /\ cache'.offset = cache.offset /\ cache'.data = cache.data
    BY <1>1, <2>1, TypesSay DEF Caches
  <2>3. PICK n \in 0..1 : file' = Stored(cache.offset, SubSeq(cache.data, 1, n))
    <3>1. Len(SubSeq(cache.data, 1, 1)) = 1 /\ 1 \in 1..Len(cache.data)
      BY <1>1 DEF Count
    <3>2. CASE ServerStores(cache.offset, SubSeq(cache.data, 1, 1))
      BY <3>2 DEF ServerStores
    <3>3. CASE ServerRefuses(cache.offset, SubSeq(cache.data, 1, 1))
      <4>1. PICK n \in 0..1 : file' = Stored(cache.offset, SubSeq(SubSeq(cache.data, 1, 1), 1, n))
        BY <3>1, <3>3 DEF ServerRefuses
      <4>2. SubSeq(SubSeq(cache.data, 1, 1), 1, n) = SubSeq(cache.data, 1, n)
        <5>1. CASE n = 1
          <6>1. SubSeq(SubSeq(cache.data, 1, 1), 1, 1) = SubSeq(cache.data, 1, 1)
            <7>1. SubSeq(cache.data, 1, 1) \in Seq(Bytes)
              BY <1>1, <3>1
            <7> QED
              BY <3>1, <7>1, SubSeqFull
          <6> QED
            BY <5>1, <6>1
        <5>2. CASE n = 0
          BY <5>2, SubSeqEmpty
        <5> QED
          BY <5>1, <5>2
      <4> QED
        BY <4>1, <4>2
    <3> QED
      BY <1>2, <3>2, <3>3 DEF WriteProbe
  <2>4. n \in 0..Count /\ n \in Nat
    BY <1>1
  <2>5. /\ file' \in [Addr -> Bytes]
        /\ \A b \in Addr : file'[b] = IF cache.offset <= b /\ b < cache.offset + n
                                      THEN cache.data[b - cache.offset + 1] ELSE file[b]
    BY <2>3, <2>4, StoredPart
  <2>6. ASSUME NEW b \in Addr
        PROVE  Overlay'[b] = Overlay[b]
    <3>1. b \in Nat
      BY Sizes
    <3>2. b < cache.offset + n => b < End
      BY <1>1, <2>4, <3>1 DEF End
    <3>3. Overlay'[b] = IF cache.offset <= b /\ b < End THEN cache.data[b - cache.offset + 1] ELSE file'[b]
      BY <2>2 DEF Overlay, End, Count
    <3>4. Overlay[b] = IF cache.offset <= b /\ b < End THEN cache.data[b - cache.offset + 1] ELSE file[b]
      BY <1>1 DEF Overlay
    <3> QED
      BY <2>5, <3>2, <3>3, <3>4
  <2>7. Overlay' = Overlay
    BY <2>6 DEF Overlay
  <2>8. event' \in {"none", "refused"}
    BY <1>2 DEF WriteProbe, ServerStores, ServerRefuses
  <2> QED
    BY <1>1, <2>2, <2>5, <2>7, <2>8 DEF Count, Unsaved, Dirty, End
<1>3. CASE ~(cache.new /\ op.wrote > 0)
  <2>1. event' = "none" /\ UNCHANGED <<file, cache>>
    BY <1>3 DEF WriteProbe
  <2> QED
    BY <1>1, <2>1, TypesSay DEF Overlay, End, Count, Unsaved, Dirty
<1> QED
  BY <1>2, <1>3

LEMMA WriteProbeKeeps ==
  ASSUME IInv, WriteProbe
  PROVE  IInv'
<1> USE DEF IInv
<1>1. /\ at = "probe" /\ UNCHANGED <<got, edits>> /\ Remember
      /\ \E r \in {"ok", "err"} : Done(r)
  BY TypesSay DEF WriteProbe
<1>2. /\ file' \in [Addr -> Bytes] /\ Overlay' \in [Addr -> Bytes]
      /\ event' \in {"none", "refused", "others", "cut"}
      /\ cache' \in Caches /\ cache'.type = "WRITE" /\ Count' = Count /\ Count > 0
  BY Probed, OverlayIsFile DEF Shape, WriteProbe
<1>3. /\ at' = "done" /\ res' \in {"ok", "err"} /\ op' \in Ops /\ op'.kind = "none"
      /\ op'.offset + op'.count <= FileSize
  BY <1>1, Ended DEF Progress
<1>4. Types'
  BY <1>1, <1>2, <1>3, TypesSay, TypesFrom, RememberedType DEF Places
<1>5. Shape'
  BY <1>2, <1>3 DEF Shape
<1>6. Progress'
  BY <1>3 DEF Progress
<1>7. CleanIsSeen'
  BY <1>2 DEF CleanIsSeen
<1> QED
  BY <1>1, <1>4, <1>5, <1>6, <1>7, RememberedSeen

\* A write puts its first bytes in the cache, or none.
LEMMA PutInCache ==
  ASSUME IInv, WritePut
  PROVE  /\ cache' \in Caches /\ cache'.type = "WRITE" /\ Count' \in 1..FSize
         /\ Overlay' \in [Addr -> Bytes]
         /\ \A b \in Addr : \/ Overlay'[b] = Overlay[b]
                            \/ op.offset <= b /\ b < op.offset + op.count /\ Overlay'[b] = op.val
         /\ Unsaved' \subseteq Unsaved \cup {b \in Addr : op.offset <= b /\ b < op.offset + op.count}
         /\ \E n \in 0..op.count : Took(n) /\ at' = IF n = op.count THEN "probe" ELSE "more"
<1> USE DEF IInv
<1> DEFINE c == IF cache.type = "READ"
                THEN [cache EXCEPT !.type = "WRITE", !.offset = op.offset, !.data = <<>>] ELSE cache
           o == op.offset - c.offset
           fits == c.offset <= op.offset /\ o <= Len(c.data)
           n == IF fits THEN Smaller(op.count, FSize - o) ELSE 0
           len == IF o + n > Len(c.data) THEN o + n ELSE Len(c.data)
           s == [k \in 1..len |-> IF o < k /\ k <= o + n THEN op.val ELSE c.data[k]]
<1>1. /\ at = "put" /\ cache.type # "NONE"
      /\ cache' = IF fits THEN [c EXCEPT !.data = s] ELSE c
      /\ Took(n)
      /\ at' = IF n = op.count THEN "probe" ELSE "more"
      /\ UNCHANGED file
  BY DEF WritePut
<1>2. /\ op.offset \in 0..FileSize /\ op.offset \in Nat /\ op.count \in Nat /\ op.count > 0
      /\ op.count <= PageSize /\ op.val \in Bytes
      /\ cache \in Caches /\ cache.offset \in 0..FileSize /\ Count \in Nat /\ Count <= FSize
      /\ cache.type \in {"READ", "WRITE"} /\ FSize \in Nat /\ PageSize <= FSize /\ PageSize \in Nat
      /\ Addr \in SUBSET Nat /\ file \in [Addr -> Bytes]
  BY <1>1, Fields, TypesSay, Sizes DEF Progress, Ops
<1>3. /\ c \in Caches /\ c.type = "WRITE" /\ c.offset \in 0..FileSize /\ c.offset \in Nat
      /\ c.data \in Seq(Bytes) /\ Len(c.data) \in Nat /\ Len(c.data) <= FSize
      /\ Overlay = [b \in Addr |-> IF c.offset <= b /\ b < c.offset + Len(c.data)
                                   THEN c.data[b - c.offset + 1] ELSE file[b]]
      /\ Unsaved = {b \in Addr : c.offset <= b /\ b < c.offset + Len(c.data)}
      /\ (~fits => c = cache /\ Len(c.data) > 0)
      /\ (Len(c.data) = 0 => fits /\ o = 0)
  <2>1. CASE cache.type = "READ"
    <3>1. c = [cache EXCEPT !.type = "WRITE", !.offset = op.offset, !.data = <<>>]
      BY <2>1
    <3> HIDE DEF c
    <3>2. c.type = "WRITE" /\ c.offset = op.offset /\ c.data = <<>> /\ Len(c.data) = 0
      BY <1>2, <3>1 DEF Caches
    <3>3. c \in Caches
      <4>1. <<>> \in Seq(Bytes)
        OBVIOUS
      <4> QED
        BY <1>2, <3>1, <4>1 DEF Caches
    <3>4. fits /\ o = 0
      BY <1>2, <3>2
    <3>5. Overlay = file /\ Unsaved = {}
      BY <2>1, OverlayIsFile DEF Unsaved, Dirty
    <3>6. \A b \in Addr : ~(c.offset <= b /\ b < c.offset + Len(c.data))
      BY <1>2, <3>2
    <3>7. file = [b \in Addr |-> file[b]]
      BY <1>2
    <3> QED
      BY <1>2, <3>2, <3>3, <3>4, <3>5, <3>6, <3>7
  <2>2. CASE cache.type = "WRITE"
    <3>1. c = cache
      BY <2>2
    <3>2. Len(c.data) > 0
      BY <2>2, <3>1 DEF Shape, Count
    <3>3. c.data \in Seq(Bytes) /\ Len(c.data) = Count
      BY <1>2, <3>1 DEF Caches, Count
    <3> HIDE DEF c
    <3> QED
      BY <1>2, <2>2, <3>1, <3>2, <3>3 DEF Overlay, Unsaved, Dirty, End
  <2> QED
    BY <1>2, <2>1, <2>2
<1> HIDE DEF c
<1>4. c.offset \in Nat /\ Len(c.data) \in Nat
  BY <1>3
<1>5. CASE fits
  <2>1. /\ o \in Nat /\ op.offset = c.offset + o /\ o <= Len(c.data) /\ o <= FSize
        /\ n = Smaller(op.count, FSize - o)
    BY <1>2, <1>3, <1>5
  <2> HIDE DEF o, fits
  <2>2. n \in Nat /\ n <= op.count /\ o + n <= FSize
    BY <1>2, <2>1 DEF Smaller
  <2>3. Len(c.data) = 0 => n > 0
    BY <1>2, <1>3, <2>1 DEF Smaller
  <2> HIDE DEF n
  <2>4. len \in 1..FSize /\ o + n <= len /\ Len(c.data) <= len /\ (len = o + n \/ len = Len(c.data))
    BY <1>2, <1>3, <2>1, <2>2, <2>3, SMTT(30)
  <2> HIDE DEF len
  <2>5. \A k \in 1..len : s[k] \in Bytes
    <3>1. ASSUME NEW k \in 1..len, ~(o < k /\ k <= o + n)
          PROVE  c.data[k] \in Bytes
      <4>1. k \in 1..Len(c.data)
        BY <1>3, <2>1, <2>2, <2>4, <3>1
      <4> QED
        BY <1>3, <4>1
    <3> QED
      BY <1>2, <3>1
  <2>6. s \in Seq(Bytes) /\ Len(s) = len
    BY <2>4, <2>5
  <2>7. /\ cache' \in Caches /\ cache'.type = "WRITE" /\ cache'.offset = c.offset /\ cache'.data = s
    BY <1>1, <1>3, <1>5, <2>6 DEF Caches
  <2>8. ASSUME NEW b \in Addr
        PROVE  /\ Overlay'[b] \in Bytes
               /\ \/ Overlay'[b] = Overlay[b]
                  \/ op.offset <= b /\ b < op.offset + op.count /\ Overlay'[b] = op.val
               /\ b \in Unsaved' => b \in Unsaved \/ (op.offset <= b /\ b < op.offset + op.count)
    <3>1. b \in Nat /\ Overlay[b] \in Bytes
      BY <1>2, OverlayIsFile
    <3>2. Overlay'[b] = IF c.offset <= b /\ b < c.offset + len THEN s[b - c.offset + 1] ELSE file[b]
      <4>1. Count' = len
        BY <2>6, <2>7, Zenon DEF Count
      <4>2. End' = c.offset + len
        BY <2>7, <4>1, Zenon DEF End
      <4>3. Overlay'[b] = IF cache'.type = "WRITE" /\ cache'.offset <= b /\ b < End'
                          THEN cache'.data[b - cache'.offset + 1] ELSE file'[b]
        BY Zenon DEF Overlay
      <4>4. file' = file
        BY <1>1
      <4> QED
        BY <2>7, <4>2, <4>3, <4>4, Zenon
    <3>3. b \in Unsaved' => c.offset <= b /\ b < c.offset + len
      BY <2>6, <2>7 DEF Unsaved, Dirty, End, Count
    <3>4. CASE op.offset <= b /\ b < op.offset + n
      <4>1. PICK k \in 1..len : k = b - c.offset + 1 /\ o < k /\ k <= o + n
        BY <1>4, <2>1, <2>2, <2>4, <3>1, <3>4, SMTT(30)
      <4>2. s[k] = op.val
        BY <4>1
      <4>3. c.offset <= b /\ b < c.offset + len /\ b < op.offset + op.count
        <5>1. op.offset \in Nat /\ op.count \in Nat /\ o \in Nat /\ len \in Nat
          BY <1>2, <2>1, <2>4
        <5>2. c.offset <= b /\ b < c.offset + len
          BY <1>4, <2>1, <2>2, <2>4, <3>1, <3>4, <5>1
        <5>3. b < op.offset + op.count
          BY <2>2, <3>1, <3>4, <5>1
        <5> QED
          BY <5>2, <5>3
      <4> QED
        BY <1>2, <3>2, <3>4, <4>1, <4>2, <4>3
    <3>5. CASE ~(op.offset <= b /\ b < op.offset + n)
      <4>1. CASE c.offset <= b /\ b < c.offset + len
        <5>1. PICK k \in 1..len : k = b - c.offset + 1 /\ ~(o < k /\ k <= o + n)
          BY <1>4, <2>1, <2>2, <2>4, <3>1, <3>5, <4>1, SMTT(30)
        <5>2. s[k] = c.data[k]
          BY <5>1
        <5>3. k <= Len(c.data)
          BY <1>4, <2>1, <2>2, <2>4, <5>1
        <5>4. b < c.offset + Len(c.data)
          BY <1>4, <3>1, <5>1, <5>3
        <5> QED
          BY <1>3, <3>1, <3>2, <4>1, <5>1, <5>2, <5>4
      <4>2. CASE ~(c.offset <= b /\ b < c.offset + len)
        <5>1. ~(c.offset <= b /\ b < c.offset + Len(c.data))
          BY <1>4, <2>4, <3>1, <4>2
        <5> QED
          BY <1>3, <3>1, <3>2, <3>3, <4>2, <5>1
      <4> QED
        BY <4>1, <4>2
    <3> QED
      BY <3>4, <3>5
  <2>9. Overlay' = [b \in Addr |-> Overlay'[b]] /\ Unsaved' \subseteq Addr
    BY DEF Overlay, Unsaved
  <2>10. Overlay' \in [Addr -> Bytes]
    BY <2>8, <2>9
  <2>11. Count' \in 1..FSize
    BY <2>4, <2>6, <2>7 DEF Count
  <2>12. n \in 0..op.count
    BY <1>2, <2>2
  <2>13. Unsaved' \subseteq Unsaved \cup {b \in Addr : op.offset <= b /\ b < op.offset + op.count}
    BY <2>8, <2>9
  <2> QED
    BY <1>1, <2>7, <2>8, <2>10, <2>11, <2>12, <2>13
<1>6. CASE ~fits
  <2>1. cache' = cache /\ cache.type = "WRITE" /\ Count > 0 /\ n = 0 /\ 0 \in 0..op.count
    BY <1>1, <1>2, <1>3, <1>6 DEF Count
  <2>2. Overlay' = Overlay /\ Unsaved' = Unsaved /\ Count' = Count
    BY <1>1, <2>1 DEF Overlay, Unsaved, Dirty, End, Count
  <2>3. Count \in 1..FSize
    BY <1>2, <2>1
  <2> QED
    BY <1>1, <1>2, <2>1, <2>2, <2>3, OverlayIsFile
<1> QED
  BY <1>5, <1>6

LEMMA WritePutKeeps ==
  ASSUME IInv, WritePut
  PROVE  IInv'
<1> USE DEF IInv
<1>1. /\ at = "put" /\ event' = "none" /\ UNCHANGED <<file, got, res, edits>> /\ Remember
  BY DEF WritePut
<1>2. /\ cache' \in Caches /\ cache'.type = "WRITE" /\ Count' \in 1..FSize
      /\ Overlay' \in [Addr -> Bytes]
  BY PutInCache
<1>3. PICK n \in 0..op.count : Took(n) /\ at' = IF n = op.count THEN "probe" ELSE "more"
  BY PutInCache
<1>4. /\ op.kind = "write" /\ op.count \in Nat /\ op.offset \in Nat /\ op.wrote \in Nat
      /\ op.offset + op.count <= FileSize /\ op.wrote + op.count <= PageSize /\ n \in Nat
  BY <1>1, Fields DEF Progress
<1>5. /\ op' \in Ops /\ op'.offset = op.offset + n /\ op'.count = op.count - n
      /\ op'.wrote = op.wrote + n /\ op'.kind = op.kind
  BY <1>3, <1>4, Put
<1>6. Count' <= FSize /\ Count' > 0
  BY <1>2, Sizes
<1>7. Types'
  BY <1>1, <1>2, <1>3, <1>5, <1>6, TypesSay, TypesFrom, RememberedType DEF Places
<1>8. Shape'
  BY <1>2, <1>3, <1>6 DEF Shape
<1>9. Progress'
  <2>1. op'.offset + op'.count = op.offset + op.count /\ op'.wrote + op'.count = op.wrote + op.count
    BY <1>4, <1>5
  <2>2. n # op.count => op'.count > 0
    BY <1>4, <1>5
  <2> QED
    BY <1>3, <1>4, <1>5, <2>1, <2>2 DEF Progress
<1>10. CleanIsSeen'
  BY <1>2 DEF CleanIsSeen
<1> QED
  BY <1>1, <1>7, <1>8, <1>9, <1>10, RememberedSeen

\* The run is written and what is left of the write becomes the next one.
LEMMA NextRun ==
  ASSUME IInv, at = "more", ServerStores(cache.offset, cache.data),
         cache' = [cache EXCEPT !.offset = op.offset,
                                !.data = [k \in 1..Smaller(op.count, FSize) |-> op.val]]
  PROVE  /\ Smaller(op.count, FSize) = op.count
         /\ file' \in [Addr -> Bytes] /\ event' = "none"
         /\ cache' \in Caches /\ cache'.type = "WRITE" /\ Count' \in 1..FSize
         /\ Overlay' \in [Addr -> Bytes]
         /\ \A b \in Addr : \/ Overlay'[b] = Overlay[b]
                            \/ op.offset <= b /\ b < op.offset + op.count /\ Overlay'[b] = op.val
         /\ Unsaved' \subseteq {b \in Addr : op.offset <= b /\ b < op.offset + op.count}
<1> USE DEF IInv
<1>1. /\ op.offset \in 0..FileSize /\ op.offset \in Nat /\ op.count \in Nat /\ op.count > 0
      /\ op.val \in Bytes /\ op.count <= FSize /\ FSize \in Nat /\ Addr \in SUBSET Nat
      /\ cache \in Caches /\ cache.type = "WRITE"
  BY Fields, TypesSay, Sizes DEF Progress, Shape, Ops
<1>2. Smaller(op.count, FSize) = op.count
  BY <1>1 DEF Smaller
<1> DEFINE s == [k \in 1..op.count |-> op.val]
<1>3. s \in Seq(Bytes) /\ Len(s) = op.count /\ \A k \in 1..op.count : s[k] = op.val
  BY <1>1
<1>4. cache' = [cache EXCEPT !.offset = op.offset, !.data = s]
  BY <1>2
<1> HIDE DEF s
<1>5. /\ cache' \in Caches /\ cache'.type = "WRITE" /\ cache'.offset = op.offset /\ cache'.data = s
      /\ Count' = op.count
  BY <1>1, <1>3, <1>4 DEF Caches, Count
<1>6. file' = Overlay /\ Overlay \in [Addr -> Bytes] /\ event' = "none"
  BY <1>1, StoredAll, OverlayIsFile DEF ServerStores
<1>7. ASSUME NEW b \in Addr
      PROVE  /\ Overlay'[b] \in Bytes
             /\ \/ Overlay'[b] = Overlay[b]
                \/ op.offset <= b /\ b < op.offset + op.count /\ Overlay'[b] = op.val
             /\ b \in Unsaved' => op.offset <= b /\ b < op.offset + op.count
  <2>1. b \in Nat /\ Overlay[b] \in Bytes
    BY <1>1, <1>6
  <2>2. Overlay'[b] = IF op.offset <= b /\ b < op.offset + op.count THEN s[b - op.offset + 1] ELSE Overlay[b]
    <3>1. Overlay'[b] = IF op.offset <= b /\ b < op.offset + op.count THEN s[b - op.offset + 1] ELSE file'[b]
      <4>1. End' = op.offset + op.count
        BY <1>5 DEF End
      <4>2. Overlay'[b] = IF cache'.type = "WRITE" /\ cache'.offset <= b /\ b < End'
                          THEN cache'.data[b - cache'.offset + 1] ELSE file'[b]
        BY DEF Overlay
      <4>3. cache'.type = "WRITE" /\ cache'.offset = op.offset /\ cache'.data = s
        BY <1>5
      <4> QED
        BY <4>1, <4>2, <4>3, Zenon
    <3> QED
      BY <1>6, <3>1
  <2>3. CASE op.offset <= b /\ b < op.offset + op.count
    <3>1. b - op.offset + 1 \in 1..op.count
      BY <1>1, <2>1, <2>3
    <3> QED
      BY <1>1, <1>3, <2>2, <2>3, <3>1
  <2>4. CASE ~(op.offset <= b /\ b < op.offset + op.count)
    BY <1>5, <2>1, <2>2, <2>4 DEF Unsaved, Dirty, End
  <2> QED
    BY <2>3, <2>4
<1>8. Overlay' = [b \in Addr |-> Overlay'[b]] /\ Unsaved' \subseteq Addr
  BY DEF Overlay, Unsaved
<1>9. Overlay' \in [Addr -> Bytes]
  BY <1>7, <1>8
<1>10. Unsaved' \subseteq {b \in Addr : op.offset <= b /\ b < op.offset + op.count}
  BY <1>7, <1>8
<1>11. Count' \in 1..FSize
  BY <1>1, <1>5
<1> QED
  BY <1>2, <1>5, <1>6, <1>7, <1>9, <1>10, <1>11

\* A run the server refuses stays in the cache.
LEMMA RunRefused ==
  ASSUME IInv, at = "more", ServerRefuses(cache.offset, cache.data), UNCHANGED cache
  PROVE  file' \in [Addr -> Bytes] /\ event' = "refused" /\ Overlay' = Overlay /\ Unsaved' = Unsaved
<1> USE DEF IInv
<1>1. cache.type = "WRITE" /\ Count \in Nat /\ Addr \in SUBSET Nat /\ cache.offset \in Nat
  BY TypesSay, Fields, Sizes DEF Shape
<1>2. PICK n \in 0..Count : file' = Stored(cache.offset, SubSeq(cache.data, 1, n))
  BY DEF ServerRefuses, Count
<1>3. /\ file' \in [Addr -> Bytes]
      /\ \A b \in Addr : (cache.offset <= b /\ b < cache.offset + n) \/ file'[b] = file[b]
  BY <1>2, StoredPart
<1>4. ASSUME NEW b \in Addr
      PROVE  Overlay'[b] = Overlay[b]
  <2>1. b \in Nat /\ (b < cache.offset + n => b < End)
    BY <1>1 DEF End
  <2>2. /\ Overlay'[b] = IF cache.offset <= b /\ b < End THEN cache.data[b - cache.offset + 1] ELSE file'[b]
        /\ Overlay[b] = IF cache.offset <= b /\ b < End THEN cache.data[b - cache.offset + 1] ELSE file[b]
    BY <1>1 DEF Overlay, End, Count
  <2> QED
    BY <1>3, <2>1, <2>2
<1>5. Overlay' = Overlay
  BY <1>4 DEF Overlay
<1> QED
  BY <1>3, <1>5 DEF ServerRefuses, Unsaved, Dirty, End, Count

LEMMA WriteMoreKeeps ==
  ASSUME IInv, WriteMore
  PROVE  IInv'
<1> USE DEF IInv
<1>1. /\ at = "more" /\ UNCHANGED <<got, edits>> /\ Remember
      /\ op.kind = "write" /\ op.count \in Nat /\ op.offset \in Nat /\ op.wrote \in Nat
      /\ op.offset + op.count <= FileSize /\ op.wrote + op.count <= PageSize
  BY Fields DEF WriteMore, Progress
<1>2. /\ cache' \in Caches /\ cache'.type = "WRITE" /\ Count' > 0 /\ Count' <= FSize
      /\ file' \in [Addr -> Bytes] /\ Overlay' \in [Addr -> Bytes]
      /\ event' \in {"none", "refused"} /\ res' \in {"ok", "err"} /\ at' = "probe"
      /\ op' \in Ops /\ op'.kind = "write"
      /\ op'.offset + op'.count <= FileSize /\ op'.wrote + op'.count <= PageSize
  <2>1. CASE /\ ServerStores(cache.offset, cache.data)
             /\ cache' = [cache EXCEPT !.offset = op.offset,
                                       !.data = [k \in 1..Smaller(op.count, FSize) |-> op.val]]
             /\ Took(Smaller(op.count, FSize))
             /\ at' = IF Smaller(op.count, FSize) = op.count THEN "probe" ELSE "more"
             /\ UNCHANGED res
    <3>1. /\ Smaller(op.count, FSize) = op.count
          /\ file' \in [Addr -> Bytes] /\ event' = "none"
          /\ cache' \in Caches /\ cache'.type = "WRITE" /\ Count' \in 1..FSize
          /\ Overlay' \in [Addr -> Bytes]
      BY <1>1, <2>1, NextRun
    <3>2. Took(op.count) /\ at' = "probe" /\ op.count \in 0..op.count
      BY <1>1, <2>1, <3>1
    <3>3. /\ op' \in Ops /\ op'.offset = op.offset + op.count /\ op'.count = op.count - op.count
          /\ op'.wrote = op.wrote + op.count /\ op'.kind = op.kind
      BY <1>1, <3>2, Put
    <3>4. Count' > 0 /\ Count' <= FSize
      BY <3>1, Sizes
    <3> QED
      BY <1>1, <2>1, <3>1, <3>2, <3>3, <3>4, TypesSay
  <2>2. CASE /\ ServerRefuses(cache.offset, cache.data) /\ at' = "probe" /\ res' = "err"
             /\ UNCHANGED <<cache, op>>
    <3>1. file' \in [Addr -> Bytes] /\ event' = "refused" /\ Overlay' = Overlay
      BY <1>1, <2>2, RunRefused
    <3>2. cache.type = "WRITE" /\ Count > 0 /\ Count' = Count
      BY <1>1, <2>2 DEF Shape, Count
    <3> QED
      BY <1>1, <2>2, <3>1, <3>2, OverlayIsFile, TypesSay
  <2> QED
    BY <2>1, <2>2 DEF WriteMore
<1>3. Types'
  BY <1>1, <1>2, TypesSay, TypesFrom, RememberedType DEF Places
<1>4. Shape'
  BY <1>2 DEF Shape
<1>5. Progress'
  BY <1>2 DEF Progress
<1>6. CleanIsSeen'
  BY <1>2 DEF CleanIsSeen
<1> QED
  BY <1>1, <1>3, <1>4, <1>5, <1>6, RememberedSeen

\* A read that goes on to the end of a page asks for the rest of it.
LEMMA RestOfPage ==
  ASSUME NEW o \in Nat, NEW c \in 1..PageSize, (o + c) % PageSize = 0
  PROVE  /\ (o % PageSize) \in Nat /\ (o % PageSize) + c = PageSize
         /\ o - (o % PageSize) \in Nat /\ (o - (o % PageSize)) % PageSize = 0
<1>1. PageSize \in Nat \ {0} /\ c \in Nat
  BY Sizes
<1>2. PICK r \in Nat : r = o % PageSize /\ r < PageSize
  BY <1>1, Multiples
<1>3. PICK q \in Nat : q = o - r /\ q % PageSize = 0
  BY <1>1, <1>2, Multiples
<1>4. q + (r + c) = o + c /\ r + c \in Nat
  BY <1>1, <1>2, <1>3
<1>5. (r + c) % PageSize = 0
  <2>1. (q + (r + c)) % PageSize = (r + c) % PageSize
    BY <1>1, <1>3, <1>4, SumOfMultiples
  <2> QED
    BY <1>4, <2>1
<1>6. r + c = PageSize
  BY <1>1, <1>2, <1>5
<1> QED
  BY <1>2, <1>3, <1>6

\* What a round of the loop asks the server for, and where it puts it.
LEMMA Filling ==
  ASSUME IInv, at = "fill"
  PROVE  /\ InPage \in Nat /\ InPage + op.count = PageSize
         /\ PageStart \in Nat /\ PageStart % PageSize = 0 /\ PageStart + InPage = op.offset
         /\ Ahead \in PageSize..FSize /\ Ahead % PageSize = 0 /\ PageStart % Ahead = 0
         /\ Smaller(op.count, Ahead - InPage) = op.count
         /\ Run \in Caches /\ Run.type = "READ"
         /\ Len(Run.data) % PageSize = 0 /\ Len(Run.data) + Ahead <= FSize
         /\ \/ Run.offset = PageStart /\ Run.data = <<>>
            \/ Run = cache /\ End = op.offset
<1> USE DEF IInv
<1>1. /\ op.offset \in Nat /\ op.offset <= FileSize /\ op.count \in 1..PageSize
      /\ (op.offset + op.count) % PageSize = 0
      /\ cache \in Caches /\ cache.type = "READ" /\ Count \in Nat /\ Count % PageSize = 0 /\ Count <= FSize
      /\ PageSize \in Nat \ {0} /\ FSize \in Nat
  <2>1. /\ cache \in Caches /\ Count \in Nat /\ Count <= FSize
        /\ op.offset \in Nat /\ op.count \in Nat /\ op.count <= PageSize
    BY Fields, TypesSay, Zenon
  <2>2. /\ (op.offset + op.count) % PageSize = 0 /\ op.offset + op.count <= FileSize
        /\ op.count > 0
    BY DEF Progress
  <2>3. cache.type = "READ" /\ Count % PageSize = 0
    BY DEF Shape
  <2>4. PageSize \in Nat \ {0} /\ FSize \in Nat /\ FileSize \in Nat
    BY Sizes, Zenon
  <2>5. \A o, c, f, l \in Nat : o + c <= f /\ c > 0 /\ c <= l => o <= f /\ c \in 1..l
    OBVIOUS
  <2>6. op.offset <= FileSize /\ op.count \in 1..PageSize
    BY <2>1, <2>2, <2>4, <2>5
  <2> QED
    BY <2>1, <2>2, <2>3, <2>4, <2>6, Zenon
<1>2. /\ InPage \in Nat /\ InPage + op.count = PageSize
      /\ PageStart \in Nat /\ PageStart % PageSize = 0 /\ PageStart = op.offset - InPage
  BY <1>1, RestOfPage DEF InPage, PageStart
<1>3. PageStart + InPage = op.offset /\ PageStart \in 0..FileSize
  BY <1>1, <1>2, Sizes
<1>4. /\ NewRun \in Caches /\ NewRun.type = "READ" /\ NewRun.offset = PageStart /\ NewRun.data = <<>>
      /\ Len(NewRun.data) = 0
  <2>1. <<>> \in Seq(Bytes)
    OBVIOUS
  <2> QED
    BY <1>1, <1>3, <2>1 DEF NewRun, Caches
<1>5. /\ Kept \in {cache, NewRun} /\ Len(Kept.data) \in Nat
      /\ Kept = cache => End = op.offset \/ cache = NewRun
  BY <1>1, <1>4 DEF Kept, Count
<1>6. Ahead \in PageSize..FSize /\ Ahead % PageSize = 0 /\ PageStart % Ahead = 0
  BY <1>2, <1>5, ReadAheadRight DEF Ahead
<1>7. Smaller(op.count, Ahead - InPage) = op.count
  <2>1. \A x, c, l, a, f \in Nat : x + c = l /\ a \in l..f => ~(a - x < c)
    OBVIOUS
  <2>2. op.count \in Nat /\ PageSize \in Nat /\ FSize \in Nat /\ Ahead \in Nat
    BY <1>1, <1>6
  <2>3. ~(Ahead - InPage < op.count)
    BY <1>2, <1>6, <2>1, <2>2, Zenon
  <2>4. op.count < Ahead - InPage \/ op.count = Ahead - InPage
    BY <1>2, <2>2, <2>3
  <2> QED
    BY <2>4, Zenon DEF Smaller
<1>8. /\ Run \in {cache, NewRun}
      /\ Run = NewRun \/ (End = op.offset /\ Len(Run.data) + Ahead <= FSize)
  <2>1. Ahead \in Nat /\ FSize \in Nat /\ Len(Kept.data) \in Nat
    BY <1>1, <1>5, <1>6
  <2>2. CASE Len(Kept.data) + Ahead > FSize
    BY <2>2 DEF Run
  <2>3. CASE Len(Kept.data) + Ahead <= FSize
    <3>1. Run = Kept
      BY <2>1, <2>3 DEF Run
    <3> QED
      BY <1>5, <2>3, <3>1
  <2> QED
    BY <2>1, <2>2, <2>3
<1>9. Len(NewRun.data) + Ahead <= FSize /\ 0 % PageSize = 0
  BY <1>1, <1>4, <1>6
<1> QED
  BY <1>1, <1>2, <1>3, <1>4, <1>6, <1>7, <1>8, <1>9 DEF Count

\* Positions in a page and in the file.
LEMMA Regroup ==
  ASSUME NEW x \in Nat, NEW y \in Nat, NEW z \in Nat, NEW i \in Nat, x + y = z
  PROVE  z + i - 1 = x + (y + i) - 1
OBVIOUS

\* What a read gets from the server, which is then in the cache, too.
LEMMA Filled ==
  ASSUME IInv, at = "fill",
         cache' = [Run EXCEPT !.data = @ \o ServerBytes(PageStart, Ahead)], UNCHANGED past
  PROVE  /\ cache' \in Caches /\ cache'.type = "READ" /\ Count' % PageSize = 0 /\ Count' <= FSize
         /\ CleanIsSeen'
         /\ LET s == SubSeq(ServerBytes(PageStart, Ahead), InPage + 1, Ahead) IN
            /\ s \in Seq(Bytes) /\ op.count <= Len(s)
            /\ \A k \in 1..op.count : s[k] \in past[op.offset + k - 1]
<1> USE DEF IInv
<1>1. /\ InPage \in Nat /\ InPage + op.count = PageSize
      /\ PageStart \in Nat /\ PageStart % PageSize = 0 /\ PageStart + InPage = op.offset
      /\ Run \in Caches /\ Run.type = "READ"
      /\ Run.data \in Seq(Bytes) /\ Len(Run.data) \in Nat /\ Run.offset \in Nat /\ Run.offset \in 0..FileSize
      /\ Len(Run.data) % PageSize = 0 /\ Len(Run.data) + Ahead <= FSize
      /\ Ahead \in Nat /\ PageSize <= Ahead /\ Ahead % PageSize = 0
      /\ PageSize \in Nat \ {0} /\ Addr \in SUBSET Nat
  BY Filling, Sizes DEF Caches
<1>2. op.count \in Nat /\ op.offset \in Nat /\ op.offset + op.count <= FileSize /\ cache.type = "READ"
  BY Fields DEF Progress, Shape
<1> DEFINE f == ServerBytes(PageStart, Ahead)
<1>3. /\ f \in Seq(Bytes) /\ Len(f) = Ahead
      /\ \A k \in 1..Ahead : PageStart + k - 1 \in Addr => f[k] = file[PageStart + k - 1]
  BY <1>1, ServerSends
<1> HIDE DEF f
<1>4. \A b \in Addr : file[b] \in past[b]
  BY <1>2, OverlayIsFile DEF NowIsSeen
<1> DEFINE d == Run.data \o f
<1>5. /\ d \in Seq(Bytes) /\ Len(d) = Len(Run.data) + Ahead
      /\ \A k \in 1..(Len(Run.data) + Ahead) :
            d[k] = IF k <= Len(Run.data) THEN Run.data[k] ELSE f[k - Len(Run.data)]
  <2>1. Run.data \in Seq(Bytes) /\ f \in Seq(Bytes) /\ Len(f) = Ahead
    BY <1>1, <1>3
  <2>2. /\ d \in Seq(Bytes) /\ Len(d) = Len(Run.data) + Len(f)
        /\ \A k \in 1..(Len(Run.data) + Len(f)) :
              d[k] = IF k <= Len(Run.data) THEN Run.data[k] ELSE f[k - Len(Run.data)]
    BY <2>1, ConcatProperties, Zenon
  <2> QED
    BY <2>1, <2>2, Zenon
<1>6. cache' = [Run EXCEPT !.data = d]
  BY DEF f
<1> HIDE DEF d
<1>7. cache' \in Caches /\ cache'.type = "READ" /\ cache'.offset = Run.offset /\ cache'.data = d
  BY <1>1, <1>5, <1>6 DEF Caches
<1>8. Count' % PageSize = 0 /\ Count' <= FSize /\ Count' = Len(Run.data) + Ahead
  <2>1. Count' = Len(Run.data) + Ahead
    BY <1>5, <1>7 DEF Count
  <2>2. (Len(Run.data) + Ahead) % PageSize = 0
    BY <1>1, SumOfMultiples
  <2> QED
    BY <1>1, <2>1, <2>2
<1>9. CleanIsSeen'
  <2> SUFFICES ASSUME Run.offset % PageSize = 0, NEW b \in Addr, Run.offset <= b,
                      b < Run.offset + (Len(Run.data) + Ahead)
               PROVE  d[b - Run.offset + 1] \in past[b]
    <3>1. Count' > 0
      BY <1>1, <1>8, SMTT(30)
    <3> QED
      BY <1>7, <1>8, <3>1 DEF CleanIsSeen, Misplaced, End
  <2>1. b \in Nat
    BY <1>1
  <2>2. PICK k \in 1..(Len(Run.data) + Ahead) : k = b - Run.offset + 1
    <3>1. \A x, l, y \in Nat : x <= y /\ y < x + l => y - x + 1 \in 1..l
      OBVIOUS
    <3>2. Len(Run.data) + Ahead \in Nat
      BY <1>1
    <3>3. b - Run.offset + 1 \in 1..(Len(Run.data) + Ahead)
      BY <1>1, <2>1, <3>1, <3>2, Zenon
    <3> QED
      BY <3>3, Zenon
  <2>3. CASE k <= Len(Run.data)
    <3>1. Run = cache
      BY <1>1, <2>3, Filling
    <3>2. Count > 0 /\ ~Misplaced /\ b < End
      <4>1. Count = Len(Run.data) /\ End = Run.offset + Len(Run.data)
        BY <3>1, Zenon DEF Count, End
      <4>2. ~Misplaced
        BY <3>1 DEF Misplaced
      <4>3. \A x, y, l, i \in Nat : i = y - x + 1 /\ i <= l /\ i >= 1 => l > 0 /\ y < x + l
        OBVIOUS
      <4>4. k \in Nat /\ k >= 1
        BY <2>2
      <4>5. Len(Run.data) > 0 /\ b < Run.offset + Len(Run.data)
        BY <1>1, <2>1, <2>2, <2>3, <4>3, <4>4, Zenon
      <4> QED
        BY <4>1, <4>2, <4>5, Zenon
    <3>3. cache.data[k] \in past[b]
      BY <1>2, <2>2, <3>1, <3>2 DEF CleanIsSeen
    <3> QED
      BY <1>5, <2>2, <2>3, <3>1, <3>3
  <2>4. CASE k > Len(Run.data)
    <3>1. Run.offset + Len(Run.data) = PageStart
      <4>1. CASE Run.offset = PageStart /\ Run.data = <<>>
        BY <1>1, <4>1
      <4>2. CASE Run = cache /\ End = op.offset
        <5>1. op.offset = Run.offset + Len(Run.data)
          BY <4>2 DEF End, Count
        <5>2. op.offset % PageSize = 0
          <6>1. Run.offset \in Nat /\ Len(Run.data) \in Nat /\ PageSize \in Nat \ {0}
            BY <1>1
          <6>2. (Run.offset + Len(Run.data)) % PageSize = Len(Run.data) % PageSize
            BY <6>1, SumOfMultiples
          <6> QED
            BY <1>1, <5>1, <6>2
        <5>3. InPage = 0
          BY <5>2 DEF InPage
        <5> QED
          BY <1>1, <1>2, <5>1, <5>3
      <4> QED
        BY <4>1, <4>2, Filling
    <3>2. PICK j \in 1..Ahead : j = k - Len(Run.data)
      BY <1>1, <2>4, SMTT(30)
    <3>3. PageStart + j - 1 = b
      <4>1. PICK x \in Nat, y \in Nat : x = Run.offset /\ y = Len(Run.data)
        BY <1>1
      <4>2. x + y = PageStart /\ j = k - y /\ k = b - x + 1
        BY <2>2, <3>1, <3>2, <4>1
      <4>3. x + y + j - 1 = b
        BY <2>1, <4>2
      <4> QED
        BY <4>2, <4>3, Zenon
    <3>4. d[k] = f[j] /\ f[j] = file[b]
      BY <1>3, <1>5, <2>4, <3>2, <3>3
    <3> QED
      BY <1>4, <2>2, <3>4
  <2> QED
    BY <1>1, <2>3, <2>4
<1> DEFINE s == SubSeq(f, InPage + 1, Ahead)
<1>10. /\ s \in Seq(Bytes) /\ Len(s) = Ahead - InPage
       /\ \A k \in 1..(Ahead - InPage) : s[k] = f[InPage + k]
  <2>1. PICK i \in Nat : i = InPage + 1 /\ i >= 1 /\ i <= Ahead + 1
    <3>1. \A x, c, l, a \in Nat : x + c = l /\ l <= a => x + 1 \in Nat /\ x + 1 >= 1 /\ x + 1 <= a + 1
      OBVIOUS
    <3>2. PageSize \in Nat
      BY Sizes
    <3> QED
      BY <1>1, <1>2, <3>1, <3>2, Zenon
  <2>2. \A k \in i..Ahead : f[k] \in Bytes
    <3>1. Ahead \in Nat /\ Len(f) = Ahead /\ f \in Seq(Bytes)
      BY <1>1, <1>3, Zenon
    <3>2. \A k \in i..Ahead : k \in 1..Ahead
      BY <2>1, <3>1
    <3> QED
      BY <3>1, <3>2
  <2>3. /\ SubSeq(f, i, Ahead) \in Seq(Bytes)
        /\ Len(SubSeq(f, i, Ahead)) = IF i <= Ahead THEN Ahead - i + 1 ELSE 0
        /\ \A k \in 1..(Ahead - i + 1) : SubSeq(f, i, Ahead)[k] = f[i + k - 1]
    <3>1. Ahead \in Nat
      BY <1>1, Zenon
    <3> QED
      BY <2>1, <2>2, <3>1, SubSeqProperties
  <2>4. s = SubSeq(f, i, Ahead) /\ Ahead - i + 1 = Ahead - InPage
    BY <1>1, <2>1
  <2>5. Len(SubSeq(f, i, Ahead)) = Ahead - InPage
    <3>2. \A x, a, j \in Nat : j = x + 1 /\ j <= a + 1 /\ ~(j <= a) => a - x = 0
      OBVIOUS
    <3>3. CASE i <= Ahead
      BY <2>3, <2>4, <3>3, Zenon
    <3>4. CASE ~(i <= Ahead)
      BY <1>1, <2>1, <2>3, <3>2, <3>4, Zenon
    <3> QED
      BY <3>3, <3>4, Zenon
  <2>6. \A k \in 1..(Ahead - InPage) : i + k - 1 = InPage + k
    BY <1>1, <2>1
  <2> HIDE DEF s
  <2> QED
    BY <2>3, <2>4, <2>5, <2>6
<1> HIDE DEF s
<1>11. op.count <= Len(s)
  BY <1>1, <1>2, <1>10
<1>12. ASSUME NEW k \in 1..op.count
       PROVE  s[k] \in past[op.offset + k - 1]
  <2>1. k \in 1..(Ahead - InPage) /\ InPage + k \in 1..Ahead
    <3>1. \A x, c, l, a \in Nat :
            x + c = l /\ l <= a => \A i \in 1..c : i \in 1..(a - x) /\ x + i \in 1..a
      OBVIOUS
    <3>2. PageSize \in Nat
      BY Sizes
    <3> QED
      BY <1>1, <1>2, <3>1, <3>2, Zenon
  <2>2. PICK b \in Nat : b = op.offset + k - 1 /\ b = PageStart + (InPage + k) - 1
    <3>1. op.offset + k - 1 \in Nat
      BY <1>2
    <3>2. PageStart \in Nat /\ InPage \in Nat /\ PageStart + InPage = op.offset /\ k \in Nat
      BY <1>1, <1>2
    <3>3. op.offset \in Nat
      BY <1>2
    <3>4. op.offset + k - 1 = PageStart + (InPage + k) - 1
      BY <3>2, <3>3, Regroup
    <3> QED
      BY <3>1, <3>4, Zenon
  <2>3. b \in Addr
    BY <1>2, <2>2, Sizes DEF Addr
  <2> QED
    BY <1>3, <1>4, <1>10, <2>1, <2>2, <2>3
<1> QED
  BY <1>7, <1>8, <1>9, <1>10, <1>11, <1>12 DEF s, f

\* A round of the loop ends the read.
LEMMA Rounds ==
  ASSUME IInv, ReadFill
  PROVE  LET s == SubSeq(ServerBytes(PageStart, Ahead), InPage + 1, Ahead) IN
         /\ at = "fill" /\ event' = "none" /\ at' = "done" /\ UNCHANGED <<file, past, edits>>
         /\ \/ /\ cache' = [Run EXCEPT !.data = @ \o ServerBytes(PageStart, Ahead)]
               /\ Deliver(s, op.count) /\ UNCHANGED res
            \/ /\ cache' = [Run EXCEPT !.data = <<>>]
               /\ Done("err") /\ UNCHANGED got
BY Filling DEF ReadFill, Done

LEMMA ReadFillKeeps ==
  ASSUME IInv, ReadFill
  PROVE  IInv'
<1> USE DEF IInv
<1> DEFINE s == SubSeq(ServerBytes(PageStart, Ahead), InPage + 1, Ahead)
<1>1. at = "fill" /\ event' = "none" /\ at' = "done" /\ UNCHANGED <<file, past, edits>>
  BY Rounds
<1>2. /\ op.count \in Nat /\ op.offset \in Nat /\ op.kind = "read"
      /\ op.offset + op.count <= FileSize /\ Len(got) + op.count = PageSize
  BY <1>1, Fields DEF Progress
<1>3. /\ cache' \in Caches /\ cache'.type = "READ" /\ Count' % PageSize = 0 /\ Count' <= FSize
      /\ CleanIsSeen' /\ got' \in Seq(Bytes) /\ Len(got') <= PageSize
      /\ op' \in Ops /\ op'.kind = "none" /\ op'.offset + op'.count <= FileSize
      /\ res' \in {"ok", "err"}
  <2>1. CASE /\ cache' = [Run EXCEPT !.data = @ \o ServerBytes(PageStart, Ahead)]
             /\ Deliver(s, op.count) /\ UNCHANGED res
    <3>1. /\ cache' \in Caches /\ cache'.type = "READ" /\ Count' % PageSize = 0 /\ Count' <= FSize
          /\ CleanIsSeen' /\ s \in Seq(Bytes) /\ op.count <= Len(s)
      BY <1>1, <2>1, Filled
    <3> HIDE DEF s
    <3>2. op.count \in 0..op.count
      BY <1>2
    <3>3. /\ op' \in Ops /\ op'.kind = "none"
          /\ op'.offset = op.offset + op.count /\ op'.count = op.count - op.count
          /\ got' \in Seq(Bytes) /\ Len(got') = Len(got) + op.count
      BY <1>2, <2>1, <3>1, <3>2, Delivered
    <3>4. op'.offset + op'.count <= FileSize /\ Len(got') <= PageSize
      BY <1>2, <3>3, Sizes
    <3> QED
      BY <2>1, <3>1, <3>3, <3>4, TypesSay
  <2>2. CASE /\ cache' = [Run EXCEPT !.data = <<>>]
             /\ Done("err") /\ UNCHANGED got
    <3>1. Run \in Caches /\ Run.type = "READ" /\ <<>> \in Seq(Bytes)
      BY <1>1, Filling
    <3>2. /\ cache' \in Caches /\ cache'.type = "READ" /\ cache'.data = <<>> /\ cache'.offset \in Nat
          /\ Count' = 0
      <4>1. PICK r \in Caches : r = Run /\ r.type = "READ"
        BY <3>1
      <4>2. cache' = [r EXCEPT !.data = <<>>]
        BY <2>2, <4>1, Zenon
      <4>3. cache' \in Caches /\ cache'.type = "READ" /\ cache'.data = <<>> /\ cache'.offset = r.offset
        BY <3>1, <4>1, <4>2 DEF Caches
      <4> QED
        BY <4>3, Sizes DEF Caches, Count
    <3>3. CleanIsSeen' /\ 0 % PageSize = 0 /\ 0 <= FSize
      BY <3>2, NothingClean, Sizes
    <3>4. /\ res' \in {"ok", "err"} /\ op' \in Ops /\ op'.kind = "none"
          /\ op'.offset = op.offset /\ op'.count = op.count
      BY <2>2, Ended
    <3> QED
      BY <1>2, <2>2, <3>2, <3>3, <3>4, TypesSay
  <2> QED
    BY <2>1, <2>2, Rounds
<1>4. Types'
  BY <1>1, <1>3, TypesSay, TypesFrom DEF Places
<1>5. Shape'
  BY <1>1, <1>3 DEF Shape
<1>6. Progress'
  BY <1>1, <1>3 DEF Progress
<1>7. NowIsSeen'
  <2>1. Overlay = file /\ file \in [Addr -> Bytes]
    BY <1>1, OverlayIsFile, TypesSay DEF Shape
  <2>2. Overlay' = file'
    BY <1>1, <1>3, <2>1 DEF Overlay
  <2> QED
    BY <1>1, <2>1, <2>2 DEF NowIsSeen
<1> QED
  BY <1>3, <1>4, <1>5, <1>6, <1>7

LEMMA NextKeeps == IInv /\ [Next]_vars => IInv'
<1> SUFFICES ASSUME IInv, [Next]_vars
             PROVE  IInv'
  OBVIOUS
<1>1. CASE Step
  BY <1>1, ReadDirectKeeps, ReadHitKeeps, ReadFlushKeeps, ReadFillKeeps, WriteDirectKeeps,
     WritePutKeeps, WriteMoreKeeps, WriteProbeKeeps, ReturnKeeps DEF Step
<1>2. CASE Next /\ ~Step
  BY <1>2, CallReadKeeps, CallWriteKeeps, AllocKeeps, FlushKeeps, CloseKeeps, ClearKeeps,
     TruncateKeeps, ChangeKeeps DEF Next
<1>3. CASE UNCHANGED vars
  BY <1>3 DEF vars, IInv, Types, TypeOK, Shape, Progress, NowIsSeen, CleanIsSeen, Overlay,
              End, Count, Misplaced
<1> QED
  BY <1>1, <1>2, <1>3

LEMMA Invariant == Spec => []IInv
<1>1. Init => IInv
  BY InitInv
<1>2. IInv /\ [Next]_vars => IInv'
  BY NextKeeps
<1> QED
  BY <1>1, <1>2, PTL DEF Spec

-----------------------------------------------------------------------------
(* The theorems *)

\* Every field keeps its type; above all, the bytes in the cache never exceed
\* what vmalloc was asked for (fcache_file_read, fcache_file_write).
THEOREM TypeCorrect == Spec => []TypeOK
<1>1. IInv => TypeOK
  BY DEF IInv, Types
<1> QED
  BY <1>1, Invariant, PTL

\* shell_read and perl_read get offsets that are multiples of the count, for
\* every cache of whole pages and every position and length of the run in it.
THEOREM Aligned == Spec => []ServerReadsAligned
<1>1. ASSUME IInv
      PROVE  ServerReadsAligned
  <2>1. ASSUME at = "fill"
        PROVE  PageStart % Ahead = 0 /\ InPage < Ahead
    <3>1. /\ InPage \in Nat /\ InPage + op.count = PageSize /\ op.count > 0 /\ op.count \in Nat
          /\ Ahead \in Nat /\ PageSize <= Ahead /\ PageStart % Ahead = 0
      BY <1>1, <2>1, Filling, Fields, Sizes DEF IInv, Progress
    <3> QED
      BY <3>1, Sizes
  <2>2. ASSUME at = "hit"
        PROVE  op.offset % op.count = 0
    <3>1. /\ op.count = PageSize /\ op.offset \in Nat
          /\ (op.offset + op.count) % PageSize = 0
      BY <1>1, <2>2, Fields, Sizes DEF IInv, Progress
    <3>2. PICK p \in Nat \ {0} : p = PageSize
      BY Sizes
    <3>3. p % p = 0 /\ (p + op.offset) % p = 0
      BY <3>1, <3>2
    <3>4. (p + op.offset) % p = op.offset % p
      BY <3>1, <3>3, SumOfMultiples
    <3> QED
      BY <3>1, <3>2, <3>3, <3>4
  <2> QED
    BY <2>1, <2>2 DEF ServerReadsAligned
<1> QED
  BY <1>1, Invariant, PTL

\* What a clean cache holds is a value the file had since the last
\* fcache_file_clear, unless the run is noted at the wrong offset.
THEOREM CleanCache == Spec => []CleanIsSeen
<1>1. IInv => CleanIsSeen
  BY DEF IInv
<1> QED
  BY <1>1, Invariant, PTL

-----------------------------------------------------------------------------
(* The refinement: every step is one of RemoteFile's *)

\* What is left of an operation after n bytes, or after it has ended.
LEMMA Advances ==
  ASSUME NEW n \in Nat, op'.val = op.val,
         \/ op'.kind = "none" /\ op'.offset = op.offset /\ op'.count = op.count
         \/ op'.kind \in {op.kind, "none"} /\ op'.offset = op.offset + n /\ op'.count = op.count - n
  PROVE  Remote!Advance(n)
<1> DEFINE Rec(k, x, y) == [kind |-> k, offset |-> x, count |-> y, val |-> op.val]
           x == op.offset + n
           y == op.count - n
<1>1. /\ Request = Rec(op.kind, op.offset, op.count)
      /\ Request' = Rec(op'.kind, op'.offset, op'.count)
      /\ Request.offset = op.offset /\ Request.count = op.count
  BY DEF Request
<1>2. PICK r : r = [Request EXCEPT !.kind = "none"]
  OBVIOUS
<1>3. r = Rec("none", op.offset, op.count)
  BY <1>1, <1>2
<1> HIDE DEF x, y
<1>4. [Request EXCEPT !.offset = x, !.count = y] = Rec(op.kind, x, y)
  <2>1. PICK s : s = [Request EXCEPT !.offset = x]
    OBVIOUS
  <2>2. s = Rec(op.kind, x, op.count)
    BY <1>1, <2>1
  <2>3. [s EXCEPT !.count = y] = Rec(op.kind, x, y)
    BY <2>2
  <2>4. [Request EXCEPT !.offset = x, !.count = y] = [s EXCEPT !.count = y]
    BY <2>1
  <2> QED
    BY <2>3, <2>4
<1>5. [Request EXCEPT !.kind = "none", !.offset = x, !.count = y] = Rec("none", x, y)
  <2>1. PICK s : s = [r EXCEPT !.offset = x]
    OBVIOUS
  <2>2. s = Rec("none", x, op.count)
    BY <1>3, <2>1
  <2>3. [s EXCEPT !.count = y] = Rec("none", x, y)
    BY <2>2
  <2>4. [Request EXCEPT !.kind = "none", !.offset = x, !.count = y] = [s EXCEPT !.count = y]
    BY <1>2, <2>1
  <2> QED
    BY <2>3, <2>4
<1>6. Request' \in {Rec("none", op.offset, op.count), Rec(op.kind, x, y), Rec("none", x, y)}
  BY <1>1 DEF x, y
<1> HIDE DEF Rec
<1>7. Request' \in {[Request EXCEPT !.kind = "none"],
                   [Request EXCEPT !.offset = x, !.count = y],
                   [Request EXCEPT !.kind = "none", !.offset = x, !.count = y]}
  BY <1>2, <1>3, <1>4, <1>5, <1>6, Zenon
<1>8. x = Request.offset + n /\ y = Request.count - n
  BY <1>1 DEF x, y
<1> QED
  BY <1>7, <1>8, Zenon DEF Remote!Advance

\* The present bytes were seen before.
LEMMA SeenBefore ==
  ASSUME IInv, Remember, Overlay' = Overlay
  PROVE  past' = past
<1>1. past = [b \in Addr |-> past[b]]
  BY TypesSay DEF IInv
<1>2. \A b \in Addr : past[b] \cup {Overlay[b]} = past[b]
  BY DEF IInv, NowIsSeen
<1> QED
  BY <1>1, <1>2 DEF Remember

LEMMA CallsMap ==
  ASSUME IInv, CallRead \/ CallWrite
  PROVE  Remote!Call
<1>1. at = "idle" /\ got' = <<>> /\ op'.kind \in {"read", "write"} /\ UNCHANGED <<file, cache, past>>
  BY DEF CallRead, CallWrite, Start, NoOp
<1>2. op.kind = "none"
  BY <1>1 DEF IInv, Progress
<1> QED
  BY <1>1, <1>2 DEF Remote!Call, Request, Overlay, Unsaved, Dirty, End, Count

LEMMA AllocMaps ==
  ASSUME IInv, Alloc
  PROVE  Remote!Save
<1>1. Overlay' = Overlay /\ cache'.type = "READ"
  BY AllocKeeps DEF Alloc, NewCache
<1> QED
  BY <1>1 DEF Remote!Save, Alloc, Request, Unsaved, Dirty

LEMMA ReturnMaps ==
  ASSUME IInv, Return
  PROVE  Remote!Return
<1>1. op.kind = "none" /\ op'.kind = "none" /\ got' = <<>> /\ UNCHANGED <<file, cache, past>>
  BY DEF IInv, Progress, Return, NoOp
<1> QED
  BY <1>1 DEF Remote!Return, Request, Overlay, Unsaved, Dirty, End, Count

\* A step that leaves the bytes alone and gives a read n of them.
LEMMA Gives ==
  ASSUME IInv, op.kind = "read", UNCHANGED <<Overlay, past, Unsaved>>,
         NEW s \in Seq(Bytes), NEW n \in 0..op.count, n <= Len(s), Deliver(s, n),
         \A k \in 1..n : Misplaced \/ s[k] \in past[op.offset + k - 1]
  PROVE  Remote!Give
<1>1. /\ op'.offset = op.offset + n /\ op'.count = op.count - n
      /\ op'.val = op.val /\ op'.kind \in {op.kind, "none"}
      /\ Len(got') = Len(got) + n /\ SubSeq(got', 1, Len(got)) = got
      /\ \A k \in 1..n : got'[Len(got) + k] = s[k]
  BY Delivered DEF IInv, Progress
<1>2. n \in Nat
  BY Fields DEF IInv
<1>3. Remote!Advance(n)
  BY <1>1, <1>2, Advances
<1>4. \A k \in 1..n : Misplaced \/ got'[Len(got) + k] \in past[op.offset + k - 1]
  BY <1>1
<1>5. Request.kind = "read" /\ Request.offset = op.offset /\ Request.count = op.count
  BY DEF Request
<1> QED
  BY <1>1, <1>3, <1>4, <1>5 DEF Remote!Give

\* A read that ends without more bytes.
LEMMA GivesUp ==
  ASSUME IInv, op.kind = "read", UNCHANGED <<Overlay, past, Unsaved, got>>, Done("err")
  PROVE  Remote!Give
<1>1. Remote!Advance(0)
  BY Ended, Advances DEF IInv
<1>2. got \in Seq(Bytes) /\ Len(got) \in Nat /\ 0 \in 0..op.count /\ op.count \in Nat
  BY TypesSay, Fields DEF IInv
<1>3. Len(got') = Len(got) + 0 /\ SubSeq(got', 1, Len(got)) = got
  BY <1>2, SubSeqFull
<1>4. Request.kind = "read" /\ Request.count = op.count
  BY DEF Request
<1>5. \A k \in 1..0 : Misplaced \/ got'[Len(got) + k] \in past[Request.offset + k - 1]
  OBVIOUS
<1> QED
  BY <1>1, <1>2, <1>3, <1>4, <1>5 DEF Remote!Give

LEMMA ReadDirectMaps ==
  ASSUME IInv, ReadDirect
  PROVE  Remote!Give
<1> DEFINE s == ServerBytes(op.offset, op.count)
<1>1. /\ op.kind = "read" /\ op.count \in Nat /\ op.offset \in Nat /\ cache.type = "NONE"
      /\ op.offset + op.count <= FileSize /\ Addr \in SUBSET Nat
      /\ UNCHANGED <<file, cache, past>>
  BY Fields, Sizes DEF IInv, Progress, ReadDirect
<1>2. UNCHANGED <<Overlay, past, Unsaved>>
  BY <1>1 DEF Overlay, Unsaved, Dirty, End, Count
<1>3. /\ s \in Seq(Bytes) /\ Len(s) = op.count
      /\ \A k \in 1..op.count : op.offset + k - 1 \in Addr => s[k] = file[op.offset + k - 1]
  BY <1>1, ServerSends DEF IInv
<1> HIDE DEF s
<1>4. ASSUME NEW k \in 1..op.count
      PROVE  s[k] \in past[op.offset + k - 1]
  <2>1. PICK b \in Nat : b = op.offset + k - 1
    BY <1>1
  <2>2. b \in Addr
    BY <1>1, <2>1, Sizes DEF Addr
  <2>3. file[b] \in past[b]
    BY <1>1, <2>2, OverlayIsFile DEF IInv, NowIsSeen
  <2> QED
    BY <1>3, <2>1, <2>2, <2>3
<1>5. CASE Deliver(s, op.count)
  <2>1. op.count \in 0..op.count /\ op.count <= Len(s)
    BY <1>1, <1>3
  <2> QED
    BY <1>1, <1>2, <1>3, <1>4, <1>5, <2>1, Gives
<1>6. CASE UNCHANGED got /\ Done("err")
  BY <1>1, <1>2, <1>6, GivesUp
<1> QED
  BY <1>5, <1>6 DEF ReadDirect, s

LEMMA ReadHitMaps ==
  ASSUME IInv, ReadHit
  PROVE  Remote!Give
<1>1. op.kind = "read" /\ UNCHANGED <<file, cache, past>>
  BY DEF IInv, Progress, ReadHit
<1>2. UNCHANGED <<Overlay, past, Unsaved>>
  BY <1>1 DEF Overlay, Unsaved, Dirty, End, Count
<1> QED
  BY <1>1, <1>2, Hit, Gives

LEMMA ReadFillMaps ==
  ASSUME IInv, ReadFill
  PROVE  Remote!Give
<1> DEFINE s == SubSeq(ServerBytes(PageStart, Ahead), InPage + 1, Ahead)
<1>1. at = "fill" /\ UNCHANGED <<file, past>> /\ op.kind = "read" /\ op.count \in Nat
  BY Rounds, Fields DEF IInv, Progress
<1>2. cache.type = "READ" /\ cache'.type = "READ"
  BY <1>1, ReadFillKeeps, Rounds, Filling DEF IInv, Shape, Caches
<1>3. UNCHANGED <<Overlay, past, Unsaved>>
  BY <1>1, <1>2 DEF Overlay, Unsaved, Dirty
<1>4. CASE /\ cache' = [Run EXCEPT !.data = @ \o ServerBytes(PageStart, Ahead)]
           /\ Deliver(s, op.count)
  <2>1. /\ s \in Seq(Bytes) /\ op.count <= Len(s)
        /\ \A k \in 1..op.count : s[k] \in past[op.offset + k - 1]
    BY <1>1, <1>4, Filled
  <2> HIDE DEF s
  <2>2. op.count \in 0..op.count
    BY <1>1
  <2> QED
    BY <1>1, <1>3, <1>4, <2>1, <2>2, Gives
<1>5. CASE Done("err") /\ UNCHANGED got
  BY <1>1, <1>3, <1>5, GivesUp
<1> QED
  BY <1>4, <1>5, Rounds

\* A step that puts bytes of a write in its range, n of which are done then.
LEMMA Takes ==
  ASSUME IInv, op.kind = "write", Remember, UNCHANGED got, NEW n \in 0..op.count, Remote!Advance(n),
         \A b \in Addr : \/ Overlay'[b] = Overlay[b]
                         \/ op.offset <= b /\ b < op.offset + op.count /\ Overlay'[b] = op.val,
         Unsaved' \subseteq Unsaved \cup {b \in Addr : op.offset <= b /\ b < op.offset + op.count}
  PROVE  Remote!Take
<1>1. /\ Request.kind = "write" /\ Request.offset = op.offset /\ Request.count = op.count
      /\ Request.val = op.val
  BY DEF Request
<1>2. Remote!Range(Request) = {b \in Addr : op.offset <= b /\ b < op.offset + op.count}
  BY <1>1 DEF Remote!Range
<1>3. Remote!Remember
  BY DEF Remember, Remote!Remember
<1> QED
  BY <1>1, <1>2, <1>3 DEF Remote!Take

LEMMA WriteDirectMaps ==
  ASSUME IInv, WriteDirect
  PROVE  Remote!Take
<1>1. /\ op.kind = "write" /\ op.count \in Nat /\ cache.type = "NONE"
      /\ UNCHANGED <<cache, got>> /\ Remember
      /\ \E r \in {"ok", "err"} : Done(r)
  BY Fields DEF IInv, Progress, WriteDirect
<1>2. Remote!Advance(0) /\ 0 \in 0..op.count
  BY <1>1, Ended, Advances DEF IInv
<1>3. \A b \in Addr : \/ Overlay'[b] = Overlay[b]
                      \/ op.offset <= b /\ b < op.offset + op.count /\ Overlay'[b] = op.val
  BY Direct DEF IInv
<1>4. Unsaved' \subseteq Unsaved
  BY <1>1 DEF Unsaved, Dirty, End, Count
<1> QED
  BY <1>1, <1>2, <1>3, <1>4, Takes

LEMMA WritePutMaps ==
  ASSUME IInv, WritePut
  PROVE  Remote!Take
<1>1. op.kind = "write" /\ Remember /\ UNCHANGED got
  BY DEF IInv, Progress, WritePut
<1>2. PICK n \in 0..op.count : Took(n)
  BY PutInCache
<1>3. n \in Nat
  BY Fields DEF IInv
<1>4. Remote!Advance(n)
  <2>1. op.offset + op.count <= FileSize /\ op.wrote + op.count <= PageSize
    BY DEF IInv, Progress, WritePut
  <2> QED
    BY <1>2, <1>3, <2>1, Put, Advances DEF IInv
<1> QED
  BY <1>1, <1>4, PutInCache, Takes

LEMMA WriteMoreMaps ==
  ASSUME IInv, WriteMore
  PROVE  Remote!Take \/ Remote!Save
<1>1. /\ at = "more" /\ op.kind = "write" /\ Remember /\ UNCHANGED got /\ op.count \in Nat
      /\ op.offset + op.count <= FileSize /\ op.wrote + op.count <= PageSize
  BY Fields DEF IInv, Progress, WriteMore
<1>2. CASE /\ ServerStores(cache.offset, cache.data)
           /\ cache' = [cache EXCEPT !.offset = op.offset,
                                     !.data = [k \in 1..Smaller(op.count, FSize) |-> op.val]]
           /\ Took(Smaller(op.count, FSize))
  <2>1. /\ Smaller(op.count, FSize) = op.count
        /\ \A b \in Addr : \/ Overlay'[b] = Overlay[b]
                           \/ op.offset <= b /\ b < op.offset + op.count /\ Overlay'[b] = op.val
        /\ Unsaved' \subseteq {b \in Addr : op.offset <= b /\ b < op.offset + op.count}
    BY <1>1, <1>2, NextRun
  <2>2. Took(op.count) /\ op.count \in 0..op.count
    BY <1>1, <1>2, <2>1
  <2>3. Remote!Advance(op.count)
    BY <1>1, <2>2, Put, Advances DEF IInv
  <2> QED
    BY <1>1, <2>1, <2>2, <2>3, Takes
<1>3. CASE ServerRefuses(cache.offset, cache.data) /\ UNCHANGED <<cache, op>>
  <2>1. Overlay' = Overlay /\ Unsaved' = Unsaved
    BY <1>1, <1>3, RunRefused
  <2>2. past' = past
    BY <1>1, <2>1, SeenBefore
  <2> QED
    BY <1>1, <1>3, <2>1, <2>2 DEF Remote!Save, Request
<1> QED
  BY <1>2, <1>3 DEF WriteMore

LEMMA WriteProbeMaps ==
  ASSUME IInv, WriteProbe
  PROVE  Remote!Take
<1>1. /\ op.kind = "write" /\ op.count \in Nat /\ UNCHANGED got /\ Remember
      /\ \E r \in {"ok", "err"} : Done(r)
  BY Fields, TypesSay DEF IInv, Progress, WriteProbe
<1>2. Remote!Advance(0) /\ 0 \in 0..op.count
  BY <1>1, Ended, Advances DEF IInv
<1>3. Overlay' = Overlay /\ Unsaved' = Unsaved
  BY Probed
<1> QED
  BY <1>1, <1>2, <1>3, Takes

\* Dirty bytes reach the server, or are dropped.
LEMMA SavedOrLost ==
  ASSUME IInv, Remember, UNCHANGED <<op, got>>, cache'.type # "WRITE",
         \/ Overlay' = Overlay
         \/ /\ event' = "refused"
            /\ \A b \in Addr \ Unsaved : Overlay'[b] = Overlay[b]
  PROVE  Remote!Save \/ Remote!Lose
<1>1. Unsaved' = {} /\ Request' = Request
  BY DEF Unsaved, Dirty, Request
<1>2. CASE Overlay' = Overlay
  BY <1>1, <1>2, SeenBefore DEF Remote!Save
<1>3. CASE /\ event' = "refused"
           /\ \A b \in Addr \ Unsaved : Overlay'[b] = Overlay[b]
  BY <1>1, <1>3 DEF Remote!Lose, Remote!Remember, Remember
<1> QED
  BY <1>2, <1>3

LEMMA FlushesMap ==
  ASSUME IInv, ReadFlush \/ Flush
  PROVE  Remote!Save \/ Remote!Lose
<1>1. /\ Remember /\ UNCHANGED <<op, got>> /\ cache.type = "WRITE"
      /\ ServerStores(cache.offset, cache.data) \/ ServerRefuses(cache.offset, cache.data)
  BY DEF IInv, Shape, ReadFlush, Flush, Dirty
<1>2. cache' \in Caches /\ cache'.type # "WRITE"
  <2>1. op.offset \in 0..FileSize /\ cache.offset \in 0..FileSize
    BY TypesSay DEF IInv, Ops, Caches
  <2>2. CASE ReadFlush
    BY <2>1, <2>2, Emptied DEF ReadFlush, IInv
  <2>3. CASE Flush
    <3>1. cache' = [cache EXCEPT !.type = "READ", !.offset = cache.offset, !.data = <<>>]
      BY <2>3, TypesSay DEF Flush, Caches, IInv
    <3> QED
      BY <2>1, <3>1, Emptied DEF IInv
  <2> QED
    BY <2>2, <2>3
<1> QED
  BY <1>1, <1>2, WrittenBack, SavedOrLost

LEMMA CloseMaps ==
  ASSUME IInv, Close
  PROVE  Remote!Save \/ Remote!Lose
BY Closed, SavedOrLost DEF Close

LEMMA ClearMaps ==
  ASSUME IInv, Clear
  PROVE  Remote!Refresh
<1>1. Overlay' = Overlay /\ past' = [b \in Addr |-> {Overlay[b]}] /\ UNCHANGED <<op, got>>
  BY ClearKeeps DEF Clear
<1>2. Unsaved' = Unsaved
  <2>1. cache'.type = "WRITE" <=> cache.type = "WRITE"
    BY TypesSay DEF IInv, Clear, Caches
  <2>2. cache.type = "WRITE" => cache' = cache
    BY DEF Clear
  <2> QED
    BY <2>1, <2>2 DEF Unsaved, Dirty, End, Count
<1> QED
  BY <1>1, <1>2 DEF Remote!Refresh, Request

LEMMA TruncateMaps ==
  ASSUME IInv, Truncate
  PROVE  Remote!Truncate
<1>1. PICK size \in Addr : file' = [b \in Addr |-> IF b < size THEN file[b] ELSE Zero]
  BY DEF Truncate
<1>2. UNCHANGED <<cache, at, op, got, res>> /\ Remember /\ event' = "cut"
  BY DEF Truncate
<1>3. file' \in [Addr -> Bytes] /\ edits' \in 0..MaxEdits
  BY <1>1, TypesSay, Sizes, MaxEditsAssumption DEF IInv, Truncate
<1>4. \A b \in Addr : Overlay'[b] = IF b \in Unsaved THEN Overlay[b] ELSE file'[b]
  BY <1>2, <1>3, FileKeeps
<1>5. \A b \in Addr : b \in Unsaved \/ Overlay[b] = file[b]
  BY DEF IInv, Shape, Overlay, Unsaved, Dirty
<1>6. Overlay' = [b \in Addr |-> IF b < size \/ b \in Unsaved THEN Overlay[b] ELSE Zero]
  <2>1. Overlay' = [b \in Addr |-> Overlay'[b]]
    BY DEF Overlay
  <2>2. \A b \in Addr : Overlay'[b] = IF b < size \/ b \in Unsaved THEN Overlay[b] ELSE Zero
    BY <1>1, <1>4, <1>5
  <2> QED
    BY <2>1, <2>2
<1>7. Unsaved' = Unsaved /\ Request' = Request
  BY <1>2 DEF Unsaved, Dirty, End, Count, Request
<1> QED
  BY <1>2, <1>6, <1>7 DEF Remote!Truncate, Remote!Remember, Remember

LEMMA ChangeMaps ==
  ASSUME IInv, Change
  PROVE  Remote!Change
<1>1. UNCHANGED <<cache, at, op, got, res>> /\ Remember /\ event' = "others"
  BY DEF Change
<1>2. file' \in [Addr -> Bytes] /\ edits' \in 0..MaxEdits
  BY TypesSay, MaxEditsAssumption DEF IInv, Change
<1>3. \A b \in Unsaved : Overlay'[b] = Overlay[b]
  BY <1>1, <1>2, FileKeeps DEF Unsaved
<1>4. Unsaved' = Unsaved /\ Request' = Request
  BY <1>1 DEF Unsaved, Dirty, End, Count, Request
<1> QED
  BY <1>1, <1>3, <1>4 DEF Remote!Change, Remote!Remember, Remember

LEMMA InitMaps == Init => Remote!Init
<1> SUFFICES ASSUME Init
             PROVE  Remote!Init
  OBVIOUS
<1>1. Overlay = [b \in Addr |-> Zero] /\ Unsaved = {}
  BY DEF Init, NoCache, Overlay, Unsaved, Dirty
<1>2. Request.kind = "none" /\ past = [b \in Addr |-> {Zero}] /\ got = <<>>
  BY DEF Init, NoOp, Request
<1> QED
  BY <1>1, <1>2, Sizes DEF Remote!Init

LEMMA StepMaps == IInv /\ [Next]_vars => [Remote!Next]_Remote!vars
<1> SUFFICES ASSUME IInv, [Next]_vars
             PROVE  [Remote!Next]_Remote!vars
  OBVIOUS
<1>1. CASE Step
  BY <1>1, ReadDirectMaps, ReadHitMaps, FlushesMap, ReadFillMaps, WriteDirectMaps,
     WritePutMaps, WriteMoreMaps, WriteProbeMaps, ReturnMaps DEF Step, Remote!Next
<1>2. CASE Next /\ ~Step
  BY <1>2, CallsMap, AllocMaps, FlushesMap, CloseMaps, ClearMaps, TruncateMaps, ChangeMaps
     DEF Next, Remote!Next
<1>3. CASE UNCHANGED vars
  BY <1>3 DEF vars, Remote!vars, Overlay, Unsaved, Dirty, End, Count, Request, Misplaced
<1> QED
  BY <1>1, <1>2, <1>3

\* The read/write cache shows its users the file of module RemoteFile: reads
\* of fcache_file_read, writes of fcache_file_write, what sync, close and
\* clear do, and calls of info->fops that fail.
THEOREM Implements == Spec => ShowsOneFile
<1>1. Init => Remote!Init
  BY InitMaps
<1>2. IInv /\ [Next]_vars => [Remote!Next]_Remote!vars
  BY StepMaps
<1> QED
  BY <1>1, <1>2, Invariant, PTL DEF Spec, ShowsOneFile, Remote!Spec

=============================================================================
