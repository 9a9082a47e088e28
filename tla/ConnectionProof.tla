--------------------------- MODULE ConnectionProof ---------------------------
(*****************************************************************************)
(* Proofs about module Connection: any numbers of requests, lines, blocks    *)
(* and bytes, both remote scripts.                                           *)
(*                                                                           *)
(* The protocol has no request numbers and no message boundaries: the client *)
(* finds the end of an answer from what it expects.  The proofs therefore    *)
(* keep what is still to come in view.  As long as nothing happened that is  *)
(* known to put the two sides out of step (cause = {}), what the client has  *)
(* not taken yet (Said) followed by what the server will still print and     *)
(* read (prog) is, as a whole, one of the patterns that the client is in the *)
(* middle of (Expected): the answer to its request, or the rest of it.  Talk *)
(* says so; around it stand the states in which the command is on its way    *)
(* (Unread), nothing is (Clean), the server still reads the blocks of a      *)
(* write that failed, which garbage counts (Owing), the rest of a link       *)
(* target of several lines is left to clear_garbage (Leftover), and the      *)
(* socket is closed (Gone).  Agreement is the inductive invariant of the     *)
(* client's side.                                                            *)
(*                                                                           *)
(* The server's side is Served: the data in the stream come before all that  *)
(* is not data, and a server that is in the middle of a write has as many    *)
(* reads left as there are blocks.  RepliesAreOwn, NothingLeftBehind,        *)
(* GarbageCoversServer, WritesStored and DataNotExecuted follow.             *)
(*                                                                           *)
(* The answers of the two scripts are shown to be of those patterns first    *)
(* (CommandRight to LineRight), one function of the scripts at a time.       *)
(*****************************************************************************)
EXTENDS Connection, SequenceTheorems, TLAPS

-----------------------------------------------------------------------------
(* What is still to come, and from whom *)

Item == Elems \cup {Eat}
Command == [op : Ops, n : 0..MaxCount, id : Reqs]

\* What is written for the request of that number.
Mine(id) == {e \in Item : e = Eat \/ e.id = id}

\* All that the client has not taken yet.
Said == buf \o s2c

\* The patterns of what comes: one line; a listing; data and a reply; a size
\* before them; the blocks a write makes the server read, and its reply.
OneOf(t, ks) == Len(t) = 1 /\ t[1].k \in ks

ListOf(t) ==
  /\ Len(t) >= 1
  /\ \A i \in 1..Len(t) : i < Len(t) => t[i].k \in {"entry", "blank"}
  /\ t[Len(t)].k \in {"COMPLETE", "EPERM", "ENOENT"}

\* The lines of a link target or of statfs.
LinesOf(t) == ListOf(t) /\ t[Len(t)].k = "COMPLETE"

DataOf(t, n) ==
  /\ Len(t) = n + 1
  /\ \A i \in 1..Len(t) : i <= n => t[i].k = "data"
  /\ t[n + 1].k = "COMPLETE"

SizeOf(t) ==
  /\ Len(t) >= 1 /\ t[1].k = "size"
  /\ t[1].n \in 0..MaxCount /\ DataOf(Tail(t), t[1].n)

Opens(t) == Len(t) >= 1 /\ t[1].k = "PRELIM"

\* The d blocks that are still to be read are read, and then there is a reply,
Takes(t, d, v) ==
  /\ Len(t) = d + 1
  /\ \A i \in 1..Len(t) : i <= d => t[i] = Eat
  /\ t[d + 1] # Eat /\ t[d + 1].k \in {"COMPLETE", "ENOSPC", "EPERM", "ERROR"}
  /\ t[d + 1].k = "ENOSPC" => v = "shell"

\* or the reply comes before all of them are, and more than them after it.
Drops(t, d, n, v) ==
  v = "shell" /\ \E e, x \in 0..n :
    /\ e <= d /\ d <= x
    /\ Len(t) = e + 1 + x
    /\ \A i \in 1..Len(t) : i # e + 1 => t[i] = Eat
    /\ t[e + 1] # Eat /\ t[e + 1].k = "ENOSPC"

WriteOf(t, d, n, v) == Takes(t, d, v) \/ Drops(t, d, n, v)

\* What the remote script v answers to the command c.
Answer(c, t, v) ==
  \/ c.op = "command" /\ OneOf(t, {"COMPLETE", "NOTEMPTY", "EPERM", "ENOENT", "blank"})
  \/ c.op \in {"list", "stat"} /\ ListOf(t)
  \/ c.op \in {"read", "sread"} /\ OneOf(t, {"EPERM", "ENOENT"})
  \/ c.op = "read" /\ Opens(t) /\ DataOf(Tail(t), c.n)
  \/ c.op = "sread" /\ Opens(t) /\ SizeOf(Tail(t))
  \/ c.op = "write" /\ OneOf(t, {"COMPLETE", "EPERM"})
  \/ c.op = "write" /\ Opens(t) /\ WriteOf(Tail(t), c.n, c.n, v)
  \/ c.op = "readlink" /\ OneOf(t, {"COMPLETE", "EPERM"})
  \/ c.op \in {"readlink", "statfs"} /\ LinesOf(t) /\ Len(t) > 1

\* What is to come now.
Expected(t) ==
  \/ at = "reply" /\ Answer(req, t, variant)
  \/ at = "size" /\ req.op = "sread" /\ SizeOf(t)
  \/ at = "data" /\ req.op \in {"read", "sread"} /\ DataOf(t, req.n)
  \/ at = "body" /\ req.op = "write" /\ WriteOf(t, req.n, req.n, variant)
  \/ at = "trailer" /\ req.op = "write" /\ WriteOf(t, Len(c2s), req.n, variant)
  \/ at = "trailer" /\ req.op \in {"read", "sread"} /\ OneOf(t, {"COMPLETE"})
  \/ at = "trailer" /\ req.op \in {"readlink", "statfs"} /\ LinesOf(t)

\* Blocks of a write that the server has not read.
Pending == IF at = "trailer" THEN Len(c2s) ELSE req.n

\* The server is at the client's request, and q is what it will still print
\* and read for it.
Working(q) ==
  LET t == Said \o q IN
  /\ Expected(t)
  /\ Said \in Seq(Mine(req.id)) /\ q \in Seq(Mine(req.id))
  /\ IF at = "trailer" /\ req.op = "write"
     THEN /\ c2s = Blocks("data", req.id, Len(c2s)) /\ Len(c2s) <= req.n
          /\ Said # <<>> /\ Said[1].k = "COMPLETE" => req.id \in stored
     ELSE c2s = <<>>
  /\ req.op = "write" =>
       /\ req.n > 0
       /\ peer => cur = req /\ ate = Blocks("data", req.id, req.n - Pending)

Talk ==
  /\ ~garbage /\ gw = 0 /\ gr = 0
  /\ \E q \in Seq(Item) : (peer => q = prog) /\ Working(q)

\* The command is on its way.
Unread ==
  /\ at = "reply" /\ ~garbage /\ gw = 0 /\ gr = 0
  /\ Said = <<>> /\ prog = <<>>
  /\ c2s = <<[k |-> "cmd", op |-> req.op, n |-> req.n, id |-> req.id]>>

Clean ==
  /\ at \in {"idle", "send"} /\ ~garbage /\ gw = 0 /\ gr = 0
  /\ Said = <<>> /\ prog = <<>> /\ c2s = <<>>
  /\ at = "idle" /\ res = "ok" /\ req.op = "write" => req.id \in stored

\* After a full disk: all the server still does is read what it is owed.
Owing ==
  /\ at \in {"idle", "clear", "clear_wait"} /\ (garbage <=> at # "clear_wait")
  /\ at = "idle" => res = "err"
  /\ gr = 0 /\ (at = "clear_wait" => gw = 0)
  /\ variant = "shell" /\ Said = <<>>
  /\ \A i \in 1..Len(prog) : prog[i] = Eat
  /\ gw > 0 => Len(prog) <= gw
  /\ \A i \in 1..Len(c2s) : c2s[i].k # "cmd"

\* After the first line of a link target that has more: they and the reply
\* are nobody's, and no command goes out any more.
Leftover ==
  /\ at \in {"idle", "clear", "clear_wait"} /\ (garbage <=> at # "clear_wait")
  /\ at = "idle" => res = "err"
  /\ gw = 0 /\ gr = 0
  /\ \A i \in 1..Len(c2s) : c2s[i].k # "cmd"

Gone == ~sock /\ at = "idle" /\ garbage /\ res = "err"

InTouch == ~mixed /\ (Gone \/ (sock /\ (Talk \/ Unread \/ Clean \/ Owing \/ Leftover)))

Agreement == cause = {} => InTouch

\* As many blocks are read as there are, with one line at most in between.
Fed(p, d) ==
  \E m \in Nat :
    /\ \A i \in 1..Len(p) : i # m => p[i] = Eat
    /\ IF m \in 1..Len(p) THEN d < Len(p) ELSE d <= Len(p)

\* The data in the stream come first, and the server will read them as data.
DataFirst(d) ==
  /\ \A i \in 1..Len(c2s) :
       c2s[i].k \in (IF i <= d THEN {"data"} ELSE {"space", "newline", "ping"})
  /\ d = 0 \/ Fed(prog, d)

Served ==
  cause = {} /\ peer =>
    \/ prog = <<>> /\ Len(c2s) = 1 /\ c2s[1].k = "cmd"
    \/ \E d \in 0..Len(c2s) : DataFirst(d)

\* The remote side that is not there does nothing more; a write has data.
Rest ==
  /\ ~peer => prog = <<>>
  /\ req.op = "write" => req.n > 0
  /\ at = "size" => req.op # "write"
-----------------------------------------------------------------------------
(* Lemmas about sequences *)

\* What comes after the first element.
LEMMA TailOf ==
  ASSUME NEW S, NEW s \in Seq(S), Len(s) >= 1
  PROVE  /\ Head(s) = s[1] /\ s[1] \in S /\ Len(s) \in Nat
         /\ Tail(s) \in Seq(S) /\ Len(Tail(s)) = Len(s) - 1
         /\ \A i \in 1..Len(Tail(s)) : Tail(s)[i] = s[i + 1]
         /\ Tail(s) = SubSeq(s, 2, Len(s))
<1>1. s # <<>> /\ Len(s) \in Nat /\ 1 \in 1..Len(s)
  BY EmptySeq
<1>2. /\ Tail(s) \in Seq(S) /\ Len(Tail(s)) = Len(s) - 1
      /\ \A i \in 1..Len(Tail(s)) : Tail(s)[i] = s[i + 1]
      /\ Tail(s) = SubSeq(s, 2, Len(s))
  BY <1>1, HeadTailProperties, TailIsSubSeq
<1>3. s[1] \in S
  BY <1>1, ElementOfSeq
<1>4. Head(s) = s[1]
  OBVIOUS
<1> QED
  BY <1>1, <1>2, <1>3, <1>4

\* What comes after the first n elements.
LEMMA RestOf ==
  ASSUME NEW S, NEW s \in Seq(S), NEW n \in Nat, n <= Len(s)
  PROVE  /\ SubSeq(s, n + 1, Len(s)) \in Seq(S) /\ Len(s) \in Nat
         /\ Len(SubSeq(s, n + 1, Len(s))) = Len(s) - n
         /\ \A i \in 1..(Len(s) - n) : SubSeq(s, n + 1, Len(s))[i] = s[n + i]
<1>1. Len(s) \in Nat /\ n + 1 \in Int /\ Len(s) \in Int
  BY LenProperties
<1>2. \A i \in (n + 1)..Len(s) : s[i] \in S
  BY <1>1, ElementOfSeq
<1>3. /\ SubSeq(s, n + 1, Len(s)) \in Seq(S)
      /\ Len(SubSeq(s, n + 1, Len(s))) = IF n + 1 <= Len(s) THEN Len(s) - (n + 1) + 1 ELSE 0
      /\ \A i \in 1..(Len(s) - (n + 1) + 1) : SubSeq(s, n + 1, Len(s))[i] = s[(n + 1) + i - 1]
  BY <1>1, <1>2, SubSeqProperties
<1>4. /\ Len(s) - (n + 1) + 1 = Len(s) - n
      /\ (IF n + 1 <= Len(s) THEN Len(s) - (n + 1) + 1 ELSE 0) = Len(s) - n
  BY <1>1
<1>5. ASSUME NEW i \in 1..(Len(s) - n)
      PROVE  SubSeq(s, n + 1, Len(s))[i] = s[n + i]
  <2>1. i \in 1..(Len(s) - (n + 1) + 1)
    BY <1>4
  <2>2. (n + 1) + i - 1 = n + i
    BY <1>1
  <2> QED
    BY <1>3, <2>1, <2>2
<1> QED
  BY <1>1, <1>3, <1>4, <1>5

\* A sequence of one element.
LEMMA Single ==
  ASSUME NEW S, NEW e \in S
  PROVE  <<e>> \in Seq(S) /\ Len(<<e>>) = 1 /\ <<e>>[1] = e
OBVIOUS

\* A sequence of no elements is the empty one.
LEMMA EmptyIs ==
  ASSUME NEW S, NEW s \in Seq(S)
  PROVE  Len(s) = 0 <=> s = <<>>
BY EmptySeq

\* What is moved from the end of one sequence to the other stays in place.
LEMMA MoveAll ==
  ASSUME NEW S, NEW b \in Seq(S), NEW s \in Seq(S), NEW m \in 1..Len(s)
  PROVE  (b \o SubSeq(s, 1, m)) \o SubSeq(s, m + 1, Len(s)) = b \o s
<1>1. Len(s) \in Nat /\ m \in Nat /\ 1 \in 1..(Len(s) + 1) /\ m \in (1 - 1)..Len(s)
      /\ Len(s) \in m..Len(s) /\ m <= Len(s)
  BY LenProperties
<1>2. SubSeq(s, 1, m) \o SubSeq(s, m + 1, Len(s)) = s
  BY <1>1, ConcatAdjacentSubSeq, SubSeqFull
<1>3. PICK u \in Seq(S), v \in Seq(S) : u = SubSeq(s, 1, m) /\ v = SubSeq(s, m + 1, Len(s))
  <2>1. \A i \in 1..m : s[i] \in S
    BY <1>1, ElementOfSeq
  <2>2. SubSeq(s, 1, m) \in Seq(S)
    BY <1>1, <2>1, SubSeqProperties
  <2>3. SubSeq(s, m + 1, Len(s)) \in Seq(S)
    BY <1>1, RestOf
  <2> QED
    BY <2>2, <2>3
<1>4. (b \o u) \o v = b \o (u \o v)
  BY ConcatAssociative, SMTT(60)
<1> QED
  BY <1>2, <1>3, <1>4, Zenon

\* A part of s moves over to the end of b.
LEMMA MoveOver ==
  ASSUME NEW S, NEW b \in Seq(S), NEW s \in Seq(S), NEW m \in 1..Len(s)
  PROVE  /\ SubSeq(s, 1, m) \in Seq(S) /\ Len(SubSeq(s, 1, m)) = m
         /\ b \o SubSeq(s, 1, m) \in Seq(S) /\ Len(b \o SubSeq(s, 1, m)) = Len(b) + m
         /\ (b \o SubSeq(s, 1, m)) \o SubSeq(s, m + 1, Len(s)) = b \o s
<1>1. Len(s) \in Nat /\ m \in Nat /\ 1 \in 1..(Len(s) + 1) /\ m \in (1 - 1)..Len(s)
      /\ Len(s) \in m..Len(s) /\ m <= Len(s)
  BY LenProperties
<1>2. SubSeq(s, m + 1, Len(s)) \in Seq(S)
  BY <1>1, RestOf
<1>3. SubSeq(s, 1, m) \in Seq(S) /\ Len(SubSeq(s, 1, m)) = m
  <2>1. \A i \in 1..m : s[i] \in S
    BY <1>1, ElementOfSeq
  <2> QED
    BY <1>1, <2>1, SubSeqProperties
<1>4. (b \o SubSeq(s, 1, m)) \o SubSeq(s, m + 1, Len(s)) = b \o s
  BY MoveAll
<1> QED
  BY <1>3, <1>4, ConcatProperties

\* The first element of what follows s moves over to the end of s.
LEMMA HeadOver ==
  ASSUME NEW S, NEW s \in Seq(S), NEW q \in Seq(S), Len(q) >= 1
  PROVE  Append(s, q[1]) \o Tail(q) = s \o q
<1>1. q[1] \in S /\ Tail(q) \in Seq(S) /\ Len(q) \in Nat /\ Len(Tail(q)) = Len(q) - 1
      /\ \A i \in 1..Len(Tail(q)) : Tail(q)[i] = q[i + 1]
  BY TailOf
<1>2. /\ Append(s, q[1]) \in Seq(S) /\ Len(Append(s, q[1])) = Len(s) + 1 /\ Len(s) \in Nat
      /\ \A i \in 1..Len(s) : Append(s, q[1])[i] = s[i]
      /\ Append(s, q[1])[Len(s) + 1] = q[1]
  BY <1>1, AppendProperties, LenProperties
<1> DEFINE a == Append(s, q[1])
           u == Tail(q)
<1>3. a \o u \in Seq(S) /\ s \o q \in Seq(S)
      /\ Len(a \o u) = Len(a) + Len(u) /\ Len(s \o q) = Len(s) + Len(q)
      /\ (\A i \in 1..(Len(a) + Len(u)) : (a \o u)[i] = IF i <= Len(a) THEN a[i] ELSE u[i - Len(a)])
      /\ (\A i \in 1..(Len(s) + Len(q)) : (s \o q)[i] = IF i <= Len(s) THEN s[i] ELSE q[i - Len(s)])
  BY <1>1, <1>2, ConcatProperties
<1>4. Len(a \o u) = Len(s \o q)
  BY <1>1, <1>2, <1>3
<1> HIDE DEF a, u
<1>5. ASSUME NEW i \in 1..Len(a \o u)
      PROVE  (a \o u)[i] = (s \o q)[i]
  <2>0. a = Append(s, q[1]) /\ u = Tail(q)
    BY DEF a, u
  <2>t. i \in Nat /\ i >= 1 /\ i <= Len(s) + Len(q) /\ Len(a) = Len(s) + 1 /\ Len(u) = Len(q) - 1
    BY <1>1, <1>2, <1>3, <1>4, <2>0
  <2>1. CASE i <= Len(s)
    BY <1>1, <1>2, <1>3, <2>0, <2>t, <2>1
  <2>2. CASE i = Len(s) + 1
    BY <1>1, <1>2, <1>3, <2>0, <2>t, <2>2
  <2>3. CASE i > Len(s) + 1
    <3>1. (a \o u)[i] = u[i - Len(a)] /\ (s \o q)[i] = q[i - Len(s)]
      BY <1>1, <1>2, <1>3, <2>t, <2>3
    <3>2. i - Len(a) \in 1..Len(u) /\ (i - Len(a)) + 1 = i - Len(s)
      BY <1>1, <1>2, <2>t, <2>3
    <3> QED
      BY <1>1, <2>0, <3>1, <3>2
  <2> QED
    BY <1>2, <2>t, <2>1, <2>2, <2>3
<1>6. a \o u = s \o q
  BY <1>3, <1>4, <1>5, SeqEqual
<1> QED
  BY <1>6 DEF a, u

\* The first n elements of b \o s are taken from b and, when b has fewer,
\* from s.
LEMMA TakeFrom ==
  ASSUME NEW S, NEW b \in Seq(S), NEW s \in Seq(S), NEW k \in Nat, NEW m \in Nat,
         k <= Len(b), m <= Len(s), m = 0 \/ k = Len(b)
  PROVE  SubSeq(b, k + 1, Len(b)) \o SubSeq(s, m + 1, Len(s)) = SubSeq(b \o s, (k + m) + 1, Len(b \o s))
<1> DEFINE x == SubSeq(b, k + 1, Len(b))
           y == SubSeq(s, m + 1, Len(s))
           z == b \o s
           w == SubSeq(z, (k + m) + 1, Len(z))
<1>1. x \in Seq(S) /\ Len(b) \in Nat /\ Len(x) = Len(b) - k
      /\ \A i \in 1..(Len(b) - k) : x[i] = b[k + i]
  BY RestOf
<1>2. y \in Seq(S) /\ Len(s) \in Nat /\ Len(y) = Len(s) - m
      /\ \A i \in 1..(Len(s) - m) : y[i] = s[m + i]
  BY RestOf
<1>3. z \in Seq(S) /\ Len(z) = Len(b) + Len(s)
      /\ \A i \in 1..(Len(b) + Len(s)) : z[i] = IF i <= Len(b) THEN b[i] ELSE s[i - Len(b)]
  BY ConcatProperties
<1> HIDE DEF x, y, z
<1>4. k + m \in Nat /\ k + m <= Len(z)
  BY <1>1, <1>2, <1>3
<1>5. w \in Seq(S) /\ Len(w) = Len(z) - (k + m)
      /\ \A i \in 1..(Len(z) - (k + m)) : w[i] = z[(k + m) + i]
  BY <1>3, <1>4, RestOf
<1>6. x \o y \in Seq(S) /\ Len(x \o y) = Len(x) + Len(y)
      /\ \A i \in 1..(Len(x) + Len(y)) : (x \o y)[i] = IF i <= Len(x) THEN x[i] ELSE y[i - Len(x)]
  <2>1. x \in Seq(S) /\ y \in Seq(S)
    BY <1>1, <1>2
  <2> QED
    BY <2>1, ConcatProperties
<1> HIDE DEF w
<1>7. Len(x \o y) = Len(w)
  BY <1>1, <1>2, <1>3, <1>5, <1>6
<1>8. ASSUME NEW i \in 1..Len(x \o y) PROVE (x \o y)[i] = w[i]
  <2>t. i \in Nat /\ i >= 1 /\ i <= Len(x) + Len(y) /\ i \in 1..(Len(x) + Len(y))
        /\ i \in 1..(Len(z) - (k + m)) /\ (k + m) + i \in 1..(Len(b) + Len(s))
    BY <1>1, <1>2, <1>3, <1>4, <1>6
  <2>w. w[i] = IF (k + m) + i <= Len(b) THEN b[(k + m) + i] ELSE s[((k + m) + i) - Len(b)]
    BY <1>3, <1>5, <2>t
  <2>1. CASE i <= Len(x)
    <3>1. (x \o y)[i] = b[k + i]
      BY <1>1, <1>6, <2>t, <2>1
    <3>2. m = 0
      BY <1>1, <2>t, <2>1
    <3>3. (k + m) + i = k + i /\ k + i <= Len(b)
      BY <1>1, <2>t, <2>1, <3>2
    <3> QED
      BY <2>w, <3>1, <3>3
  <2>2. CASE i > Len(x)
    <3>0. i - Len(x) \in 1..(Len(s) - m)
      BY <1>1, <1>2, <2>t, <2>2
    <3>1. (x \o y)[i] = s[m + (i - Len(x))]
      <4>0. ~(i <= Len(x))
        BY <1>1, <2>t, <2>2
      <4>1. (x \o y)[i] = y[i - Len(x)]
        BY <1>6, <2>t, <4>0
      <4> QED
        BY <1>2, <3>0, <4>1
    <3>2. ((k + m) + i) - Len(b) = m + (i - Len(x)) /\ ~((k + m) + i <= Len(b))
      BY <1>1, <1>2, <2>t, <2>2
    <3> QED
      BY <2>w, <3>1, <3>2
  <2>3. i <= Len(x) \/ i > Len(x)
    BY <1>1, <2>t
  <2> QED
    BY <2>1, <2>2, <2>3, Zenon
<1>9. x \o y = w
  BY <1>5, <1>6, <1>7, <1>8, SeqEqual
<1> QED
  BY <1>9 DEF x, y, z, w

\* The first element of a sequence that goes on.
LEMMA TailConcat ==
  ASSUME NEW S, NEW x \in Seq(S), NEW y \in Seq(S), Len(x) >= 1
  PROVE  /\ Tail(x \o y) = Tail(x) \o y /\ (x \o y)[1] = x[1]
         /\ x \o y \in Seq(S) /\ Len(x \o y) >= 1
<1>1. /\ Len(x) \in Nat /\ Len(y) \in Nat
      /\ x \o y \in Seq(S) /\ Len(x \o y) = Len(x) + Len(y)
      /\ \A i \in 1..(Len(x) + Len(y)) : (x \o y)[i] = IF i <= Len(x) THEN x[i] ELSE y[i - Len(x)]
  BY ConcatProperties, LenProperties
<1>2. Len(x \o y) >= 1 /\ 1 \in 1..(Len(x) + Len(y))
  BY <1>1
<1>3. (x \o y)[1] = x[1]
  BY <1>1, <1>2
<1>4. Tail(x) = SubSeq(x, 2, Len(x)) /\ Tail(x \o y) = SubSeq(x \o y, 2, Len(x \o y))
  BY <1>1, <1>2, TailOf
<1>5. SubSeq(x, 1 + 1, Len(x)) \o SubSeq(y, 0 + 1, Len(y)) = SubSeq(x \o y, (1 + 0) + 1, Len(x \o y))
  <2>1. PICK k \in Nat, m \in Nat : k = 1 /\ m = 0
    OBVIOUS
  <2>2. k <= Len(x) /\ m <= Len(y) /\ (m = 0 \/ k = Len(x))
    BY <1>1, <2>1
  <2>3. SubSeq(x, k + 1, Len(x)) \o SubSeq(y, m + 1, Len(y)) = SubSeq(x \o y, (k + m) + 1, Len(x \o y))
    BY <2>2, TakeFrom
  <2> QED
    BY <2>1, <2>3, Zenon
<1>6. SubSeq(y, 1, Len(y)) = y
  BY SubSeqFull
<1>7. 1 + 1 = 2 /\ 0 + 1 = 1 /\ (1 + 0) + 1 = 2
  OBVIOUS
<1>8. SubSeq(x, 2, Len(x)) \o SubSeq(y, 1, Len(y)) = SubSeq(x \o y, 2, Len(x \o y))
  BY <1>5, <1>7
<1> QED
  BY <1>1, <1>2, <1>3, <1>4, <1>6, <1>8

\* What follows a sequence of one element.
LEMMA TailAfter ==
  ASSUME NEW S, NEW a \in Seq(S), NEW x \in Seq(S), Len(a) = 1
  PROVE  /\ Tail(a \o x) = x /\ (a \o x)[1] = a[1]
         /\ a \o x \in Seq(S) /\ Len(a \o x) >= 1
<1>0. Len(a) >= 1
  OBVIOUS
<1>1. Tail(a) \in Seq(S) /\ Len(Tail(a)) = 0
  <2>1. Tail(a) \in Seq(S) /\ Len(Tail(a)) = Len(a) - 1
    BY <1>0, TailOf
  <2> QED
    BY <2>1
<1>2. Tail(a) = <<>>
  BY <1>1, EmptyIs
<1>3. /\ Tail(a \o x) = Tail(a) \o x /\ (a \o x)[1] = a[1]
      /\ a \o x \in Seq(S) /\ Len(a \o x) >= 1
  BY <1>0, TailConcat
<1>4. <<>> \o x = x
  BY ConcatEmptySeq
<1> QED
  BY <1>2, <1>3, <1>4

-----------------------------------------------------------------------------
(* What the server's functions print and read *)

Kinds == Replies \cup {"entry", "blank", "size", "data"}

\* A line, or a block, of a request.
LEMMA ElemIs ==
  ASSUME NEW k \in Kinds, NEW id \in Reqs
  PROVE  /\ Elem(k, id) \in Elems /\ Elem(k, id) \in Mine(id)
         /\ Elem(k, id) # Eat /\ Elem(k, id).k = k /\ Elem(k, id).id = id
<1>1. 0 \in 0..MaxCount
  BY BoundsAssumption
<1>2. PICK e : e = [k |-> k, id |-> id, n |-> 0]
  OBVIOUS
<1>3. e \in Elems /\ e.k = k /\ e.id = id
  BY <1>1, <1>2 DEF Elems, Kinds
<1>4. Eat.k = "eat" /\ k # "eat"
  BY DEF Eat, Kinds, Replies
<1>5. e # Eat
  BY <1>3, <1>4
<1> QED
  BY <1>2, <1>3, <1>5 DEF Elem, Mine, Item

\* The server's variables may hold what is written for one request.
LEMMA MineIs ==
  ASSUME NEW id
  PROVE  /\ Mine(id) \subseteq Item /\ Eat \in Mine(id)
         /\ \A e \in Mine(id) : e # Eat => e \in Elems /\ e.id = id
BY DEF Mine, Item

\* Elements of a stream are not the server's reading.
LEMMA EatIsNoElem == \A e \in Elems : e # Eat /\ e.k \in Kinds /\ e.n \in 0..MaxCount
<1> SUFFICES ASSUME NEW e \in Elems PROVE e # Eat /\ e.k \in Kinds /\ e.n \in 0..MaxCount
  OBVIOUS
<1>1. e.k \in Kinds /\ e.n \in 0..MaxCount
  BY DEF Elems, Kinds
<1>2. Eat.k = "eat" /\ "eat" \notin Kinds
  BY DEF Eat, Kinds, Replies
<1> QED
  BY <1>1, <1>2

\* Lines of some kinds.
LEMMA SayIs ==
  ASSUME NEW K, K \subseteq Kinds, NEW ks \in Seq(K), NEW id \in Reqs
  PROVE  /\ Say(ks, id) \in Seq(Mine(id)) /\ Len(Say(ks, id)) = Len(ks)
         /\ \A i \in 1..Len(ks) :
              Say(ks, id)[i].k = ks[i] /\ ks[i] \in K /\ Say(ks, id)[i] # Eat
<1>1. Len(ks) \in Nat /\ DOMAIN ks = 1..Len(ks) /\ \A i \in 1..Len(ks) : ks[i] \in K
  BY LenProperties, ElementOfSeq
<1>2. Say(ks, id) = [i \in 1..Len(ks) |-> Elem(ks[i], id)]
  BY <1>1 DEF Say
<1>3. \A i \in 1..Len(ks) : /\ Elem(ks[i], id) \in Mine(id) /\ Elem(ks[i], id).k = ks[i]
                            /\ Elem(ks[i], id) # Eat
  BY <1>1, ElemIs
<1>4. Say(ks, id) \in [1..Len(ks) -> Mine(id)]
  BY <1>2, <1>3
<1>5. Say(ks, id) \in Seq(Mine(id)) /\ Len(Say(ks, id)) = Len(ks)
  BY <1>1, <1>2, <1>4
<1> QED
  BY <1>1, <1>2, <1>3, <1>5

\* One line.
LEMMA SayOne ==
  ASSUME NEW k \in Kinds, NEW id \in Reqs
  PROVE  /\ Say(<<k>>, id) \in Seq(Mine(id)) /\ Len(Say(<<k>>, id)) = 1
         /\ Say(<<k>>, id)[1].k = k /\ Say(<<k>>, id)[1] # Eat
<1>1. <<k>> \in Seq(Kinds) /\ Len(<<k>>) = 1 /\ <<k>>[1] = k
  BY Single
<1>2. 1 \in 1..Len(<<k>>)
  BY <1>1
<1>3. PICK ks : ks = <<k>>
  OBVIOUS
<1>4. ks \in Seq(Kinds) /\ Len(ks) = 1 /\ ks[1] = k /\ 1 \in 1..Len(ks)
  BY <1>1, <1>2, <1>3
<1>5. /\ Say(ks, id) \in Seq(Mine(id)) /\ Len(Say(ks, id)) = Len(ks)
      /\ \A i \in 1..Len(ks) : Say(ks, id)[i].k = ks[i] /\ Say(ks, id)[i] # Eat
  BY <1>4, SayIs
<1>6. /\ Say(ks, id) \in Seq(Mine(id)) /\ Len(Say(ks, id)) = 1
      /\ Say(ks, id)[1].k = k /\ Say(ks, id)[1] # Eat
  BY <1>4, <1>5
<1> QED
  BY <1>3, <1>6, Zenon

\* Two lines.
LEMMA SayTwo ==
  ASSUME NEW k \in Kinds, NEW l \in Kinds, NEW id \in Reqs
  PROVE  /\ Say(<<k, l>>, id) \in Seq(Mine(id)) /\ Len(Say(<<k, l>>, id)) = 2
         /\ Say(<<k, l>>, id)[1].k = k /\ Say(<<k, l>>, id)[2].k = l
<1>1. <<k, l>> \in Seq(Kinds) /\ Len(<<k, l>>) = 2 /\ <<k, l>>[1] = k /\ <<k, l>>[2] = l
  OBVIOUS
<1>2. 1 \in 1..Len(<<k, l>>) /\ 2 \in 1..Len(<<k, l>>)
  BY <1>1
<1>3. PICK ks : ks = <<k, l>>
  OBVIOUS
<1>4. ks \in Seq(Kinds) /\ Len(ks) = 2 /\ ks[1] = k /\ ks[2] = l
  BY <1>1, <1>3
<1>5. 1 \in 1..Len(ks) /\ 2 \in 1..Len(ks)
  BY <1>4
<1>6. /\ Say(ks, id) \in Seq(Mine(id)) /\ Len(Say(ks, id)) = Len(ks)
      /\ \A i \in 1..Len(ks) : Say(ks, id)[i].k = ks[i]
  BY <1>4, SayIs
<1>7. /\ Say(ks, id) \in Seq(Mine(id)) /\ Len(Say(ks, id)) = 2
      /\ Say(ks, id)[1].k = k /\ Say(ks, id)[2].k = l
  BY <1>4, <1>5, <1>6
<1> QED
  BY <1>3, <1>7, Zenon

\* Blocks of data, and of what is to be read.
LEMMA BlocksAre ==
  ASSUME NEW id \in Reqs, NEW n \in Nat
  PROVE  /\ Blocks("data", id, n) \in Seq(Mine(id)) /\ Len(Blocks("data", id, n)) = n
         /\ \A i \in 1..n : /\ Blocks("data", id, n)[i].k = "data"
                            /\ Blocks("data", id, n)[i] = Elem("data", id)
         /\ Eats(n) \in Seq(Mine(id)) /\ Len(Eats(n)) = n
         /\ \A i \in 1..n : Eats(n)[i] = Eat
<1>1. "data" \in Kinds
  BY DEF Kinds
<1>2. Elem("data", id) \in Mine(id) /\ Elem("data", id).k = "data" /\ Eat \in Mine(id)
  BY <1>1, ElemIs, MineIs
<1>3. Blocks("data", id, n) = [i \in 1..n |-> Elem("data", id)]
      /\ Eats(n) = [i \in 1..n |-> Eat]
  BY DEF Blocks, Eats
<1>4. Blocks("data", id, n) \in [1..n -> Mine(id)] /\ Eats(n) \in [1..n -> Mine(id)]
  BY <1>2, <1>3
<1>5. /\ Blocks("data", id, n) \in Seq(Mine(id)) /\ Len(Blocks("data", id, n)) = n
      /\ Eats(n) \in Seq(Mine(id)) /\ Len(Eats(n)) = n
  BY <1>3, <1>4
<1> QED
  BY <1>2, <1>3, <1>5

\* One line as a whole answer.
LEMMA OneAnswer ==
  ASSUME NEW K, K \subseteq Kinds, NEW k \in K, NEW id \in Reqs
  PROVE  Say(<<k>>, id) \in Seq(Mine(id)) /\ OneOf(Say(<<k>>, id), K)
         /\ Head(Say(<<k>>, id)).k = k
<1>1. k \in Kinds
  OBVIOUS
<1>2. /\ Say(<<k>>, id) \in Seq(Mine(id)) /\ Len(Say(<<k>>, id)) = 1
      /\ Say(<<k>>, id)[1].k = k
  BY <1>1, SayOne
<1>3. Head(Say(<<k>>, id)) = Say(<<k>>, id)[1]
  BY <1>2, TailOf
<1> QED
  BY <1>2, <1>3 DEF OneOf

\* A listing.
LEMMA ListAnswer ==
  ASSUME NEW id \in Reqs, NEW max \in Nat, NEW l \in Listings(id, max),
         NEW k \in {"COMPLETE", "EPERM", "ENOENT"}
  PROVE  /\ l \o Say(<<k>>, id) \in Seq(Mine(id)) /\ ListOf(l \o Say(<<k>>, id))
         /\ k = "COMPLETE" => LinesOf(l \o Say(<<k>>, id))
         /\ Len(l \o Say(<<k>>, id)) = Len(l) + 1 /\ Len(l) \in Nat /\ l \in Seq(Mine(id))
<1>1. {"entry", "blank"} \subseteq Kinds /\ k \in Kinds
  BY DEF Kinds, Replies
<1>2. PICK ks \in Seq({"entry", "blank"}) : l = Say(ks, id)
  <2>1. PICK ks \in BoundedSeq({"entry", "blank"}, max) : l = Say(ks, id)
    BY DEF Listings
  <2>2. PICK m \in 0..max : ks \in [1..m -> {"entry", "blank"}]
    BY <2>1 DEF BoundedSeq, SeqOf
  <2>3. ks \in Seq({"entry", "blank"})
    BY <2>2
  <2> QED
    BY <2>1, <2>3
<1>3. /\ l \in Seq(Mine(id)) /\ Len(l) = Len(ks)
      /\ \A i \in 1..Len(l) : l[i].k \in {"entry", "blank"}
  BY <1>1, <1>2, SayIs
<1>4. PICK s : s = Say(<<k>>, id)
  OBVIOUS
<1>5. s \in Seq(Mine(id)) /\ Len(s) = 1 /\ s[1].k = k
  BY <1>1, <1>4, SayOne
<1>6. /\ l \o s \in Seq(Mine(id)) /\ Len(l \o s) = Len(l) + 1 /\ Len(l) \in Nat
      /\ \A i \in 1..(Len(l) + 1) : (l \o s)[i] = IF i <= Len(l) THEN l[i] ELSE s[i - Len(l)]
  <2>1. /\ l \o s \in Seq(Mine(id)) /\ Len(l \o s) = Len(l) + Len(s)
        /\ \A i \in 1..(Len(l) + Len(s)) : (l \o s)[i] = IF i <= Len(l) THEN l[i] ELSE s[i - Len(l)]
    <3>1. l \in Seq(Mine(id)) /\ s \in Seq(Mine(id))
      BY <1>3, <1>5
    <3> QED
      BY <3>1, ConcatProperties
  <2>2. Len(l) \in Nat
    BY <1>3, LenProperties
  <2>3. Len(s) = 1
    BY <1>5
  <2> QED
    BY <2>1, <2>2, <2>3, Zenon
<1>7. ASSUME NEW i \in 1..(Len(l) + 1), i < Len(l) + 1
      PROVE  (l \o s)[i].k \in {"entry", "blank"}
  <2>1. i \in 1..Len(l)
    BY <1>6, <1>7
  <2> QED
    BY <1>3, <1>6, <2>1
<1>8. (l \o s)[Len(l) + 1] = s[1]
  <2>1. Len(l) + 1 \in 1..(Len(l) + 1) /\ ~(Len(l) + 1 <= Len(l)) /\ (Len(l) + 1) - Len(l) = 1
    BY <1>6
  <2> QED
    BY <1>6, <2>1
<1>9. /\ Len(l \o s) >= 1 /\ (l \o s)[Len(l \o s)].k = k
      /\ \A i \in 1..Len(l \o s) : i < Len(l \o s) => (l \o s)[i].k \in {"entry", "blank"}
  BY <1>5, <1>6, <1>7, <1>8
<1> QED
  BY <1>3, <1>4, <1>6, <1>9, Zenon DEF ListOf, LinesOf

\* Data between two replies.
LEMMA DataAnswer ==
  ASSUME NEW id \in Reqs, NEW n \in Nat
  PROVE  LET p == Say(<<"PRELIM">>, id) \o Blocks("data", id, n) \o Say(<<"COMPLETE">>, id)
             d == Blocks("data", id, n) \o Say(<<"COMPLETE">>, id) IN
         /\ p \in Seq(Mine(id)) /\ Opens(p) /\ Tail(p) = d
         /\ d \in Seq(Mine(id)) /\ DataOf(d, n) /\ Head(p).k = "PRELIM"
<1> DEFINE a == Say(<<"PRELIM">>, id)
           b == Blocks("data", id, n)
           c == Say(<<"COMPLETE">>, id)
<1>1. /\ a \in Seq(Mine(id)) /\ Len(a) = 1 /\ a[1].k = "PRELIM"
      /\ c \in Seq(Mine(id)) /\ Len(c) = 1 /\ c[1].k = "COMPLETE"
  <2>1. "PRELIM" \in Kinds /\ "COMPLETE" \in Kinds
    BY DEF Kinds, Replies
  <2> QED
    BY <2>1, SayOne
<1>2. b \in Seq(Mine(id)) /\ Len(b) = n /\ \A i \in 1..n : b[i].k = "data"
  BY BlocksAre
<1> HIDE DEF a, b, c
<1>3. a \o b \in Seq(Mine(id)) /\ Len(a \o b) >= 1 /\ Tail(a \o b) = b /\ (a \o b)[1] = a[1]
  BY <1>1, <1>2, TailAfter
<1>4. /\ (a \o b) \o c \in Seq(Mine(id)) /\ Len((a \o b) \o c) >= 1
      /\ Tail((a \o b) \o c) = b \o c /\ ((a \o b) \o c)[1] = a[1]
  BY <1>1, <1>3, TailConcat
<1>5. /\ b \o c \in Seq(Mine(id)) /\ Len(b \o c) = n + 1
      /\ \A i \in 1..(n + 1) : (b \o c)[i] = IF i <= n THEN b[i] ELSE c[i - n]
  <2>1. b \in Seq(Mine(id)) /\ c \in Seq(Mine(id))
    BY <1>1, <1>2
  <2>2. /\ b \o c \in Seq(Mine(id)) /\ Len(b \o c) = Len(b) + Len(c)
        /\ \A i \in 1..(Len(b) + Len(c)) : (b \o c)[i] = IF i <= Len(b) THEN b[i] ELSE c[i - Len(b)]
    BY <2>1, ConcatProperties
  <2>3. Len(b) = n /\ Len(c) = 1
    BY <1>1, <1>2
  <2> QED
    BY <2>2, <2>3, Zenon
<1>6. DataOf(b \o c, n)
  <2>1. \A i \in 1..(n + 1) : i <= n => (b \o c)[i].k = "data"
    BY <1>2, <1>5
  <2>2. (b \o c)[n + 1] = c[1]
    <3>1. n + 1 \in 1..(n + 1) /\ ~(n + 1 <= n) /\ (n + 1) - n = 1
      OBVIOUS
    <3> QED
      BY <1>5, <3>1
  <2> QED
    BY <1>1, <1>5, <2>1, <2>2 DEF DataOf
<1>7. Head((a \o b) \o c).k = "PRELIM" /\ Opens((a \o b) \o c)
  <2>1. Head((a \o b) \o c) = a[1]
    BY <1>4, TailOf
  <2> QED
    BY <1>1, <1>4, <2>1 DEF Opens
<1> QED
  BY <1>4, <1>5, <1>6, <1>7 DEF a, b, c

\* A size before them.
LEMMA SizeAnswer ==
  ASSUME NEW id \in Reqs, NEW x \in 0..MaxCount
  PROVE  LET p == Say(<<"PRELIM">>, id) \o Size(id, x) \o Blocks("data", id, x)
                    \o Say(<<"COMPLETE">>, id) IN
         p \in Seq(Mine(id)) /\ Opens(p) /\ SizeOf(Tail(p)) /\ Head(p).k = "PRELIM"
<1> DEFINE a == Say(<<"PRELIM">>, id)
           s == Size(id, x)
           b == Blocks("data", id, x)
           c == Say(<<"COMPLETE">>, id)
<1>1. /\ a \in Seq(Mine(id)) /\ Len(a) = 1 /\ a[1].k = "PRELIM"
      /\ c \in Seq(Mine(id))
  <2>1. "PRELIM" \in Kinds /\ "COMPLETE" \in Kinds
    BY DEF Kinds, Replies
  <2> QED
    BY <2>1, SayOne
<1>2. s \in Seq(Mine(id)) /\ Len(s) = 1 /\ s[1].k = "size" /\ s[1].n = x
  <2>1. PICK e : e = [k |-> "size", id |-> id, n |-> x]
    OBVIOUS
  <2>2. e.k = "size" /\ e.id = id /\ e.n = x /\ e \in Elems
    BY <2>1 DEF Elems
  <2>3. e \in Mine(id)
    BY <2>2 DEF Mine, Item
  <2>4. s = <<e>>
    BY <2>1 DEF Size
  <2> QED
    BY <2>2, <2>3, <2>4, Single
<1>3. b \in Seq(Mine(id)) /\ x \in Nat
  BY BlocksAre, BoundsAssumption
<1>4. b \o c \in Seq(Mine(id)) /\ DataOf(b \o c, x)
  BY <1>3, DataAnswer
<1> HIDE DEF a, b, c, s
<1>5. PICK as : as = a \o s
  OBVIOUS
<1>6. as \in Seq(Mine(id)) /\ Len(as) >= 1 /\ Tail(as) = s /\ as[1] = a[1]
  BY <1>1, <1>2, <1>5, TailAfter
<1>7. PICK asb : asb = as \o b
  OBVIOUS
<1>8. asb \in Seq(Mine(id)) /\ Len(asb) >= 1 /\ Tail(asb) = s \o b /\ asb[1] = a[1]
  <2>1. /\ as \o b \in Seq(Mine(id)) /\ Len(as \o b) >= 1
        /\ Tail(as \o b) = Tail(as) \o b /\ (as \o b)[1] = as[1]
    BY <1>3, <1>6, TailConcat
  <2> QED
    BY <1>6, <1>7, <2>1
<1>9. PICK p : p = asb \o c
  OBVIOUS
<1>10. p \in Seq(Mine(id)) /\ Len(p) >= 1 /\ Tail(p) = (s \o b) \o c /\ p[1] = a[1]
  <2>1. /\ asb \o c \in Seq(Mine(id)) /\ Len(asb \o c) >= 1
        /\ Tail(asb \o c) = Tail(asb) \o c /\ (asb \o c)[1] = asb[1]
    BY <1>1, <1>8, TailConcat
  <2> QED
    BY <1>8, <1>9, <2>1
<1>11. PICK sb : sb = s \o b
  OBVIOUS
<1>12. sb \in Seq(Mine(id)) /\ Len(sb) >= 1 /\ Tail(sb) = b /\ sb[1] = s[1]
  BY <1>2, <1>3, <1>11, TailAfter
<1>13. Tail(sb \o c) = b \o c /\ (sb \o c)[1] = s[1] /\ Len(sb \o c) >= 1
  <2>1. /\ Len(sb \o c) >= 1 /\ Tail(sb \o c) = Tail(sb) \o c /\ (sb \o c)[1] = sb[1]
    BY <1>1, <1>12, TailConcat
  <2> QED
    BY <1>12, <2>1
<1>14. SizeOf(sb \o c)
  BY <1>2, <1>4, <1>13 DEF SizeOf
<1>15. Head(p) = a[1]
  BY <1>10, TailOf
<1>16. p \in Seq(Mine(id)) /\ Opens(p) /\ SizeOf(Tail(p)) /\ Head(p).k = "PRELIM"
  BY <1>1, <1>10, <1>11, <1>14, <1>15 DEF Opens
<1> QED
  BY <1>5, <1>7, <1>9, <1>16, Zenon DEF a, b, c, s

\* A write that takes its data, with a reply.
LEMMA TakingAnswer ==
  ASSUME NEW id \in Reqs, NEW n \in Nat, NEW k \in {"COMPLETE", "ENOSPC", "EPERM", "ERROR"}, NEW v,
         k = "ENOSPC" => v = "shell"
  PROVE  LET p == Say(<<"PRELIM">>, id) \o Eats(n) \o Say(<<k>>, id) IN
         p \in Seq(Mine(id)) /\ Opens(p) /\ Takes(Tail(p), n, v)
<1> DEFINE a == Say(<<"PRELIM">>, id)
           b == Eats(n)
           c == Say(<<k>>, id)
<1>1. /\ a \in Seq(Mine(id)) /\ Len(a) = 1 /\ a[1].k = "PRELIM"
      /\ c \in Seq(Mine(id)) /\ Len(c) = 1 /\ c[1].k = k /\ c[1] # Eat
  <2>1. "PRELIM" \in Kinds /\ k \in Kinds
    BY DEF Kinds, Replies
  <2> QED
    BY <2>1, SayOne
<1>2. b \in Seq(Mine(id)) /\ Len(b) = n /\ \A i \in 1..n : b[i] = Eat
  BY BlocksAre
<1> HIDE DEF a, b, c
<1>3. a \o b \in Seq(Mine(id)) /\ Len(a \o b) >= 1 /\ Tail(a \o b) = b /\ (a \o b)[1] = a[1]
  BY <1>1, <1>2, TailAfter
<1>4. /\ (a \o b) \o c \in Seq(Mine(id)) /\ Len((a \o b) \o c) >= 1
      /\ Tail((a \o b) \o c) = b \o c /\ ((a \o b) \o c)[1] = a[1]
  BY <1>1, <1>3, TailConcat
<1>5. /\ b \o c \in Seq(Mine(id)) /\ Len(b \o c) = n + 1
      /\ \A i \in 1..(n + 1) : (b \o c)[i] = IF i <= n THEN b[i] ELSE c[i - n]
  <2>1. b \in Seq(Mine(id)) /\ c \in Seq(Mine(id))
    BY <1>1, <1>2
  <2>2. /\ b \o c \in Seq(Mine(id)) /\ Len(b \o c) = Len(b) + Len(c)
        /\ \A i \in 1..(Len(b) + Len(c)) : (b \o c)[i] = IF i <= Len(b) THEN b[i] ELSE c[i - Len(b)]
    BY <2>1, ConcatProperties
  <2>3. Len(b) = n /\ Len(c) = 1
    BY <1>1, <1>2
  <2> QED
    BY <2>2, <2>3, Zenon
<1>6. Takes(b \o c, n, v)
  <2>1. \A i \in 1..(n + 1) : i <= n => (b \o c)[i] = Eat
    BY <1>2, <1>5
  <2>2. (b \o c)[n + 1] = c[1]
    <3>1. n + 1 \in 1..(n + 1) /\ ~(n + 1 <= n) /\ (n + 1) - n = 1
      OBVIOUS
    <3> QED
      BY <1>5, <3>1
  <2> QED
    BY <1>1, <1>5, <2>1, <2>2 DEF Takes
<1> QED
  BY <1>1, <1>4, <1>6 DEF Opens, a, b, c

\* A write that fails after e blocks, and then reads all of them again.
LEMMA DroppingAnswer ==
  ASSUME NEW id \in Reqs, NEW n \in Nat, NEW e \in 0..n
  PROVE  LET p == Say(<<"PRELIM">>, id) \o Eats(e) \o Say(<<"ENOSPC">>, id) \o Eats(n) IN
         p \in Seq(Mine(id)) /\ Opens(p) /\ Drops(Tail(p), n, n, "shell")
<1> DEFINE a == Say(<<"PRELIM">>, id)
           b == Eats(e)
           c == Say(<<"ENOSPC">>, id)
           d == Eats(n)
<1>0. e \in Nat /\ e <= n
  OBVIOUS
<1>1. /\ a \in Seq(Mine(id)) /\ Len(a) = 1 /\ a[1].k = "PRELIM"
      /\ c \in Seq(Mine(id)) /\ Len(c) = 1 /\ c[1].k = "ENOSPC" /\ c[1] # Eat
  <2>1. "PRELIM" \in Kinds /\ "ENOSPC" \in Kinds
    BY DEF Kinds, Replies
  <2> QED
    BY <2>1, SayOne
<1>2. b \in Seq(Mine(id)) /\ Len(b) = e /\ \A i \in 1..e : b[i] = Eat
  BY <1>0, BlocksAre
<1>3. d \in Seq(Mine(id)) /\ Len(d) = n /\ \A i \in 1..n : d[i] = Eat
  BY BlocksAre
<1> HIDE DEF a, b, c, d
<1>4. a \o b \in Seq(Mine(id)) /\ Len(a \o b) >= 1 /\ Tail(a \o b) = b /\ (a \o b)[1] = a[1]
  BY <1>1, <1>2, TailAfter
<1>5. /\ (a \o b) \o c \in Seq(Mine(id)) /\ Len((a \o b) \o c) >= 1
      /\ Tail((a \o b) \o c) = b \o c /\ ((a \o b) \o c)[1] = a[1]
  BY <1>1, <1>4, TailConcat
<1>6. /\ ((a \o b) \o c) \o d \in Seq(Mine(id)) /\ Len(((a \o b) \o c) \o d) >= 1
      /\ Tail(((a \o b) \o c) \o d) = (b \o c) \o d /\ (((a \o b) \o c) \o d)[1] = a[1]
  <2>1. PICK w : w = (a \o b) \o c
    OBVIOUS
  <2>2. w \in Seq(Mine(id)) /\ Len(w) >= 1
    BY <1>5, <2>1
  <2>3. /\ Tail(w \o d) = Tail(w) \o d /\ (w \o d)[1] = w[1]
        /\ w \o d \in Seq(Mine(id)) /\ Len(w \o d) >= 1
    BY <1>3, <2>2, TailConcat
  <2> QED
    BY <1>5, <2>1, <2>3, Zenon
<1>7. /\ b \o c \in Seq(Mine(id)) /\ Len(b \o c) = e + 1
      /\ \A i \in 1..(e + 1) : (b \o c)[i] = IF i <= e THEN b[i] ELSE c[i - e]
  <2>1. b \in Seq(Mine(id)) /\ c \in Seq(Mine(id))
    BY <1>1, <1>2
  <2>2. /\ b \o c \in Seq(Mine(id)) /\ Len(b \o c) = Len(b) + Len(c)
        /\ \A i \in 1..(Len(b) + Len(c)) : (b \o c)[i] = IF i <= Len(b) THEN b[i] ELSE c[i - Len(b)]
    BY <2>1, ConcatProperties
  <2>3. Len(b) = e /\ Len(c) = 1
    BY <1>1, <1>2
  <2> QED
    BY <2>2, <2>3, Zenon
<1> DEFINE u == b \o c
<1>8. /\ \A i \in 1..(e + 1) : i # e + 1 => u[i] = Eat
      /\ u[e + 1] = c[1]
  <2>1. e + 1 \in 1..(e + 1) /\ ~(e + 1 <= e) /\ (e + 1) - e = 1
    BY <1>0
  <2>2. \A i \in 1..(e + 1) : i # e + 1 => i \in 1..e /\ i <= e
    BY <1>0
  <2> QED
    BY <1>2, <1>7, <2>1, <2>2
<1>9. u \in Seq(Mine(id)) /\ Len(u) = e + 1
  BY <1>7
<1> HIDE DEF u
<1>10. /\ Len(u \o d) = (e + 1) + n
       /\ \A i \in 1..((e + 1) + n) : (u \o d)[i] = IF i <= e + 1 THEN u[i] ELSE d[i - (e + 1)]
  <2>1. /\ Len(u \o d) = Len(u) + Len(d)
        /\ \A i \in 1..(Len(u) + Len(d)) : (u \o d)[i] = IF i <= Len(u) THEN u[i] ELSE d[i - Len(u)]
    <3>1. u \in Seq(Mine(id)) /\ d \in Seq(Mine(id))
      BY <1>3, <1>9
    <3> QED
      BY <3>1, ConcatProperties
  <2>2. Len(u) = e + 1 /\ Len(d) = n
    BY <1>3, <1>9
  <2> QED
    BY <2>1, <2>2, Zenon
<1>11. \A i \in 1..((e + 1) + n) : i # e + 1 => (u \o d)[i] = Eat
  <2> SUFFICES ASSUME NEW i \in 1..((e + 1) + n), i # e + 1 PROVE (u \o d)[i] = Eat
    OBVIOUS
  <2>1. CASE i <= e + 1
    <3>1. i \in 1..(e + 1)
      BY <1>0, <2>1
    <3> QED
      BY <1>8, <1>10, <2>1, <3>1
  <2>2. CASE ~(i <= e + 1)
    <3>1. i - (e + 1) \in 1..n
      BY <1>0, <2>2
    <3> QED
      BY <1>3, <1>10, <2>2, <3>1
  <2> QED
    BY <2>1, <2>2
<1>12. (u \o d)[e + 1] = c[1]
  <2>1. e + 1 \in 1..((e + 1) + n) /\ e + 1 <= e + 1
    BY <1>0
  <2> QED
    BY <1>8, <1>10, <2>1
<1>13. Drops(u \o d, n, n, "shell")
  <2>1. e \in 0..n /\ n \in 0..n /\ e <= n /\ n <= n
    OBVIOUS
  <2> QED
    BY <1>1, <1>10, <1>11, <1>12, <2>1 DEF Drops
<1> QED
  BY <1>1, <1>6, <1>13 DEF Opens, a, b, c, d, u

\* The causes that the choice of an answer may add.
LEMMA NoCause ==
  ASSUME NEW c, NEW p, CausesOf(c, p) = {}
  PROVE  /\ p # <<>>
         /\ ~(c.op = "sread" /\ p = Say(<<"PRELIM", "COMPLETE">>, c.id))
         /\ c.op \in {"read", "sread"} => Head(p).k \notin {"COMPLETE", "ERROR"}
         /\ ~(variant = "perl" /\ c.op = "sread" /\ Head(p).k = "PRELIM")
BY DEF CausesOf, Unanswered, Unsized

\* The whole answer to a command is one the client can tell the end of, but
\* for the known causes.
LEMMA CommandRight ==
  ASSUME NEW c \in Command, c.op = "command", NEW p \in s_command(c.id) \cup p_command(c.id)
  PROVE  p \in Seq(Mine(c.id)) /\ Answer(c, p, variant)
<1>1. c.id \in Reqs
  BY DEF Command
<1>2. PICK k \in {"COMPLETE", "NOTEMPTY", "EPERM", "ENOENT", "blank"} : p = Say(<<k>>, c.id)
  BY DEF s_command, p_command
<1>3. {"COMPLETE", "NOTEMPTY", "EPERM", "ENOENT", "blank"} \subseteq Kinds
  BY DEF Kinds, Replies
<1>4. p \in Seq(Mine(c.id)) /\ OneOf(p, {"COMPLETE", "NOTEMPTY", "EPERM", "ENOENT", "blank"})
  BY <1>1, <1>2, <1>3, OneAnswer
<1> QED
  BY <1>4 DEF Answer

\* The shapes of a listing: the lines, and the reply that ends them.
LEMMA Lsdir ==
  ASSUME NEW id, NEW p \in s_lsdir(id)
  PROVE  \E l \in Listings(id, MaxLines), k \in {"COMPLETE", "EPERM", "ENOENT"} : p = l \o Say(<<k>>, id)
<1> DEFINE L == Listings(id, MaxLines)
           K == {"COMPLETE", "EPERM", "ENOENT"}
           f(k) == Say(<<k>>, id)
<1>1. s_lsdir(id) = {l \o f(k) : l \in L, k \in K}
  BY DEF s_lsdir
<1> HIDE DEF L, K, f
<1>2. \E l \in L, k \in K : p = l \o f(k)
  BY <1>1, SMT
<1> QED
  BY <1>2, Zenon DEF L, K, f

\* The same of the perl script, for a directory and for one name.
LEMMA PerlLines ==
  ASSUME NEW id, NEW p
  PROVE  /\ p \in p_lsdir(id) =>
              \/ p = Say(<<"ENOENT">>, id)
              \/ \E l \in Listings(id, MaxLines), k \in {"COMPLETE", "EPERM"} : p = l \o Say(<<k>>, id)
         /\ p \in p_stat(id) =>
              \/ \E k \in {"ENOENT", "EPERM"} : p = Say(<<k>>, id)
              \/ \E l \in Listings(id, 1), k \in {"COMPLETE", "EPERM"} : p = l \o Say(<<k>>, id)
<1> DEFINE L == Listings(id, MaxLines)
           L1 == Listings(id, 1) \ {<<>>}
           K == {"COMPLETE", "EPERM"}
           M == {"ENOENT", "EPERM"}
           f(k) == Say(<<k>>, id)
<1>1. ASSUME p \in p_lsdir(id)
      PROVE  p = f("ENOENT") \/ \E l \in L, k \in K : p = l \o f(k)
  <2>1. p \in {f("ENOENT")} \cup {l \o f(k) : l \in L, k \in K}
    BY <1>1 DEF p_lsdir
  <2> HIDE DEF L, K, f
  <2> QED
    BY <2>1
<1>2. ASSUME p \in p_stat(id)
      PROVE  (\E k \in M : p = f(k)) \/ \E l \in L1, k \in K : p = l \o f(k)
  <2>1. p \in {f(k) : k \in M} \cup {l \o f(k) : l \in L1, k \in K}
    BY <1>2 DEF p_stat
  <2> HIDE DEF L1, K, M, f
  <2> QED
    BY <2>1
<1> QED
  BY <1>1, <1>2, Zenon DEF L, L1, K, M, f

\* The whole answer to a listing ends at its only reply.
LEMMA ListRight ==
  ASSUME NEW c \in Command, c.op \in {"list", "stat"},
         NEW p \in s_lsdir(c.id) \cup p_lsdir(c.id) \cup s_stat(c.id) \cup p_stat(c.id)
  PROVE  p \in Seq(Mine(c.id)) /\ Answer(c, p, variant)
<1>1. c.id \in Reqs /\ MaxLines \in Nat /\ 1 \in Nat
  BY BoundsAssumption DEF Command
<1>2. \/ \E l \in Listings(c.id, MaxLines), k \in {"COMPLETE", "EPERM", "ENOENT"} : p = l \o Say(<<k>>, c.id)
      \/ \E l \in Listings(c.id, 1), k \in {"COMPLETE", "EPERM", "ENOENT"} : p = l \o Say(<<k>>, c.id)
      \/ \E k \in {"COMPLETE", "EPERM", "ENOENT"} : p = Say(<<k>>, c.id)
  <2>1. CASE p \in s_lsdir(c.id)
    BY <2>1, Lsdir, Zenon
  <2>2. CASE p \in p_lsdir(c.id)
    <3>1. p = Say(<<"ENOENT">>, c.id)
          \/ \E l \in Listings(c.id, MaxLines), k \in {"COMPLETE", "EPERM"} : p = l \o Say(<<k>>, c.id)
      BY <2>2, PerlLines, Zenon
    <3>2. ASSUME NEW l \in Listings(c.id, MaxLines), NEW k \in {"COMPLETE", "EPERM"}, p = l \o Say(<<k>>, c.id)
          PROVE  \E k2 \in {"COMPLETE", "EPERM", "ENOENT"} : p = l \o Say(<<k2>>, c.id)
      BY <3>2
    <3> QED
      BY <3>1, <3>2, Zenon
  <2>3. CASE p \in s_stat(c.id)
    <3>1. (\E k \in {"ENOENT", "EPERM"} : p = Say(<<k>>, c.id))
          \/ \E l \in Listings(c.id, 1) : p = l \o Say(<<"COMPLETE">>, c.id)
      BY <2>3, Zenon DEF s_stat
    <3> QED
      BY <3>1, Zenon
  <2>4. CASE p \in p_stat(c.id)
    <3>1. (\E k \in {"ENOENT", "EPERM"} : p = Say(<<k>>, c.id))
          \/ \E l \in Listings(c.id, 1), k \in {"COMPLETE", "EPERM"} : p = l \o Say(<<k>>, c.id)
      BY <2>4, PerlLines, Zenon
    <3> QED
      BY <3>1, Zenon
  <2> QED
    BY <2>1, <2>2, <2>3, <2>4
<1>3. ASSUME NEW max \in Nat, NEW l \in Listings(c.id, max),
             NEW k \in {"COMPLETE", "EPERM", "ENOENT"}, p = l \o Say(<<k>>, c.id)
      PROVE  p \in Seq(Mine(c.id)) /\ ListOf(p)
  BY <1>1, <1>3, ListAnswer
<1>4. ASSUME NEW k \in {"COMPLETE", "EPERM", "ENOENT"}, p = Say(<<k>>, c.id)
      PROVE  p \in Seq(Mine(c.id)) /\ ListOf(p)
  <2>1. {"COMPLETE", "EPERM", "ENOENT"} \subseteq Kinds
    BY DEF Kinds, Replies
  <2>2. p \in Seq(Mine(c.id)) /\ OneOf(p, {"COMPLETE", "EPERM", "ENOENT"})
    BY <1>1, <1>4, <2>1, OneAnswer
  <2>3. Len(p) = 1 /\ p[1].k \in {"COMPLETE", "EPERM", "ENOENT"}
    BY <2>2 DEF OneOf
  <2>4. \A i \in 1..Len(p) : ~(i < Len(p))
    BY <2>3
  <2> QED
    BY <2>2, <2>3, <2>4 DEF ListOf
<1> QED
  BY <1>1, <1>2, <1>3, <1>4 DEF Answer

\* read: data and the reply, or a failure; COMPLETE or ERROR without data are
\* known causes.
LEMMA ReadRight ==
  ASSUME NEW c \in Command, c.op = "read", NEW p \in s_read(c.id, c.n) \cup p_read(c.id, c.n)
  PROVE  p \in Seq(Mine(c.id)) /\ (CausesOf(c, p) = {} => Answer(c, p, variant))
<1>1. c.id \in Reqs /\ c.n \in Nat
  BY BoundsAssumption DEF Command
<1>2. p = Say(<<"PRELIM">>, c.id) \o Blocks("data", c.id, c.n) \o Say(<<"COMPLETE">>, c.id)
      \/ \E k \in {"EPERM", "COMPLETE", "ERROR"} : p = Say(<<k>>, c.id)
  BY DEF s_read, p_read, p_failed
<1>3. CASE p = Say(<<"PRELIM">>, c.id) \o Blocks("data", c.id, c.n) \o Say(<<"COMPLETE">>, c.id)
  <2>1. p \in Seq(Mine(c.id)) /\ Opens(p) /\ DataOf(Tail(p), c.n)
    BY <1>1, <1>3, DataAnswer
  <2> QED
    BY <2>1 DEF Answer
<1>4. ASSUME NEW k \in {"EPERM", "COMPLETE", "ERROR"}, p = Say(<<k>>, c.id)
      PROVE  p \in Seq(Mine(c.id)) /\ (CausesOf(c, p) = {} => Answer(c, p, variant))
  <2>1. {k} \subseteq Kinds
    BY DEF Kinds, Replies
  <2>2. p \in Seq(Mine(c.id)) /\ OneOf(p, {k}) /\ Head(p).k = k
    BY <1>1, <1>4, <2>1, OneAnswer
  <2>3. CausesOf(c, p) = {} => OneOf(p, {"EPERM", "ENOENT"})
    BY <2>2, NoCause DEF OneOf
  <2> QED
    BY <2>2, <2>3 DEF Answer
<1> QED
  BY <1>2, <1>3, <1>4

\* sread: a size first; silence, and a prelim without a size, are known causes.
LEMMA SreadRight ==
  ASSUME NEW c \in Command, c.op = "sread", NEW p,
         IF variant = "perl" THEN p \in p_sread(c.id, c.n) ELSE p \in s_sread(c.id, c.n)
  PROVE  p \in Seq(Mine(c.id)) /\ (CausesOf(c, p) = {} => Answer(c, p, variant))
<1>1. c.id \in Reqs /\ c.n \in 0..MaxCount /\ MaxCount \in Nat
  BY BoundsAssumption DEF Command
<1>2. ASSUME NEW k \in {"EPERM", "ENOENT", "COMPLETE", "ERROR"}, p = Say(<<k>>, c.id)
      PROVE  p \in Seq(Mine(c.id)) /\ (CausesOf(c, p) = {} => Answer(c, p, variant))
  <2>1. {k} \subseteq Kinds
    BY DEF Kinds, Replies
  <2>2. p \in Seq(Mine(c.id)) /\ OneOf(p, {k}) /\ Head(p).k = k
    BY <1>1, <1>2, <2>1, OneAnswer
  <2>3. CausesOf(c, p) = {} => OneOf(p, {"EPERM", "ENOENT"})
    BY <2>2, NoCause DEF OneOf
  <2> QED
    BY <2>2, <2>3 DEF Answer
<1>3. CASE p = <<>>
  <2>1. p \in Seq(Mine(c.id))
    BY <1>3, EmptySeq
  <2> QED
    BY <1>3, <2>1, NoCause
<1>4. CASE p = Say(<<"PRELIM", "COMPLETE">>, c.id)
  <2>1. "PRELIM" \in Kinds /\ "COMPLETE" \in Kinds
    BY DEF Kinds, Replies
  <2>2. p \in Seq(Mine(c.id))
    BY <1>1, <1>4, <2>1, SayTwo
  <2> QED
    BY <1>4, <2>2, NoCause
<1>5. ASSUME NEW x \in 0..c.n,
             p = Say(<<"PRELIM">>, c.id) \o Size(c.id, x) \o Blocks("data", c.id, x)
                   \o Say(<<"COMPLETE">>, c.id)
      PROVE  p \in Seq(Mine(c.id)) /\ (CausesOf(c, p) = {} => Answer(c, p, variant))
  <2>1. x \in 0..MaxCount
    BY <1>1
  <2>2. p \in Seq(Mine(c.id)) /\ Opens(p) /\ SizeOf(Tail(p))
    BY <1>1, <1>5, <2>1, SizeAnswer
  <2> QED
    BY <2>2 DEF Answer
<1>6. ASSUME NEW x \in 0..c.n, variant = "perl",
             p = Say(<<"PRELIM", "data">>, c.id) \o Blocks("data", c.id, x) \o Say(<<"COMPLETE">>, c.id)
      PROVE  p \in Seq(Mine(c.id)) /\ (CausesOf(c, p) = {} => Answer(c, p, variant))
  <2>1. PICK a : a = Say(<<"PRELIM", "data">>, c.id)
    OBVIOUS
  <2>2. a \in Seq(Mine(c.id)) /\ Len(a) = 2 /\ a[1].k = "PRELIM"
    <3>1. "PRELIM" \in Kinds /\ "data" \in Kinds
      BY DEF Kinds, Replies
    <3> QED
      BY <1>1, <2>1, <3>1, SayTwo
  <2>3. PICK b : b = Blocks("data", c.id, x)
    OBVIOUS
  <2>4. b \in Seq(Mine(c.id))
    <3>1. x \in Nat
      BY <1>1
    <3> QED
      BY <1>1, <2>3, <3>1, BlocksAre
  <2>5. PICK d : d = Say(<<"COMPLETE">>, c.id)
    OBVIOUS
  <2>6. d \in Seq(Mine(c.id))
    <3>1. "COMPLETE" \in Kinds
      BY DEF Kinds, Replies
    <3> QED
      BY <1>1, <2>5, <3>1, SayOne
  <2>7. a \o b \in Seq(Mine(c.id)) /\ Len(a \o b) >= 1 /\ (a \o b)[1] = a[1]
    <3>1. Len(a) >= 1
      BY <2>2
    <3> QED
      BY <2>2, <2>4, <3>1, TailConcat
  <2>8. (a \o b) \o d \in Seq(Mine(c.id)) /\ Len((a \o b) \o d) >= 1 /\ ((a \o b) \o d)[1] = a[1]
    BY <2>6, <2>7, TailConcat
  <2>9. Head((a \o b) \o d).k = "PRELIM"
    BY <2>2, <2>8, TailOf
  <2> QED
    BY <1>6, <2>1, <2>3, <2>5, <2>8, <2>9, NoCause
<1>7. CASE variant = "perl"
  <2>1. \/ \E k \in {"EPERM", "COMPLETE", "ERROR"} : p = Say(<<k>>, c.id)
        \/ \E x \in 0..c.n : p = Say(<<"PRELIM", "data">>, c.id) \o Blocks("data", c.id, x)
                                   \o Say(<<"COMPLETE">>, c.id)
    BY <1>7 DEF p_sread, p_failed
  <2> QED
    BY <1>2, <1>6, <1>7, <2>1
<1>8. CASE variant # "perl"
  <2>1. \/ p = <<>> \/ p = Say(<<"PRELIM", "COMPLETE">>, c.id)
        \/ \E k \in {"EPERM", "ENOENT"} : p = Say(<<k>>, c.id)
        \/ \E x \in 0..c.n : p = Say(<<"PRELIM">>, c.id) \o Size(c.id, x)
                                   \o Blocks("data", c.id, x) \o Say(<<"COMPLETE">>, c.id)
    BY <1>8 DEF s_sread
  <2> QED
    BY <1>2, <1>3, <1>4, <1>5, <2>1
<1> QED
  BY <1>7, <1>8

\* write: the data are asked for and read to the end, or, by the shell when the
\* disk is full, refused after some blocks and read all the same.
LEMMA WriteRight ==
  ASSUME NEW c \in Command, c.op = "write", NEW p,
         IF variant = "perl" THEN p \in p_write(c.id, c.n) ELSE p \in s_write(c.id, c.n),
         variant \in {"shell", "perl"}
  PROVE  p \in Seq(Mine(c.id)) /\ (CausesOf(c, p) = {} => Answer(c, p, variant))
<1>1. c.id \in Reqs /\ c.n \in Nat
  BY BoundsAssumption DEF Command
<1>2. ASSUME NEW k \in {"EPERM", "COMPLETE"}, p = Say(<<k>>, c.id)
      PROVE  p \in Seq(Mine(c.id)) /\ Answer(c, p, variant)
  <2>1. {"COMPLETE", "EPERM"} \subseteq Kinds
    BY DEF Kinds, Replies
  <2>2. p \in Seq(Mine(c.id)) /\ OneOf(p, {"COMPLETE", "EPERM"})
    BY <1>1, <1>2, <2>1, OneAnswer
  <2> QED
    BY <2>2 DEF Answer
<1>3. CASE p = <<>>
  <2>1. p \in Seq(Mine(c.id))
    BY <1>3, EmptySeq
  <2> QED
    BY <1>3, <2>1, NoCause
<1>4. ASSUME NEW k \in {"COMPLETE", "ENOSPC", "EPERM", "ERROR"},
             p = Say(<<"PRELIM">>, c.id) \o Eats(c.n) \o Say(<<k>>, c.id),
             k = "ENOSPC" => variant = "shell"
      PROVE  p \in Seq(Mine(c.id)) /\ Answer(c, p, variant)
  <2>1. p \in Seq(Mine(c.id)) /\ Opens(p) /\ Takes(Tail(p), c.n, variant)
    BY <1>1, <1>4, TakingAnswer
  <2> QED
    BY <2>1 DEF Answer, WriteOf
<1>5. ASSUME NEW e \in 0..c.n, variant = "shell",
             p = Say(<<"PRELIM">>, c.id) \o Eats(e) \o Say(<<"ENOSPC">>, c.id) \o Eats(c.n)
      PROVE  p \in Seq(Mine(c.id)) /\ Answer(c, p, variant)
  <2>1. p \in Seq(Mine(c.id)) /\ Opens(p) /\ Drops(Tail(p), c.n, c.n, variant)
    BY <1>1, <1>5, DroppingAnswer
  <2> QED
    BY <1>5, <2>1 DEF Answer, WriteOf
<1>6. CASE variant = "perl"
  BY <1>2, <1>4, <1>6 DEF p_write
<1>7. CASE variant = "shell"
  <2>1. p \in s_write(c.id, c.n)
    BY <1>7
  <2> QED
    BY <1>3, <1>4, <1>5, <1>7, <2>1 DEF s_write
<1> QED
  BY <1>6, <1>7

\* readlink and statfs: one line or more and the reply, or a failure.
LEMMA LineRight ==
  ASSUME NEW c \in Command, c.op \in {"readlink", "statfs"}, NEW p,
         p \in IF c.op = "statfs" THEN s_statfs(c.id) ELSE s_readlink(c.id) \cup p_readlink(c.id)
  PROVE  p \in Seq(Mine(c.id)) /\ Answer(c, p, variant)
<1>1. c.id \in Reqs
  BY DEF Command
<1>2. CASE p = Say(<<"entry", "COMPLETE">>, c.id)
  <2>1. "entry" \in Kinds /\ "COMPLETE" \in Kinds
    BY DEF Kinds, Replies
  <2>2. /\ p \in Seq(Mine(c.id)) /\ Len(p) = 2
        /\ p[1].k = "entry" /\ p[2].k = "COMPLETE"
    BY <1>1, <1>2, <2>1, SayTwo
  <2>3. LinesOf(p) /\ Len(p) > 1
    BY <2>2 DEF LinesOf, ListOf
  <2> QED
    BY <2>2, <2>3 DEF Answer
<1>3. ASSUME NEW k \in {"EPERM", "COMPLETE"}, p = Say(<<k>>, c.id), c.op = "readlink"
      PROVE  p \in Seq(Mine(c.id)) /\ Answer(c, p, variant)
  <2>1. {"COMPLETE", "EPERM"} \subseteq Kinds
    BY DEF Kinds, Replies
  <2>2. p \in Seq(Mine(c.id)) /\ OneOf(p, {"COMPLETE", "EPERM"})
    BY <1>1, <1>3, <2>1, OneAnswer
  <2> QED
    BY <1>3, <2>2 DEF Answer
<1>4. CASE c.op = "statfs"
  BY <1>2, <1>4 DEF s_statfs
<1>5. ASSUME NEW l \in Targets(c.id), p = l \o Say(<<"COMPLETE">>, c.id), c.op = "readlink"
      PROVE  p \in Seq(Mine(c.id)) /\ Answer(c, p, variant)
  <2>1. l \in Listings(c.id, MaxLines + 1) /\ l # <<>> /\ MaxLines + 1 \in Nat
    BY BoundsAssumption DEF Targets
  <2>2. p \in Seq(Mine(c.id)) /\ LinesOf(p) /\ Len(p) = Len(l) + 1 /\ Len(l) \in Nat /\ l \in Seq(Mine(c.id))
    BY <1>1, <1>5, <2>1, ListAnswer
  <2>3. Len(l) # 0
    BY <2>1, <2>2, EmptyIs
  <2>4. Len(p) > 1
    BY <2>2, <2>3
  <2> QED
    BY <1>5, <2>2, <2>4 DEF Answer
<1>6. CASE c.op = "readlink"
  <2>1. \/ \E l \in Targets(c.id) : p = l \o Say(<<"COMPLETE">>, c.id)
        \/ \E k \in {"COMPLETE", "EPERM"} : p = Say(<<k>>, c.id)
    BY <1>6, Zenon DEF s_readlink, p_readlink
  <2> QED
    BY <1>3, <1>5, <1>6, <2>1
<1> QED
  BY <1>4, <1>6

\* All of the server's functions.
LEMMA ProgramRight ==
  ASSUME NEW c \in Command, NEW p \in Programs(c), variant \in {"shell", "perl"}
  PROVE  p \in Seq(Mine(c.id)) /\ (CausesOf(c, p) = {} => Answer(c, p, variant))
<1>1. c.op \in Ops
  BY DEF Command
<1>2. CASE c.op = "command"
  <2>1. p \in s_command(c.id) \cup p_command(c.id)
    BY <1>2 DEF Programs, ShellPrograms, PerlPrograms
  <2> QED
    BY <1>2, <2>1, CommandRight
<1>3. CASE c.op \in {"list", "stat"}
  <2>1. p \in s_lsdir(c.id) \cup p_lsdir(c.id) \cup s_stat(c.id) \cup p_stat(c.id)
    BY <1>3 DEF Programs, ShellPrograms, PerlPrograms
  <2> QED
    BY <1>3, <2>1, ListRight
<1>4. CASE c.op = "read"
  <2>1. p \in s_read(c.id, c.n) \cup p_read(c.id, c.n)
    BY <1>4 DEF Programs, ShellPrograms, PerlPrograms
  <2> QED
    BY <1>4, <2>1, ReadRight
<1>5. CASE c.op = "sread"
  <2>1. IF variant = "perl" THEN p \in p_sread(c.id, c.n) ELSE p \in s_sread(c.id, c.n)
    BY <1>5 DEF Programs, ShellPrograms, PerlPrograms
  <2> QED
    BY <1>5, <2>1, SreadRight
<1>6. CASE c.op = "write"
  <2>1. IF variant = "perl" THEN p \in p_write(c.id, c.n) ELSE p \in s_write(c.id, c.n)
    BY <1>6 DEF Programs, ShellPrograms, PerlPrograms
  <2> QED
    BY <1>6, <2>1, WriteRight
<1>7. CASE c.op \in {"readlink", "statfs"}
  <2>1. p \in IF c.op = "statfs" THEN s_statfs(c.id) ELSE s_readlink(c.id) \cup p_readlink(c.id)
    BY <1>7 DEF Programs, ShellPrograms, PerlPrograms
  <2> QED
    BY <1>7, <2>1, LineRight
<1> QED
  BY <1>1, <1>2, <1>3, <1>4, <1>5, <1>6, <1>7 DEF Ops

-----------------------------------------------------------------------------
(* Types *)

Stages == {"idle", "clear", "clear_wait", "send", "reply", "size", "data", "body", "trailer"}

\* A line is taken.
LEMMA LineTyped ==
  ASSUME TypeOK, NEW i \in DOMAIN buf, buf' = SubSeq(buf, i + 1, Len(buf))
  PROVE  buf' \in Seq(Elems) /\ Len(buf') <= BufSize /\ i \in 1..Len(buf)
<1>1. buf \in Seq(Elems) /\ Len(buf) <= BufSize /\ BufSize \in Nat
  BY BoundsAssumption DEF TypeOK
<1>2. i \in Nat /\ i <= Len(buf) /\ i \in 1..Len(buf) /\ i >= 1
  BY <1>1, LenProperties
<1>3. buf' \in Seq(Elems) /\ Len(buf') = Len(buf) - i /\ Len(buf) \in Nat
  BY <1>1, <1>2, RestOf
<1> QED
  BY <1>1, <1>2, <1>3

\* A line that is taken off the buffer leaves a shorter buffer.
LEMMA TakeLineTyped ==
  ASSUME TypeOK, NEW i \in DOMAIN buf, TakeLine(i)
  PROVE  buf' \in Seq(Elems) /\ Len(buf') <= BufSize /\ mixed' \in BOOLEAN
<1>1. buf' = SubSeq(buf, i + 1, Len(buf)) /\ mixed' = (mixed \/ ~OwnElems(SubSeq(buf, 1, i)))
  BY DEF TakeLine
<1>2. mixed' \in BOOLEAN
  BY <1>1
<1> QED
  BY <1>1, <1>2, LineTyped

\* Raw bytes are read.
LEMMA SockReadTyped ==
  ASSUME TypeOK, NEW n \in Nat, SockRead(n)
  PROVE  /\ buf' \in Seq(Elems) /\ Len(buf') <= BufSize /\ s2c' \in Seq(Elems)
         /\ mixed' \in BOOLEAN /\ cause' \subseteq Causes
<1>1. /\ buf \in Seq(Elems) /\ Len(buf) <= BufSize /\ BufSize \in Nat /\ Len(buf) \in Nat
      /\ s2c \in Seq(Elems) /\ Len(s2c) \in Nat /\ cause \subseteq Causes
  BY BoundsAssumption, LenProperties DEF TypeOK
<1>2. PICK b : b = IF n < Len(buf) THEN n ELSE Len(buf)
  OBVIOUS
<1>3. b \in Nat /\ b <= Len(buf) /\ b <= n
  BY <1>1, <1>2
<1>4. PICK m \in (IF b = n THEN {0} ELSE 1..(n - b)) :
        /\ m <= Len(s2c)
        /\ buf' = SubSeq(buf, b + 1, Len(buf))
        /\ s2c' = SubSeq(s2c, m + 1, Len(s2c))
        /\ mixed' = (mixed \/ ~OwnElems(SubSeq(buf, 1, b)) \/ ~OwnElems(SubSeq(s2c, 1, m)))
        /\ cause' = IF b + m < n THEN cause \cup {"short"} ELSE cause
  BY <1>2 DEF SockRead
<1>5. m \in Nat
  BY <1>3, <1>4
<1>6. buf' \in Seq(Elems) /\ Len(buf') = Len(buf) - b
  BY <1>1, <1>3, <1>4, RestOf
<1>7. s2c' \in Seq(Elems)
  BY <1>1, <1>4, <1>5, RestOf
<1>8. mixed' \in BOOLEAN
  BY <1>4
<1>9. cause' \subseteq Causes
  BY <1>1, <1>4 DEF Causes
<1> QED
  BY <1>1, <1>3, <1>6, <1>7, <1>8, <1>9

\* Something is written.
LEMMA SockWriteTyped ==
  ASSUME TypeOK, NEW s \in Seq(Sent), SockWrite(s)
  PROVE  c2s' \in Seq(Sent)
BY ConcatProperties DEF TypeOK, SockWrite

\* What the client writes: blocks of data, spaces, newlines and a ping, commands.
LEMMA SentIs ==
  ASSUME NEW id \in Reqs, NEW n \in Nat
  PROVE  /\ Blocks("data", id, n) \in Seq(Sent)
         /\ [i \in 1..n |-> [k |-> "space", id |-> id, n |-> 0]] \in Seq(Sent)
         /\ <<Elem("newline", id), Elem("newline", id), Elem("ping", id)>> \in Seq(Sent)
         /\ \A op \in Ops, m \in 0..MaxCount : <<[k |-> "cmd", op |-> op, n |-> m, id |-> id]>> \in Seq(Sent)
<1>1. \A k \in {"data", "space", "newline", "ping"} : [k |-> k, id |-> id, n |-> 0] \in Sent
  BY DEF Sent
<1>2. \A i \in 1..n : Elem("data", id) \in Sent
  BY <1>1 DEF Elem
<1>3. Blocks("data", id, n) \in Seq(Sent)
  BY <1>2 DEF Blocks
<1>4. [i \in 1..n |-> [k |-> "space", id |-> id, n |-> 0]] \in Seq(Sent)
  BY <1>1
<1>5. Elem("newline", id) \in Sent /\ Elem("ping", id) \in Sent
  BY <1>1 DEF Elem
<1>6. <<Elem("newline", id), Elem("newline", id), Elem("ping", id)>> \in Seq(Sent)
  BY <1>5
<1>7. ASSUME NEW op \in Ops, NEW m \in 0..MaxCount
      PROVE  <<[k |-> "cmd", op |-> op, n |-> m, id |-> id]>> \in Seq(Sent)
  <2>1. [k |-> "cmd", op |-> op, n |-> m, id |-> id] \in Sent
    BY DEF Sent
  <2> QED
    BY <2>1
<1> QED
  BY <1>3, <1>4, <1>6, <1>7

\* The server's sequences of what it will do.
LEMMA ProgramTyped ==
  ASSUME TypeOK, NEW c \in Command, NEW p \in Programs(c)
  PROVE  p \in Seq(Item)
<1>1. p \in Seq(Mine(c.id)) /\ Mine(c.id) \subseteq Item
  BY ProgramRight, MineIs DEF TypeOK
<1> QED
  BY <1>1, SeqMonotonic

\* The remote answer to a line that is no command is a line or nothing.
LEMMA OtherTyped ==
  ASSUME NEW id \in Reqs, NEW line, NEW p \in OtherLine(line, id)
  PROVE  p \in Seq(Item)
<1>1. p = <<>> \/ p = Say(<<"ERROR">>, id)
  BY DEF OtherLine
<1>2. <<>> \in Seq(Item)
  OBVIOUS
<1>3. Say(<<"ERROR">>, id) \in Seq(Mine(id)) /\ Mine(id) \subseteq Item
  BY SayOne, MineIs DEF Kinds, Replies
<1>4. Say(<<"ERROR">>, id) \in Seq(Item)
  BY <1>3, SeqMonotonic
<1> QED
  BY <1>1, <1>2, <1>4

\* The two sides' steps keep the types.
LEMMA ServerCommandTyped ==
  ASSUME TypeOK, ServerCommand, UNCHANGED variant
  PROVE  TypeOK'
<1>1. c2s \in Seq(Sent) /\ cur \in Command /\ Len(c2s) \in Nat /\ cause \subseteq Causes
  BY LenProperties DEF TypeOK, Command
<1>2. PICK i \in DOMAIN c2s :
       /\ c2s' = SubSeq(c2s, i + 1, Len(c2s))
       /\ IF i = 1 /\ c2s[1].k = "cmd"
          THEN LET c == [op |-> c2s[1].op, n |-> c2s[1].n, id |-> c2s[1].id] IN
               /\ cur' = c
               /\ prog' \in Programs(c)
               /\ cause' = cause \cup CausesOf(c, prog')
          ELSE /\ prog' \in OtherLine(SubSeq(c2s, 1, i), cur.id)
               /\ UNCHANGED <<cur, cause>>
  BY DEF ServerCommand
<1>3. i \in Nat /\ i <= Len(c2s) /\ c2s[i] \in Sent
  BY <1>1, ElementOfSeq, LenProperties
<1>4. c2s' \in Seq(Sent)
  BY <1>1, <1>2, <1>3, RestOf
<1>5. cur' \in Command /\ prog' \in Seq(Item) /\ cause' \subseteq Causes
  <2>1. CASE i = 1 /\ c2s[1].k = "cmd"
    <3>1. PICK c : c = [op |-> c2s[1].op, n |-> c2s[1].n, id |-> c2s[1].id]
      OBVIOUS
    <3>2. c \in Command
      <4>1. c2s[1] \in Sent /\ c2s[1].k = "cmd"
        BY <1>3, <2>1
      <4>2. c2s[1] \in [k : {"cmd"}, op : Ops, id : Reqs, n : 0..MaxCount]
        BY <4>1 DEF Sent
      <4> QED
        BY <3>1, <4>2 DEF Command
    <3>3. cur' = c /\ prog' \in Programs(c) /\ cause' = cause \cup CausesOf(c, prog')
      BY <1>2, <2>1, <3>1
    <3>4. CausesOf(c, prog') \subseteq Causes
      BY DEF CausesOf, Causes
    <3> QED
      BY <1>1, <3>2, <3>3, <3>4, ProgramTyped
  <2>2. CASE ~(i = 1 /\ c2s[1].k = "cmd")
    <3>1. cur.id \in Reqs
      BY <1>1 DEF Command
    <3>2. prog' \in OtherLine(SubSeq(c2s, 1, i), cur.id) /\ UNCHANGED <<cur, cause>>
      BY <1>2, <2>2
    <3> QED
      BY <1>1, <3>1, <3>2, OtherTyped
  <2> QED
    BY <2>1, <2>2
<1>6. /\ ate' = <<>> /\ ate' \in Seq(Sent)
      /\ UNCHANGED <<sock, garbage, gw, gr, buf, at, req, res, s2c, peer, stored, mixed>>
  BY DEF ServerCommand, client
<1> QED
  BY <1>4, <1>5, <1>6 DEF TypeOK, Command, Item

\* The server prints a line.
LEMMA ServerSayTyped ==
  ASSUME TypeOK, ServerSay, UNCHANGED variant
  PROVE  TypeOK'
<1>1. prog \in Seq(Item) /\ prog # <<>> /\ Head(prog) # Eat /\ s2c \in Seq(Elems) /\ cur \in Command
      /\ stored \subseteq Reqs
  BY DEF TypeOK, ServerSay, Item, Command
<1>2. Len(prog) >= 1
  BY <1>1, EmptyIs, LenProperties
<1>3. Head(prog) \in Item /\ Tail(prog) \in Seq(Item)
  BY <1>1, <1>2, TailOf
<1>4. Head(prog) \in Elems
  BY <1>1, <1>3 DEF Item
<1>5. s2c' \in Seq(Elems)
  BY <1>1, <1>4, AppendProperties DEF ServerSay
<1>6. prog' \in Seq(Item)
  BY <1>3 DEF ServerSay
<1>7. cur.id \in Reqs
  BY <1>1 DEF Command
<1>8. stored' \subseteq Reqs
  BY <1>1, <1>7 DEF ServerSay
<1>9. UNCHANGED <<sock, garbage, gw, gr, buf, at, req, res, c2s, peer, cur, ate, mixed, cause>>
  BY DEF ServerSay, client
<1> QED
  BY <1>5, <1>6, <1>8, <1>9 DEF TypeOK, Item

\* The server reads a block of data.
LEMMA ServerEatTyped ==
  ASSUME TypeOK, ServerEat, UNCHANGED variant
  PROVE  TypeOK'
<1>1. prog \in Seq(Item) /\ prog # <<>> /\ c2s \in Seq(Sent) /\ c2s # <<>> /\ ate \in Seq(Sent)
  BY DEF TypeOK, ServerEat, Item
<1>2. Len(prog) >= 1 /\ Len(c2s) >= 1
  BY <1>1, EmptyIs, LenProperties
<1>3. Tail(prog) \in Seq(Item)
  BY <1>1, <1>2, TailOf
<1>4. Head(c2s) \in Sent /\ Tail(c2s) \in Seq(Sent)
  BY <1>1, <1>2, TailOf
<1>5. ate' \in Seq(Sent) /\ c2s' \in Seq(Sent) /\ prog' \in Seq(Item)
  BY <1>1, <1>3, <1>4, AppendProperties DEF ServerEat
<1>9. UNCHANGED <<sock, garbage, gw, gr, buf, at, req, res, s2c, peer, cur, stored, mixed, cause>>
  BY DEF ServerEat, client
<1> QED
  BY <1>5, <1>9 DEF TypeOK, Item

\* sock_readln fills the line buffer up to its size (sock_readln).
LEMMA FillTyped ==
  ASSUME TypeOK, Fill, UNCHANGED variant
  PROVE  TypeOK'
<1>1. buf \in Seq(Elems) /\ s2c \in Seq(Elems) /\ BufSize \in Nat /\ Len(s2c) \in Nat
  BY BoundsAssumption, LenProperties DEF TypeOK
<1>2. PICK m \in 1..Len(s2c) :
       /\ Len(buf) + m <= BufSize
       /\ buf' = buf \o SubSeq(s2c, 1, m)
       /\ s2c' = SubSeq(s2c, m + 1, Len(s2c))
  BY DEF Fill
<1>3. buf' \in Seq(Elems) /\ Len(buf') = Len(buf) + m
  BY <1>1, <1>2, MoveOver
<1>4. s2c' \in Seq(Elems)
  <2>1. m \in Nat /\ m <= Len(s2c)
    BY <1>1
  <2> QED
    BY <1>1, <1>2, <2>1, RestOf
<1>5. UNCHANGED <<sock, garbage, gw, gr, at, req, res, c2s, peer, prog, cur, ate, stored, mixed, cause>>
  BY DEF Fill, server
<1> QED
  BY <1>2, <1>3, <1>4, <1>5 DEF TypeOK

\* A command, the data of a write and what clear_garbage sends.
LEMMA SendTyped ==
  ASSUME TypeOK, SendCommand \/ WriteBody \/ ClearWrite \/ ClearPing, UNCHANGED variant
  PROVE  TypeOK'
<1>1. req \in Command /\ req.id \in Reqs /\ req.n \in 0..MaxCount /\ req.n \in Nat /\ req.op \in Ops
      /\ gw \in 0..MaxCount /\ gw \in Nat /\ MaxCount \in Nat
  BY BoundsAssumption DEF TypeOK, Command
<1>2. UNCHANGED <<sock, buf, gr, req, res, s2c, peer, prog, cur, ate, stored, mixed, cause>>
  BY DEF SendCommand, WriteBody, ClearWrite, ClearPing, SockWrite, server
<1>3. c2s' \in Seq(Sent)
  <2>1. CASE SendCommand
    BY <1>1, <2>1, SentIs, SockWriteTyped DEF SendCommand
  <2>2. CASE WriteBody
    BY <1>1, <2>2, SentIs, SockWriteTyped DEF WriteBody
  <2>3. CASE ClearWrite
    BY <1>1, <2>3, SentIs, SockWriteTyped DEF ClearWrite
  <2>4. CASE ClearPing
    BY <1>1, <2>4, SentIs, SockWriteTyped DEF ClearPing
  <2> QED
    BY <2>1, <2>2, <2>3, <2>4
<1>4. garbage' \in BOOLEAN /\ gw' \in 0..MaxCount /\ at' \in Stages
  <2>1. garbage \in BOOLEAN /\ at \in Stages /\ 0 \in 0..MaxCount
    BY <1>1 DEF TypeOK, Stages
  <2> QED
    BY <1>1, <2>1 DEF SendCommand, WriteBody, ClearWrite, ClearPing, Stages
<1> QED
  BY <1>2, <1>3, <1>4 DEF TypeOK, Stages

\* Lines are taken.
LEMMA LinesTyped ==
  ASSUME TypeOK,
         CommandReply \/ ListLine \/ LineReply \/ ReadReply \/ SizeReply \/ Trailer \/ WriteReply
           \/ WriteTrailer \/ ClearLine,
         UNCHANGED variant
  PROVE  TypeOK'
<1>1. /\ req \in Command /\ req.n \in 0..MaxCount /\ MaxCount \in Nat /\ garbage \in BOOLEAN /\ at \in Stages
      /\ gw \in 0..MaxCount /\ gr \in 0..MaxCount /\ res \in {"ok", "err"} /\ cause \subseteq Causes
      /\ mixed \in BOOLEAN
  BY BoundsAssumption DEF TypeOK, Command, Stages
<1>2. \A i \in DOMAIN buf : buf[i] \in Elems /\ buf[i].n \in 0..MaxCount
  <2>1. ASSUME NEW i \in DOMAIN buf
        PROVE  buf[i] \in Elems
    <3>1. buf \in Seq(Elems) /\ i \in 1..Len(buf)
      BY LenProperties DEF TypeOK
    <3> QED
      BY <3>1, ElementOfSeq
  <2> QED
    BY <2>1, EatIsNoElem
<1>3. \E i \in DOMAIN buf : TakeLine(i) \/ (buf' = SubSeq(buf, i + 1, Len(buf)) /\ mixed' = mixed /\ UNCHANGED <<sock, c2s, s2c, peer, server>>)
  BY DEF CommandReply, ListLine, LineReply, ReadReply, SizeReply, Trailer, WriteReply, WriteTrailer, ClearLine
<1>4. buf' \in Seq(Elems) /\ Len(buf') <= BufSize /\ mixed' \in BOOLEAN
  BY <1>1, <1>3, LineTyped, TakeLineTyped
<1>5. UNCHANGED <<sock, c2s, s2c, peer, prog, cur, ate, stored>>
  BY <1>3 DEF TakeLine, server
<1>6. req' \in Command
  <2>1. CASE SizeReply
    <3>1. PICK i \in DOMAIN buf :
            \E x \in CASE LineKind(i) = "size" -> {buf[i].n}
                       [] LineKind(i) = "junk" -> 0..MaxCount
                       [] OTHER -> {0} :
              req' = [req EXCEPT !.n = x]
      BY <2>1 DEF SizeReply
    <3>2. \E x \in 0..MaxCount : req' = [req EXCEPT !.n = x]
      BY <1>1, <1>2, <3>1
    <3> QED
      BY <1>1, <3>2 DEF Command
  <2>2. CASE ~SizeReply
    <3>1. req' = req
      BY <2>2 DEF CommandReply, ListLine, LineReply, ReadReply, Trailer, WriteReply, WriteTrailer, ClearLine
    <3> QED
      BY <1>1, <3>1
  <2> QED
    BY <2>1, <2>2
<1>7. at' \in Stages /\ res' \in {"ok", "err"} /\ cause' \subseteq Causes
  BY <1>1 DEF CommandReply, ListLine, LineReply, ReadReply, SizeReply, Trailer, WriteReply, WriteTrailer,
              ClearLine, Finish, Stages, Causes
<1>8. garbage' \in BOOLEAN /\ gw' \in 0..MaxCount /\ gr' \in 0..MaxCount
  <2>1. CASE Trailer
    BY <1>1, <2>1 DEF Trailer
  <2>2. CASE ~Trailer
    BY <1>1, <2>2 DEF CommandReply, ListLine, LineReply, ReadReply, SizeReply, WriteReply, WriteTrailer, ClearLine
  <2> QED
    BY <2>1, <2>2
<1> QED
  BY <1>4, <1>5, <1>6, <1>7, <1>8 DEF TypeOK, Command, Stages

\* The steps in which the client takes what was printed.
LEMMA ReadTyped ==
  ASSUME TypeOK, ReadData \/ ClearRead, UNCHANGED variant
  PROVE  TypeOK'
<1>1. req.n \in Nat /\ gr \in Nat /\ 0 \in 0..MaxCount
  BY BoundsAssumption DEF TypeOK
<1>2. /\ buf' \in Seq(Elems) /\ Len(buf') <= BufSize /\ s2c' \in Seq(Elems)
      /\ mixed' \in BOOLEAN /\ cause' \subseteq Causes
  BY <1>1, SockReadTyped DEF ReadData, ClearRead
<1>3. /\ UNCHANGED <<sock, garbage, gw, req, res, c2s, peer, prog, cur, ate, stored>>
      /\ gr' \in {0, gr} /\ at' \in {at, "trailer"}
  BY DEF ReadData, ClearRead, server
<1> QED
  BY <1>1, <1>2, <1>3 DEF TypeOK

\* A socket that fails, a signal, the end of the peer, a new operation.
LEMMA OthersTyped ==
  ASSUME TypeOK, SockFails \/ Killed \/ PeerEnds \/ (\E op \in Ops : \E n \in Counts(op) : Start(op, n)),
         UNCHANGED variant
  PROVE  TypeOK'
<1>1. CASE SockFails \/ Killed
  <2>1. Close
    BY <1>1 DEF SockFails, Killed
  <2> QED
    BY <2>1 DEF Close, Finish, TypeOK, server
<1>2. CASE PeerEnds
  <2>1. prog' = <<>> /\ prog' \in Seq(Elems \cup {Eat})
    BY <1>2 DEF PeerEnds
  <2> QED
    BY <1>2, <2>1 DEF PeerEnds, TypeOK, client
<1>3. ASSUME NEW op \in Ops, NEW n \in Counts(op), Start(op, n)
      PROVE  TypeOK'
  <2>1. n \in 0..MaxCount /\ req.id + 1 \in Reqs
    BY <1>3, BoundsAssumption DEF Counts, Start, TypeOK, Reqs
  <2>2. req' \in Command
    BY <1>3, <2>1 DEF Start, Command
  <2>3. /\ UNCHANGED <<sock, garbage, gw, gr, buf, c2s, s2c, peer, prog, cur, ate, stored, cause>>
        /\ mixed' \in BOOLEAN /\ at' \in Stages /\ res' \in {"ok", "err"}
    BY <1>3 DEF Start, Finish, Stages, TypeOK, client, server
  <2> QED
    BY <2>2, <2>3 DEF TypeOK, Command, Stages
<1> QED
  BY <1>1, <1>2, <1>3

\* Every step keeps the types.
LEMMA TypeStep ==
  ASSUME TypeOK, [Next]_vars
  PROVE  TypeOK'
<1>1. CASE UNCHANGED vars
  BY <1>1 DEF vars, client, server, TypeOK
<1>2. CASE Next
  BY <1>2, ServerCommandTyped, ServerSayTyped, ServerEatTyped, FillTyped, SendTyped, LinesTyped, ReadTyped,
     OthersTyped DEF Next, ClientStep, ServerStep
<1> QED
  BY <1>1, <1>2

\* They hold at the start.
LEMMA TypeInit ==
  ASSUME Init
  PROVE  TypeOK
<1>1. <<>> \in Seq(Elems) /\ <<>> \in Seq(Sent) /\ <<>> \in Seq(Elems \cup {Eat}) /\ Len(<<>>) = 0
  OBVIOUS
<1>2. NoReq \in Command /\ 0 \in 0..MaxCount /\ BufSize \in Nat
  BY BoundsAssumption DEF NoReq, Command, Ops, Reqs
<1>3. /\ buf \in Seq(Elems) /\ Len(buf) <= BufSize /\ c2s \in Seq(Sent) /\ s2c \in Seq(Elems)
      /\ prog \in Seq(Elems \cup {Eat}) /\ ate \in Seq(Sent)
  <2>1. buf = <<>> /\ s2c = <<>> /\ c2s = <<>> /\ prog = <<>> /\ ate = <<>>
    BY DEF Init
  <2>2. 0 <= BufSize
    BY <1>2
  <2> QED
    BY <1>1, <2>1, <2>2, Zenon
<1>4. req \in Command /\ cur \in Command /\ gw \in 0..MaxCount /\ gr \in 0..MaxCount
  BY <1>2, Zenon DEF Init
<1>5. /\ variant \in {"shell", "perl"} /\ sock \in BOOLEAN /\ garbage \in BOOLEAN /\ peer \in BOOLEAN
      /\ at \in Stages /\ res \in {"ok", "err"} /\ stored \subseteq Reqs /\ mixed \in BOOLEAN
      /\ cause \subseteq Causes
  BY DEF Init, Stages
<1> QED
  BY <1>3, <1>4, <1>5 DEF TypeOK, Command, Stages

-----------------------------------------------------------------------------
(* Lemmas about what is to come *)

\* s is what was printed, q what the server will still do.
LEMMA Joined ==
  ASSUME NEW s \in Seq(Elems), NEW q \in Seq(Item)
  PROVE  /\ s \o q \in Seq(Item) /\ Len(s \o q) = Len(s) + Len(q) /\ Len(s) \in Nat /\ Len(q) \in Nat
         /\ \A i \in 1..Len(s) : (s \o q)[i] = s[i] /\ s[i] \in Elems /\ s[i] # Eat
         /\ \A i \in 1..Len(q) : (s \o q)[Len(s) + i] = q[i] /\ q[i] \in Item
         /\ s \in Seq(Item)
<1>1. s \in Seq(Item)
  BY SeqMonotonic DEF Item
<1>2. Len(s) \in Nat /\ Len(q) \in Nat
  BY LenProperties
<1>3. /\ s \o q \in Seq(Item) /\ Len(s \o q) = Len(s) + Len(q)
      /\ \A i \in 1..(Len(s) + Len(q)) : (s \o q)[i] = IF i <= Len(s) THEN s[i] ELSE q[i - Len(s)]
  BY <1>1, ConcatProperties
<1>4. \A i \in 1..Len(s) : s[i] \in Elems
  BY ElementOfSeq
<1>5. \A i \in 1..Len(s) : s[i] # Eat
  BY <1>4, EatIsNoElem
<1>6. \A i \in 1..Len(q) : q[i] \in Item
  BY ElementOfSeq
<1>7. ASSUME NEW i \in 1..Len(s)
      PROVE  (s \o q)[i] = s[i]
  <2>1. i \in 1..(Len(s) + Len(q)) /\ i <= Len(s)
    BY <1>2
  <2> QED
    BY <1>3, <2>1
<1>8. ASSUME NEW i \in 1..Len(q)
      PROVE  (s \o q)[Len(s) + i] = q[i]
  <2>1. Len(s) + i \in 1..(Len(s) + Len(q)) /\ ~(Len(s) + i <= Len(s)) /\ (Len(s) + i) - Len(s) = i
    BY <1>2
  <2>2. (s \o q)[Len(s) + i] = q[(Len(s) + i) - Len(s)]
    BY <1>3, <2>1
  <2> QED
    BY <2>1, <2>2
<1> QED
  BY <1>1, <1>2, <1>3, <1>4, <1>5, <1>6, <1>7, <1>8

\* Something was printed, so nothing of the data is still to be read before
\* the reply.
LEMMA TakesNow ==
  ASSUME NEW s \in Seq(Elems), NEW q \in Seq(Item), Len(s) >= 1, NEW d \in Nat, NEW v,
         Takes(s \o q, d, v)
  PROVE  d = 0 /\ Len(s) = 1 /\ q = <<>> /\ s[1] = (s \o q)[d + 1]
<1>1. PICK t : t = s \o q
  OBVIOUS
<1>2. /\ Len(t) = Len(s) + Len(q) /\ Len(s) \in Nat /\ Len(q) \in Nat
      /\ \A i \in 1..Len(s) : t[i] = s[i] /\ s[i] # Eat
  BY <1>1, Joined
<1>3. Len(t) = d + 1 /\ \A i \in 1..Len(t) : i <= d => t[i] = Eat
  BY <1>1 DEF Takes
<1>4. 1 \in 1..Len(s) /\ 1 \in 1..Len(t)
  BY <1>2
<1>5. ~(1 <= d)
  BY <1>2, <1>3, <1>4
<1>6. d = 0 /\ Len(s) = 1 /\ Len(q) = 0
  <2>1. d = 0
    BY <1>5
  <2>2. \A a, b \in Nat : a >= 1 /\ a + b = 0 + 1 => a = 1 /\ b = 0
    OBVIOUS
  <2>3. Len(s) + Len(q) = 0 + 1
    BY <1>2, <1>3, <2>1, Zenon
  <2> QED
    BY <1>2, <2>1, <2>2, <2>3, Zenon
<1>7. s[1] = t[1] /\ d + 1 = 1
  BY <1>2, <1>4, <1>6
<1> QED
  BY <1>1, <1>6, <1>7, EmptyIs

\* Or what was printed is that the disk is full, and the rest is reading.
LEMMA DropsNow ==
  ASSUME NEW s \in Seq(Elems), NEW q \in Seq(Item), Len(s) >= 1, NEW d \in Nat, NEW n \in Nat, NEW v,
         Drops(s \o q, d, n, v)
  PROVE  /\ v = "shell" /\ Len(s) = 1 /\ s[1].k = "ENOSPC"
         /\ \A i \in 1..Len(q) : q[i] = Eat
         /\ d <= Len(q) /\ Len(q) <= n
<1>1. PICK t : t = s \o q
  OBVIOUS
<1>2. /\ Len(t) = Len(s) + Len(q) /\ Len(s) \in Nat /\ Len(q) \in Nat
      /\ \A i \in 1..Len(s) : t[i] = s[i] /\ s[i] # Eat
      /\ \A i \in 1..Len(q) : t[Len(s) + i] = q[i]
  BY <1>1, Joined
<1>3. v = "shell" /\ \E e, x \in 0..n :
        /\ e <= d /\ d <= x
        /\ Len(t) = e + 1 + x
        /\ \A i \in 1..Len(t) : i # e + 1 => t[i] = Eat
        /\ t[e + 1] # Eat /\ t[e + 1].k = "ENOSPC"
  BY <1>1 DEF Drops
<1>4. PICK e \in 0..n, x \in 0..n :
        /\ e <= d /\ d <= x
        /\ Len(t) = e + 1 + x
        /\ \A i \in 1..Len(t) : i # e + 1 => t[i] = Eat
        /\ t[e + 1] # Eat /\ t[e + 1].k = "ENOSPC"
  BY <1>3
<1>5. \A i \in 1..Len(s) : i \in 1..Len(t) /\ i = e + 1
  BY <1>2, <1>4
<1>6. 1 \in 1..Len(s) /\ Len(s) \in 1..Len(s)
  BY <1>2
<1>7. e = 0 /\ Len(s) = 1 /\ Len(q) = x
  <2>1. 1 = e + 1 /\ Len(s) = e + 1
    BY <1>5, <1>6, Zenon
  <2>2. Len(t) = Len(s) + Len(q) /\ Len(s) \in Nat /\ Len(q) \in Nat /\ Len(t) = e + 1 + x
    BY <1>2, <1>4
  <2> QED
    BY <2>1, <2>2
<1>8. s[1].k = "ENOSPC"
  BY <1>2, <1>4, <1>6, <1>7
<1>9. ASSUME NEW i \in 1..Len(q)
      PROVE  q[i] = Eat
  <2>1. Len(s) + i \in 1..Len(t) /\ Len(s) + i # e + 1
    BY <1>2, <1>7
  <2> QED
    BY <1>2, <1>4, <2>1
<1> QED
  BY <1>3, <1>4, <1>7, <1>8, <1>9

\* One block of the data is read.
LEMMA TakesThen ==
  ASSUME NEW q \in Seq(Item), NEW d \in Nat, d >= 1, NEW v, Takes(q, d, v)
  PROVE  Takes(Tail(q), d - 1, v)
<1>1. Len(q) = d + 1 /\ (\A i \in 1..Len(q) : i <= d => q[i] = Eat) /\ Len(q) >= 1
  BY DEF Takes
<1>2. Len(Tail(q)) = Len(q) - 1 /\ \A i \in 1..Len(Tail(q)) : Tail(q)[i] = q[i + 1]
  BY <1>1, TailOf
<1>3. Len(Tail(q)) = (d - 1) + 1 /\ d - 1 \in Nat
  BY <1>1, <1>2
<1>4. ASSUME NEW i \in 1..Len(Tail(q)), i <= d - 1
      PROVE  Tail(q)[i] = Eat
  <2>1. i + 1 \in 1..Len(q) /\ i + 1 <= d
    BY <1>1, <1>3, <1>4
  <2> QED
    BY <1>1, <1>2, <2>1
<1>5. (d - 1) + 1 \in 1..Len(Tail(q)) /\ ((d - 1) + 1) + 1 = d + 1
  BY <1>3
<1>6. Tail(q)[(d - 1) + 1] = q[d + 1]
  BY <1>2, <1>5
<1> QED
  BY <1>3, <1>4, <1>6 DEF Takes

\* A block that was read leaves one block fewer to be read.
LEMMA DropsThen ==
  ASSUME NEW q \in Seq(Item), NEW d \in Nat, d >= 1, NEW n \in Nat, NEW v, Drops(q, d, n, v),
         q[1] = Eat
  PROVE  Drops(Tail(q), d - 1, n, v)
<1>1. PICK e \in 0..n, x \in 0..n :
        /\ e <= d /\ d <= x
        /\ Len(q) = e + 1 + x
        /\ \A i \in 1..Len(q) : i # e + 1 => q[i] = Eat
        /\ q[e + 1] # Eat /\ q[e + 1].k = "ENOSPC"
  BY DEF Drops
<1>2. e # 0
  <2>1. CASE e = 0
    <3>1. e + 1 = 1
      BY <2>1
    <3> QED
      BY <1>1, <3>1
  <2> QED
    BY <2>1
<1>3. e - 1 \in 0..n /\ Len(q) >= 1 /\ e - 1 <= d - 1 /\ d - 1 <= x /\ (e - 1) + 1 = e
  BY <1>1, <1>2
<1>4. Len(Tail(q)) = Len(q) - 1 /\ \A i \in 1..Len(Tail(q)) : Tail(q)[i] = q[i + 1]
  BY <1>3, TailOf
<1>5. Len(Tail(q)) = (e - 1) + 1 + x
  BY <1>1, <1>3, <1>4
<1>6. ASSUME NEW i \in 1..Len(Tail(q)), i # (e - 1) + 1
      PROVE  Tail(q)[i] = Eat
  <2>1. i + 1 \in 1..Len(q) /\ i + 1 # e + 1
    BY <1>1, <1>3, <1>5, <1>6
  <2> QED
    BY <1>1, <1>4, <2>1
<1>7. (e - 1) + 1 \in 1..Len(Tail(q)) /\ ((e - 1) + 1) + 1 = e + 1
  BY <1>1, <1>2, <1>5
<1>8. Tail(q)[(e - 1) + 1] = q[e + 1]
  BY <1>4, <1>7
<1>9. v = "shell"
  BY DEF Drops
<1> QED
  BY <1>1, <1>3, <1>5, <1>6, <1>8, <1>9 DEF Drops

\* The same for the whole of a write, what was printed before included.
LEMMA WriteEats ==
  ASSUME NEW s \in Seq(Elems), NEW q \in Seq(Item), Len(q) >= 1, q[1] = Eat,
         NEW d \in Nat, d >= 1, NEW n \in Nat, NEW v, WriteOf(s \o q, d, n, v)
  PROVE  WriteOf(s \o Tail(q), d - 1, n, v)
<1>1. /\ Tail(q) \in Seq(Item) /\ Len(Tail(q)) = Len(q) - 1
      /\ \A i \in 1..Len(Tail(q)) : Tail(q)[i] = q[i + 1]
  BY TailOf
<1>2. Len(s) \in Nat /\ Len(q) \in Nat
  BY LenProperties
<1>3. CASE s = <<>>
  <2>1. s \o q = q /\ s \o Tail(q) = Tail(q)
    BY <1>1, <1>3, ConcatEmptySeq
  <2>2. WriteOf(q, d, n, v)
    BY <2>1
  <2>3. WriteOf(Tail(q), d - 1, n, v)
    BY <2>2, TakesThen, DropsThen DEF WriteOf
  <2> QED
    BY <2>1, <2>3
<1>4. CASE s # <<>>
  <2>1. Len(s) >= 1
    BY <1>2, <1>4, EmptyIs
  <2>2. ~Takes(s \o q, d, v)
    <3>1. Takes(s \o q, d, v) => d = 0
      BY <2>1, TakesNow
    <3> QED
      BY <3>1
  <2>3. Drops(s \o q, d, n, v)
    BY <2>2 DEF WriteOf
  <2>4. /\ v = "shell" /\ Len(s) = 1 /\ s[1].k = "ENOSPC"
        /\ \A i \in 1..Len(q) : q[i] = Eat
        /\ d <= Len(q) /\ Len(q) <= n
    BY <2>1, <2>3, DropsNow
  <2>5. PICK t : t = s \o Tail(q)
    OBVIOUS
  <2>6. /\ Len(t) = Len(s) + Len(Tail(q))
        /\ \A i \in 1..Len(s) : t[i] = s[i] /\ s[i] # Eat
        /\ \A i \in 1..Len(Tail(q)) : t[Len(s) + i] = Tail(q)[i]
    BY <1>1, <2>5, Joined
  <2>7. 1 \in 1..Len(s) /\ t[1] = s[1] /\ t[1] # Eat
    BY <2>4, <2>6
  <2>8. ASSUME NEW i \in 1..Len(t), i # 0 + 1
        PROVE  t[i] = Eat
    <3>1. PICK j : j = i - 1
      OBVIOUS
    <3>2. j \in 1..Len(Tail(q)) /\ i = Len(s) + j /\ j + 1 \in 1..Len(q)
      BY <1>1, <1>2, <2>4, <2>6, <2>8, <3>1
    <3> QED
      BY <1>1, <2>4, <2>6, <3>2
  <2>9. /\ 0 \in 0..n /\ Len(q) - 1 \in 0..n /\ 0 <= d - 1 /\ d - 1 <= Len(q) - 1
        /\ Len(t) = 0 + 1 + (Len(q) - 1) /\ 0 + 1 = 1
    BY <1>1, <1>2, <2>4, <2>6
  <2>10. t[0 + 1] # Eat /\ t[0 + 1].k = "ENOSPC"
    BY <2>4, <2>7, <2>9
  <2>11. Drops(t, d - 1, n, v)
    BY <2>4, <2>8, <2>9, <2>10 DEF Drops
  <2> QED
    BY <2>5, <2>11 DEF WriteOf
<1> QED
  BY <1>3, <1>4

\* A write's blocks, all still to be read, will all be read.
LEMMA WriteFeeds ==
  ASSUME NEW s \in Seq(Elems), NEW q \in Seq(Item), NEW n \in Nat, n >= 1, NEW v,
         WriteOf(s \o q, n, n, v)
  PROVE  Fed(q, n) /\ (s # <<>> => s[1].k = "ENOSPC")
<1>1. Len(s) \in Nat /\ Len(q) \in Nat
  BY LenProperties
<1>2. CASE s = <<>>
  <2>1. s \o q = q
    BY <1>2, ConcatEmptySeq
  <2>2. CASE Takes(q, n, v)
    <3>1. Len(q) = n + 1 /\ \A i \in 1..Len(q) : i <= n => q[i] = Eat
      BY <2>2 DEF Takes
    <3>2. /\ n + 1 \in Nat /\ n + 1 \in 1..Len(q) /\ n < Len(q)
          /\ \A i \in 1..Len(q) : i # n + 1 => q[i] = Eat
      BY <3>1
    <3> QED
      BY <1>2, <3>2 DEF Fed
  <2>3. CASE Drops(q, n, n, v)
    <3>1. PICK e \in 0..n, x \in 0..n :
            /\ e <= n /\ n <= x
            /\ Len(q) = e + 1 + x
            /\ \A i \in 1..Len(q) : i # e + 1 => q[i] = Eat
      BY <2>3 DEF Drops
    <3>2. e + 1 \in Nat /\ e + 1 \in 1..Len(q) /\ n < Len(q)
      BY <3>1
    <3> QED
      BY <1>2, <3>1, <3>2 DEF Fed
  <2> QED
    BY <2>1, <2>2, <2>3 DEF WriteOf
<1>3. CASE s # <<>>
  <2>1. Len(s) >= 1
    BY <1>1, <1>3, EmptyIs
  <2>2. Takes(s \o q, n, v) => n = 0
    BY <2>1, TakesNow
  <2>3. Drops(s \o q, n, n, v)
    BY <2>2 DEF WriteOf
  <2>4. s[1].k = "ENOSPC" /\ (\A i \in 1..Len(q) : q[i] = Eat) /\ n <= Len(q)
    BY <2>1, <2>3, DropsNow
  <2>5. 0 \in Nat /\ ~(0 \in 1..Len(q))
    BY <1>1
  <2>6. Fed(q, n)
    BY <2>4, <2>5 DEF Fed
  <2> QED
    BY <2>4, <2>6
<1> QED
  BY <1>2, <1>3

-----------------------------------------------------------------------------
(* The client takes a line *)

\* Nothing is left of a server that is gone, and of a write of no data.
LEMMA RestStep ==
  ASSUME TypeOK, Rest, [Next]_vars
  PROVE  Rest'
<1>1. CASE UNCHANGED vars
  BY <1>1 DEF vars, client, server, Rest
<1>2. ASSUME NEW op \in Ops, NEW n \in Counts(op), Start(op, n)
      PROVE  Rest'
  <2>1. op = "write" => n > 0
    BY <1>2, BoundsAssumption DEF Counts
  <2>2. req'.op = op /\ req'.n = n /\ peer' = peer /\ prog' = prog /\ at' # "size"
    BY <1>2 DEF Start, Finish, server
  <2> QED
    BY <2>1, <2>2 DEF Rest
<1>3. CASE Fill \/ SendCommand \/ WriteBody \/ ClearWrite \/ ClearPing \/ ReadData \/ ClearRead \/ SockFails \/ Killed
  BY <1>3 DEF Rest, Fill, SendCommand, WriteBody, ClearWrite, ClearPing, SockWrite, ReadData, ClearRead,
              SockFails, Killed, Close, Finish, server
<1>4. CASE CommandReply \/ ListLine \/ LineReply \/ ReadReply \/ Trailer \/ WriteReply \/ WriteTrailer \/ ClearLine
  <2>1. UNCHANGED <<peer, prog, req>>
    BY <1>4 DEF CommandReply, ListLine, LineReply, ReadReply, Trailer, WriteReply, WriteTrailer, ClearLine,
                TakeLine, server
  <2>2. at' = "size" => at = "size" \/ req.op = "sread"
    BY <1>4 DEF CommandReply, ListLine, LineReply, ReadReply, Trailer, WriteReply, WriteTrailer, ClearLine,
                Finish
  <2> QED
    BY <2>1, <2>2 DEF Rest
<1>5. CASE SizeReply
  <2>1. UNCHANGED <<peer, prog>> /\ at = "size" /\ at' = "data"
    BY <1>5 DEF SizeReply, TakeLine, server
  <2>2. req.op # "write"
    BY <2>1 DEF Rest
  <2>3. \E x : req' = [req EXCEPT !.n = x]
    BY <1>5 DEF SizeReply
  <2>4. req'.op = req.op
    BY <2>3 DEF TypeOK
  <2> QED
    BY <2>1, <2>2, <2>4 DEF Rest
<1>6. CASE ServerStep \/ PeerEnds
  BY <1>6 DEF ServerStep, ServerCommand, ServerSay, ServerEat, PeerEnds, Rest
<1> QED
  BY <1>1, <1>2, <1>3, <1>4, <1>5, <1>6 DEF Next, ClientStep

\* What the client has not taken yet.
LEMMA SaidIs ==
  ASSUME TypeOK
  PROVE  /\ Said \in Seq(Elems) /\ Len(Said) = Len(buf) + Len(s2c)
         /\ buf \in Seq(Elems) /\ s2c \in Seq(Elems) /\ Len(buf) \in Nat /\ Len(s2c) \in Nat
         /\ \A i \in 1..Len(buf) : Said[i] = buf[i]
         /\ \A i \in 1..Len(s2c) : Said[Len(buf) + i] = s2c[i]
<1>1. buf \in Seq(Elems) /\ s2c \in Seq(Elems) /\ Len(buf) \in Nat /\ Len(s2c) \in Nat
  BY LenProperties DEF TypeOK
<1>2. /\ Said \in Seq(Elems) /\ Len(Said) = Len(buf) + Len(s2c)
      /\ \A i \in 1..(Len(buf) + Len(s2c)) : Said[i] = IF i <= Len(buf) THEN buf[i] ELSE s2c[i - Len(buf)]
  BY <1>1, ConcatProperties DEF Said
<1>3. \A i \in 1..Len(buf) : Said[i] = buf[i]
  BY <1>1, <1>2
<1>4. ASSUME NEW i \in 1..Len(s2c)
      PROVE  Said[Len(buf) + i] = s2c[i]
  <2>1. /\ Len(buf) + i \in 1..(Len(buf) + Len(s2c)) /\ ~(Len(buf) + i <= Len(buf))
        /\ (Len(buf) + i) - Len(buf) = i
    BY <1>1
  <2>2. Said[Len(buf) + i] = s2c[(Len(buf) + i) - Len(buf)]
    BY <1>2, <2>1
  <2> QED
    BY <2>1, <2>2
<1> QED
  BY <1>1, <1>2, <1>3, <1>4

\* The elements of a request in a sequence.
LEMMA OwnIs ==
  ASSUME NEW id, NEW s \in Seq(Mine(id)), NEW i \in 1..Len(s), s[i] # Eat
  PROVE  s[i].id = id
<1>1. s[i] \in Mine(id)
  BY ElementOfSeq
<1> QED
  BY <1>1, MineIs

\* Where the next thing to come is a line, the client takes that.
LEMMA LineIsTaken ==
  ASSUME TypeOK, ~mixed, NEW i \in DOMAIN buf, TakeLine(i), NEW q \in Seq(Item),
         Said \in Seq(Mine(req.id)), (Said \o q)[1].k # "data"
  PROVE  /\ i = 1 /\ LineKind(i) = (Said \o q)[1].k /\ buf[1] = (Said \o q)[1] /\ Len(Said) >= 1
         /\ Said' \in Seq(Elems) /\ Said' \in Seq(Mine(req.id)) /\ Said' \o q = Tail(Said \o q)
         /\ ~mixed'
<1>1. buf \in Seq(Elems) /\ s2c \in Seq(Elems) /\ Len(buf) \in Nat /\ i \in 1..Len(buf)
  BY LenProperties DEF TypeOK
<1>2. Len(buf) >= 1 /\ 1 \in 1..Len(buf)
  BY <1>1
<1>3. /\ Tail(Said) = Tail(buf) \o s2c /\ Said[1] = buf[1] /\ Said \in Seq(Elems) /\ Len(Said) >= 1
  BY <1>1, <1>2, TailConcat DEF Said
<1>4. /\ Tail(Said \o q) = Tail(Said) \o q /\ (Said \o q)[1] = Said[1]
  <2>1. Said \in Seq(Item)
    BY <1>3, SeqMonotonic DEF Item
  <2> QED
    BY <1>3, <2>1, TailConcat
<1>5. buf[1] \in Elems /\ buf[1].k \in Kinds /\ buf[1].k # "data" /\ buf[1] # Eat
  <2>1. buf[1] \in Elems
    BY <1>1, <1>2, ElementOfSeq
  <2> QED
    BY <1>3, <1>4, <2>1, EatIsNoElem
<1>6. i = 1
  <2>1. \A j \in 1..(i - 1) : buf[j].k \notin Replies \cup {"entry", "blank", "size"}
    BY DEF TakeLine, LineAt, IsLine
  <2>2. ~(1 \in 1..(i - 1))
    BY <1>5, <2>1 DEF Kinds
  <2> QED
    BY <1>1, <2>2
<1>7. LineKind(i) = buf[1].k
  BY <1>5, <1>6 DEF LineKind
<1>8. buf' = Tail(buf) /\ s2c' = s2c
  <2>1. buf' = SubSeq(buf, i + 1, Len(buf)) /\ s2c' = s2c
    BY DEF TakeLine
  <2>2. i + 1 = 2
    BY <1>6
  <2>3. Tail(buf) = SubSeq(buf, 2, Len(buf))
    BY <1>1, <1>2, TailOf
  <2> QED
    BY <2>1, <2>2, <2>3
<1>9. Said' = Tail(Said)
  BY <1>3, <1>8 DEF Said
<1>10. Said' \in Seq(Elems) /\ Said' \in Seq(Mine(req.id))
  BY <1>3, <1>9, TailOf
<1>11. ~mixed'
  <2>1. mixed' = (mixed \/ ~OwnElems(SubSeq(buf, 1, i)))
    BY DEF TakeLine
  <2>2. PICK u : u = SubSeq(buf, 1, i)
    OBVIOUS
  <2>3. Len(u) = 1 /\ u \in Seq(Elems) /\ u[1] = buf[1]
    <3>1. 1 \in 1..Len(buf)
      BY <1>2
    <3>2. u = SubSeq(buf, 1, 1)
      BY <1>6, <2>2
    <3>3. u \in Seq(Elems) /\ Len(u) = 1
      BY <1>1, <3>1, <3>2, MoveOver
    <3>4. \A j \in 1..(1 - 1 + 1) : SubSeq(buf, 1, 1)[j] = buf[1 + j - 1]
      <4>1. \A j \in 1..1 : buf[j] \in Elems
        BY <1>5
      <4> QED
        BY <1>1, <4>1, SubSeqProperties
    <3>5. u[1] = buf[1]
      BY <3>2, <3>4
    <3> QED
      BY <3>3, <3>5
  <2>4. buf[1].id = req.id
    <3>1. 1 \in 1..Len(Said) /\ Said[1] # Eat
      BY <1>3, <1>5, LenProperties
    <3>2. Said[1].id = req.id
      BY <3>1, OwnIs
    <3> QED
      BY <1>3, <3>2
  <2>5. DOMAIN u = 1..1
    BY <2>3, LenProperties
  <2>6. \A j \in DOMAIN u : j = 1
    BY <2>5
  <2>7. OwnElems(u)
    BY <2>3, <2>4, <2>6 DEF OwnElems
  <2> QED
    BY <2>1, <2>2, <2>7
<1> QED
  BY <1>3, <1>4, <1>6, <1>7, <1>9, <1>10, <1>11

\* The first of what is to come, once it is there, is no block of data.
LEMMA WriteFirst ==
  ASSUME NEW s \in Seq(Elems), NEW q \in Seq(Item), Len(s) >= 1, NEW d \in Nat, NEW n \in Nat, NEW v,
         WriteOf(s \o q, d, n, v)
  PROVE  (s \o q)[1].k \in {"COMPLETE", "ENOSPC", "EPERM", "ERROR"}
<1>1. (s \o q)[1] = s[1]
  <2>1. 1 \in 1..Len(s)
    BY LenProperties
  <2> QED
    BY <2>1, Joined
<1>2. CASE Takes(s \o q, d, v)
  <2>1. d = 0
    BY <1>2, TakesNow
  <2>2. (s \o q)[0 + 1].k \in {"COMPLETE", "ENOSPC", "EPERM", "ERROR"}
    BY <1>2, <2>1 DEF Takes
  <2>3. 0 + 1 = 1
    OBVIOUS
  <2> QED
    BY <2>2, <2>3
<1>3. CASE Drops(s \o q, d, n, v)
  <2>1. s[1].k = "ENOSPC"
    BY <1>3, DropsNow
  <2> QED
    BY <1>1, <2>1
<1> QED
  BY <1>2, <1>3 DEF WriteOf

\* The first line of a listing is an entry exactly where more lines follow.
LEMMA ListFirst ==
  ASSUME NEW t, ListOf(t), Len(t) \in Nat
  PROVE  /\ t[1].k \in {"entry", "blank", "COMPLETE", "EPERM", "ENOENT"}
         /\ t[1].k \in {"entry", "blank"} => Len(t) > 1
         /\ t[1].k \notin {"entry", "blank"} => Len(t) = 1
<1>1. 1 \in 1..Len(t)
  BY DEF ListOf
<1>2. CASE Len(t) > 1
  BY <1>1, <1>2 DEF ListOf
<1>3. CASE ~(Len(t) > 1)
  <2>1. \A n \in Nat : n >= 1 /\ ~(n > 1) => n = 1
    OBVIOUS
  <2>2. Len(t) >= 1
    BY DEF ListOf
  <2>3. Len(t) = 1
    BY <1>3, <2>1, <2>2, Zenon
  <2> QED
    BY <2>3 DEF ListOf
<1> QED
  BY <1>2, <1>3

\* No answer starts with data.
LEMMA AnswerFirst ==
  ASSUME NEW c \in Command, NEW t, Len(t) \in Nat, Answer(c, t, variant)
  PROVE  t[1].k # "data"
<1>1. ListOf(t) => t[1].k # "data"
  BY ListFirst
<1> QED
  BY <1>1 DEF Answer, OneOf, Opens, LinesOf

\* The client waits for a line, and there is one: it is the first of what is
\* to come for its request.
LEMMA Reading ==
  ASSUME TypeOK, Rest, InTouch, at \in {"reply", "size", "trailer"}, NEW i \in DOMAIN buf, TakeLine(i)
  PROVE  /\ sock /\ ~garbage /\ gw = 0 /\ gr = 0
         /\ \E q \in Seq(Item), t \in Seq(Item) :
              /\ peer => q = prog
              /\ Working(q) /\ Expected(t) /\ t = Said \o q
              /\ i = 1 /\ LineKind(i) = t[1].k /\ buf[1] = t[1] /\ Len(t) >= 1
              /\ Said' \in Seq(Elems) /\ Said' \in Seq(Mine(req.id)) /\ Said' \o q = Tail(t)
              /\ ~mixed'
<1>1. buf # <<>> /\ Len(Said) >= 1 /\ Len(Said) \in Nat /\ Said \in Seq(Elems) /\ Said # <<>>
  <2>1. i \in 1..Len(buf) /\ Len(Said) = Len(buf) + Len(s2c) /\ Len(buf) \in Nat /\ Len(s2c) \in Nat
        /\ Said \in Seq(Elems) /\ buf \in Seq(Elems)
    BY SaidIs, LenProperties
  <2>2. Len(buf) >= 1
    BY <2>1
  <2>3. Len(Said) >= 1 /\ Len(Said) \in Nat
    BY <2>1, <2>2
  <2> QED
    BY <2>1, <2>2, <2>3, EmptyIs
<1>2. sock /\ Talk
  BY <1>1 DEF InTouch, Gone, Unread, Clean, Owing, Leftover
<1>3. PICK q \in Seq(Item) : (peer => q = prog) /\ Working(q)
  BY <1>2 DEF Talk
<1>4. PICK t : t = Said \o q
  OBVIOUS
<1>5. Expected(t) /\ Said \in Seq(Mine(req.id))
  BY <1>3, <1>4 DEF Working
<1>6. t \in Seq(Item) /\ Len(t) = Len(Said) + Len(q) /\ Len(q) \in Nat /\ Len(t) \in Nat
  BY <1>1, <1>4, Joined, LenProperties
<1>7. t[1].k # "data"
  <2>1. CASE at = "reply" /\ Answer(req, t, variant)
    BY <1>6, <2>1, AnswerFirst DEF TypeOK, Command
  <2>2. CASE at = "size" /\ SizeOf(t)
    BY <2>2 DEF SizeOf
  <2>3. CASE at = "trailer" /\ WriteOf(t, Len(c2s), req.n, variant)
    <3>1. Len(c2s) \in Nat /\ req.n \in Nat
      BY BoundsAssumption, LenProperties DEF TypeOK
    <3> QED
      BY <1>1, <1>4, <2>3, <3>1, WriteFirst
  <2>4. CASE at = "trailer" /\ OneOf(t, {"COMPLETE"})
    BY <2>4 DEF OneOf
  <2>5. CASE at = "trailer" /\ LinesOf(t)
    BY <1>6, <2>5, ListFirst DEF LinesOf
  <2> QED
    BY <1>5, <2>1, <2>2, <2>3, <2>4, <2>5 DEF Expected
<1>8. ~mixed
  BY DEF InTouch
<1>9. /\ i = 1 /\ LineKind(i) = t[1].k /\ buf[1] = t[1]
      /\ Said' \in Seq(Elems) /\ Said' \in Seq(Mine(req.id)) /\ Said' \o q = Tail(t)
      /\ ~mixed'
  BY <1>4, <1>5, <1>7, <1>8, LineIsTaken
<1>10. Len(t) >= 1
  BY <1>1, <1>6
<1>11. ~garbage /\ gw = 0 /\ gr = 0
  BY <1>2 DEF Talk
<1> QED
  BY <1>2, <1>3, <1>4, <1>5, <1>6, <1>9, <1>10, <1>11

\* The last line for a request is taken.
LEMMA NothingMore ==
  ASSUME TypeOK, Rest, NEW q \in Seq(Item), peer => q = prog, NEW t \in Seq(Item), Len(t) = 1,
         Said' \in Seq(Elems), Said' \o q = Tail(t)
  PROVE  Said' = <<>> /\ q = <<>> /\ prog = <<>>
<1>1. Len(Tail(t)) = 0
  BY TailOf
<1>2. Len(Said' \o q) = Len(Said') + Len(q) /\ Len(Said') \in Nat /\ Len(q) \in Nat
  BY Joined
<1>3. Len(Said') = 0 /\ Len(q) = 0
  BY <1>1, <1>2
<1>4. Said' = <<>> /\ q = <<>>
  BY <1>3, EmptyIs
<1> QED
  BY <1>4 DEF Rest

\* The one line of a command ends the talk (do_command).
LEMMA CommandReplyKeeps ==
  ASSUME TypeOK, Rest, InTouch, CommandReply, UNCHANGED variant
  PROVE  InTouch'
<1>1. PICK i \in DOMAIN buf : TakeLine(i)
  BY DEF CommandReply
<1>2. at = "reply" /\ req.op = "command" /\ at' = "idle" /\ UNCHANGED <<gw, garbage, gr, req, cause>>
  BY DEF CommandReply, Finish
<1>3. at \in {"reply", "size", "trailer"}
  BY <1>2
<1>4. sock /\ ~garbage /\ gw = 0 /\ gr = 0
  BY <1>1, <1>3, Reading
<1>5. PICK q \in Seq(Item), t \in Seq(Item) :
        /\ peer => q = prog
        /\ Working(q) /\ Expected(t)
        /\ Said' \in Seq(Elems) /\ Said' \o q = Tail(t) /\ ~mixed'
  BY <1>1, <1>3, Reading
<1>6. Len(t) = 1
  BY <1>2, <1>5 DEF Expected, Answer, OneOf
<1>7. Said' = <<>> /\ prog = <<>>
  BY <1>5, <1>6, NothingMore
<1>8. c2s = <<>>
  BY <1>2, <1>5 DEF Working
<1>9. UNCHANGED <<sock, c2s, prog>>
  BY <1>1 DEF TakeLine, server
<1> QED
  BY <1>2, <1>4, <1>5, <1>7, <1>8, <1>9 DEF InTouch, Clean

\* A line is taken, and more is to come for the request.
LEMMA MoreToCome ==
  ASSUME NEW q \in Seq(Item), NEW u, peer => q = prog, Working(q),
         at # "trailer" \/ req.op # "write", at' # "trailer" \/ req.op # "write",
         req'.op = req.op, req'.id = req.id, req.op = "write" => req' = req,
         Said' \in Seq(Mine(req.id)), Said' \o q = u, Expected(u)', ~mixed',
         sock, ~garbage, gw = 0, gr = 0,
         UNCHANGED <<variant, sock, garbage, gw, gr, c2s, peer, prog, cur, ate>>
  PROVE  InTouch'
<1>1. c2s = <<>> /\ q \in Seq(Mine(req.id))
  BY DEF Working
<1>2. req.op = "write" => /\ req.n > 0
                          /\ peer => cur = req /\ ate = Blocks("data", req.id, req.n - Pending)
  BY DEF Working
<1>3. req.op = "write" => Pending = req.n /\ Pending' = req.n
  BY DEF Pending
<1>4. Expected(Said \o q)'
  BY DEF Expected
<1>5. Working(q)'
  <2>1. Said' \in Seq(Mine(req'.id)) /\ q \in Seq(Mine(req'.id)) /\ c2s' = <<>>
    BY <1>1
  <2>2. req'.op = "write" => /\ req'.n > 0
                             /\ peer' => cur' = req' /\ ate' = Blocks("data", req'.id, req'.n - Pending')
    BY <1>2, <1>3
  <2> QED
    BY <1>4, <2>1, <2>2 DEF Working
<1>6. peer' => q = prog'
  OBVIOUS
<1>7. Talk'
  BY <1>5, <1>6 DEF Talk
<1> QED
  BY <1>7 DEF InTouch

\* The end of a list is not cut off by one line.
LEMMA ListGoesOn ==
  ASSUME NEW t \in Seq(Item), ListOf(t), Len(t) > 1
  PROVE  ListOf(Tail(t)) /\ (LinesOf(t) => LinesOf(Tail(t)))
<1>1. Len(t) \in Nat
  BY LenProperties
<1>2. Len(Tail(t)) = Len(t) - 1 /\ \A i \in 1..Len(Tail(t)) : Tail(t)[i] = t[i + 1]
  BY <1>1, TailOf
<1>3. Len(Tail(t)) >= 1 /\ Len(Tail(t)) \in 1..Len(Tail(t)) /\ Len(Tail(t)) + 1 = Len(t)
  BY <1>1, <1>2
<1>4. ASSUME NEW i \in 1..Len(Tail(t)), i < Len(Tail(t))
      PROVE  Tail(t)[i].k \in {"entry", "blank"}
  <2>1. i + 1 \in 1..Len(t) /\ i + 1 < Len(t)
    BY <1>1, <1>2, <1>4
  <2> QED
    BY <1>2, <2>1 DEF ListOf
<1>5. Tail(t)[Len(Tail(t))] = t[Len(t)]
  BY <1>2, <1>3
<1> QED
  BY <1>3, <1>4, <1>5 DEF ListOf, LinesOf

\* A line of a listing leaves the rest of it; its reply ends it (do_ls).
LEMMA ListLineKeeps ==
  ASSUME TypeOK, Rest, InTouch, ListLine, UNCHANGED variant, cause' = {}
  PROVE  InTouch'
<1>1. PICK i \in DOMAIN buf :
       /\ TakeLine(i)
       /\ \/ /\ LineKind(i) \in {"COMPLETE", "EPERM", "ENOENT", "ERROR"}
             /\ Finish(IF LineKind(i) = "COMPLETE" THEN "ok" ELSE "err")
          \/ /\ LineKind(i) \notin {"COMPLETE", "EPERM", "ENOENT", "ERROR", "blank"}
             /\ UNCHANGED <<at, res, cause>>
  BY DEF ListLine
<1>2. at = "reply" /\ req.op \in {"list", "stat"} /\ UNCHANGED <<gw, garbage, gr, req>>
  BY DEF ListLine
<1>3. at \in {"reply", "size", "trailer"}
  BY <1>2
<1>4. sock /\ ~garbage /\ gw = 0 /\ gr = 0
  BY <1>1, <1>3, Reading
<1>5. PICK q \in Seq(Item), t \in Seq(Item) :
        /\ peer => q = prog
        /\ Working(q) /\ Expected(t) /\ LineKind(i) = t[1].k /\ Len(t) >= 1
        /\ Said' \in Seq(Elems) /\ Said' \in Seq(Mine(req.id)) /\ Said' \o q = Tail(t) /\ ~mixed'
  BY <1>1, <1>3, Reading
<1>6. ListOf(t) /\ Len(t) \in Nat
  BY <1>2, <1>5, LenProperties DEF Expected, Answer
<1>7. UNCHANGED <<sock, c2s, prog, peer, cur, ate>>
  BY <1>1 DEF TakeLine, server
<1>8. CASE LineKind(i) \in {"COMPLETE", "EPERM", "ENOENT", "ERROR"}
  <2>1. Len(t) = 1
    BY <1>5, <1>6, <1>8, ListFirst
  <2>2. Said' = <<>> /\ prog = <<>>
    BY <1>5, <2>1, NothingMore
  <2>3. c2s = <<>>
    BY <1>2, <1>5 DEF Working
  <2>4. at' = "idle"
    BY <1>1, <1>8 DEF Finish
  <2> QED
    BY <1>2, <1>4, <1>5, <1>7, <2>2, <2>3, <2>4 DEF InTouch, Clean
<1>9. CASE LineKind(i) \notin {"COMPLETE", "EPERM", "ENOENT", "ERROR"}
  <2>1. Len(t) > 1
    BY <1>5, <1>6, <1>9, ListFirst
  <2>2. ListOf(Tail(t))
    BY <1>6, <2>1, ListGoesOn
  <2>3. at' = "reply"
    BY <1>1, <1>2, <1>9
  <2>4. PICK u : u = Tail(t)
    OBVIOUS
  <2>5. Expected(u)'
    <3>1. ListOf(u) /\ req'.op \in {"list", "stat"}
      BY <1>2, <2>2, <2>4
    <3>2. Answer(req', u, variant')
      BY <3>1 DEF Answer
    <3> QED
      BY <2>3, <3>2 DEF Expected
  <2>6. req'.op = req.op /\ req'.id = req.id /\ req.op # "write" /\ Said' \o q = u
    BY <1>2, <1>5, <2>4
  <2> QED
    BY <1>2, <1>4, <1>5, <1>7, <2>5, <2>6, MoreToCome
<1> QED
  BY <1>8, <1>9

\* The first line of readlink and statfs (do_readlink, do_statfs).
LEMMA LineReplyKeeps ==
  ASSUME TypeOK, Rest, InTouch, LineReply, UNCHANGED variant
  PROVE  InTouch'
<1>1. PICK i \in DOMAIN buf :
       /\ TakeLine(i)
       /\ IF req.op = "readlink" /\ LineKind(i) \in {"COMPLETE", "EPERM"}
          THEN Finish("err") ELSE at' = "trailer" /\ UNCHANGED res
  BY DEF LineReply
<1>2. at = "reply" /\ req.op \in {"readlink", "statfs"} /\ UNCHANGED <<gw, garbage, gr, req, cause>>
  BY DEF LineReply
<1>3. at \in {"reply", "size", "trailer"}
  BY <1>2
<1>4. sock /\ ~garbage /\ gw = 0 /\ gr = 0
  BY <1>1, <1>3, Reading
<1>5. PICK q \in Seq(Item), t \in Seq(Item) :
        /\ peer => q = prog
        /\ Working(q) /\ Expected(t) /\ LineKind(i) = t[1].k /\ Len(t) >= 1
        /\ Said' \in Seq(Elems) /\ Said' \in Seq(Mine(req.id)) /\ Said' \o q = Tail(t) /\ ~mixed'
  BY <1>1, <1>3, Reading
<1>6. \/ req.op = "readlink" /\ OneOf(t, {"COMPLETE", "EPERM"})
      \/ LinesOf(t) /\ Len(t) > 1
  BY <1>2, <1>5 DEF Expected, Answer
<1>7. UNCHANGED <<sock, c2s, prog, peer, cur, ate>>
  BY <1>1 DEF TakeLine, server
<1>8. CASE req.op = "readlink" /\ OneOf(t, {"COMPLETE", "EPERM"})
  <2>1. Len(t) = 1 /\ t[1].k \in {"COMPLETE", "EPERM"}
    BY <1>8 DEF OneOf
  <2>2. Said' = <<>> /\ prog = <<>>
    BY <1>5, <2>1, NothingMore
  <2>3. c2s = <<>>
    BY <1>2, <1>5 DEF Working
  <2>4. at' = "idle"
    BY <1>1, <1>5, <1>8, <2>1 DEF Finish
  <2> QED
    BY <1>2, <1>4, <1>5, <1>7, <2>2, <2>3, <2>4 DEF InTouch, Clean
<1>9. CASE LinesOf(t) /\ Len(t) > 1
  <2>0. t[1].k \in {"entry", "blank"}
    BY <1>9, ListFirst, LenProperties DEF LinesOf
  <2>1. at' = "trailer"
    BY <1>1, <1>5, <2>0
  <2>2. PICK u : u = Tail(t)
    OBVIOUS
  <2>3. LinesOf(u)
    BY <1>9, <2>2, ListGoesOn DEF LinesOf
  <2>4. Expected(u)'
    <3>1. req'.op \in {"readlink", "statfs"}
      BY <1>2
    <3> QED
      BY <2>1, <2>3, <3>1 DEF Expected
  <2>5. req'.op = req.op /\ req'.id = req.id /\ req.op # "write" /\ Said' \o q = u
    BY <1>2, <1>5, <2>2
  <2> QED
    BY <1>2, <1>4, <1>5, <1>7, <2>4, <2>5, MoreToCome
<1> QED
  BY <1>6, <1>8, <1>9

\* The reply to a read, before the data (do_read, do_slow_read).
LEMMA ReadReplyKeeps ==
  ASSUME TypeOK, Rest, InTouch, ReadReply, UNCHANGED variant
  PROVE  InTouch'
<1>1. PICK i \in DOMAIN buf :
       /\ TakeLine(i)
       /\ \/ /\ LineKind(i) = "PRELIM"
             /\ at' = IF req.op = "sread" THEN "size" ELSE "data"
             /\ UNCHANGED <<res, garbage, gr>>
          \/ /\ LineKind(i) # "PRELIM"
             /\ Finish("err")
             /\ IF LineKind(i) \in {"EPERM", "ENOENT"} THEN UNCHANGED <<garbage, gr>>
                ELSE garbage' = TRUE /\ gr' = req.n
  BY DEF ReadReply
<1>2. at = "reply" /\ req.op \in {"read", "sread"} /\ UNCHANGED <<gw, req, cause>>
  BY DEF ReadReply
<1>3. at \in {"reply", "size", "trailer"}
  BY <1>2
<1>4. sock /\ ~garbage /\ gw = 0 /\ gr = 0
  BY <1>1, <1>3, Reading
<1>5. PICK q \in Seq(Item), t \in Seq(Item) :
        /\ peer => q = prog
        /\ Working(q) /\ Expected(t) /\ LineKind(i) = t[1].k /\ Len(t) >= 1
        /\ Said' \in Seq(Elems) /\ Said' \in Seq(Mine(req.id)) /\ Said' \o q = Tail(t) /\ ~mixed'
  BY <1>1, <1>3, Reading
<1>6. \/ OneOf(t, {"EPERM", "ENOENT"})
      \/ Opens(t) /\ req.op = "read" /\ DataOf(Tail(t), req.n)
      \/ Opens(t) /\ req.op = "sread" /\ SizeOf(Tail(t))
  BY <1>2, <1>5 DEF Expected, Answer
<1>7. UNCHANGED <<sock, c2s, prog, peer, cur, ate>>
  BY <1>1 DEF TakeLine, server
<1>8. CASE OneOf(t, {"EPERM", "ENOENT"})
  <2>1. Len(t) = 1 /\ t[1].k \in {"EPERM", "ENOENT"}
    BY <1>8 DEF OneOf
  <2>2. Said' = <<>> /\ prog = <<>>
    BY <1>5, <2>1, NothingMore
  <2>3. c2s = <<>>
    BY <1>2, <1>5 DEF Working
  <2>4. at' = "idle" /\ UNCHANGED <<garbage, gr>>
    BY <1>1, <1>5, <2>1 DEF Finish
  <2> QED
    BY <1>2, <1>4, <1>5, <1>7, <2>2, <2>3, <2>4 DEF InTouch, Clean
<1>9. CASE Opens(t) /\ ((req.op = "read" /\ DataOf(Tail(t), req.n)) \/ (req.op = "sread" /\ SizeOf(Tail(t))))
  <2>1. at' = (IF req.op = "sread" THEN "size" ELSE "data") /\ UNCHANGED <<garbage, gr>>
    BY <1>1, <1>5, <1>9 DEF Opens
  <2>2. PICK u : u = Tail(t)
    OBVIOUS
  <2>3. Expected(u)'
    BY <1>2, <1>9, <2>1, <2>2 DEF Expected
  <2>4. /\ req'.op = req.op /\ req'.id = req.id /\ req.op # "write" /\ Said' \o q = u
        /\ at # "trailer"
    BY <1>2, <1>5, <2>2
  <2> QED
    BY <1>2, <1>4, <1>5, <1>7, <2>1, <2>3, <2>4, MoreToCome
<1> QED
  BY <1>6, <1>8, <1>9

\* The size that precedes the data of a slow read (do_slow_read).
LEMMA SizeReplyKeeps ==
  ASSUME TypeOK, Rest, InTouch, SizeReply, UNCHANGED variant
  PROVE  InTouch'
<1>1. PICK i \in DOMAIN buf :
       /\ TakeLine(i)
       /\ \E x \in CASE LineKind(i) = "size" -> {buf[i].n}
                     [] LineKind(i) = "junk" -> 0..MaxCount
                     [] OTHER -> {0} :
            req' = [req EXCEPT !.n = x]
  BY DEF SizeReply
<1>2. at = "size" /\ at' = "data" /\ UNCHANGED <<gw, garbage, gr, res, cause>>
  BY DEF SizeReply
<1>3. at \in {"reply", "size", "trailer"}
  BY <1>2
<1>4. sock /\ ~garbage /\ gw = 0 /\ gr = 0
  BY <1>1, <1>3, Reading
<1>5. PICK q \in Seq(Item), t \in Seq(Item) :
        /\ peer => q = prog
        /\ Working(q) /\ Expected(t) /\ i = 1 /\ LineKind(i) = t[1].k /\ buf[1] = t[1] /\ Len(t) >= 1
        /\ Said' \in Seq(Elems) /\ Said' \in Seq(Mine(req.id)) /\ Said' \o q = Tail(t) /\ ~mixed'
  BY <1>1, <1>3, Reading
<1>6. req.op = "sread" /\ t[1].k = "size" /\ t[1].n \in 0..MaxCount /\ DataOf(Tail(t), t[1].n)
  BY <1>2, <1>5 DEF Expected, SizeOf
<1>7. UNCHANGED <<sock, c2s, prog, peer, cur, ate>>
  BY <1>1 DEF TakeLine, server
<1>8. req' = [req EXCEPT !.n = t[1].n]
  BY <1>1, <1>5, <1>6
<1>9. req'.op = req.op /\ req'.id = req.id /\ req'.n = t[1].n
  <2>1. req \in Command
    BY DEF TypeOK, Command
  <2> QED
    BY <1>8, <2>1 DEF Command
<1>10. PICK u : u = Tail(t)
  OBVIOUS
<1>11. Expected(u)'
  <2>1. DataOf(u, req'.n)
    BY <1>6, <1>9, <1>10
  <2> QED
    BY <1>2, <1>6, <1>9, <2>1 DEF Expected
<1>12. req.op # "write" /\ Said' \o q = u /\ at # "trailer"
  BY <1>2, <1>5, <1>6, <1>10
<1> QED
  BY <1>2, <1>4, <1>5, <1>7, <1>9, <1>11, <1>12, MoreToCome

\* The reply that follows the data (do_read, do_slow_read) or the line of
\* readlink and statfs; a second line of a link target is no reply.
LEMMA TrailerKeeps ==
  ASSUME TypeOK, Rest, InTouch, Trailer, UNCHANGED variant
  PROVE  InTouch'
<1>1. PICK i \in DOMAIN buf :
       /\ TakeLine(i)
       /\ Finish(IF LineKind(i) = "COMPLETE" THEN "ok" ELSE "err")
       /\ garbage' = (/\ req.op \in {"readlink", "statfs"}
                      /\ LineKind(i) \notin {"COMPLETE", "EPERM"})
  BY DEF Trailer
<1>2. at = "trailer" /\ req.op # "write" /\ UNCHANGED <<gw, gr, req, cause>>
  BY DEF Trailer
<1>3. at \in {"reply", "size", "trailer"}
  BY <1>2
<1>4. sock /\ ~garbage /\ gw = 0 /\ gr = 0
  BY <1>1, <1>3, Reading
<1>5. PICK q \in Seq(Item), t \in Seq(Item) :
        /\ peer => q = prog
        /\ Working(q) /\ Expected(t) /\ LineKind(i) = t[1].k /\ Len(t) >= 1
        /\ Said' \in Seq(Elems) /\ Said' \o q = Tail(t) /\ ~mixed'
  BY <1>1, <1>3, Reading
<1>6. \/ Len(t) = 1 /\ t[1].k = "COMPLETE"
      \/ req.op \in {"readlink", "statfs"} /\ t[1].k \in {"entry", "blank"}
  <2>1. OneOf(t, {"COMPLETE"}) \/ (req.op \in {"readlink", "statfs"} /\ LinesOf(t))
    BY <1>2, <1>5 DEF Expected
  <2>2. CASE OneOf(t, {"COMPLETE"})
    BY <2>2 DEF OneOf
  <2>3. CASE req.op \in {"readlink", "statfs"} /\ LinesOf(t)
    <3>1. /\ t[1].k \in {"entry", "blank", "COMPLETE", "EPERM", "ENOENT"}
          /\ t[1].k \notin {"entry", "blank"} => Len(t) = 1
      BY <2>3, ListFirst, LenProperties DEF LinesOf
    <3>2. t[Len(t)].k = "COMPLETE"
      BY <2>3 DEF LinesOf
    <3> QED
      BY <2>3, <3>1, <3>2
  <2> QED
    BY <2>1, <2>2, <2>3
<1>7. UNCHANGED <<sock, c2s, prog>>
  BY <1>1 DEF TakeLine, server
<1>8. c2s = <<>> /\ at' = "idle"
  BY <1>1, <1>2, <1>5 DEF Working, Finish
<1>9. CASE Len(t) = 1 /\ t[1].k = "COMPLETE"
  <2>1. Said' = <<>> /\ prog = <<>>
    BY <1>5, <1>9, NothingMore
  <2>2. ~garbage'
    BY <1>1, <1>5, <1>9
  <2> QED
    BY <1>2, <1>4, <1>5, <1>7, <1>8, <2>1, <2>2 DEF InTouch, Clean
<1>10. CASE req.op \in {"readlink", "statfs"} /\ t[1].k \in {"entry", "blank"}
  <2>1. garbage' /\ res' = "err"
    BY <1>1, <1>5, <1>10 DEF Finish
  <2>2. Len(c2s') = 0
    BY <1>7, <1>8
  <2>3. Leftover'
    <3>1. \A j \in 1..Len(c2s') : c2s'[j].k # "cmd"
      BY <2>2
    <3> QED
      BY <1>2, <1>4, <1>8, <2>1, <3>1 DEF Leftover
  <2> QED
    BY <1>4, <1>5, <1>7, <2>3 DEF InTouch
<1> QED
  BY <1>6, <1>9, <1>10

\* The reply to the command of a write, before its data (do_write).
LEMMA WriteReplyKeeps ==
  ASSUME TypeOK, Rest, InTouch, WriteReply, UNCHANGED variant
  PROVE  InTouch'
<1>1. PICK i \in DOMAIN buf :
       /\ TakeLine(i)
       /\ IF LineKind(i) = "PRELIM" THEN at' = "body" /\ UNCHANGED res
          ELSE Finish("err")
  BY DEF WriteReply
<1>2. at = "reply" /\ req.op = "write" /\ UNCHANGED <<gw, garbage, gr, req, cause>>
  BY DEF WriteReply
<1>3. at \in {"reply", "size", "trailer"}
  BY <1>2
<1>4. sock /\ ~garbage /\ gw = 0 /\ gr = 0
  BY <1>1, <1>3, Reading
<1>5. PICK q \in Seq(Item), t \in Seq(Item) :
        /\ peer => q = prog
        /\ Working(q) /\ Expected(t) /\ LineKind(i) = t[1].k /\ Len(t) >= 1
        /\ Said' \in Seq(Elems) /\ Said' \in Seq(Mine(req.id)) /\ Said' \o q = Tail(t) /\ ~mixed'
  BY <1>1, <1>3, Reading
<1>6. \/ OneOf(t, {"COMPLETE", "EPERM"})
      \/ Opens(t) /\ WriteOf(Tail(t), req.n, req.n, variant)
  BY <1>2, <1>5 DEF Expected, Answer
<1>7. UNCHANGED <<sock, c2s, prog, peer, cur, ate>>
  BY <1>1 DEF TakeLine, server
<1>8. CASE OneOf(t, {"COMPLETE", "EPERM"})
  <2>1. Len(t) = 1 /\ t[1].k \in {"COMPLETE", "EPERM"}
    BY <1>8 DEF OneOf
  <2>2. Said' = <<>> /\ prog = <<>>
    BY <1>5, <2>1, NothingMore
  <2>3. c2s = <<>>
    BY <1>2, <1>5 DEF Working
  <2>4. at' = "idle" /\ res' = "err"
    BY <1>1, <1>5, <2>1 DEF Finish
  <2> QED
    BY <1>2, <1>4, <1>5, <1>7, <2>2, <2>3, <2>4 DEF InTouch, Clean
<1>9. CASE Opens(t) /\ WriteOf(Tail(t), req.n, req.n, variant)
  <2>1. at' = "body"
    BY <1>1, <1>5, <1>9 DEF Opens
  <2>2. PICK u : u = Tail(t)
    OBVIOUS
  <2>3. Expected(u)'
    BY <1>2, <1>9, <2>1, <2>2 DEF Expected
  <2>4. req'.op = req.op /\ req'.id = req.id /\ req' = req /\ Said' \o q = u /\ at # "trailer" /\ at' # "trailer"
    BY <1>2, <1>5, <2>1, <2>2
  <2> QED
    BY <1>2, <1>4, <1>5, <1>7, <2>3, <2>4, MoreToCome
<1> QED
  BY <1>6, <1>8, <1>9

\* The one reply after the data of a write.
LEMMA WriteTrailerKeeps ==
  ASSUME TypeOK, Rest, InTouch, WriteTrailer, UNCHANGED variant
  PROVE  InTouch'
<1>1. PICK i \in DOMAIN buf :
       /\ TakeLine(i)
       /\ Finish(IF LineKind(i) = "COMPLETE" THEN "ok" ELSE "err")
       /\ IF LineKind(i) = "ENOSPC" THEN garbage' = TRUE /\ gw' = req.n
          ELSE UNCHANGED <<garbage, gw>>
  BY DEF WriteTrailer
<1>2. at = "trailer" /\ req.op = "write" /\ UNCHANGED <<gr, req, cause>>
  BY DEF WriteTrailer
<1>3. at \in {"reply", "size", "trailer"}
  BY <1>2
<1>4. sock /\ ~garbage /\ gw = 0 /\ gr = 0
  BY <1>1, <1>3, Reading
<1>5. PICK q \in Seq(Item), t \in Seq(Item) :
        /\ peer => q = prog
        /\ Working(q) /\ Expected(t) /\ t = Said \o q
        /\ i = 1 /\ LineKind(i) = t[1].k /\ buf[1] = t[1] /\ Len(t) >= 1
        /\ Said' \in Seq(Elems) /\ Said' \in Seq(Mine(req.id)) /\ Said' \o q = Tail(t) /\ ~mixed'
  BY <1>1, <1>3, Reading
<1>6. WriteOf(t, Len(c2s), req.n, variant)
  BY <1>2, <1>5 DEF Expected
<1>7. UNCHANGED <<sock, c2s, prog, stored>> /\ at' = "idle"
  BY <1>1 DEF TakeLine, server, Finish
<1>8. Said \in Seq(Elems) /\ Len(Said) >= 1 /\ Said[1] = t[1] /\ Said # <<>>
  <2>1. i \in 1..Len(buf) /\ Len(Said) = Len(buf) + Len(s2c) /\ Len(buf) \in Nat /\ Len(s2c) \in Nat
        /\ Said \in Seq(Elems)
    BY SaidIs, LenProperties
  <2>2. Len(Said) >= 1 /\ 1 \in 1..Len(Said)
    BY <2>1
  <2>3. Said[1] = t[1]
    BY <1>5, <2>1, <2>2, Joined
  <2> QED
    BY <2>1, <2>2, <2>3, EmptyIs
<1>9. Len(c2s) \in Nat /\ req.n \in Nat /\ c2s \in Seq(Sent) /\ req.n <= MaxCount
  BY BoundsAssumption, LenProperties DEF TypeOK
<1>10. c2s = Blocks("data", req.id, Len(c2s)) /\ (t[1].k = "COMPLETE" => req.id \in stored)
  BY <1>2, <1>5, <1>8 DEF Working
<1>11. CASE Takes(t, Len(c2s), variant)
  <2>1. Len(c2s) = 0 /\ t[1] = t[Len(c2s) + 1]
    BY <1>5, <1>8, <1>9, <1>11, TakesNow
  <2>2. Len(t) = 0 + 1 /\ t[1].k = "ENOSPC" => variant = "shell"
    BY <1>11, <2>1 DEF Takes
  <2>3. Len(t) = 1 /\ c2s = <<>>
    <3>1. Len(t) = 0 + 1
      BY <1>11, <2>1, Zenon DEF Takes
    <3>2. Len(t) = 1
      BY <3>1
    <3>3. c2s = <<>>
      BY <1>9, <2>1, EmptyIs
    <3> QED
      BY <3>2, <3>3
  <2>4. Said' = <<>> /\ prog = <<>>
    BY <1>5, <2>3, NothingMore
  <2>5. CASE LineKind(i) = "ENOSPC"
    <3>1. garbage' /\ gw' = req.n /\ res' = "err" /\ variant = "shell"
      BY <1>1, <1>5, <2>2, <2>5, <2>3 DEF Finish
    <3>2. Owing'
      <4>1. Len(prog') = 0 /\ Len(c2s') = 0
        BY <1>7, <2>3, <2>4
      <4>2. at' = "idle" /\ garbage' /\ res' = "err" /\ gr' = 0 /\ variant' = "shell" /\ Said' = <<>>
        BY <1>2, <1>4, <1>7, <2>4, <3>1
      <4>3. gw' > 0 => Len(prog') <= gw'
        BY <1>9, <3>1, <4>1
      <4>4. (\A j \in 1..Len(prog') : prog'[j] = Eat) /\ (\A j \in 1..Len(c2s') : c2s'[j].k # "cmd")
        BY <4>1
      <4> QED
        BY <4>2, <4>3, <4>4 DEF Owing
    <3> QED
      BY <1>4, <1>5, <1>7, <3>2 DEF InTouch
  <2>6. CASE LineKind(i) # "ENOSPC"
    <3>1. UNCHANGED <<garbage, gw>> /\ (res' = "ok" => req.id \in stored)
      BY <1>1, <1>5, <1>10, <2>6 DEF Finish
    <3> QED
      BY <1>2, <1>4, <1>5, <1>7, <2>3, <2>4, <3>1 DEF InTouch, Clean
  <2> QED
    BY <2>5, <2>6
<1>12. CASE Drops(t, Len(c2s), req.n, variant)
  <2>1. /\ variant = "shell" /\ Len(Said) = 1 /\ Said[1].k = "ENOSPC"
        /\ \A j \in 1..Len(q) : q[j] = Eat
        /\ Len(q) <= req.n
    BY <1>5, <1>8, <1>9, <1>12, DropsNow
  <2>2. garbage' /\ gw' = req.n /\ res' = "err"
    BY <1>1, <1>5, <1>8, <2>1 DEF Finish
  <2>3. Said' = <<>>
    <3>1. Said' \o q = Tail(Said) \o q /\ Len(Tail(Said)) = 0 /\ Tail(Said) \in Seq(Item)
      <4>1. Said \in Seq(Item)
        BY <1>8, SeqMonotonic DEF Item
      <4>2. Tail(Said \o q) = Tail(Said) \o q
        BY <1>8, <4>1, TailConcat
      <4>3. Len(Tail(Said)) = 0 /\ Tail(Said) \in Seq(Item)
        BY <1>8, <2>1, <4>1, TailOf
      <4> QED
        BY <1>5, <4>2, <4>3
    <3>2. Len(Said' \o q) = Len(Said') + Len(q) /\ Len(Said') \in Nat /\ Len(q) \in Nat
      BY <1>5, Joined
    <3>3. Len(Tail(Said) \o q) = Len(Tail(Said)) + Len(q)
      BY <3>1, ConcatProperties
    <3>4. Len(Said') = 0
      <4>1. \A a, b \in Nat : a + b = 0 + b => a = 0
        OBVIOUS
      <4>2. Len(Said') + Len(q) = 0 + Len(q)
        BY <3>1, <3>2, <3>3, Zenon
      <4> QED
        BY <3>2, <4>1, <4>2, Zenon
    <3> QED
      BY <1>5, <3>4, EmptyIs
  <2>4. (\A j \in 1..Len(prog) : prog[j] = Eat) /\ Len(prog) <= req.n
    <3>1. CASE peer
      BY <1>5, <2>1, <3>1
    <3>2. CASE ~peer
      <4>1. prog = <<>> /\ Len(prog) = 0
        BY <3>2 DEF Rest
      <4> QED
        BY <1>9, <4>1
    <3> QED
      BY <3>1, <3>2
  <2>5. \A j \in 1..Len(c2s) : c2s[j].k # "cmd"
    <3>1. PICK l \in Nat : l = Len(c2s)
      BY <1>9
    <3>2. req.id \in Reqs
      BY DEF TypeOK
    <3>3. \A j \in 1..l : Blocks("data", req.id, l)[j].k = "data"
      BY <3>2, BlocksAre
    <3> QED
      BY <1>10, <3>1, <3>3
  <2>6. Owing'
    <3>1. /\ at' = "idle" /\ garbage' /\ res' = "err" /\ gr' = 0 /\ variant' = "shell" /\ Said' = <<>>
          /\ gw' = req.n /\ prog' = prog /\ c2s' = c2s
      BY <1>2, <1>4, <1>7, <2>1, <2>2, <2>3
    <3> QED
      BY <2>4, <2>5, <3>1 DEF Owing
  <2> QED
    BY <1>4, <1>5, <1>7, <2>6 DEF InTouch
<1> QED
  BY <1>6, <1>11, <1>12 DEF WriteOf

-----------------------------------------------------------------------------
(* The client reads raw bytes, writes, starts and gives up *)

\* The frame of what the agreement is about.
LEMMA Untouched ==
  ASSUME InTouch, Said' = Said,
         UNCHANGED <<variant, sock, garbage, gw, gr, at, req, res, c2s, peer, prog, cur, ate, stored, mixed>>
  PROVE  InTouch'
<1>1. \A t : Expected(t) <=> Expected(t)'
  BY DEF Expected
<1>2. Pending' = Pending
  BY DEF Pending
<1>3. ASSUME NEW q \in Seq(Item), Working(q)
      PROVE  Working(q)'
  <2>1. Expected(Said \o q)'
    <3>1. Expected(Said \o q)
      BY <1>3 DEF Working
    <3> QED
      BY <3>1 DEF Expected
  <2> QED
    BY <1>2, <1>3, <2>1 DEF Working
<1>4. Talk => Talk'
  BY <1>3 DEF Talk
<1>5. (Gone => Gone') /\ (Unread => Unread') /\ (Clean => Clean')
      /\ (Owing => Owing') /\ (Leftover => Leftover')
  BY DEF Gone, Unread, Clean, Owing, Leftover
<1> QED
  BY <1>4, <1>5 DEF InTouch

\* What moves from the socket to the line buffer stays in order.
LEMMA FillKeeps ==
  ASSUME TypeOK, InTouch, Fill, UNCHANGED variant
  PROVE  InTouch'
<1>1. buf \in Seq(Elems) /\ s2c \in Seq(Elems)
  BY DEF TypeOK
<1>2. PICK m \in 1..Len(s2c) : buf' = buf \o SubSeq(s2c, 1, m) /\ s2c' = SubSeq(s2c, m + 1, Len(s2c))
  BY DEF Fill
<1>3. Said' = Said
  <2>1. (buf \o SubSeq(s2c, 1, m)) \o SubSeq(s2c, m + 1, Len(s2c)) = buf \o s2c
    BY <1>1, MoveAll
  <2> QED
    BY <1>2, <2>1, Zenon DEF Said
<1>4. UNCHANGED <<sock, garbage, gw, gr, at, req, res, c2s, peer, prog, cur, ate, stored, mixed>>
  BY DEF Fill, server
<1> QED
  BY <1>3, <1>4, Untouched

\* The data of a read: all of them, or the two sides are out of step.
LEMMA ReadDataKeeps ==
  ASSUME TypeOK, Rest, InTouch, ReadData, UNCHANGED variant, cause = {}, cause' = {}
  PROVE  InTouch'
<1>1. at = "data" /\ at' = "trailer"
      /\ UNCHANGED <<sock, garbage, gw, gr, req, res, c2s, peer, prog, cur, ate, stored>>
  BY DEF ReadData, server
<1>2. sock /\ Talk
  BY <1>1 DEF InTouch, Gone, Unread, Clean, Owing, Leftover
<1>3. PICK q \in Seq(Item) : (peer => q = prog) /\ Working(q)
  BY <1>2 DEF Talk
<1>4. PICK t : t = Said \o q
  OBVIOUS
<1>5. PICK n : n = req.n
  OBVIOUS
<1>6. /\ req.op \in {"read", "sread"} /\ DataOf(t, n)
      /\ Said \in Seq(Mine(req.id)) /\ q \in Seq(Mine(req.id)) /\ c2s = <<>>
  BY <1>1, <1>3, <1>4, <1>5 DEF Working, Expected
<1>7. /\ n \in Nat /\ buf \in Seq(Elems) /\ s2c \in Seq(Elems) /\ Len(buf) \in Nat /\ Len(s2c) \in Nat
      /\ Said \in Seq(Elems) /\ Len(Said) = Len(buf) + Len(s2c)
      /\ \A i \in 1..Len(buf) : Said[i] = buf[i]
      /\ \A i \in 1..Len(s2c) : Said[Len(buf) + i] = s2c[i]
  BY <1>5, SaidIs, BoundsAssumption DEF TypeOK
<1>8. PICK b : b = IF n < Len(buf) THEN n ELSE Len(buf)
  OBVIOUS
<1>9. b \in Nat /\ b <= Len(buf) /\ b <= n /\ (b = n \/ b = Len(buf))
  BY <1>7, <1>8
<1>10. PICK m \in (IF b = n THEN {0} ELSE 1..(n - b)) :
         /\ m <= Len(s2c)
         /\ buf' = SubSeq(buf, b + 1, Len(buf))
         /\ s2c' = SubSeq(s2c, m + 1, Len(s2c))
         /\ mixed' = (mixed \/ ~OwnElems(SubSeq(buf, 1, b)) \/ ~OwnElems(SubSeq(s2c, 1, m)))
         /\ cause' = IF b + m < n THEN cause \cup {"short"} ELSE cause
  BY <1>5, <1>8 DEF ReadData, SockRead
<1>11. m \in Nat /\ b + m = n /\ (m = 0 \/ b = Len(buf))
  <2>1. m \in Nat /\ b + m <= n /\ (m = 0 \/ b = Len(buf))
    BY <1>7, <1>9, <1>10
  <2>2. ~(b + m < n)
    BY <1>10
  <2> QED
    BY <1>7, <1>9, <2>1, <2>2
<1>12. Said' = SubSeq(Said, n + 1, Len(Said)) /\ n <= Len(Said)
  <2>0. SubSeq(buf, b + 1, Len(buf)) \o SubSeq(s2c, m + 1, Len(s2c))
          = SubSeq(buf \o s2c, (b + m) + 1, Len(buf \o s2c))
    <3>1. m <= Len(s2c)
      BY <1>10, Zenon
    <3>2. /\ buf \in Seq(Elems) /\ s2c \in Seq(Elems) /\ b \in Nat /\ m \in Nat
          /\ b <= Len(buf) /\ (m = 0 \/ b = Len(buf))
      BY <1>7, <1>9, <1>11, Zenon
    <3> QED
      BY <3>1, <3>2, TakeFrom, Zenon
  <2>1. Said' = SubSeq(Said, (b + m) + 1, Len(Said))
    BY <1>10, <2>0, Zenon DEF Said
  <2>2. b + m <= Len(Said)
    BY <1>7, <1>9, <1>10
  <2> QED
    BY <1>11, <2>1, <2>2
<1>13. Said' \in Seq(Elems) /\ Said' \in Seq(Mine(req.id))
  BY <1>6, <1>7, <1>12, RestOf
<1>14. Said' \o q = SubSeq(t, n + 1, Len(t))
  <2>1. Said \in Seq(Item) /\ q = SubSeq(q, 1, Len(q)) /\ 0 <= Len(q) /\ 0 \in Nat
    BY <1>7, SeqMonotonic, SubSeqFull, LenProperties DEF Item
  <2>2. SubSeq(Said, n + 1, Len(Said)) \o SubSeq(q, 0 + 1, Len(q)) = SubSeq(Said \o q, (n + 0) + 1, Len(Said \o q))
    <3>1. n \in Nat /\ n <= Len(Said) /\ 0 <= Len(q) /\ 0 = 0
      BY <1>7, <1>12, <2>1
    <3> QED
      BY <2>1, <3>1, TakeFrom, Zenon
  <2>3. 0 + 1 = 1 /\ (n + 0) + 1 = n + 1
    BY <1>7
  <2> QED
    BY <1>4, <1>12, <2>1, <2>2, <2>3, Zenon
<1>15. PICK u : u = SubSeq(t, n + 1, Len(t))
  OBVIOUS
<1>16. OneOf(u, {"COMPLETE"})
  <2>1. t \in Seq(Item) /\ Len(t) = n + 1 /\ t[n + 1].k = "COMPLETE"
    BY <1>4, <1>6, <1>7, Joined DEF DataOf
  <2>2. Len(u) = Len(t) - n /\ \A i \in 1..(Len(t) - n) : u[i] = t[n + i]
    <3>1. n <= Len(t)
      BY <1>7, <2>1
    <3> QED
      BY <1>7, <1>15, <2>1, <3>1, RestOf
  <2>3. Len(u) = 1 /\ 1 \in 1..(Len(t) - n)
    BY <1>7, <2>1, <2>2
  <2> QED
    BY <2>1, <2>2, <2>3 DEF OneOf
<1>17. ~mixed'
  <2>1. ~mixed
    BY DEF InTouch
  <2>2. \A i \in 1..Len(Said) : Said[i].id = req.id
    <3>1. \A i \in 1..Len(Said) : Said[i] # Eat
      BY <1>7, EatIsNoElem, ElementOfSeq
    <3> QED
      BY <1>6, <3>1, OwnIs
  <2>3. OwnElems(SubSeq(buf, 1, b))
    <3>1. PICK x : x = SubSeq(buf, 1, b)
      OBVIOUS
    <3>2. \A i \in 1..b : buf[i] \in Elems /\ i \in 1..Len(buf)
      <4>1. \A l, c \in Nat : c <= l => \A j \in 1..c : j \in 1..l
        OBVIOUS
      <4>2. \A i \in 1..b : i \in 1..Len(buf)
        BY <1>7, <1>9, <4>1, Zenon
      <4> QED
        BY <1>7, <4>2, ElementOfSeq, Zenon
    <3>3. /\ x \in Seq(Elems) /\ Len(x) = IF 1 <= b THEN b - 1 + 1 ELSE 0
          /\ \A i \in 1..(b - 1 + 1) : x[i] = buf[1 + i - 1]
      BY <1>9, <3>1, <3>2, SubSeqProperties
    <3>4. ASSUME NEW i \in DOMAIN x
          PROVE  x[i].id = req.id
      <4>1. i \in 1..b /\ i \in 1..(b - 1 + 1) /\ 1 + i - 1 = i
        BY <1>9, <3>3, LenProperties
      <4>2. i \in 1..Len(buf) /\ i \in 1..Len(Said)
        BY <1>7, <1>9, <4>1
      <4> QED
        BY <1>7, <2>2, <3>3, <4>1, <4>2
    <3> QED
      BY <3>1, <3>4 DEF OwnElems
  <2>4. OwnElems(SubSeq(s2c, 1, m))
    <3>1. PICK x : x = SubSeq(s2c, 1, m)
      OBVIOUS
    <3>2. \A i \in 1..m : s2c[i] \in Elems /\ i \in 1..Len(s2c)
      <4>1. \A l, c \in Nat : c <= l => \A j \in 1..c : j \in 1..l
        OBVIOUS
      <4>2. \A i \in 1..m : i \in 1..Len(s2c)
        BY <1>7, <1>10, <1>11, <4>1, Zenon
      <4> QED
        BY <1>7, <4>2, ElementOfSeq, Zenon
    <3>3. /\ x \in Seq(Elems) /\ Len(x) = IF 1 <= m THEN m - 1 + 1 ELSE 0
          /\ \A i \in 1..(m - 1 + 1) : x[i] = s2c[1 + i - 1]
      BY <1>11, <3>1, <3>2, SubSeqProperties
    <3>4. ASSUME NEW i \in DOMAIN x
          PROVE  x[i].id = req.id
      <4>1. i \in 1..m /\ i \in 1..(m - 1 + 1) /\ 1 + i - 1 = i
        BY <1>11, <3>3, LenProperties
      <4>2. i \in 1..Len(s2c) /\ Len(buf) + i \in 1..Len(Said)
        <5>1. i \in 1..Len(s2c)
          BY <3>2, <4>1
        <5>2. \A x1, y1 \in Nat : \A j \in 1..y1 : x1 + j \in 1..(x1 + y1)
          OBVIOUS
        <5> QED
          BY <1>7, <5>1, <5>2, Zenon
      <4> QED
        BY <1>7, <2>2, <3>3, <4>1, <4>2
    <3> QED
      BY <3>1, <3>4 DEF OwnElems
  <2> QED
    BY <1>10, <2>1, <2>3, <2>4
<1>18. Expected(u)'
  BY <1>1, <1>6, <1>16 DEF Expected
<1>19. Working(q)'
  <2>1. Expected(Said \o q)'
    BY <1>14, <1>15, <1>18 DEF Expected
  <2>2. req' = req /\ req.op # "write" /\ c2s' = <<>>
    BY <1>1, <1>6
  <2> QED
    BY <1>6, <1>13, <2>1, <2>2 DEF Working
<1>20. Talk'
  BY <1>1, <1>2, <1>3, <1>19 DEF Talk
<1> QED
  BY <1>1, <1>2, <1>17, <1>20 DEF InTouch

\* A command goes out where both streams are empty.
LEMMA SendCommandKeeps ==
  ASSUME TypeOK, Rest, InTouch, SendCommand, UNCHANGED variant
  PROVE  InTouch'
<1>1. /\ at = "send" /\ at' = "reply" /\ sock
      /\ c2s' = c2s \o <<[k |-> "cmd", op |-> req.op, n |-> req.n, id |-> req.id]>>
      /\ UNCHANGED <<sock, garbage, gw, gr, buf, s2c, req, prog, mixed>>
  BY DEF SendCommand, SockWrite, server
<1>2. Clean
  BY <1>1 DEF InTouch, Gone, Talk, Working, Expected, Unread, Owing, Leftover
<1>3. Said' = Said
  BY <1>1 DEF Said
<1>4. c2s' = <<[k |-> "cmd", op |-> req.op, n |-> req.n, id |-> req.id]>>
  <2>1. c2s = <<>>
    BY <1>2 DEF Clean
  <2>2. PICK e : e = <<[k |-> "cmd", op |-> req.op, n |-> req.n, id |-> req.id]>>
    OBVIOUS
  <2>3. e \in Seq(Sent)
    BY <2>2, BoundsAssumption, SentIs DEF TypeOK
  <2>4. <<>> \o e = e
    BY <2>3, ConcatEmptySeq
  <2> QED
    BY <1>1, <2>1, <2>2, <2>4
<1> QED
  BY <1>1, <1>2, <1>3, <1>4 DEF Clean, Unread, InTouch

\* The data of a write go out after its command was taken (do_write).
LEMMA WriteBodyKeeps ==
  ASSUME TypeOK, Rest, InTouch, WriteBody, UNCHANGED variant
  PROVE  InTouch'
<1>1. /\ at = "body" /\ at' = "trailer" /\ c2s' = c2s \o Blocks("data", req.id, req.n)
      /\ UNCHANGED <<sock, garbage, gw, gr, buf, s2c, req, peer, prog, cur, ate, stored, mixed>>
  BY DEF WriteBody, SockWrite, server
<1>2. sock /\ Talk
  BY <1>1 DEF InTouch, Gone, Unread, Clean, Owing, Leftover
<1>3. PICK q \in Seq(Item) : (peer => q = prog) /\ Working(q)
  BY <1>2 DEF Talk
<1>4. /\ req.op = "write" /\ WriteOf(Said \o q, req.n, req.n, variant) /\ c2s = <<>>
      /\ Said \in Seq(Mine(req.id)) /\ q \in Seq(Mine(req.id))
      /\ req.n > 0 /\ (peer => cur = req /\ ate = Blocks("data", req.id, req.n - Pending))
      /\ Pending = req.n
  BY <1>1, <1>3 DEF Working, Expected, Pending
<1>5. req.n \in Nat /\ req.id \in Reqs /\ Said \in Seq(Elems) /\ req.n >= 1
  BY <1>4, BoundsAssumption, SaidIs DEF TypeOK
<1>6. c2s' = Blocks("data", req.id, req.n) /\ Len(c2s') = req.n
  <2>1. PICK x : x = Blocks("data", req.id, req.n)
    OBVIOUS
  <2>2. x \in Seq(Mine(req.id)) /\ Len(x) = req.n
    BY <1>5, <2>1, BlocksAre
  <2>3. <<>> \o x = x
    BY <2>2, ConcatEmptySeq
  <2> QED
    BY <1>1, <1>4, <2>1, <2>2, <2>3
<1>7. Said # <<>> => Said[1].k = "ENOSPC"
  BY <1>4, <1>5, WriteFeeds
<1>8. Said' = Said
  BY <1>1 DEF Said
<1>9. Expected(Said \o q)'
  BY <1>1, <1>4, <1>6, <1>8 DEF Expected
<1>10. Pending' = req.n
  BY <1>1, <1>6 DEF Pending
<1>11. Working(q)'
  <2>1. c2s' = Blocks("data", req.id, Len(c2s')) /\ Len(c2s') <= req.n
    BY <1>5, <1>6
  <2> QED
    BY <1>1, <1>4, <1>7, <1>8, <1>9, <1>10, <2>1 DEF Working
<1>12. Talk'
  BY <1>1, <1>2, <1>3, <1>11 DEF Talk
<1> QED
  BY <1>1, <1>2, <1>12 DEF InTouch

\* What clear_garbage sends is no command.
LEMMA ClearKeeps ==
  ASSUME TypeOK, Rest, InTouch, ClearWrite \/ ClearPing, UNCHANGED variant
  PROVE  InTouch'
<1>1. /\ at = "clear" /\ UNCHANGED <<sock, gr, buf, s2c, req, res, prog, mixed>>
  BY DEF ClearWrite, ClearPing, SockWrite, server
<1>2. sock /\ (Owing \/ Leftover)
  BY <1>1 DEF InTouch, Gone, Talk, Working, Expected, Unread, Clean
<1>3. /\ (ClearWrite => at' = "clear" /\ gw' = 0 /\ garbage' = garbage)
      /\ (ClearPing => at' = "clear_wait" /\ gw' = 0 /\ ~garbage')
  BY DEF ClearWrite, ClearPing
<1>4. Said' = Said
  BY <1>1 DEF Said
<1>5. PICK x \in Seq(Sent) : c2s' = c2s \o x /\ \A i \in 1..Len(x) : x[i].k # "cmd"
  <2>1. req.id \in Reqs /\ gw \in Nat
    BY BoundsAssumption DEF TypeOK
  <2>2. CASE ClearWrite
    <3>1. PICK x : x = [i \in 1..gw |-> [k |-> "space", id |-> req.id, n |-> 0]]
      OBVIOUS
    <3>2. x \in Seq(Sent)
      BY <2>1, <3>1, SentIs
    <3>3. Len(x) = gw
      BY <2>1, <3>1
    <3>4. \A i \in 1..Len(x) : x[i].k # "cmd"
      BY <3>1, <3>3
    <3>5. c2s' = c2s \o x
      BY <2>2, <3>1 DEF ClearWrite, SockWrite
    <3> QED
      BY <3>2, <3>4, <3>5
  <2>3. CASE ClearPing
    <3>1. PICK x : x = <<Elem("newline", req.id), Elem("newline", req.id), Elem("ping", req.id)>>
      OBVIOUS
    <3>2. x \in Seq(Sent)
      BY <2>1, <3>1, SentIs
    <3>3. \A i \in 1..Len(x) : x[i].k # "cmd"
      BY <3>1 DEF Elem
    <3>4. c2s' = c2s \o x
      BY <2>3, <3>1 DEF ClearPing, SockWrite
    <3> QED
      BY <3>2, <3>3, <3>4
  <2> QED
    BY <2>2, <2>3
<1>6. \A i \in 1..Len(c2s') : c2s'[i].k # "cmd"
  <2>1. c2s \in Seq(Sent) /\ Len(c2s) \in Nat /\ Len(x) \in Nat
    BY LenProperties DEF TypeOK
  <2>2. /\ Len(c2s') = Len(c2s) + Len(x)
        /\ \A i \in 1..(Len(c2s) + Len(x)) : c2s'[i] = IF i <= Len(c2s) THEN c2s[i] ELSE x[i - Len(c2s)]
    BY <1>5, <2>1, ConcatProperties
  <2>3. ASSUME NEW i \in 1..Len(c2s')
        PROVE  c2s'[i].k # "cmd"
    <3>0. i \in 1..(Len(c2s) + Len(x))
      BY <2>2
    <3>1. CASE i <= Len(c2s)
      <4>1. i \in 1..Len(c2s) /\ c2s'[i] = c2s[i]
        BY <2>1, <2>2, <3>0, <3>1
      <4> QED
        BY <1>2, <4>1 DEF Owing, Leftover
    <3>2. CASE ~(i <= Len(c2s))
      <4>1. i - Len(c2s) \in 1..Len(x) /\ c2s'[i] = x[i - Len(c2s)]
        BY <2>1, <2>2, <3>0, <3>2
      <4> QED
        BY <1>5, <4>1
    <3> QED
      BY <3>1, <3>2
  <2> QED
    BY <2>3
<1>7. (Owing => Owing') /\ (Leftover => Leftover')
  <2>1. gw' = 0 /\ at' \in {"clear", "clear_wait"} /\ (garbage' <=> at' # "clear_wait")
    <3>1. garbage
      BY <1>1, <1>2 DEF Owing, Leftover
    <3>2. CASE ClearWrite
      BY <1>3, <3>1, <3>2
    <3>3. CASE ClearPing
      BY <1>3, <3>3
    <3> QED
      BY <3>2, <3>3
  <2>2. ~(gw' > 0)
    BY <2>1
  <2> QED
    BY <1>1, <1>2, <1>4, <1>6, <2>1, <2>2 DEF Owing, Leftover
<1> QED
  BY <1>1, <1>2, <1>7 DEF InTouch

\* There are no bytes to read; lines that are left are read one by one.
LEMMA ClearReadKeeps ==
  ASSUME TypeOK, InTouch, ClearRead \/ ClearLine, UNCHANGED variant
  PROVE  InTouch'
<1>1. sock /\ (Owing \/ Leftover)
  BY DEF ClearRead, ClearLine, InTouch, Gone, Talk, Working, Expected, Unread, Clean
<1>2. ~ClearRead
  <2>1. gr = 0
    BY <1>1 DEF Owing, Leftover
  <2> QED
    BY <2>1 DEF ClearRead
<1>3. CASE Owing
  <2>1. Len(buf) = 0
    <3>1. Len(Said) = Len(buf) + Len(s2c) /\ Len(buf) \in Nat /\ Len(s2c) \in Nat
      BY SaidIs
    <3>2. Len(Said) = 0
      BY <1>3, EmptySeq DEF Owing
    <3> QED
      BY <3>1, <3>2
  <2>2. DOMAIN buf = {}
    BY <2>1, LenProperties DEF TypeOK
  <2> QED
    BY <1>2, <2>2 DEF ClearLine
<1>4. CASE Leftover
  <2>1. UNCHANGED <<sock, garbage, gw, gr, at, res, c2s, mixed>>
    BY <1>2 DEF ClearLine
  <2>2. Leftover'
    BY <1>4, <2>1 DEF Leftover
  <2> QED
    BY <1>1, <2>1, <2>2 DEF InTouch
<1> QED
  BY <1>1, <1>3, <1>4

\* A connection that is closed is not talked over any more.
LEMMA CloseKeeps ==
  ASSUME InTouch, SockFails \/ Killed
  PROVE  InTouch'
BY DEF SockFails, Killed, Close, Finish, InTouch, Gone

\* A new operation starts where the one before it left nothing, or garbage is
\* noted.
LEMMA StartKeeps ==
  ASSUME TypeOK, Rest, InTouch, NEW op \in Ops, NEW n \in Counts(op), Start(op, n), UNCHANGED variant
  PROVE  InTouch'
<1>1. /\ at = "idle" /\ ~mixed'
      /\ IF sock THEN at' = (IF garbage THEN "clear" ELSE "send") /\ UNCHANGED res
         ELSE at' = "idle" /\ res' = "err"
      /\ UNCHANGED <<sock, garbage, gw, gr, buf, c2s, s2c, prog>>
  BY DEF Start, Finish, client, server
<1>2. Said' = Said
  BY <1>1 DEF Said
<1>3. CASE Gone
  BY <1>1, <1>3 DEF Gone, InTouch
<1>4. CASE sock /\ Clean
  BY <1>1, <1>2, <1>4 DEF Clean, InTouch
<1>5. CASE sock /\ Owing
  <2>1. at' = "clear"
    BY <1>1, <1>5 DEF Owing
  <2>2. Owing'
    BY <1>1, <1>2, <1>5, <2>1 DEF Owing
  <2> QED
    BY <1>1, <1>5, <2>2 DEF InTouch
<1>6. CASE sock /\ Leftover
  <2>1. at' = "clear"
    BY <1>1, <1>6 DEF Leftover
  <2>2. Leftover'
    BY <1>1, <1>6, <2>1 DEF Leftover
  <2> QED
    BY <1>1, <1>6, <2>2 DEF InTouch
<1> QED
  BY <1>1, <1>3, <1>4, <1>5, <1>6 DEF InTouch, Talk, Working, Expected, Unread

\* The remote side is gone: what it did not print is nothing that is read.
LEMMA PeerEndsKeeps ==
  ASSUME TypeOK, Rest, InTouch, PeerEnds, UNCHANGED variant
  PROVE  InTouch'
<1>1. /\ ~peer' /\ prog' = <<>> /\ Len(prog') = 0
      /\ UNCHANGED <<sock, garbage, gw, gr, buf, at, req, res, c2s, s2c, cur, ate, stored, mixed>>
  BY DEF PeerEnds, client
<1>2. Said' = Said
  BY <1>1 DEF Said
<1>3. Pending' = Pending
  BY <1>1 DEF Pending
<1>4. ASSUME NEW q \in Seq(Item), Working(q)
      PROVE  Working(q)'
  <2>1. Expected(Said \o q)
    BY <1>4 DEF Working
  <2>2. Expected(Said \o q)'
    BY <1>1, <1>2, <2>1 DEF Expected
  <2> QED
    BY <1>1, <1>2, <1>3, <1>4, <2>2 DEF Working
<1>5. Talk => Talk'
  BY <1>1, <1>4 DEF Talk
<1>6. (Gone => Gone') /\ (Unread => Unread') /\ (Clean => Clean') /\ (Leftover => Leftover')
  BY <1>1, <1>2 DEF Gone, Unread, Clean, Leftover
<1>7. Owing => Owing'
  <2>0. gw' \in Nat
    BY <1>1, BoundsAssumption DEF TypeOK
  <2>1. (gw' > 0 => Len(prog') <= gw') /\ \A i \in 1..Len(prog') : prog'[i] = Eat
    BY <1>1, <2>0
  <2> QED
    BY <1>1, <1>2, <2>1 DEF Owing
<1> QED
  BY <1>1, <1>5, <1>6, <1>7 DEF InTouch

-----------------------------------------------------------------------------
(* The server's steps *)

\* Blocks of data, one more or less at the end or at the front.
LEMMA BlocksOne ==
  ASSUME NEW id \in Reqs, NEW n \in Nat
  PROVE  /\ Blocks("data", id, 0) = <<>>
         /\ Append(Blocks("data", id, n), Elem("data", id)) = Blocks("data", id, n + 1)
         /\ Tail(Blocks("data", id, n + 1)) = Blocks("data", id, n)
         /\ Head(Blocks("data", id, n + 1)) = Elem("data", id)
<1>1. n + 1 \in Nat /\ 0 \in Nat
  OBVIOUS
<1>2. PICK x : x = Blocks("data", id, n)
  OBVIOUS
<1>3. PICK y : y = Blocks("data", id, n + 1)
  OBVIOUS
<1>4. /\ x \in Seq(Mine(id)) /\ Len(x) = n
      /\ \A i \in 1..n : x[i] = Elem("data", id)
  BY <1>2, BlocksAre
<1>5. /\ y \in Seq(Mine(id)) /\ Len(y) = n + 1
      /\ \A i \in 1..(n + 1) : y[i] = Elem("data", id)
  BY <1>1, <1>3, BlocksAre
<1>6. Blocks("data", id, 0) = <<>>
  <2>1. Blocks("data", id, 0) \in Seq(Mine(id)) /\ Len(Blocks("data", id, 0)) = 0
    BY <1>1, BlocksAre
  <2> QED
    BY <2>1, EmptyIs
<1>7. Elem("data", id) \in Mine(id)
  BY ElemIs DEF Kinds
<1>8. Append(x, Elem("data", id)) = y
  <2>1. PICK z : z = Append(x, Elem("data", id))
    OBVIOUS
  <2>2. /\ z \in Seq(Mine(id)) /\ Len(z) = n + 1
        /\ (\A i \in 1..n : z[i] = x[i]) /\ z[n + 1] = Elem("data", id)
    BY <1>4, <1>7, <2>1, AppendProperties
  <2>3. ASSUME NEW i \in 1..Len(z)
        PROVE  z[i] = y[i]
    <3>1. i \in 1..(n + 1) /\ (i \in 1..n \/ i = n + 1)
      BY <2>2
    <3>2. i \in 1..n => z[i] = x[i] /\ x[i] = Elem("data", id)
      BY <1>4, <2>2, Zenon
    <3>3. y[i] = Elem("data", id)
      BY <1>5, <3>1, Zenon
    <3>4. i = n + 1 => z[i] = Elem("data", id)
      BY <2>2, Zenon
    <3> QED
      BY <3>1, <3>2, <3>3, <3>4, Zenon
  <2>4. Len(z) = Len(y)
    BY <1>5, <2>2
  <2>5. z = y
    BY <1>5, <2>2, <2>3, <2>4, SeqEqual
  <2> QED
    BY <2>1, <2>5
<1>9. Tail(y) = x /\ Head(y) = Elem("data", id)
  <2>1. Len(y) >= 1
    BY <1>5
  <2>2. /\ Head(y) = y[1] /\ Tail(y) \in Seq(Mine(id)) /\ Len(Tail(y)) = Len(y) - 1
        /\ \A i \in 1..Len(Tail(y)) : Tail(y)[i] = y[i + 1]
    BY <1>5, <2>1, TailOf
  <2>3. Len(Tail(y)) = n
    BY <1>5, <2>2
  <2>4. ASSUME NEW i \in 1..Len(Tail(y))
        PROVE  Tail(y)[i] = x[i]
    <3>1. i \in 1..n /\ i + 1 \in 1..(n + 1)
      BY <2>3
    <3>2. Tail(y)[i] = y[i + 1] /\ y[i + 1] = Elem("data", id)
      BY <1>5, <2>2, <3>1, Zenon
    <3>3. x[i] = Elem("data", id)
      BY <1>4, <3>1, Zenon
    <3> QED
      BY <3>2, <3>3, Zenon
  <2>5. Tail(y) = x
    BY <1>4, <2>2, <2>3, <2>4, SeqEqual, Zenon
  <2>6. 1 \in 1..(n + 1)
    OBVIOUS
  <2> QED
    BY <1>5, <2>2, <2>5, <2>6
<1> QED
  BY <1>2, <1>3, <1>6, <1>8, <1>9

\* A line is a command only where the client has just written one.
LEMMA ServerCommandKeeps ==
  ASSUME TypeOK, Rest, InTouch, ServerCommand, UNCHANGED variant, cause = {}, cause' = {}
  PROVE  InTouch'
<1>1. /\ peer /\ prog = <<>> /\ ate' = <<>>
      /\ UNCHANGED <<sock, garbage, gw, gr, buf, at, req, res, s2c, peer, stored, mixed>>
  BY DEF ServerCommand, client
<1>2. PICK i \in DOMAIN c2s :
       /\ IsLine(c2s, i, {"cmd", "newline"})
       /\ c2s' = SubSeq(c2s, i + 1, Len(c2s))
       /\ IF i = 1 /\ c2s[1].k = "cmd"
          THEN LET c == [op |-> c2s[1].op, n |-> c2s[1].n, id |-> c2s[1].id] IN
               /\ cur' = c
               /\ prog' \in Programs(c)
               /\ cause' = cause \cup CausesOf(c, prog')
          ELSE /\ prog' \in OtherLine(SubSeq(c2s, 1, i), cur.id)
               /\ UNCHANGED <<cur, cause>>
  BY DEF ServerCommand
<1>3. c2s \in Seq(Sent) /\ Len(c2s) \in Nat /\ i \in 1..Len(c2s) /\ i <= Len(c2s) /\ i \in Nat /\ c2s # <<>>
  <2>1. c2s \in Seq(Sent) /\ Len(c2s) \in Nat /\ i \in 1..Len(c2s)
    BY LenProperties DEF TypeOK
  <2>2. Len(c2s) # 0 /\ i <= Len(c2s) /\ i \in Nat
    BY <2>1
  <2> QED
    BY <2>1, <2>2, EmptyIs
<1>4. Said' = Said
  BY <1>1 DEF Said
<1>5. CASE Gone
  BY <1>1, <1>5 DEF Gone, InTouch
<1>6. ~Clean
  BY <1>3 DEF Clean
<1>7. ~Talk
  <2> SUFFICES ASSUME Talk
               PROVE  FALSE
    OBVIOUS
  <2>1. PICK q \in Seq(Item) : q = prog /\ Working(q)
    BY <1>1 DEF Talk
  <2>2. at = "trailer" /\ req.op = "write" /\ WriteOf(Said \o q, Len(c2s), req.n, variant)
    BY <1>3, <2>1 DEF Working, Expected
  <2>3. Said \in Seq(Elems) /\ req.n \in Nat /\ Len(c2s) >= 1 /\ Len(Said) \in Nat
    BY <1>3, SaidIs, BoundsAssumption, LenProperties DEF TypeOK
  <2>4. q = <<>> /\ Len(q) = 0
    BY <1>1, <2>1
  <2>5. CASE Said # <<>>
    <3>1. Len(Said) >= 1
      BY <2>3, <2>5, EmptyIs
    <3>2. Takes(Said \o q, Len(c2s), variant) => Len(c2s) = 0
      BY <1>3, <2>3, <3>1, TakesNow
    <3>3. Drops(Said \o q, Len(c2s), req.n, variant) => Len(c2s) <= Len(q)
      BY <1>3, <2>3, <3>1, DropsNow
    <3> QED
      BY <2>2, <2>3, <2>4, <3>2, <3>3 DEF WriteOf
  <2>6. CASE Said = <<>>
    <3>1. Len(Said \o q) = 0
      <4>1. Len(Said \o q) = Len(Said) + Len(q) /\ Len(Said) = 0
        BY <2>3, <2>6, Joined, EmptySeq
      <4> QED
        BY <2>4, <4>1
    <3>2. ~Takes(Said \o q, Len(c2s), variant)
      BY <1>3, <3>1 DEF Takes
    <3>3. ~Drops(Said \o q, Len(c2s), req.n, variant)
      BY <1>3, <2>3, <3>1 DEF Drops
    <3> QED
      BY <2>2, <3>2, <3>3 DEF WriteOf
  <2> QED
    BY <2>5, <2>6
<1>8. CASE sock /\ Unread
  <2>1. /\ c2s = <<[k |-> "cmd", op |-> req.op, n |-> req.n, id |-> req.id]>> /\ Said = <<>>
        /\ at = "reply" /\ ~garbage /\ gw = 0 /\ gr = 0
    BY <1>8 DEF Unread
  <2>2. Len(c2s) = 1 /\ c2s[1] = [k |-> "cmd", op |-> req.op, n |-> req.n, id |-> req.id]
    BY <2>1
  <2>3. i = 1 /\ c2s[1].k = "cmd"
    BY <1>3, <2>2
  <2>4. req \in Command /\ req.id \in Reqs /\ req.n \in Nat
    BY BoundsAssumption DEF TypeOK, Command
  <2>5. req = [op |-> c2s[1].op, n |-> c2s[1].n, id |-> c2s[1].id]
    BY <2>2, <2>4 DEF Command
  <2>6. cur' = req /\ prog' \in Programs(req) /\ CausesOf(req, prog') = {}
    BY <1>2, <2>3, <2>5
  <2>7. prog' \in Seq(Mine(req.id)) /\ Answer(req, prog', variant)
    BY <2>4, <2>6, ProgramRight DEF TypeOK
  <2>8. prog' \in Seq(Item)
    BY <2>7, SeqMonotonic, MineIs
  <2>9. c2s' = <<>>
    BY <1>2, <2>2, <2>3, SubSeqEmpty
  <2>10. PICK q : q = prog'
    OBVIOUS
  <2>11. Said' = <<>> /\ Said' \o q = q
    BY <1>4, <2>1, <2>8, <2>10, ConcatEmptySeq
  <2>12. Answer(req', q, variant')
    BY <1>1, <2>7, <2>10
  <2>13. Expected(q)'
    BY <1>1, <2>1, <2>12 DEF Expected
  <2>14. Working(q)'
    <3>1. Expected(Said \o q)'
      BY <2>11, <2>13 DEF Expected
    <3>2. Said' \in Seq(Mine(req'.id)) /\ q \in Seq(Mine(req'.id))
      <4>1. <<>> \in Seq(Mine(req'.id))
        OBVIOUS
      <4> QED
        BY <1>1, <2>7, <2>10, <2>11, <4>1
    <3>3. Pending' = req.n /\ req.n - req.n = 0
      BY <1>1, <2>1, <2>4 DEF Pending
    <3>4. ate' = Blocks("data", req'.id, req'.n - Pending')
      <4>1. Blocks("data", req.id, 0) = <<>>
        BY <2>4, BlocksOne
      <4> QED
        BY <1>1, <3>3, <4>1
    <3>5. req'.op = "write" => req'.n > 0
      BY <1>1 DEF Rest
    <3> QED
      BY <1>1, <2>1, <2>6, <2>9, <3>1, <3>2, <3>4, <3>5 DEF Working
  <2>15. Talk'
    BY <1>1, <2>1, <2>8, <2>10, <2>14 DEF Talk
  <2> QED
    BY <1>1, <1>8, <2>15 DEF InTouch
<1>9. ASSUME \A j \in 1..Len(c2s) : c2s[j].k # "cmd"
      PROVE  \A j \in 1..Len(c2s') : c2s'[j].k # "cmd"
  <2>1. /\ Len(c2s') = Len(c2s) - i
        /\ \A j \in 1..(Len(c2s) - i) : c2s'[j] = c2s[i + j]
    BY <1>2, <1>3, RestOf
  <2>2. ASSUME NEW j \in 1..Len(c2s')
        PROVE  c2s'[j].k # "cmd"
    <3>1. i + j \in 1..Len(c2s) /\ j \in 1..(Len(c2s) - i)
      BY <1>3, <2>1
    <3> QED
      BY <1>9, <2>1, <3>1
  <2> QED
    BY <2>2
<1>10. CASE sock /\ Owing
  <2>1. variant = "shell" /\ \A j \in 1..Len(c2s) : c2s[j].k # "cmd"
    BY <1>10 DEF Owing
  <2>2. 1 \in 1..Len(c2s)
    BY <1>3
  <2>3. prog' \in OtherLine(SubSeq(c2s, 1, i), cur.id)
    BY <1>2, <2>1, <2>2
  <2>4. prog' = <<>>
    BY <2>1, <2>3 DEF OtherLine
  <2>5. Owing'
    BY <1>1, <1>4, <1>9, <1>10, <2>1, <2>4 DEF Owing
  <2> QED
    BY <1>1, <1>10, <2>5 DEF InTouch
<1>11. CASE sock /\ Leftover
  <2>1. Leftover'
    BY <1>1, <1>9, <1>11 DEF Leftover
  <2> QED
    BY <1>1, <1>11, <2>1 DEF InTouch
<1> QED
  BY <1>1, <1>5, <1>6, <1>7, <1>8, <1>10, <1>11 DEF InTouch

\* The server prints: nothing changes in what is to come.
LEMMA ServerSayKeeps ==
  ASSUME TypeOK, Rest, InTouch, ServerSay, UNCHANGED variant
  PROVE  InTouch'
<1>1. /\ peer /\ prog # <<>> /\ Head(prog) # Eat
      /\ s2c' = Append(s2c, Head(prog)) /\ prog' = Tail(prog)
      /\ UNCHANGED <<sock, garbage, gw, gr, buf, at, req, res, c2s, peer, cur, ate, mixed>>
  BY DEF ServerSay, client
<1>2. prog \in Seq(Item) /\ Len(prog) >= 1
  BY <1>1, EmptyIs, LenProperties DEF TypeOK, Item
<1>3. /\ Head(prog) = prog[1] /\ prog[1] \in Item /\ prog[1] # Eat /\ 1 \in 1..Len(prog)
      /\ Tail(prog) \in Seq(Item)
  BY <1>1, <1>2, TailOf, LenProperties
<1>4. prog[1] \in Elems
  BY <1>3 DEF Item
<1>5. CASE Gone
  BY <1>1, <1>5 DEF Gone, InTouch
<1>6. ~Unread /\ ~Clean /\ ~Owing
  BY <1>1, <1>3 DEF Unread, Clean, Owing
<1>7. CASE sock /\ Talk
  <2>1. Working(prog) /\ ~garbage /\ gw = 0 /\ gr = 0
    BY <1>1, <1>7 DEF Talk
  <2>2. Said \in Seq(Elems) /\ Said \in Seq(Mine(req.id)) /\ prog \in Seq(Mine(req.id)) /\ Expected(Said \o prog)
        /\ Len(Said) \in Nat
    BY <2>1, SaidIs, LenProperties DEF Working
  <2>3. Said' = Append(Said, prog[1])
    <3>1. Append(s2c, prog[1]) = s2c \o <<prog[1]>> /\ s2c \in Seq(Elems) /\ buf \in Seq(Elems)
          /\ <<prog[1]>> \in Seq(Elems)
      BY <1>4, SaidIs, AppendIsConcat, Single
    <3>2. buf \o (s2c \o <<prog[1]>>) = (buf \o s2c) \o <<prog[1]>>
      BY <3>1, ConcatAssociative
    <3>3. Append(Said, prog[1]) = Said \o <<prog[1]>>
      BY <1>4, <2>2, AppendIsConcat
    <3> QED
      BY <1>1, <1>3, <3>1, <3>2, <3>3 DEF Said
  <2>4. Said' \o Tail(prog) = Said \o prog
    <3>1. Said \in Seq(Item)
      BY <2>2, SeqMonotonic DEF Item
    <3> QED
      BY <1>2, <2>3, <3>1, HeadOver
  <2>5. Said' \in Seq(Mine(req.id)) /\ Tail(prog) \in Seq(Mine(req.id))
    <3>1. prog[1] \in Mine(req.id) /\ Tail(prog) \in Seq(Mine(req.id))
      BY <1>2, <2>2, TailOf
    <3> QED
      BY <2>2, <2>3, <3>1, AppendProperties
  <2>6. stored \subseteq stored'
    BY DEF ServerSay
  <2>7. ASSUME at = "trailer", req.op = "write", Said'[1].k = "COMPLETE"
        PROVE  req.id \in stored'
    <3>1. CASE Said # <<>>
      <4>1. 1 \in 1..Len(Said)
        BY <2>2, <3>1, EmptyIs
      <4>2. Said'[1] = Said[1]
        BY <1>4, <2>2, <2>3, <4>1, AppendProperties
      <4>3. req.id \in stored
        BY <2>1, <2>7, <3>1, <4>2 DEF Working
      <4> QED
        BY <2>6, <4>3
    <3>2. CASE Said = <<>>
      <4>1. Said' = <<prog[1]>>
        BY <2>3, <3>2
      <4>2. prog[1].k = "COMPLETE"
        BY <2>7, <4>1
      <4>3. WriteOf(prog, Len(c2s), req.n, variant)
        <5>1. Said \o prog = prog
          BY <1>2, <3>2, ConcatEmptySeq
        <5> QED
          BY <2>2, <2>7, <5>1 DEF Expected
      <4>4. Len(c2s) \in Nat /\ req.n \in Nat
        BY BoundsAssumption, LenProperties DEF TypeOK
      <4>5. ~Drops(prog, Len(c2s), req.n, variant)
        BY <1>3, <4>2 DEF Drops
      <4>6. Len(c2s) = 0
        <5>1. Takes(prog, Len(c2s), variant)
          BY <4>3, <4>5 DEF WriteOf
        <5>2. 1 <= Len(c2s) => prog[1] = Eat
          BY <1>3, <5>1 DEF Takes
        <5> QED
          BY <1>3, <4>4, <5>2
      <4>7. Pending = 0
        BY <2>7, <4>6 DEF Pending
      <4>8. cur = req /\ ate = Blocks("data", req.id, req.n - Pending)
        BY <1>1, <2>1, <2>7 DEF Working
      <4>9. ate = Blocks("data", cur.id, cur.n)
        <5>1. req.n - 0 = req.n
          BY <4>4
        <5> QED
          BY <4>7, <4>8, <5>1
      <4>10. stored' = stored \cup {cur.id}
        BY <1>3, <2>7, <4>2, <4>8, <4>9 DEF ServerSay
      <4> QED
        BY <4>8, <4>10
    <3> QED
      BY <3>1, <3>2
  <2>8. PICK q : q = Tail(prog)
    OBVIOUS
  <2>9. Working(q)'
    <3>1. Expected(Said \o q)'
      BY <1>1, <2>2, <2>4, <2>8 DEF Expected
    <3>2. Pending' = Pending
      BY <1>1 DEF Pending
    <3> QED
      BY <1>1, <2>1, <2>5, <2>7, <2>8, <3>1, <3>2 DEF Working
  <2>10. q \in Seq(Item) /\ q = prog'
    BY <1>1, <1>3, <2>8
  <2>11. Talk'
    BY <1>1, <2>1, <2>9, <2>10 DEF Talk
  <2> QED
    BY <1>1, <1>7, <2>11 DEF InTouch
<1>8. CASE sock /\ Leftover
  <2>1. Leftover'
    BY <1>1, <1>8 DEF Leftover
  <2> QED
    BY <1>1, <1>8, <2>1 DEF InTouch
<1> QED
  BY <1>5, <1>6, <1>7, <1>8 DEF InTouch

\* The server reads a block of a write, or what it is owed.
LEMMA ServerEatKeeps ==
  ASSUME TypeOK, Rest, InTouch, ServerEat, UNCHANGED variant
  PROVE  InTouch'
<1>1. /\ peer /\ prog # <<>> /\ Head(prog) = Eat /\ c2s # <<>>
      /\ ate' = Append(ate, Head(c2s)) /\ c2s' = Tail(c2s) /\ prog' = Tail(prog)
      /\ UNCHANGED <<sock, garbage, gw, gr, buf, at, req, res, s2c, peer, cur, stored, mixed>>
  BY DEF ServerEat, client
<1>2. prog \in Seq(Item) /\ Len(prog) >= 1 /\ c2s \in Seq(Sent) /\ Len(c2s) >= 1 /\ Len(c2s) \in Nat
      /\ Len(prog) \in Nat
  <2>1. prog \in Seq(Item) /\ c2s \in Seq(Sent) /\ Len(c2s) \in Nat /\ Len(prog) \in Nat
    BY LenProperties DEF TypeOK, Item
  <2> QED
    BY <1>1, <2>1, EmptyIs
<1>3. /\ Head(prog) = prog[1] /\ prog[1] = Eat
      /\ Tail(prog) \in Seq(Item) /\ Len(Tail(prog)) = Len(prog) - 1
      /\ \A i \in 1..Len(Tail(prog)) : Tail(prog)[i] = prog[i + 1]
  BY <1>1, <1>2, TailOf
<1>4. /\ Tail(c2s) \in Seq(Sent) /\ Len(Tail(c2s)) = Len(c2s) - 1
      /\ \A i \in 1..Len(Tail(c2s)) : Tail(c2s)[i] = c2s[i + 1]
  BY <1>2, TailOf
<1>5. Said' = Said
  BY <1>1 DEF Said
<1>6. CASE Gone
  BY <1>1, <1>6 DEF Gone, InTouch
<1>7. ~Unread /\ ~Clean
  BY <1>1 DEF Unread, Clean
<1>8. CASE sock /\ Owing
  <2>1. ASSUME NEW i \in 1..Len(prog')
        PROVE  prog'[i] = Eat
    <3>1. i + 1 \in 1..Len(prog) /\ i \in 1..Len(Tail(prog))
      BY <1>1, <1>2, <1>3
    <3> QED
      BY <1>1, <1>3, <1>8, <3>1 DEF Owing
  <2>2. ASSUME NEW i \in 1..Len(c2s')
        PROVE  c2s'[i].k # "cmd"
    <3>1. i + 1 \in 1..Len(c2s) /\ i \in 1..Len(Tail(c2s))
      BY <1>1, <1>2, <1>4
    <3> QED
      BY <1>1, <1>4, <1>8, <3>1 DEF Owing
  <2>3. gw' > 0 => Len(prog') <= gw'
    <3>1. Len(prog') = Len(prog) - 1 /\ gw' = gw /\ gw \in Nat
      BY <1>1, <1>3, BoundsAssumption DEF TypeOK
    <3>2. gw > 0 => Len(prog) <= gw
      BY <1>8 DEF Owing
    <3> QED
      BY <1>2, <3>1, <3>2
  <2>4. Owing'
    BY <1>1, <1>5, <1>8, <2>1, <2>2, <2>3 DEF Owing
  <2> QED
    BY <1>1, <1>8, <2>4 DEF InTouch
<1>9. CASE sock /\ Talk
  <2>1. Working(prog) /\ ~garbage /\ gw = 0 /\ gr = 0
    BY <1>1, <1>9 DEF Talk
  <2>2. /\ Said \in Seq(Elems) /\ Said \in Seq(Mine(req.id)) /\ prog \in Seq(Mine(req.id)) /\ req.id \in Reqs
        /\ req.n \in Nat
    BY <2>1, SaidIs, BoundsAssumption DEF Working, TypeOK
  <2>3. /\ at = "trailer" /\ req.op = "write"
        /\ c2s = Blocks("data", req.id, Len(c2s)) /\ Len(c2s) <= req.n
        /\ Said # <<>> /\ Said[1].k = "COMPLETE" => req.id \in stored
    BY <1>1, <2>1 DEF Working
  <2>4. /\ req.n > 0 /\ cur = req /\ ate = Blocks("data", req.id, req.n - Pending) /\ Pending = Len(c2s)
        /\ WriteOf(Said \o prog, Len(c2s), req.n, variant)
    BY <1>1, <2>1, <2>3 DEF Working, Pending, Expected
  <2>5. PICK l \in Nat : Len(c2s) = l + 1
    <3>1. Len(c2s) - 1 \in Nat /\ Len(c2s) = (Len(c2s) - 1) + 1
      BY <1>2
    <3> QED
      BY <3>1
  <2>6. c2s' = Blocks("data", req.id, l) /\ Len(c2s') = l /\ Head(c2s) = Elem("data", req.id)
    <3>1. c2s = Blocks("data", req.id, l + 1)
      BY <2>3, <2>5
    <3> QED
      BY <1>1, <2>2, <2>5, <3>1, BlocksOne, BlocksAre
  <2>7. ate' = Blocks("data", req.id, req.n - l)
    <3>1. PICK k \in Nat : k = req.n - (l + 1) /\ k + 1 = req.n - l
      <4>1. req.n - (l + 1) \in Nat /\ (req.n - (l + 1)) + 1 = req.n - l
        BY <2>2, <2>3, <2>5
      <4> QED
        BY <4>1
    <3>2. ate = Blocks("data", req.id, k)
      BY <2>4, <2>5, <3>1
    <3>3. Append(Blocks("data", req.id, k), Elem("data", req.id)) = Blocks("data", req.id, k + 1)
      BY <2>2, BlocksOne
    <3> QED
      BY <1>1, <2>6, <3>1, <3>2, <3>3
  <2>8. WriteOf(Said \o Tail(prog), l, req.n, variant)
    <3>1. l + 1 \in Nat /\ l + 1 >= 1 /\ (l + 1) - 1 = l
      OBVIOUS
    <3>2. WriteOf(Said \o prog, l + 1, req.n, variant)
      BY <2>4, <2>5
    <3>3. WriteOf(Said \o Tail(prog), (l + 1) - 1, req.n, variant)
      BY <1>2, <1>3, <2>2, <3>1, <3>2, WriteEats
    <3> QED
      BY <3>1, <3>3
  <2>9. PICK q : q = Tail(prog)
    OBVIOUS
  <2>10. Working(q)'
    <3>1. Expected(Said \o q)'
      BY <1>1, <1>5, <2>3, <2>6, <2>8, <2>9 DEF Expected
    <3>2. Pending' = l
      BY <1>1, <2>3, <2>6 DEF Pending
    <3>3. q \in Seq(Mine(req.id)) /\ Len(c2s') <= req.n /\ c2s' = Blocks("data", req.id, Len(c2s'))
      BY <1>2, <2>2, <2>3, <2>5, <2>6, <2>9, TailOf
    <3> QED
      BY <1>1, <1>5, <2>2, <2>3, <2>4, <2>7, <3>1, <3>2, <3>3 DEF Working
  <2>11. q \in Seq(Item) /\ q = prog'
    BY <1>1, <1>3, <2>9
  <2>12. Talk'
    BY <1>1, <2>1, <2>10, <2>11 DEF Talk
  <2> QED
    BY <1>1, <1>9, <2>12 DEF InTouch
<1>10. CASE sock /\ Leftover
  <2>1. ASSUME NEW i \in 1..Len(c2s')
        PROVE  c2s'[i].k # "cmd"
    <3>1. i + 1 \in 1..Len(c2s) /\ i \in 1..Len(Tail(c2s))
      BY <1>1, <1>2, <1>4
    <3> QED
      BY <1>1, <1>4, <1>10, <3>1 DEF Leftover
  <2>2. Leftover'
    BY <1>1, <1>10, <2>1 DEF Leftover
  <2> QED
    BY <1>1, <1>10, <2>2 DEF InTouch
<1> QED
  BY <1>6, <1>7, <1>8, <1>9, <1>10 DEF InTouch

-----------------------------------------------------------------------------
(* The agreement of the two sides *)

\* What put the two sides out of step is not forgotten.
LEMMA CauseStays ==
  ASSUME TypeOK, [Next]_vars, cause' = {}
  PROVE  cause = {}
<1>1. CASE UNCHANGED vars
  BY <1>1 DEF vars
<1>2. CASE ServerStep
  BY <1>2 DEF ServerStep, ServerCommand, ServerSay, ServerEat
<1>3. CASE ReadData \/ ClearRead
  <2>1. PICK n : SockRead(n)
    BY <1>3 DEF ReadData, ClearRead
  <2>2. cause' = cause \/ cause' = cause \cup {"short"}
    BY <2>1 DEF SockRead
  <2> QED
    BY <2>2
<1>4. CASE ListLine
  BY <1>4 DEF ListLine
<1>5. CASE CommandReply \/ LineReply \/ ReadReply \/ SizeReply \/ Trailer \/ WriteReply \/ WriteTrailer \/ ClearLine
  BY <1>5 DEF CommandReply, LineReply, ReadReply, SizeReply, Trailer, WriteReply, WriteTrailer, ClearLine
<1>6. CASE Fill \/ SendCommand \/ WriteBody \/ ClearWrite \/ ClearPing \/ SockFails \/ Killed \/ PeerEnds
  BY <1>6 DEF Fill, SendCommand, WriteBody, ClearWrite, ClearPing, SockWrite, SockFails, Killed, Close, PeerEnds
<1>7. CASE \E op \in Ops : \E n \in Counts(op) : Start(op, n)
  BY <1>7 DEF Start
<1> QED
  BY <1>1, <1>2, <1>3, <1>4, <1>5, <1>6, <1>7 DEF Next, ClientStep

\* Every step keeps the agreement, or adds a cause.
LEMMA AgreementStep ==
  ASSUME TypeOK, Rest, Agreement, [Next]_vars
  PROVE  Agreement'
<1> SUFFICES ASSUME cause' = {}
             PROVE  InTouch'
  BY DEF Agreement
<1>1. cause = {} /\ InTouch
  BY CauseStays DEF Agreement
<1>2. CASE UNCHANGED vars
  <2>1. /\ UNCHANGED <<variant, sock, garbage, gw, gr, at, req, res, c2s, peer, prog, cur, ate, stored, mixed>>
        /\ Said' = Said
    BY <1>2 DEF vars, client, server, Said
  <2> QED
    BY <1>1, <2>1, Untouched
<1>3. CASE ClientStep /\ UNCHANGED variant
  <2>1. CASE Fill \/ SendCommand \/ WriteBody
    BY <1>1, <1>3, <2>1, FillKeeps, SendCommandKeeps, WriteBodyKeeps
  <2>2. CASE CommandReply \/ ListLine \/ LineReply
    BY <1>1, <1>3, <2>2, CommandReplyKeeps, ListLineKeeps, LineReplyKeeps
  <2>3. CASE ReadReply \/ SizeReply \/ ReadData \/ Trailer
    BY <1>1, <1>3, <2>3, ReadReplyKeeps, SizeReplyKeeps, ReadDataKeeps, TrailerKeeps
  <2>4. CASE WriteReply \/ WriteTrailer
    BY <1>1, <1>3, <2>4, WriteReplyKeeps, WriteTrailerKeeps
  <2>5. CASE ClearWrite \/ ClearRead \/ ClearPing \/ ClearLine \/ SockFails
    BY <1>1, <1>3, <2>5, ClearKeeps, ClearReadKeeps, CloseKeeps
  <2> QED
    BY <1>3, <2>1, <2>2, <2>3, <2>4, <2>5 DEF ClientStep
<1>4. CASE ServerStep /\ UNCHANGED variant
  BY <1>1, <1>4, ServerCommandKeeps, ServerSayKeeps, ServerEatKeeps DEF ServerStep
<1>5. CASE (Killed \/ PeerEnds) /\ UNCHANGED variant
  BY <1>1, <1>5, CloseKeeps, PeerEndsKeeps
<1>6. CASE (\E op \in Ops : \E n \in Counts(op) : Start(op, n)) /\ UNCHANGED variant
  BY <1>1, <1>6, StartKeeps
<1> QED
  BY <1>2, <1>3, <1>4, <1>5, <1>6 DEF Next

-----------------------------------------------------------------------------
(* The data of a file are read as data *)

\* What the server is given is no data, and follows what was there.
LEMMA FedMore ==
  ASSUME TypeOK, NEW d \in 0..Len(c2s), DataFirst(d), NEW x \in Seq(Sent), c2s' = c2s \o x,
         \A i \in 1..Len(x) : x[i].k \in {"space", "newline", "ping"}, prog' = prog
  PROVE  d \in 0..Len(c2s') /\ DataFirst(d)'
<1>1. c2s \in Seq(Sent) /\ Len(c2s) \in Nat /\ Len(x) \in Nat /\ d \in Nat /\ d <= Len(c2s)
  BY LenProperties DEF TypeOK
<1>2. /\ Len(c2s') = Len(c2s) + Len(x)
      /\ \A i \in 1..(Len(c2s) + Len(x)) : c2s'[i] = IF i <= Len(c2s) THEN c2s[i] ELSE x[i - Len(c2s)]
  BY <1>1, ConcatProperties
<1>3. ASSUME NEW i \in 1..Len(c2s')
      PROVE  c2s'[i].k \in (IF i <= d THEN {"data"} ELSE {"space", "newline", "ping"})
  <2>0. i \in 1..(Len(c2s) + Len(x))
    BY <1>2
  <2>1. CASE i <= Len(c2s)
    <3>1. i \in 1..Len(c2s) /\ c2s'[i] = c2s[i]
      BY <1>1, <1>2, <2>0, <2>1
    <3> QED
      BY <3>1 DEF DataFirst
  <2>2. CASE ~(i <= Len(c2s))
    <3>1. i - Len(c2s) \in 1..Len(x) /\ c2s'[i] = x[i - Len(c2s)] /\ ~(i <= d)
      BY <1>1, <1>2, <2>0, <2>2
    <3> QED
      BY <3>1
  <2> QED
    BY <2>1, <2>2
<1>4. d \in 0..Len(c2s')
  BY <1>1, <1>2
<1> QED
  BY <1>3, <1>4 DEF DataFirst

\* The command that the server takes was alone in the stream.
LEMMA ServedCommand ==
  ASSUME TypeOK, cause = {}, Served, ServerCommand
  PROVE  Served'
<1>1. peer /\ prog = <<>> /\ Len(prog) = 0
  BY DEF ServerCommand
<1>2. PICK i \in DOMAIN c2s :
       /\ IsLine(c2s, i, {"cmd", "newline"})
       /\ c2s' = SubSeq(c2s, i + 1, Len(c2s))
  BY DEF ServerCommand
<1>3. c2s \in Seq(Sent) /\ Len(c2s) \in Nat /\ i \in 1..Len(c2s) /\ i \in Nat /\ i <= Len(c2s)
  <2>1. c2s \in Seq(Sent) /\ Len(c2s) \in Nat /\ i \in 1..Len(c2s)
    BY LenProperties DEF TypeOK
  <2> QED
    BY <2>1
<1>4. /\ Len(c2s') = Len(c2s) - i
      /\ \A j \in 1..(Len(c2s) - i) : c2s'[j] = c2s[i + j]
  BY <1>2, <1>3, RestOf
<1>5. CASE Len(c2s) = 1
  <2>1. Len(c2s') = 0
    BY <1>3, <1>4, <1>5
  <2>2. 0 \in 0..Len(c2s') /\ DataFirst(0)'
    BY <2>1 DEF DataFirst
  <2> QED
    BY <2>2 DEF Served
<1>6. CASE Len(c2s) # 1
  <2>1. PICK d \in 0..Len(c2s) : DataFirst(d)
    BY <1>1, <1>6 DEF Served
  <2>2. d = 0
    <3>1. Fed(prog, d) => d = 0
      BY <1>1, <1>3 DEF Fed
    <3> QED
      BY <2>1, <3>1 DEF DataFirst
  <2>3. ASSUME NEW j \in 1..Len(c2s')
        PROVE  c2s'[j].k \in {"space", "newline", "ping"}
    <3>1. i + j \in 1..Len(c2s) /\ j \in 1..(Len(c2s) - i) /\ ~(i + j <= 0)
      BY <1>3, <1>4
    <3> QED
      BY <1>4, <2>1, <2>2, <3>1 DEF DataFirst
  <2>4. 0 \in 0..Len(c2s') /\ DataFirst(0)'
    <3>1. Len(c2s') \in Nat /\ \A j \in 1..Len(c2s') : ~(j <= 0)
      BY <1>3, <1>4
    <3> QED
      BY <2>3, <3>1 DEF DataFirst
  <2> QED
    BY <2>4 DEF Served
<1> QED
  BY <1>5, <1>6

\* A line that is printed reads no data.
LEMMA ServedSay ==
  ASSUME TypeOK, cause = {}, Served, ServerSay
  PROVE  Served'
<1>1. peer /\ prog # <<>> /\ Head(prog) # Eat /\ prog' = Tail(prog) /\ c2s' = c2s
  BY DEF ServerSay
<1>2. prog \in Seq(Item) /\ Len(prog) >= 1 /\ Len(prog) \in Nat /\ Len(c2s) \in Nat
  BY <1>1, EmptyIs, LenProperties DEF TypeOK, Item
<1>3. /\ prog[1] # Eat /\ Len(Tail(prog)) = Len(prog) - 1
      /\ \A i \in 1..Len(Tail(prog)) : Tail(prog)[i] = prog[i + 1]
  BY <1>1, <1>2, TailOf
<1>4. PICK d \in 0..Len(c2s) : DataFirst(d)
  BY <1>1 DEF Served
<1>5. Fed(prog, d) => Fed(prog', d)
  <2> SUFFICES ASSUME Fed(prog, d)
               PROVE  Fed(prog', d)
    OBVIOUS
  <2>1. PICK m \in Nat :
          /\ \A i \in 1..Len(prog) : i # m => prog[i] = Eat
          /\ IF m \in 1..Len(prog) THEN d < Len(prog) ELSE d <= Len(prog)
    BY DEF Fed
  <2>2. m = 1 /\ d < Len(prog)
    <3>1. 1 \in 1..Len(prog)
      BY <1>2
    <3> QED
      BY <1>3, <2>1, <3>1
  <2>3. ASSUME NEW i \in 1..Len(prog')
        PROVE  prog'[i] = Eat
    <3>1. i + 1 \in 1..Len(prog) /\ i + 1 # 1 /\ i \in 1..Len(Tail(prog))
      BY <1>1, <1>2, <1>3
    <3> QED
      BY <1>1, <1>3, <2>1, <2>2, <3>1
  <2>4. 0 \in Nat /\ ~(0 \in 1..Len(prog')) /\ d <= Len(prog')
    BY <1>1, <1>2, <1>3, <2>2
  <2> QED
    BY <2>3, <2>4 DEF Fed
<1>6. d \in 0..Len(c2s') /\ DataFirst(d)'
  <2>1. d = 0 \/ Fed(prog', d)
    BY <1>4, <1>5 DEF DataFirst
  <2> QED
    BY <1>1, <1>4, <2>1 DEF DataFirst
<1> QED
  BY <1>6 DEF Served

\* A block that is read was the first in the stream.
LEMMA ServedEat ==
  ASSUME TypeOK, cause = {}, Served, ServerEat
  PROVE  Served'
<1>1. peer /\ prog # <<>> /\ Head(prog) = Eat /\ prog' = Tail(prog) /\ c2s # <<>> /\ c2s' = Tail(c2s)
  BY DEF ServerEat
<1>2. prog \in Seq(Item) /\ Len(prog) >= 1 /\ Len(prog) \in Nat /\ c2s \in Seq(Sent) /\ Len(c2s) \in Nat
      /\ Len(c2s) >= 1
  BY <1>1, EmptyIs, LenProperties DEF TypeOK, Item
<1>3. /\ prog[1] = Eat /\ Len(prog') = Len(prog) - 1
      /\ \A i \in 1..Len(prog') : prog'[i] = prog[i + 1]
  BY <1>1, <1>2, TailOf
<1>4. /\ Len(c2s') = Len(c2s) - 1
      /\ \A i \in 1..Len(c2s') : c2s'[i] = c2s[i + 1]
  BY <1>1, <1>2, TailOf
<1>5. PICK d \in 0..Len(c2s) : DataFirst(d)
  BY <1>1 DEF Served
<1>6. CASE d = 0
  <2>1. ASSUME NEW i \in 1..Len(c2s')
        PROVE  c2s'[i].k \in {"space", "newline", "ping"} /\ ~(i <= 0)
    <3>1. i + 1 \in 1..Len(c2s) /\ ~(i + 1 <= d) /\ ~(i <= 0)
      BY <1>2, <1>4, <1>6
    <3> QED
      BY <1>4, <1>5, <3>1 DEF DataFirst
  <2>2. 0 \in 0..Len(c2s') /\ DataFirst(0)'
    <3>1. 0 \in 0..Len(c2s')
      BY <1>2, <1>4
    <3> QED
      BY <2>1, <3>1 DEF DataFirst
  <2> QED
    BY <2>2 DEF Served
<1>7. CASE d # 0
  <2>1. d - 1 \in Nat /\ d - 1 \in 0..Len(c2s')
    BY <1>2, <1>4, <1>7
  <2>2. ASSUME NEW i \in 1..Len(c2s')
        PROVE  c2s'[i].k \in (IF i <= d - 1 THEN {"data"} ELSE {"space", "newline", "ping"})
    <3>1. i + 1 \in 1..Len(c2s) /\ (i + 1 <= d <=> i <= d - 1)
      BY <1>2, <1>4
    <3>2. c2s[i + 1].k \in (IF i + 1 <= d THEN {"data"} ELSE {"space", "newline", "ping"})
      BY <1>5, <3>1 DEF DataFirst
    <3> QED
      BY <1>4, <3>1, <3>2
  <2>3. PICK m \in Nat :
          /\ \A i \in 1..Len(prog) : i # m => prog[i] = Eat
          /\ IF m \in 1..Len(prog) THEN d < Len(prog) ELSE d <= Len(prog)
    BY <1>5, <1>7 DEF DataFirst, Fed
  <2>4. Fed(prog', d - 1)
    <3>1. CASE m \in 2..Len(prog)
      <4>1. m - 1 \in Nat /\ m - 1 \in 1..Len(prog') /\ d - 1 < Len(prog')
        BY <1>2, <1>3, <2>3, <3>1
      <4>2. ASSUME NEW i \in 1..Len(prog'), i # m - 1
            PROVE  prog'[i] = Eat
        <5>1. i + 1 \in 1..Len(prog) /\ i + 1 # m
          BY <1>2, <1>3, <3>1, <4>2
        <5> QED
          BY <1>3, <2>3, <5>1
      <4> QED
        BY <4>1, <4>2 DEF Fed
    <3>2. CASE ~(m \in 2..Len(prog))
      <4>1. \A i \in 1..Len(prog) : prog[i] = Eat
        BY <1>2, <1>3, <2>3, <3>2
      <4>2. ASSUME NEW i \in 1..Len(prog')
            PROVE  prog'[i] = Eat
        <5>1. i + 1 \in 1..Len(prog)
          BY <1>2, <1>3
        <5> QED
          BY <1>3, <4>1, <5>1
      <4>3. 0 \in Nat /\ ~(0 \in 1..Len(prog')) /\ d - 1 <= Len(prog')
        BY <1>2, <1>3, <2>3
      <4> QED
        BY <4>2, <4>3 DEF Fed
    <3> QED
      BY <3>1, <3>2
  <2>5. DataFirst(d - 1)'
    BY <2>2, <2>4 DEF DataFirst
  <2> QED
    BY <2>1, <2>5 DEF Served
<1> QED
  BY <1>6, <1>7

\* What the client sends comes after the data that are there.
LEMMA ServedSend ==
  ASSUME TypeOK, Rest, InTouch, cause = {}, Served,
         SendCommand \/ WriteBody \/ ClearWrite \/ ClearPing, UNCHANGED variant
  PROVE  Served'
<1>1. peer /\ sock /\ UNCHANGED <<peer, prog, req, cause>>
  BY DEF SendCommand, WriteBody, ClearWrite, ClearPing, SockWrite, server
<1>2. CASE SendCommand
  <2>2. at = "send" /\ Clean
    BY <1>2 DEF SendCommand, InTouch, Gone, Talk, Working, Expected, Unread, Owing, Leftover
  <2>3. c2s = <<>> /\ prog = <<>>
    BY <2>2 DEF Clean
  <2>4. PICK e : e = [k |-> "cmd", op |-> req.op, n |-> req.n, id |-> req.id]
    OBVIOUS
  <2>5. c2s' = <<>> \o <<e>> /\ <<e>> \in Seq(Sent)
    BY <1>2, <2>3, <2>4, BoundsAssumption, SentIs DEF TypeOK, SendCommand, SockWrite
  <2>6. c2s' = <<e>>
    BY <2>5, ConcatEmptySeq
  <2>7. prog' = <<>> /\ Len(c2s') = 1 /\ c2s'[1].k = "cmd"
    BY <1>1, <2>3, <2>4, <2>6
  <2> QED
    BY <2>7 DEF Served
<1>3. CASE WriteBody
  <2>1. at = "body" /\ c2s' = c2s \o Blocks("data", req.id, req.n)
    BY <1>3 DEF WriteBody, SockWrite
  <2>2. Talk
    BY <1>1, <2>1 DEF InTouch, Gone, Unread, Clean, Owing, Leftover
  <2>3. Working(prog)
    BY <1>1, <2>2 DEF Talk
  <2>4. /\ WriteOf(Said \o prog, req.n, req.n, variant) /\ c2s = <<>> /\ req.n > 0
    BY <2>1, <2>3 DEF Working, Expected
  <2>5. /\ req.n \in Nat /\ req.n >= 1 /\ req.id \in Reqs /\ Said \in Seq(Elems) /\ prog \in Seq(Item)
    BY <2>4, BoundsAssumption, SaidIs DEF TypeOK, Item
  <2>6. Fed(prog, req.n)
    BY <2>4, <2>5, WriteFeeds
  <2>7. PICK x : x = Blocks("data", req.id, req.n)
    OBVIOUS
  <2>8. x \in Seq(Mine(req.id)) /\ Len(x) = req.n /\ \A i \in 1..req.n : x[i].k = "data"
    BY <2>5, <2>7, BlocksAre
  <2>9. c2s' = x
    <3>1. <<>> \o x = x
      BY <2>8, ConcatEmptySeq
    <3> QED
      BY <2>1, <2>4, <2>7, <3>1
  <2>10. PICK d \in Nat : d = req.n
    BY <2>5
  <2>11. d \in 0..Len(c2s') /\ DataFirst(d)'
    <3>1. \A i \in 1..Len(c2s') : c2s'[i].k = "data" /\ i <= d
      BY <2>5, <2>8, <2>9, <2>10
    <3>2. Fed(prog', d) /\ d \in 0..Len(c2s')
      BY <1>1, <2>5, <2>6, <2>8, <2>9, <2>10
    <3> QED
      BY <3>1, <3>2 DEF DataFirst
  <2> QED
    BY <2>11 DEF Served
<1>4. CASE ClearWrite \/ ClearPing
  <2>1. at = "clear"
    BY <1>4 DEF ClearWrite, ClearPing
  <2>2. Owing \/ Leftover
    BY <1>1, <2>1 DEF InTouch, Gone, Talk, Working, Expected, Unread, Clean
  <2>3. PICK d \in 0..Len(c2s) : DataFirst(d)
    <3>1. ~(Len(c2s) = 1 /\ c2s[1].k = "cmd")
      <4>1. 1 \in 1..1
        OBVIOUS
      <4> QED
        BY <2>2, <4>1 DEF Owing, Leftover
    <3> QED
      BY <1>1, <3>1 DEF Served
  <2>4. req.id \in Reqs /\ gw \in Nat
    BY BoundsAssumption DEF TypeOK
  <2>5. PICK x \in Seq(Sent) :
          c2s' = c2s \o x /\ \A i \in 1..Len(x) : x[i].k \in {"space", "newline", "ping"}
    <3>1. CASE ClearWrite
      <4>1. PICK x : x = [i \in 1..gw |-> [k |-> "space", id |-> req.id, n |-> 0]]
        OBVIOUS
      <4>2. x \in Seq(Sent)
        BY <2>4, <4>1, SentIs
      <4>3. Len(x) = gw
        BY <2>4, <4>1
      <4>4. \A i \in 1..Len(x) : x[i].k = "space"
        BY <4>1, <4>3
      <4>5. c2s' = c2s \o x
        BY <3>1, <4>1 DEF ClearWrite, SockWrite
      <4> QED
        BY <4>2, <4>4, <4>5
    <3>2. CASE ClearPing
      <4>1. PICK x : x = <<Elem("newline", req.id), Elem("newline", req.id), Elem("ping", req.id)>>
        OBVIOUS
      <4>2. x \in Seq(Sent)
        BY <2>4, <4>1, SentIs
      <4>3. \A i \in 1..Len(x) : x[i].k \in {"space", "newline", "ping"}
        BY <4>1 DEF Elem
      <4>4. c2s' = c2s \o x
        BY <3>2, <4>1 DEF ClearPing, SockWrite
      <4> QED
        BY <4>2, <4>3, <4>4
    <3> QED
      BY <1>4, <3>1, <3>2
  <2>6. d \in 0..Len(c2s') /\ DataFirst(d)'
    BY <1>1, <2>3, <2>5, FedMore
  <2> QED
    BY <2>6 DEF Served
<1> QED
  BY <1>2, <1>3, <1>4

\* Every step keeps the order of the stream.
LEMMA ServedStep ==
  ASSUME TypeOK, Rest, Agreement, Served, [Next]_vars
  PROVE  Served'
<1> SUFFICES ASSUME cause' = {}, peer'
             PROVE  Served'
  BY DEF Served
<1>1. cause = {} /\ InTouch
  BY CauseStays DEF Agreement
<1>2. ASSUME UNCHANGED <<prog, c2s, peer>>
      PROVE  Served'
  BY <1>1, <1>2 DEF Served, DataFirst
<1>3. CASE UNCHANGED vars
  BY <1>2, <1>3 DEF vars, server
<1>4. CASE ServerStep
  BY <1>1, <1>4, ServedCommand, ServedSay, ServedEat DEF ServerStep
<1>5. CASE (SendCommand \/ WriteBody \/ ClearWrite \/ ClearPing) /\ UNCHANGED variant
  BY <1>1, <1>5, ServedSend
<1>6. CASE Fill \/ ReadData \/ ClearRead \/ SockFails \/ Killed
  <2>1. UNCHANGED <<prog, c2s, peer>>
    BY <1>6 DEF Fill, ReadData, ClearRead, SockFails, Killed, Close, server
  <2> QED
    BY <1>2, <2>1
<1>7. CASE CommandReply \/ ListLine \/ LineReply \/ ReadReply \/ SizeReply \/ Trailer \/ WriteReply
             \/ WriteTrailer \/ ClearLine
  <2>1. UNCHANGED <<prog, c2s, peer>>
    BY <1>7 DEF CommandReply, ListLine, LineReply, ReadReply, SizeReply, Trailer, WriteReply, WriteTrailer,
                ClearLine, TakeLine, server
  <2> QED
    BY <1>2, <2>1
<1>8. CASE \E op \in Ops : \E n \in Counts(op) : Start(op, n)
  <2>1. UNCHANGED <<prog, c2s, peer>>
    BY <1>8 DEF Start, server
  <2> QED
    BY <1>2, <2>1
<1>9. CASE PeerEnds
  BY <1>9 DEF PeerEnds
<1> QED
  BY <1>3, <1>4, <1>5, <1>6, <1>7, <1>8, <1>9 DEF Next, ClientStep

-----------------------------------------------------------------------------
(* The theorems *)

Invariant == TypeOK /\ Rest /\ Agreement /\ Served

\* The inductive invariant holds at the start,
LEMMA InvariantInit ==
  ASSUME Init
  PROVE  Invariant
<1>1. TypeOK
  BY TypeInit
<1>2. Said = <<>>
  <2>1. <<>> \in Seq(Elems)
    OBVIOUS
  <2>2. <<>> \o <<>> = <<>>
    BY <2>1, ConcatEmptySeq
  <2> QED
    BY <2>2 DEF Said, Init
<1>3. req.op = "command"
  BY DEF Init, NoReq
<1>4. Rest
  BY <1>3 DEF Init, Rest
<1>5. Agreement
  BY <1>2, <1>3 DEF Init, Agreement, InTouch, Clean
<1>6. Served
  <2>1. Len(c2s) = 0
    BY DEF Init
  <2>2. 0 \in 0..Len(c2s) /\ DataFirst(0)
    BY <2>1 DEF DataFirst
  <2> QED
    BY <2>2 DEF Served
<1> QED
  BY <1>1, <1>4, <1>5, <1>6 DEF Invariant

\* every step keeps it,
LEMMA InvariantStep ==
  ASSUME Invariant, [Next]_vars
  PROVE  Invariant'
BY TypeStep, RestStep, AgreementStep, ServedStep DEF Invariant

\* The variables of both sides keep their types; the line buffer does not
\* overflow, whatever the server prints (sock_readln).
THEOREM TypeCorrect == Spec => []TypeOK
<1>1. Init => TypeOK
  BY TypeInit
<1>2. TypeOK /\ [Next]_vars => TypeOK'
  BY TypeStep
<1> QED
  BY <1>1, <1>2, PTL DEF Spec

\* and so it always holds.
LEMMA Holds == Spec => []Invariant
<1>1. Init => Invariant
  BY InvariantInit
<1>2. Invariant /\ [Next]_vars => Invariant'
  BY InvariantStep
<1> QED
  BY <1>1, <1>2, PTL DEF Spec

\* Without request numbers and message boundaries, an operation takes only
\* what the server wrote for it: as long as no read was short, no listing
\* was left half read and every command was answered as the client expects.
THEOREM OwnReplies == Spec => []RepliesAreOwn
<1>1. Invariant => RepliesAreOwn
  BY DEF Invariant, Agreement, InTouch, RepliesAreOwn
<1> QED
  BY <1>1, Holds, PTL

\* An operation leaves nothing in the stream, or garbage is noted: of a known
\* length, for the server alone, or of an unknown one.
THEOREM NothingLeft == Spec => []NothingLeftBehind
<1>1. Invariant => NothingLeftBehind
  <2> SUFFICES ASSUME Invariant, InStep, at = "idle"
               PROVE  /\ ~garbage => buf = <<>> /\ s2c = <<>> /\ c2s = <<>> /\ prog = <<>>
                      /\ gw > 0 => buf = <<>> /\ s2c = <<>>
    BY DEF NothingLeftBehind
  <2>1. Clean \/ Owing \/ Leftover
    BY DEF Invariant, Agreement, InTouch, InStep, Gone, Talk, Working, Expected, Unread
  <2>2. CASE Clean \/ Owing
    <3>1. Said = <<>> /\ TypeOK
      BY <2>2 DEF Clean, Owing, Invariant
    <3>2. /\ Len(Said) = Len(buf) + Len(s2c) /\ Len(buf) \in Nat /\ Len(s2c) \in Nat
          /\ buf \in Seq(Elems) /\ s2c \in Seq(Elems)
      BY <3>1, SaidIs
    <3>3. Len(Said) = 0
      BY <3>1, EmptySeq
    <3>4. Len(buf) = 0 /\ Len(s2c) = 0
      BY <3>2, <3>3
    <3>5. buf = <<>> /\ s2c = <<>>
      BY <3>2, <3>4, EmptyIs
    <3>6. ~garbage => c2s = <<>> /\ prog = <<>>
      BY <2>2 DEF Clean, Owing
    <3> QED
      BY <3>5, <3>6
  <2>3. CASE Leftover
    BY <2>3 DEF Leftover
  <2> QED
    BY <2>1, <2>2, <2>3
<1> QED
  BY <1>1, Holds, PTL

\* After a full disk clear_garbage pays all that the failed write still reads.
THEOREM GarbageIsPaid == Spec => []GarbageCoversServer
<1>1. Invariant => GarbageCoversServer
  <2> SUFFICES ASSUME Invariant, InStep, at \in {"idle", "clear"}, gw > 0
               PROVE  Len(prog) <= gw + Len(c2s)
    BY DEF GarbageCoversServer
  <2>1. gw \in Nat /\ Len(prog) \in Nat /\ Len(c2s) \in Nat
    BY BoundsAssumption, LenProperties DEF Invariant, TypeOK
  <2>2. Owing
    <3>1. Clean \/ Owing \/ Leftover
      BY DEF Invariant, Agreement, InTouch, InStep, Gone, Talk, Working, Expected, Unread
    <3>2. gw # 0
      BY <2>1
    <3> QED
      BY <3>1, <3>2 DEF Clean, Leftover
  <2>3. Len(prog) <= gw
    BY <2>2 DEF Owing
  <2> QED
    BY <2>1, <2>3
<1> QED
  BY <1>1, Holds, PTL

\* No block of a file reaches the server's loop over commands.
THEOREM DataIsData == Spec => []DataNotExecuted
<1>1. Invariant => DataNotExecuted
  <2> SUFFICES ASSUME Invariant, cause = {}, peer, prog = <<>>, c2s # <<>>
               PROVE  Head(c2s).k # "data"
    BY DEF DataNotExecuted
  <2>1. c2s \in Seq(Sent) /\ Len(c2s) \in Nat /\ Len(c2s) >= 1 /\ Len(prog) = 0
    BY EmptyIs, LenProperties DEF Invariant, TypeOK
  <2>2. Head(c2s) = c2s[1] /\ 1 \in 1..Len(c2s)
    BY <2>1, TailOf
  <2>3. CASE c2s[1].k = "cmd"
    BY <2>2, <2>3
  <2>4. ASSUME NEW d \in 0..Len(c2s), DataFirst(d)
        PROVE  c2s[1].k # "data"
    <3>1. Fed(prog, d) => d = 0
      BY <2>1 DEF Fed
    <3>2. d = 0
      BY <2>4, <3>1 DEF DataFirst
    <3>3. c2s[1].k \in {"space", "newline", "ping"}
      BY <2>2, <2>4, <3>2 DEF DataFirst
    <3> QED
      BY <3>3
  <2>5. c2s[1].k = "cmd" \/ \E d \in 0..Len(c2s) : DataFirst(d)
    BY DEF Invariant, Served
  <2> QED
    BY <2>2, <2>3, <2>4, <2>5
<1> QED
  BY <1>1, Holds, PTL

\* The server has stored all the data of a write that the client reports as
\* done, and has confirmed exactly that.
THEOREM SuccessIsStored == Spec => []WritesStored
<1>1. Invariant => WritesStored
  <2> SUFFICES ASSUME Invariant, cause = {}, at = "idle", res = "ok", req.op = "write"
               PROVE  req.id \in stored
    BY DEF WritesStored
  <2>1. Clean
    BY DEF Invariant, Agreement, InTouch, Gone, Talk, Working, Expected, Unread, Owing, Leftover
  <2> QED
    BY <2>1 DEF Clean
<1> QED
  BY <1>1, Holds, PTL

=============================================================================
