----------------------------- MODULE Connection -----------------------------
(***************************************************************************)
(* The connection of a mount: the kernel side (sock_write, sock_read,      *)
(* sock_readln and clear_garbage of module/proc.c, driven by the           *)
(* operations of module/shell.c) against the remote side, which is a shell *)
(* or a perl script (tool/shell-code.in, tool/perl-code.in), over the two  *)
(* directions of the ssh stream.                                           *)
(*                                                                         *)
(* There are no message boundaries and no request numbers on the stream:   *)
(* client and server agree on who reads what only by counting lines and    *)
(* bytes.  The module is about that agreement.  One conversation runs at a *)
(* time (module ShfsLock), so there is one client here.                    *)
(*                                                                         *)
(* Abstraction of the data.  An element of a stream is a line or a block   *)
(* of raw bytes.  It carries the number of the request it was written for, *)
(* which the program cannot see.  A block may contain newlines, so a       *)
(* reader of lines may take any block for the end of a line.  No line of a *)
(* file name or of a link target looks like a reply.                       *)
(***************************************************************************)
EXTENDS Naturals, Sequences, SequencesExt

CONSTANTS MaxReq,     \* bound: number of requests of a behaviour
          MaxCount,   \* bound: blocks of a read or a write
          MaxLines,   \* bound: lines of a listing
          BufSize     \* READLNBUF_SIZE, in elements

ASSUME BoundsAssumption ==
  /\ MaxReq \in Nat \ {0}
  /\ MaxCount \in Nat \ {0}
  /\ MaxLines \in Nat \ {0}
  /\ BufSize \in Nat \ {0}

VARIABLES
  variant,   \* the remote script of this mount: "shell" or "perl"
  \* the kernel side
  sock,      \* info->sock is not NULL
  garbage,   \* info->garbage
  gw, gr,    \* info->garbage_write, info->garbage_read, in blocks
  buf,       \* info->readlnbuf[0 .. readlnbuf_len]
  at,        \* where the current operation is
  req,       \* the operation: what, blocks to move, its number
  res,       \* result of the last operation: "ok" or "err"
  \* the stream
  c2s, s2c,  \* towards the server, towards the client
  peer,      \* the remote side is there
  \* the remote side
  prog,      \* what the running shell function will still do
  cur,       \* the command it runs
  ate,       \* what it read from the stream as data
  \* history
  stored,    \* numbers of the writes stored whole and confirmed
  mixed,     \* the operation took something written for another one
  cause      \* why the two sides may be out of step

client == <<sock, garbage, gw, gr, buf>>
server == <<prog, cur, ate, stored>>
vars == <<variant, client, at, req, res, c2s, s2c, peer, server, mixed, cause>>

Reqs == 0..MaxReq
Ops == {"command", "list", "stat", "read", "sread", "write", "readlink", "statfs"}
Replies == {"PRELIM", "COMPLETE", "NOTEMPTY", "EPERM", "ENOSPC", "ENOENT", "ERROR"}

Elem(k, id) == [k |-> k, id |-> id, n |-> 0]
Blocks(k, id, n) == [i \in 1..n |-> Elem(k, id)]
Elems == [k : Replies \cup {"entry", "blank", "size", "data"}, id : Reqs, n : 0..MaxCount]
Sent == [k : {"data", "space", "newline", "ping"}, id : Reqs, n : {0}]
          \cup [k : {"cmd"}, op : Ops, id : Reqs, n : 0..MaxCount]
Eat == [k |-> "eat"]

Causes == {"short", "abandoned", "blank", "unanswered", "unsized"}

TypeOK ==
  /\ variant \in {"shell", "perl"}
  /\ sock \in BOOLEAN /\ garbage \in BOOLEAN /\ peer \in BOOLEAN
  /\ gw \in 0..MaxCount /\ gr \in 0..MaxCount
  /\ buf \in Seq(Elems) /\ Len(buf) <= BufSize
  /\ at \in {"idle", "clear", "clear_wait", "send", "reply", "size", "data",
             "body", "trailer"}
  /\ req \in [op : Ops, n : 0..MaxCount, id : Reqs]
  /\ res \in {"ok", "err"}
  /\ c2s \in Seq(Sent) /\ s2c \in Seq(Elems)
  /\ prog \in Seq(Elems \cup {Eat})
  /\ cur \in [op : Ops, n : 0..MaxCount, id : Reqs]
  /\ ate \in Seq(Sent)
  /\ stored \subseteq Reqs
  /\ mixed \in BOOLEAN
  /\ cause \subseteq Causes

NoReq == [op |-> "command", n |-> 0, id |-> 0]

Init ==
  /\ variant \in {"shell", "perl"}
  /\ sock = TRUE /\ garbage = FALSE /\ gw = 0 /\ gr = 0 /\ buf = <<>>
  /\ at = "idle" /\ req = NoReq /\ res = "ok"
  /\ c2s = <<>> /\ s2c = <<>> /\ peer = TRUE
  /\ prog = <<>> /\ cur = NoReq /\ ate = <<>>
  /\ stored = {} /\ mixed = FALSE /\ cause = {}

-----------------------------------------------------------------------------
(* The shell functions: what each may print (an element) and read (Eat)    *)
(* for request number id.  The choice is what the remote files decide.     *)

Say(ks, id) == [i \in DOMAIN ks |-> Elem(ks[i], id)]
Eats(n) == [i \in 1..n |-> Eat]

\* s_mkdir, s_rmdir (whose last branch echoes a misspelt variable: a blank
\* line), s_mv, s_rm, s_creat, s_ln, s_sln, s_chmod, s_chown, s_chgrp,
\* s_trunc, s_settime, s_open
s_command(id) ==
  {Say(<<k>>, id) : k \in {"COMPLETE", "NOTEMPTY", "EPERM", "ENOENT", "blank"}}

\* A listing has a blank line where a file name has two newlines in a row.
Listings(id, max) ==
  {Say(ks, id) : ks \in BoundedSeq({"entry", "blank"}, max)}

s_lsdir(id) ==
  {l \o Say(<<k>>, id) : l \in Listings(id, MaxLines), k \in {"COMPLETE", "EPERM", "ENOENT"}}

\* Mutant: the first test of s_stat does not end the function.
s_statGoesOn(id) ==
  {l \o Say(<<"COMPLETE">>, id) : l \in Listings(id, 1) \ {<<>>}}
    \cup {Say(ks, id) : ks \in {<<"ENOENT", "EPERM">>, <<"EPERM">>}}

s_stat(id) ==
  {l \o Say(<<"COMPLETE">>, id) : l \in Listings(id, 1) \ {<<>>}}
    \cup {Say(<<k>>, id) : k \in {"ENOENT", "EPERM"}}

\* dd conv=sync, or as many zeros as were asked for
s_read(id, n) ==
  {Say(<<"PRELIM">>, id) \o Blocks("data", id, n) \o Say(<<"COMPLETE">>, id)}

Size(id, x) == <<[k |-> "size", id |-> id, n |-> x]>>

\* Without its directory under /tmp it returns and says nothing.
s_sread(id, n) ==
  {<<>>} \cup {Say(<<k>>, id) : k \in {"EPERM", "ENOENT"}} \cup
  IF n = 0 THEN {Say(<<"PRELIM", "COMPLETE">>, id)}
  ELSE {Say(<<"PRELIM">>, id) \o Size(id, x) \o Blocks("data", id, x)
          \o Say(<<"COMPLETE">>, id) : x \in 0..n}

\* Mutant: nothing is dropped after a write that failed.
s_writeDropsNothing(id, n) ==
  {Say(<<"PRELIM">>, id) \o Eats(k) \o Say(<<"ENOSPC">>, id) : k \in 0..n}

\* Mutant: head -c takes one block less.
s_writeShort(id, n) ==
  {Say(<<"PRELIM">>, id) \o Eats(n - 1) \o Say(<<"COMPLETE">>, id)}

\* The data are taken, then stored, or refused; where taking them fails
\* after k blocks (a full disk), all n are read once more and dropped.  A
\* file that cannot be written is answered by silence if head is of no use.
s_write(id, n) ==
  {<<>>}
  \cup {Say(<<"PRELIM">>, id) \o Eats(n) \o Say(<<k>>, id) : k \in {"COMPLETE", "ENOSPC", "EPERM"}}
  \cup {Say(<<"PRELIM">>, id) \o Eats(k) \o Say(<<"ENOSPC">>, id) \o Eats(n) : k \in 0..n}

\* The target of the link is printed as it is: with a newline in it, it is
\* two lines or more.
Targets(id) == Listings(id, MaxLines + 1) \ {<<>>}

s_readlink(id) ==
  {l \o Say(<<"COMPLETE">>, id) : l \in Targets(id)}
    \cup {Say(<<k>>, id) : k \in {"COMPLETE", "EPERM"}}

s_statfs(id) == {Say(<<"entry", "COMPLETE">>, id)}

ShellPrograms(c) ==
  CASE c.op = "command" -> s_command(c.id)
    [] c.op = "list" -> s_lsdir(c.id)
    [] c.op = "stat" -> s_stat(c.id)
    [] c.op = "read" -> s_read(c.id, c.n)
    [] c.op = "sread" -> s_sread(c.id, c.n)
    [] c.op = "write" -> s_write(c.id, c.n)
    [] c.op = "readlink" -> s_readlink(c.id)
    [] c.op = "statfs" -> s_statfs(c.id)

-----------------------------------------------------------------------------
(* The functions of the perl script, where they differ *)

\* mkdir, rename, unlink and the other system calls: one line each
p_command(id) == {Say(<<k>>, id) : k \in {"COMPLETE", "NOTEMPTY", "EPERM", "ENOENT"}}

\* ls may have printed lines before it fails.
p_lsdir(id) ==
  {Say(<<"ENOENT">>, id)}
    \cup {l \o Say(<<k>>, id) : l \in Listings(id, MaxLines), k \in {"COMPLETE", "EPERM"}}

p_stat(id) ==
  {Say(<<k>>, id) : k \in {"ENOENT", "EPERM"}}
    \cup {l \o Say(<<k>>, id) : l \in Listings(id, 1) \ {<<>>}, k \in {"COMPLETE", "EPERM"}}

\* A file that is not there is answered by COMPLETE alone.
p_failed(id) == {Say(<<k>>, id) : k \in {"EPERM", "COMPLETE", "ERROR"}}

p_read(id, n) == p_failed(id) \cup s_read(id, n)

\* The size has no newline: the bytes of the file follow on the same line.
p_sread(id, n) ==
  p_failed(id) \cup
  {Say(<<"PRELIM", "data">>, id) \o Blocks("data", id, x) \o Say(<<"COMPLETE">>, id) : x \in 0..n}

\* All the data are read before the first byte is stored; what cannot be
\* stored is answered by ERROR, and nothing is dropped.
p_write(id, n) ==
  {Say(<<k>>, id) : k \in {"EPERM", "COMPLETE"}}
    \cup {Say(<<"PRELIM">>, id) \o Eats(n) \o Say(<<k>>, id) : k \in {"COMPLETE", "ERROR"}}

p_readlink(id) ==
  {l \o Say(<<"COMPLETE">>, id) : l \in Targets(id)} \cup {Say(<<"EPERM">>, id)}

PerlPrograms(c) ==
  CASE c.op = "command" -> p_command(c.id)
    [] c.op = "list" -> p_lsdir(c.id)
    [] c.op = "stat" -> p_stat(c.id)
    [] c.op = "read" -> p_read(c.id, c.n)
    [] c.op = "sread" -> p_sread(c.id, c.n)
    [] c.op = "write" -> p_write(c.id, c.n)
    [] c.op = "readlink" -> p_readlink(c.id)
    [] c.op = "statfs" -> s_statfs(c.id)

Programs(c) == IF variant = "perl" THEN PerlPrograms(c) ELSE ShellPrograms(c)

\* What the remote side makes of a line that is no command: the perl script
\* knows an empty line from an unknown command, the shell is silent.
OtherLine(line, id) ==
  IF variant = "perl" /\ \E i \in DOMAIN line : line[i].k \notin {"space", "newline"}
  THEN {Say(<<"ERROR">>, id)}
         \cup IF \A i \in DOMAIN line : line[i].k \in {"space", "newline", "data"}
              THEN {<<>>} ELSE {}
  ELSE {<<>>}

\* The client will wait for something that does not come: nothing is printed;
\* nothing after the two lines of a read of no bytes, which it takes for the
\* first reply and the size; or the data it notes as garbage after a read the
\* perl script refuses with COMPLETE or ERROR.
Unanswered(c, p) ==
  \/ p = <<>>
  \/ c.op = "sread" /\ p = Say(<<"PRELIM", "COMPLETE">>, c.id)
  \/ c.op \in {"read", "sread"} /\ Head(p).k \in {"COMPLETE", "ERROR"}

\* The client cannot tell the size from the data.
Unsized(c, p) == variant = "perl" /\ c.op = "sread" /\ Head(p).k = "PRELIM"

CausesOf(c, p) ==
  (IF Unanswered(c, p) THEN {"unanswered"} ELSE {})
    \cup (IF p # <<>> /\ Unsized(c, p) THEN {"unsized"} ELSE {})

-----------------------------------------------------------------------------
(* The remote script *)

\* Its read loop takes the stream up to a newline.
IsLine(s, i, kinds) ==
  /\ \A j \in 1..(i - 1) : s[j].k \notin kinds
  /\ s[i].k \in kinds \cup {"data"}

\* A command that stands alone on its line is run.
ServerCommand ==
  /\ peer
  /\ prog = <<>>
  /\ \E i \in DOMAIN c2s :
       /\ IsLine(c2s, i, {"cmd", "newline"})
       /\ c2s' = SubSeq(c2s, i + 1, Len(c2s))
       /\ IF i = 1 /\ c2s[1].k = "cmd"
          THEN LET c == [op |-> c2s[1].op, n |-> c2s[1].n, id |-> c2s[1].id] IN
               /\ cur' = c
               /\ prog' \in Programs(c)
               /\ cause' = cause \cup CausesOf(c, prog')
          ELSE /\ prog' \in OtherLine(SubSeq(c2s, 1, i), cur.id)
               /\ UNCHANGED <<cur, cause>>
  /\ ate' = <<>>
  /\ UNCHANGED <<client, at, req, res, s2c, peer, stored, mixed>>

ServerSay ==
  /\ peer
  /\ prog # <<>> /\ Head(prog) # Eat
  /\ s2c' = Append(s2c, Head(prog))
  /\ prog' = Tail(prog)
  /\ stored' = IF /\ cur.op = "write"
                  /\ Head(prog).k = "COMPLETE"
                  /\ ate = Blocks("data", cur.id, cur.n)
               THEN stored \cup {cur.id} ELSE stored
  /\ UNCHANGED <<client, at, req, res, c2s, peer, cur, ate, mixed, cause>>

\* head and dd read the stream without regard to lines.
ServerEat ==
  /\ peer
  /\ prog # <<>> /\ Head(prog) = Eat
  /\ c2s # <<>>
  /\ ate' = Append(ate, Head(c2s))
  /\ c2s' = Tail(c2s)
  /\ prog' = Tail(prog)
  /\ UNCHANGED <<client, at, req, res, s2c, peer, cur, stored, mixed, cause>>

\* ssh or the remote shell ends: what was sent can still be read.
PeerEnds ==
  /\ peer
  /\ peer' = FALSE
  /\ prog' = <<>>
  /\ UNCHANGED <<client, at, req, res, c2s, s2c, cur, ate, stored, mixed, cause>>

-----------------------------------------------------------------------------
(* The kernel side: sock_readln, sock_read, sock_write *)

\* A line can be taken from the buffer: up to its i-th element.
LineAt(i) == IsLine(buf, i, Replies \cup {"entry", "blank", "size"})

\* What reply() and the parsers see of it: raw bytes before it or in it
\* make it unreadable.
LineKind(i) == IF i = 1 /\ buf[1].k # "data" THEN buf[1].k ELSE "junk"

OwnElems(s) == \A i \in DOMAIN s : s[i].id = req.id

TakeLine(i) ==
  /\ LineAt(i)
  /\ buf' = SubSeq(buf, i + 1, Len(buf))
  /\ mixed' = (mixed \/ ~OwnElems(SubSeq(buf, 1, i)))
  /\ UNCHANGED <<sock, c2s, s2c, peer, server>>

ReadingLine == at \in {"clear_wait", "reply", "size", "trailer"}
NoLine == \A i \in DOMAIN buf : buf[i].k = "data"

\* Mutant: the room left in the buffer is off by one.
FillTooMuch ==
  /\ sock
  /\ ReadingLine
  /\ NoLine
  /\ \E m \in 1..Len(s2c) :
       /\ Len(buf) + m <= BufSize + 1
       /\ buf' = buf \o SubSeq(s2c, 1, m)
       /\ s2c' = SubSeq(s2c, m + 1, Len(s2c))
  /\ UNCHANGED <<sock, garbage, gw, gr, at, req, res, c2s, peer, server, mixed, cause>>

\* sock_readln fetches whatever is there, as far as the buffer has room.
Fill ==
  /\ sock
  /\ ReadingLine
  /\ NoLine
  /\ \E m \in 1..Len(s2c) :
       /\ Len(buf) + m <= BufSize
       /\ buf' = buf \o SubSeq(s2c, 1, m)
       /\ s2c' = SubSeq(s2c, m + 1, Len(s2c))
  /\ UNCHANGED <<sock, garbage, gw, gr, at, req, res, c2s, peer, server, mixed, cause>>

\* sock_read of n blocks: first the buffer, then one read of the socket,
\* which may bring less than is missing; the caller is told n either way.
SockRead(n) ==
  LET b == IF n < Len(buf) THEN n ELSE Len(buf) IN
  \E m \in IF b = n THEN {0} ELSE 1..(n - b) :
    /\ m <= Len(s2c)
    /\ buf' = SubSeq(buf, b + 1, Len(buf))
    /\ s2c' = SubSeq(s2c, m + 1, Len(s2c))
    /\ mixed' = (mixed \/ ~OwnElems(SubSeq(buf, 1, b)) \/ ~OwnElems(SubSeq(s2c, 1, m)))
    /\ cause' = IF b + m < n THEN cause \cup {"short"} ELSE cause

SockWrite(s) ==
  /\ sock
  /\ peer
  /\ c2s' = c2s \o s
  /\ UNCHANGED <<sock, buf, s2c, peer, server, mixed, cause>>

Finish(r) == at' = "idle" /\ res' = r

\* The client sleeps in a read of the socket.
Blocked ==
  /\ s2c = <<>>
  /\ \/ ReadingLine /\ NoLine
     \/ at = "data" /\ Len(buf) < req.n
     \/ at = "clear" /\ gw = 0 /\ Len(buf) < gr
Writing == at \in {"send", "body"} \/ (at = "clear" /\ (gw > 0 \/ gr = 0))

\* The socket is closed and stays so; the counts of garbage that set_garbage
\* notes are not looked at any more.
Close ==
  /\ sock
  /\ sock' = FALSE
  /\ garbage' = TRUE
  /\ Finish("err")
  /\ UNCHANGED <<gw, gr, buf, req, c2s, s2c, peer, server, mixed, cause>>

\* End of file, or EPIPE.
SockFails == ~peer /\ (Blocked \/ Writing) /\ Close

\* SIGKILL; other signals are blocked during the transfers.
Killed == Blocked /\ Close

-----------------------------------------------------------------------------
(* The operations of shell.c.  Each writes its command; the first          *)
(* sock_write of an operation clears what an earlier one left behind.      *)

Start(op, n) ==
  /\ at = "idle"
  /\ req.id < MaxReq
  /\ req' = [op |-> op, n |-> n, id |-> req.id + 1]
  /\ mixed' = FALSE
  /\ IF sock THEN /\ at' = IF garbage THEN "clear" ELSE "send"
                  /\ UNCHANGED res
     ELSE Finish("err")
  /\ UNCHANGED <<client, c2s, s2c, peer, server, cause>>

SendCommand ==
  /\ at = "send"
  /\ SockWrite(<<[k |-> "cmd", op |-> req.op, n |-> req.n, id |-> req.id]>>)
  /\ at' = "reply"
  /\ UNCHANGED <<garbage, gw, gr, req, res>>

\* Mutant: REP_NOTEMPTY is taken for an intermediate reply.
CommandReplyWaits ==
  /\ at = "reply" /\ req.op = "command"
  /\ \E i \in DOMAIN buf :
       /\ TakeLine(i)
       /\ IF LineKind(i) = "NOTEMPTY" THEN UNCHANGED <<at, res>>
          ELSE Finish(IF LineKind(i) = "COMPLETE" THEN "ok" ELSE "err")
  /\ UNCHANGED <<gw, garbage, gr, req, cause>>

\* do_command.  REP_NOTEMPTY (1) is a success too.
CommandReply ==
  /\ at = "reply" /\ req.op = "command"
  /\ \E i \in DOMAIN buf :
       /\ TakeLine(i)
       /\ Finish(IF LineKind(i) \in {"COMPLETE", "NOTEMPTY"} THEN "ok" ELSE "err")
  /\ UNCHANGED <<gw, garbage, gr, req, cause>>

\* do_ls, for readdir and stat: lines until a reply ends them.  An empty
\* line ends them too, with success, and so does shfs_fill_cache when the
\* directory page cache failed and the caller's buffer is full: what is
\* left of the listing stays in the stream.
ListLine ==
  /\ at = "reply" /\ req.op \in {"list", "stat"}
  /\ \E i \in DOMAIN buf :
       /\ TakeLine(i)
       /\ \/ /\ LineKind(i) \in {"COMPLETE", "EPERM", "ENOENT", "ERROR"}
             /\ Finish(IF LineKind(i) = "COMPLETE" THEN "ok" ELSE "err")
             /\ UNCHANGED cause
          \/ /\ LineKind(i) = "blank"
             /\ Finish("ok")
             /\ cause' = cause \cup {"blank"}
          \/ /\ LineKind(i) = "entry" /\ req.op = "list"
             /\ Finish("ok")
             /\ cause' = cause \cup {"abandoned"}
          \/ /\ LineKind(i) \notin {"COMPLETE", "EPERM", "ENOENT", "ERROR", "blank"}
             /\ UNCHANGED <<at, res, cause>>
  /\ UNCHANGED <<gw, garbage, gr, req>>

\* shell_read up to the data; a reply it does not know makes it note count
\* blocks of garbage.
ReadReply ==
  /\ at = "reply" /\ req.op \in {"read", "sread"}
  /\ \E i \in DOMAIN buf :
       /\ TakeLine(i)
       /\ \/ /\ LineKind(i) = "PRELIM"
             /\ at' = IF req.op = "sread" THEN "size" ELSE "data"
             /\ UNCHANGED <<res, garbage, gr>>
          \/ /\ LineKind(i) # "PRELIM"
             /\ Finish("err")
             /\ IF LineKind(i) \in {"EPERM", "ENOENT"} THEN UNCHANGED <<garbage, gr>>
                ELSE garbage' = TRUE /\ gr' = req.n
  /\ UNCHANGED <<gw, req, cause>>

\* A line that is no number counts as zero; raw bytes may look like one.
SizeReply ==
  /\ at = "size"
  /\ \E i \in DOMAIN buf :
       /\ TakeLine(i)
       /\ \E x \in CASE LineKind(i) = "size" -> {buf[i].n}
                     [] LineKind(i) = "junk" -> 0..MaxCount
                     [] OTHER -> {0} :
            req' = [req EXCEPT !.n = x]
  /\ at' = "data"
  /\ UNCHANGED <<gw, garbage, gr, res, cause>>

\* Mutant: shell_read returns with its data and leaves the last reply.
ReadDataOnly ==
  /\ at = "data"
  /\ SockRead(req.n)
  /\ Finish("ok")
  /\ UNCHANGED <<sock, garbage, gw, gr, req, c2s, peer, server>>

ReadData ==
  /\ at = "data"
  /\ SockRead(req.n)
  /\ at' = "trailer"
  /\ UNCHANGED <<sock, garbage, gw, gr, req, res, c2s, peer, server>>

\* The reply after the data of a read, of a write, and after the one line
\* of readlink and statfs; the last two note garbage, of no known length:
\* what is left of a link target of several lines, and its reply, are for
\* clear_garbage to read.
Trailer ==
  /\ at = "trailer"
  /\ \E i \in DOMAIN buf :
       /\ TakeLine(i)
       /\ Finish(IF LineKind(i) = "COMPLETE" THEN "ok" ELSE "err")
       /\ garbage' = (/\ req.op \in {"readlink", "statfs"}
                      /\ LineKind(i) \notin {"COMPLETE", "EPERM"})
  /\ req.op # "write"
  /\ UNCHANGED <<gw, gr, req, cause>>

LineReply ==
  /\ at = "reply" /\ req.op \in {"readlink", "statfs"}
  /\ \E i \in DOMAIN buf :
       /\ TakeLine(i)
       /\ IF req.op = "readlink" /\ LineKind(i) \in {"COMPLETE", "EPERM"}
          THEN Finish("err") ELSE at' = "trailer" /\ UNCHANGED res
  /\ UNCHANGED <<gw, garbage, gr, req, cause>>

\* shell_write: nothing but REP_PRELIM makes it send its data.
WriteReply ==
  /\ at = "reply" /\ req.op = "write"
  /\ \E i \in DOMAIN buf :
       /\ TakeLine(i)
       /\ IF LineKind(i) = "PRELIM" THEN at' = "body" /\ UNCHANGED res
          ELSE Finish("err")
  /\ UNCHANGED <<gw, garbage, gr, req, cause>>

WriteBody ==
  /\ at = "body"
  /\ SockWrite(Blocks("data", req.id, req.n))
  /\ at' = "trailer"
  /\ UNCHANGED <<garbage, gw, gr, req, res>>

\* Mutant: one block less is owed after a full disk.
WriteTrailerOwesLess ==
  /\ at = "trailer" /\ req.op = "write"
  /\ \E i \in DOMAIN buf :
       /\ TakeLine(i)
       /\ Finish(IF LineKind(i) = "COMPLETE" THEN "ok" ELSE "err")
       /\ IF LineKind(i) = "ENOSPC" THEN garbage' = TRUE /\ gw' = req.n - 1
          ELSE UNCHANGED <<garbage, gw>>
  /\ UNCHANGED <<gr, req, cause>>

\* On a full disk the server reads as many bytes again: they are owed.
WriteTrailer ==
  /\ at = "trailer" /\ req.op = "write"
  /\ \E i \in DOMAIN buf :
       /\ TakeLine(i)
       /\ Finish(IF LineKind(i) = "COMPLETE" THEN "ok" ELSE "err")
       /\ IF LineKind(i) = "ENOSPC" THEN garbage' = TRUE /\ gw' = req.n
          ELSE UNCHANGED <<garbage, gw>>
  /\ UNCHANGED <<gr, req, cause>>

-----------------------------------------------------------------------------
(* clear_garbage *)

\* The spaces the server is still owed.
ClearWrite ==
  /\ at = "clear" /\ gw > 0
  /\ SockWrite([i \in 1..gw |-> [k |-> "space", id |-> req.id, n |-> 0]])
  /\ gw' = 0
  /\ UNCHANGED <<at, garbage, gr, req, res>>

\* The bytes a read left in the stream.
ClearRead ==
  /\ at = "clear" /\ gw = 0 /\ gr > 0
  /\ SockRead(gr)
  /\ gr' = 0
  /\ UNCHANGED <<sock, at, garbage, gw, req, res, c2s, peer, server>>

\* Two newlines and s_ping, without a newline of its own: the remote shell
\* has no whole command.
ClearPing ==
  /\ at = "clear" /\ gw = 0 /\ gr = 0
  /\ SockWrite(<<Elem("newline", req.id), Elem("newline", req.id), Elem("ping", req.id)>>)
  /\ garbage' = FALSE
  /\ at' = "clear_wait"
  /\ UNCHANGED <<gw, gr, req, res>>

\* Lines are read until the answer to the ping.
ClearLine ==
  /\ at = "clear_wait"
  /\ \E i \in DOMAIN buf :
       /\ LineAt(i)
       /\ buf' = SubSeq(buf, i + 1, Len(buf))
  /\ UNCHANGED <<sock, garbage, gw, gr, at, req, res, c2s, s2c, peer, server, mixed, cause>>

-----------------------------------------------------------------------------

Counts(op) == IF op \in {"read", "write"} THEN 1..MaxCount
              ELSE IF op = "sread" THEN 0..MaxCount ELSE {0}

ClientStep ==
  \/ Fill \/ SendCommand
  \/ CommandReply \/ ListLine \/ LineReply
  \/ ReadReply \/ SizeReply \/ ReadData \/ Trailer
  \/ WriteReply \/ WriteBody \/ WriteTrailer
  \/ ClearWrite \/ ClearRead \/ ClearPing \/ ClearLine
  \/ SockFails

ServerStep == ServerCommand \/ ServerSay \/ ServerEat

Next ==
  /\ \/ \E op \in Ops : \E n \in Counts(op) : Start(op, n)
     \/ ClientStep \/ ServerStep
     \/ Killed \/ PeerEnds
  /\ UNCHANGED variant

\* The two sides run; nobody has to call, to kill or to hang up.
Fairness ==
  /\ WF_vars(ClientStep /\ UNCHANGED variant)
  /\ WF_vars(ServerStep /\ UNCHANGED variant)

Spec == Init /\ [][Next]_vars /\ Fairness

-----------------------------------------------------------------------------
(* Correctness *)

InStep == cause = {} /\ sock /\ peer

\* While none of the known causes has put the two sides out of step, an
\* operation takes only what the server wrote for it.
RepliesAreOwn == cause = {} => ~mixed

\* Between two operations nothing is left in the stream or in the line
\* buffer, and no shell function runs on, unless garbage is noted; garbage
\* of a known length is the server's to read, with no line for the client.
NothingLeftBehind ==
  InStep /\ at = "idle" =>
    /\ ~garbage => buf = <<>> /\ s2c = <<>> /\ c2s = <<>> /\ prog = <<>>
    /\ gw > 0 => buf = <<>> /\ s2c = <<>>

\* The spaces clear_garbage will send cover what the failed write still
\* makes the server read: the newlines and the ping after them are not
\* swallowed as data.
GarbageCoversServer ==
  InStep /\ at \in {"idle", "clear"} /\ gw > 0 => Len(prog) <= gw + Len(c2s)

\* The bytes of a file are never taken for a command line.
DataNotExecuted ==
  cause = {} /\ peer /\ prog = <<>> /\ c2s # <<>> => Head(c2s).k # "data"

\* A write that reports success was stored whole.
WritesStored ==
  cause = {} /\ at = "idle" /\ res = "ok" /\ req.op = "write" => req.id \in stored

\* Both sides run, so an operation ends; clearing garbage is a thing of its
\* own (GarbageCleared).
OperationsEnd ==
  at # "idle" ~> (at = "idle" \/ cause # {} \/ at = "clear_wait")

\* A read that got less than it asked for disturbs no later operation: the
\* stream is in step again when shell_read returns.
ShortReadsHarmless == cause \subseteq {"short"} => ~mixed

\* Recovery from a full disk and other errors: clear_garbage comes to an end
\* and the operation goes on.
GarbageCleared == at = "clear_wait" ~> at \in {"send", "idle"}

=============================================================================
