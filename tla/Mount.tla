------------------------------- MODULE Mount -------------------------------
(***************************************************************************)
(* shfsmount and shfsumount (tool/shfsmount.c, tool/proto.c,               *)
(* tool/shfsumount.c) with the part of the kernel they talk to             *)
(* (parse_options, shfs_read_super, shfs_put_super).                       *)
(*                                                                         *)
(* Every process of the two programs runs once: it connects to the remote  *)
(* side, mounts or unmounts, and brings /etc/mtab up to date under the     *)
(* lock file mtab~.  It may be killed between any two steps.  A persistent *)
(* shfsmount stays and waits for its ssh to end, connects again and hands  *)
(* the new socket to the kernel by an ioctl.                               *)
(*                                                                         *)
(* Abstraction of the data.  A line of the remote side is what the parsers *)
(* make of it; an entry of mtab is its mount point and who wrote it; of    *)
(* the mount options those are kept whose handling can go wrong.  What     *)
(* nobody looks at any more is put back to its first value.                *)
(***************************************************************************)
EXTENDS Integers, Sequences, SequencesExt

CONSTANTS Mounter,     \* processes of shfsmount
          Unmounter,   \* processes of shfsumount
          Dir,         \* mount points
          Opts         \* the options each shfsmount may be given

ASSUME ProcessesAssumption == Mounter \cap Unmounter = {} /\ Dir # {}

Protos == {"perl", "shell"}
Options == [type : Protos \cup {"any"}, want : SUBSET {"stable", "preserve"},
            persistent : BOOLEAN, nomtab : BOOLEAN, cachesize : Nat]

\* parse_options takes at most five digits for cachesize.
ASSUME OptionsAssumption ==
  \A p \in Mounter : Opts[p] # {} /\ \A o \in Opts[p] : o \in Options /\ o.cachesize <= 99999

VARIABLES
  pc, dir,      \* of every process: where it is, its mount point
  opt,          \* of a shfsmount: its options
  proto,        \* the server variant being tested or selected
  toSh, out,    \* lines on the way to the remote side, and back
  runs,         \* what the remote shell has become
  ssh,          \* the ssh of the current connection runs
  fd,           \* shfsmount holds its end of the current connection
  again,        \* the current connection is the second one
  held,         \* the kernel holds the end of the first one (info->sock)
  size,         \* info->fcache_size, in pages
  mounts,       \* what is mounted on a directory, the topmost last
  mtab, tmp,    \* entries of /etc/mtab and of /etc/mtab.tmp
  lock,         \* /etc/mtab~ exists
  apart,        \* "yes": mtab and the mounts may differ; "left": and mtab~
                \* may have been left behind
  cut           \* entries were lost on the way to the mtab.tmp of this update

connection == <<proto, toSh, out, runs, ssh, fd, again>>
kernel == <<held, size, mounts>>
files == <<mtab, tmp, lock>>
vars == <<pc, dir, opt, connection, kernel, files, apart, cut>>

Process == Mounter \cup Unmounter
Lines == [k : {"text", "look", "okword", "failed", "200"}, caps : {{}}]
           \cup [k : {"ok"}, caps : SUBSET {"stable", "preserve"}]
Commands == {"test perl", "test shell", "code perl", "code shell", "s_init"}
Entry == [dir : Dir, by : Mounter]
Section == {"open", "add", "mode", "copy", "rename", "unlink"}

Stage == Section \cup {"start", "test", "code", "init", "mount", "hung",
                       "lock", "stay", "reap", "ioctl", "done"}

TypeOK ==
  /\ pc \in [Process -> Stage]
  /\ dir \in [Process -> Dir]
  /\ opt \in [Mounter -> Options]
  /\ proto \in [Mounter -> Protos]
  /\ toSh \in [Mounter -> Seq(Commands)] /\ out \in [Mounter -> Seq(Lines)]
  /\ runs \in [Mounter -> {"sh", "perl", "shell", "perl ready", "shell ready"}]
  /\ ssh \in [Mounter -> BOOLEAN] /\ fd \in [Mounter -> BOOLEAN]
  /\ again \in [Mounter -> BOOLEAN] /\ held \in [Mounter -> BOOLEAN]
  /\ size \in [Mounter -> Nat]
  /\ mounts \in [Dir -> Seq(Mounter)]
  /\ mtab \subseteq Entry /\ tmp \subseteq Entry
  /\ lock \in BOOLEAN
  /\ apart \in {"no", "yes", "left"}
  /\ cut \in BOOLEAN

Init ==
  /\ pc = [p \in Process |-> "start"]
  /\ dir = [p \in Process |-> CHOOSE d \in Dir : TRUE]
  /\ opt = [p \in Mounter |-> CHOOSE o \in Opts[p] : TRUE]
  /\ proto = [p \in Mounter |-> "perl"]
  /\ toSh = [p \in Mounter |-> <<>>] /\ out = [p \in Mounter |-> <<>>]
  /\ runs = [p \in Mounter |-> "sh"]
  /\ ssh = [p \in Mounter |-> FALSE] /\ fd = [p \in Mounter |-> FALSE]
  /\ again = [p \in Mounter |-> FALSE] /\ held = [p \in Mounter |-> FALSE]
  /\ size = [p \in Mounter |-> 0]
  /\ mounts = [d \in Dir |-> <<>>]
  /\ mtab = {} /\ tmp = {} /\ lock = FALSE
  /\ apart = "no" /\ cut = FALSE

Goto(p, l) == pc' = [pc EXCEPT ![p] = l]

\* Something happens that lets mtab and the mounts differ.
ComeApart(b) == apart' = IF b /\ apart = "no" THEN "yes" ELSE apart
At(p, l) == pc[p] = l

-----------------------------------------------------------------------------
(* create_socket and init_sh *)

Line(k) == [k |-> k, caps |-> {}]
First(o) == IF o.type = "shell" THEN "shell" ELSE "perl"

\* What the remote side prints before it reads a command: nothing, or a line
\* of text in which nothing, "ok" or a word "ok" is found.
Greetings == {<<>>} \cup {<<Line(k)>> : k \in {"text", "look", "okword"}}

\* socketpair, fork, and the first test is written.
Connect(p, o) ==
  /\ ssh' = [ssh EXCEPT ![p] = TRUE]
  /\ fd' = [fd EXCEPT ![p] = TRUE]
  /\ runs' = [runs EXCEPT ![p] = "sh"]
  /\ proto' = [proto EXCEPT ![p] = First(o)]
  /\ toSh' = [toSh EXCEPT ![p] = <<IF First(o) = "perl" THEN "test perl" ELSE "test shell">>]
  /\ \E g \in Greetings : out' = [out EXCEPT ![p] = g]
  /\ Goto(p, "test")

Start(p) ==
  /\ At(p, "start")
  /\ \E d \in Dir, o \in Opts[p] :
       /\ dir' = [dir EXCEPT ![p] = d]
       /\ opt' = [opt EXCEPT ![p] = o]
       /\ Connect(p, o)
  /\ UNCHANGED <<again, kernel, files, apart, cut>>

\* What was not read is lost with the descriptor, and what the remote side
\* still prints goes nowhere.
CloseSocket(p) ==
  /\ fd' = [fd EXCEPT ![p] = FALSE]
  /\ toSh' = [toSh EXCEPT ![p] = <<>>]
  /\ out' = [out EXCEPT ![p] = <<>>]

Forget(p) ==
  /\ proto' = [proto EXCEPT ![p] = "perl"]
  /\ runs' = [runs EXCEPT ![p] = "sh"]

\* The exit of a process closes what it holds.
Exit(p) ==
  /\ Goto(p, "done") /\ CloseSocket(p) /\ Forget(p)
  /\ dir' = [dir EXCEPT ![p] = CHOOSE d \in Dir : TRUE]
  /\ ssh' = [ssh EXCEPT ![p] = FALSE]

\* The first connection that fails ends shfsmount; the second one is given
\* to the kernel all the same, as descriptor -1.
NoConnection(p) ==
  IF again[p]
  THEN Goto(p, "ioctl") /\ CloseSocket(p) /\ Forget(p) /\ UNCHANGED <<dir, ssh>>
  ELSE Exit(p)

Write(p, c) == toSh' = [toSh EXCEPT ![p] = Append(@, c)]

\* readln fetches what is there, up to the end of some line.
Read(p, n) == out' = [out EXCEPT ![p] = SubSeq(@, n + 1, Len(@))]

Mentions(c) == \E i \in DOMAIN c : c[i].k \in {"ok", "failed", "look", "okword"}

\* The words of the text fetched, split at spaces only: a word at the end of
\* a line is not recognised when another line follows it.
SaysOk(c) == c[1].k = "ok" \/ \E i \in DOMAIN c : c[i].k = "okword"
LastWord(caps) == IF "preserve" \in caps THEN "preserve" ELSE "stable"
Caps(c) ==
  LET l == c[Len(c)]
      before == {i \in 1..(Len(c) - 1) : c[i].k = "ok"} IN
  l.caps \cup UNION {c[i].caps \ {LastWord(c[i].caps)} : i \in before}

TestOf(k) == IF k = "perl" THEN "test perl" ELSE "test shell"
CodeOf(k) == IF k = "perl" THEN "code perl" ELSE "code shell"

\* The next variant of the table, unless the user asked for one.
NextProto(p, n) ==
  IF opt[p].type = "any" /\ proto[p] = "perl"
  THEN /\ proto' = [proto EXCEPT ![p] = "shell"]
       /\ Read(p, n) /\ Write(p, TestOf("shell"))
       /\ UNCHANGED <<pc, dir, ssh, fd, runs>>
  ELSE NoConnection(p)

TestReply(p) ==
  /\ At(p, "test")
  /\ \E n \in 1..Len(out[p]) :
       LET c == SubSeq(out[p], 1, n)
           suits == opt[p].want \subseteq Caps(c) IN
       \/ ~Mentions(c) /\ Read(p, n) /\ UNCHANGED <<pc, dir, ssh, fd, proto, runs, toSh>>
       \/ /\ Mentions(c) /\ SaysOk(c) /\ suits
          /\ Goto(p, "code")
          /\ Read(p, n) /\ Write(p, CodeOf(proto[p]))
          /\ UNCHANGED <<dir, ssh, fd, proto, runs>>
       \/ /\ Mentions(c) /\ SaysOk(c) /\ ~suits /\ opt[p].type # "any"
          /\ Exit(p)
       \/ /\ Mentions(c)
          /\ ~SaysOk(c) \/ (~suits /\ opt[p].type = "any")
          /\ NextProto(p, n)
  /\ UNCHANGED <<opt, again, kernel, files, apart, cut>>

\* Mutant: the reply to the code is only searched for "### 200".
CodeReplyAnywhere(p) ==
  /\ At(p, "code")
  /\ \E n \in 1..Len(out[p]) :
       IF \E i \in 1..n : out[p][i].k \in {"200", "ok"}
       THEN Goto(p, "init") /\ Read(p, n) /\ Write(p, "s_init") /\ UNCHANGED <<dir, ssh, fd, proto, runs>>
       ELSE NoConnection(p)
  /\ UNCHANGED <<opt, again, kernel, files, apart, cut>>

\* The text fetched must be the one line "### 200".
CodeReply(p) ==
  /\ At(p, "code")
  /\ \E n \in 1..Len(out[p]) :
       IF SubSeq(out[p], 1, n) = <<Line("200")>>
       THEN Goto(p, "init") /\ Read(p, n) /\ Write(p, "s_init") /\ UNCHANGED <<dir, ssh, fd, proto, runs>>
       ELSE NoConnection(p)
  /\ UNCHANGED <<opt, again, kernel, files, apart, cut>>

InitReply(p) ==
  /\ At(p, "init")
  /\ \E n \in 1..Len(out[p]) :
       IF SubSeq(out[p], 1, n) = <<Line("200")>>
       THEN /\ Goto(p, IF again[p] THEN "ioctl" ELSE "mount")
            /\ Read(p, n) /\ UNCHANGED <<dir, ssh, fd, toSh, proto, runs>>
       ELSE NoConnection(p)
  /\ UNCHANGED <<opt, again, kernel, files, apart, cut>>

\* End of file instead of a reply.
NoReply(p) ==
  /\ pc[p] \in {"test", "code", "init"}
  /\ ~ssh[p] /\ out[p] = <<>>
  /\ NoConnection(p)
  /\ UNCHANGED <<opt, again, kernel, files, apart, cut>>

-----------------------------------------------------------------------------
(* The remote side *)

TestAnswers(c) ==
  {Line("failed")} \cup
  {[k |-> "ok", caps |-> s] : s \in IF c = "test perl" THEN {{"stable"}, {"stable", "preserve"}}
                                    ELSE {{"stable"}}}

Say(p, l) == out' = [out EXCEPT ![p] = Append(@, l)]

\* It runs a test, becomes a server (or ends, where there is no perl), or
\* initialises the server.
RemoteStep(p) ==
  /\ ssh[p] /\ toSh[p] # <<>>
  /\ toSh' = [toSh EXCEPT ![p] = Tail(@)]
  /\ LET c == Head(toSh[p]) IN
     \/ /\ c \in {"test perl", "test shell"}
        /\ \E l \in TestAnswers(c) : Say(p, l)
        /\ UNCHANGED <<runs, ssh>>
     \/ /\ c \in {"code perl", "code shell"}
        /\ runs' = [runs EXCEPT ![p] = IF c = "code perl" THEN "perl" ELSE "shell"]
        /\ Say(p, Line("200"))
        /\ UNCHANGED ssh
     \/ /\ c = "code perl"
        /\ ssh' = [ssh EXCEPT ![p] = FALSE]
        /\ UNCHANGED <<out, runs>>
     \/ /\ c = "s_init"
        /\ runs' = [runs EXCEPT ![p] = IF @ = "perl" THEN "perl ready" ELSE "shell ready"]
        /\ Say(p, Line("200"))
        /\ UNCHANGED ssh
  /\ UNCHANGED <<pc, dir, opt, proto, fd, again, kernel, files, apart, cut>>

SshGone(p) ==
  /\ ssh[p]
  /\ ssh' = [ssh EXCEPT ![p] = FALSE]
  /\ UNCHANGED <<pc, dir, opt, proto, toSh, out, runs, fd, again, kernel, files, apart, cut>>

\* End of file: nobody holds the other end any more.
Abandoned(p) == ~fd[p] /\ (again[p] \/ ~held[p])
SshEof(p) == Abandoned(p) /\ SshGone(p)

\* The connection breaks.  Bound: while shfsmount can see it.
Talking == {"test", "code", "init"}
SshBreaks(p) == pc[p] \in Talking \cup {"reap"} /\ SshGone(p)

-----------------------------------------------------------------------------
(* mount(2) and umount(2) *)

\* i--; for (j = 0; i; j++) i >>= 1;  and 1 << j: the smallest power of two
\* not below n
Shifts[i \in Nat] == IF i = 0 THEN 0 ELSE 1 + Shifts[i \div 2]

PowerOfTwo[j \in Nat] == IF j = 0 THEN 1 ELSE 2 * PowerOfTwo[j - 1]

\* Mutant: the decrement is missing.
FCacheSizeOfNext(n) == PowerOfTwo[Shifts[n]]

FCacheSize(n) == PowerOfTwo[Shifts[n - 1]]

\* Another process of the same mount point has changed the mounts, and not
\* mtab yet.
Overlap(p, d) ==
  \E q \in Process \ {p} : dir[q] = d /\ pc[q] \in Section \cup {"lock"}

\* Mutant: the number decremented is stored as it is.
MountZero(p) ==
  /\ At(p, "mount")
  /\ opt[p].cachesize = 0
  /\ size' = [size EXCEPT ![p] = opt[p].cachesize - 1]
  /\ Goto(p, "hung")
  /\ UNCHANGED <<dir, opt, connection, held, mounts, files, apart, cut>>

\* The option 0 makes i negative: shifting to the right never makes it 0.
MountHangs(p) ==
  /\ At(p, "mount")
  /\ opt[p].cachesize = 0
  /\ Goto(p, "hung")
  /\ UNCHANGED <<dir, opt, connection, kernel, files, apart, cut>>

DoMount(p) ==
  /\ At(p, "mount")
  /\ opt[p].cachesize > 0
  /\ mounts' = [mounts EXCEPT ![dir[p]] = Append(@, p)]
  /\ held' = [held EXCEPT ![p] = TRUE]
  /\ size' = [size EXCEPT ![p] = FCacheSize(opt[p].cachesize)]
  /\ Goto(p, IF opt[p].nomtab THEN "stay" ELSE "lock")
  /\ ComeApart(opt[p].nomtab \/ mounts[dir[p]] # <<>> \/ Overlap(p, dir[p]))
  /\ UNCHANGED <<dir, opt, connection, files, cut>>

\* Refused, with or without (an option before fd=) the socket taken; a
\* socket that was taken is not given back.
MountFails(p) ==
  /\ At(p, "mount")
  /\ opt[p].cachesize > 0
  /\ \E b \in BOOLEAN : held' = [held EXCEPT ![p] = b]
  /\ Exit(p)
  /\ UNCHANGED <<opt, again, size, mounts, files, apart, cut>>

\* umount_ok, umount, shfs_put_super
DoUmount(q) ==
  /\ At(q, "start")
  /\ \E d \in Dir :
       /\ mounts[d] # <<>>
       /\ dir' = [dir EXCEPT ![q] = d]
       /\ mounts' = [mounts EXCEPT ![d] = Front(@)]
       /\ held' = [held EXCEPT ![Last(mounts[d])] = FALSE]
       /\ ComeApart(Overlap(q, d))
  /\ Goto(q, "lock")
  /\ UNCHANGED <<opt, connection, size, files, cut>>

Mounted(p) == \E d \in Dir : \E i \in DOMAIN mounts[d] : mounts[d][i] = p

\* A transfer that fails makes the kernel drop the socket (sock_read).
\* Bound: while shfsmount waits to see the end of ssh.
KernelDrops(p) ==
  /\ At(p, "reap")
  /\ Mounted(p) /\ held[p]
  /\ held' = [held EXCEPT ![p] = FALSE]
  /\ UNCHANGED <<pc, dir, opt, connection, size, mounts, files, apart, cut>>

-----------------------------------------------------------------------------
(* update_mtab of the two programs *)

After(p) == IF p \in Mounter THEN "stay" ELSE "done"

\* Mutant: the lock file is created without O_EXCL.
LockMtabShared(p) ==
  /\ At(p, "lock")
  /\ lock' = TRUE
  /\ Goto(p, "open")
  /\ UNCHANGED <<dir, opt, connection, kernel, mtab, tmp, apart, cut>>

LockMtab(p) ==
  /\ At(p, "lock")
  /\ IF lock THEN Goto(p, After(p)) ELSE Goto(p, "open")
  /\ lock' = TRUE
  /\ ComeApart(lock)
  /\ UNCHANGED <<dir, opt, connection, kernel, mtab, tmp, cut>>

\* shfsumount also empties mtab.tmp.
OpenMtab(p) ==
  /\ At(p, "open")
  /\ IF p \in Mounter THEN Goto(p, "add") /\ UNCHANGED tmp
     ELSE Goto(p, "copy") /\ tmp' = {}
  /\ UNCHANGED <<dir, opt, connection, kernel, mtab, lock, apart, cut>>

\* A write that fails when the buffer is flushed goes unnoticed (endmntent).
AddEntry(p) ==
  /\ At(p, "add")
  /\ \E written \in BOOLEAN :
       /\ mtab' = IF written THEN mtab \cup {[dir |-> dir[p], by |-> p]} ELSE mtab
       /\ ComeApart(~written)
  /\ Goto(p, "mode")
  /\ UNCHANGED <<dir, opt, connection, kernel, tmp, lock, cut>>

SetMode(p) ==
  /\ At(p, "mode")
  /\ Goto(p, "unlink")
  /\ UNCHANGED <<dir, opt, connection, kernel, files, apart, cut>>

\* Mutant: the entries of the mount point are copied as well.
CopyAllEntries(q) ==
  /\ At(q, "copy")
  /\ tmp' = mtab
  /\ Goto(q, "rename")
  /\ UNCHANGED <<dir, opt, connection, kernel, mtab, lock, apart, cut>>

\* All entries of the mount point are left out.  Nobody looks at what
\* addmntent and endmntent return: with the disk full, only some of the
\* others arrive.
CopyEntries(q) ==
  /\ At(q, "copy")
  /\ \E copied \in SUBSET {e \in mtab : e.dir # dir[q]} :
       /\ tmp' = tmp \cup copied
       /\ cut' = (\E e \in mtab \ copied : e.dir # dir[q])
       /\ ComeApart(cut')
  /\ Goto(q, "rename")
  /\ UNCHANGED <<dir, opt, connection, kernel, mtab, lock>>

RenameMtab(q) ==
  /\ At(q, "rename")
  /\ mtab' = tmp
  /\ tmp' = {}
  /\ cut' = FALSE
  /\ Goto(q, "unlink")
  /\ UNCHANGED <<dir, opt, connection, kernel, lock, apart>>

\* Mutant: the lock file stays.
UnlinkForgets(p) ==
  /\ At(p, "unlink")
  /\ Goto(p, After(p))
  /\ UNCHANGED <<dir, opt, connection, kernel, files, apart, cut>>

UnlinkLock(p) ==
  /\ At(p, "unlink")
  /\ lock' = FALSE
  /\ Goto(p, After(p))
  /\ UNCHANGED <<dir, opt, connection, kernel, mtab, tmp, apart, cut>>

\* Every error path returns with the lock file in place.
MtabFails(p) ==
  /\ pc[p] \in Section
  /\ Goto(p, After(p))
  /\ apart' = "left"
  /\ UNCHANGED <<dir, opt, connection, kernel, files, cut>>

-----------------------------------------------------------------------------
(* The end of shfsmount *)

\* Mutant: the persistent process waits with its end open.
StayOpen(p) ==
  /\ At(p, "stay")
  /\ IF opt[p].persistent THEN Goto(p, "reap") /\ UNCHANGED <<dir, ssh, fd, toSh, out, proto, runs>>
     ELSE Exit(p)
  /\ UNCHANGED <<opt, again, kernel, files, apart, cut>>

\* wait_on_socket closes the socket before it waits; the first wait is not
\* delayed, and there is no second one.
Stay(p) ==
  /\ At(p, "stay")
  /\ IF opt[p].persistent
     THEN Goto(p, "reap") /\ CloseSocket(p) /\ Forget(p) /\ UNCHANGED <<dir, ssh>>
     ELSE Exit(p)
  /\ UNCHANGED <<opt, again, kernel, files, apart, cut>>

Reap(p) ==
  /\ At(p, "reap")
  /\ ~ssh[p]
  /\ again' = [again EXCEPT ![p] = TRUE]
  /\ Connect(p, opt[p])
  /\ UNCHANGED <<dir, opt, kernel, files, apart, cut>>

\* shfs_ioctl is in no file_operations: it fails, and shfsmount exits.
Ioctl(p) ==
  /\ At(p, "ioctl")
  /\ Exit(p)
  /\ UNCHANGED <<opt, again, kernel, files, apart, cut>>

Killed(p) ==
  /\ pc[p] \notin {"start", "hung", "done"}
  /\ IF p \in Mounter THEN Exit(p)
     ELSE Goto(p, "done") /\ UNCHANGED <<dir, fd, toSh, out, proto, runs, ssh>>
  /\ IF pc[p] \in Section THEN apart' = "left" ELSE ComeApart(At(p, "lock"))
  /\ UNCHANGED <<opt, again, kernel, files, cut>>

-----------------------------------------------------------------------------

Converse(p) == TestReply(p) \/ CodeReply(p) \/ InitReply(p) \/ NoReply(p)

MtabStep(p) == LockMtab(p) \/ OpenMtab(p) \/ UnlinkLock(p)

MounterStep(p) ==
  \/ MountHangs(p) \/ DoMount(p)
  \/ MtabStep(p) \/ AddEntry(p) \/ SetMode(p)
  \/ Stay(p) \/ Reap(p) \/ Ioctl(p)

UnmounterStep(q) == MtabStep(q) \/ CopyEntries(q) \/ RenameMtab(q)

\* Bound: while a shfsmount talks to its remote side the other processes wait.
\* The conversation changes nothing they can see.
Alone(p) == \A q \in Mounter \ {p} : pc[q] \notin Talking

Next ==
  \/ \E p \in Mounter : Converse(p) \/ RemoteStep(p) \/ SshEof(p)
  \/ \E p \in Mounter : /\ Alone(p)
                         /\ \/ Start(p) \/ MounterStep(p) \/ MountFails(p)
                            \/ SshBreaks(p) \/ KernelDrops(p)
  \/ \E q \in Unmounter : Alone(q) /\ (DoUmount(q) \/ UnmounterStep(q))
  \/ \E p \in Process : Alone(p) /\ (MtabFails(p) \/ Killed(p))

\* Programs that have started run on; ssh and the remote side answer, and
\* notice the end of their input.  Nobody has to start, to kill or to fail.
Fairness ==
  /\ \A p \in Mounter : /\ WF_vars(Converse(p))
                        /\ WF_vars(Alone(p) /\ MounterStep(p))
                        /\ WF_vars(RemoteStep(p))
                        /\ WF_vars(SshEof(p))
  /\ \A q \in Unmounter : WF_vars(Alone(q) /\ UnmounterStep(q))

Spec == Init /\ [][Next]_vars /\ Fairness

-----------------------------------------------------------------------------
(* Correctness *)

\* Only one process at a time is between its creation of mtab~ and the
\* removal of it, and the file is there as long (update_mtab, O_EXCL).
OneWriter ==
  \A p \in Process : pc[p] \in Section =>
    lock /\ \A q \in Process \ {p} : pc[q] \notin Section

\* A lock file nobody will remove was left by an error path or a kill, never
\* by an update that went well.
LockAccounted ==
  lock => (\E p \in Process : pc[p] \in Section) \/ apart = "left"

EntriesOf(m, d) == {e \in m : e.dir = d}

Renames(p) == pc[p] = "rename" /\ pc'[p] = "unlink"

OthersKeptStep ==
  \A d \in Dir : EntriesOf(mtab', d) # EntriesOf(mtab, d) =>
    \E p \in Process :
      \/ dir[p] = d /\ pc[p] = "add" /\ pc'[p] = "mode"
      \/ dir[p] = d /\ Renames(p)
      \/ cut /\ Renames(p) /\ EntriesOf(mtab', d) \subseteq EntriesOf(mtab, d)

\* An update of mtab touches the entries of its own mount point: what another
\* process added after the copy was made is not lost with the rename of it.
\* Those of other mount points are lost only where the copy was cut short, by
\* writes whose failure shfsumount ignores; none is ever added.
OthersKept == [][OthersKeptStep]_vars

\* When all updates have run to their end, mtab lists what is mounted, unless
\* something that is known to part them has happened: a mount not noted or on
\* top of another, overlapping updates, one given up, killed or cut short.
MtabAgrees ==
  apart = "no" /\ (\A p \in Process : pc[p] \notin Section \cup {"lock"}) =>
    {e.dir : e \in mtab} = {d \in Dir : mounts[d] # <<>>}

\* A connection the kernel takes over, or is to take over, is in step: its
\* server is initialised and nothing is left in the stream, whatever the
\* remote side printed before.
HandedOverClean ==
  \A p \in Mounter : pc[p] \in {"mount", "hung"} \/ (pc[p] = "ioctl" /\ fd[p]) =>
    /\ out[p] = <<>> /\ toSh[p] = <<>>
    /\ runs[p] = IF proto[p] = "perl" THEN "perl ready" ELSE "shell ready"

\* The cache of a mount is the smallest power of two of pages that holds
\* what the user asked for.
CacheSizeFits ==
  \A p \in Mounter : size[p] > 0 =>
    /\ opt[p].cachesize <= size[p]
    /\ size[p] < 2 * opt[p].cachesize
    /\ \E k \in 0..17 : size[p] = PowerOfTwo[k]

\* A persistent shfsmount ends once its file system is unmounted.
DaemonEnds ==
  \A p \in Mounter : (pc[p] = "reap" /\ ~Mounted(p)) ~> pc[p] = "done"

=============================================================================
