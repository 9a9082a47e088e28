----------------------------- MODULE Namespace -----------------------------
(***************************************************************************)
(* The names of one directory: what the server has, and what the dentries  *)
(* and inodes of the mount make the programs believe (module/dir.c,        *)
(* module/inode.c, shfs_fill_cache in module/dcache.c).                    *)
(*                                                                         *)
(* An operation is one step: the VFS holds i_mutex of the directory, and   *)
(* others change the remote side between operations.  An operation that    *)
(* needs a name resolves it first (Resolve) and then trusts its dentry     *)
(* (WouldTrust).                                                           *)
(*                                                                         *)
(* Ghosts: whether an inode is of what the server has under the name, or   *)
(* of something else of the same type, or of any other (same); why a       *)
(* belief may be wrong (suspect); for how long the server has had nothing, *)
(* or something of another type (wrongFor); and which d_time was renewed   *)
(* without an answer about the name (renewed).                             *)
(*                                                                         *)
(* Bounds: TTL; MaxEvents for changes by others, errors and reclaimed      *)
(* dentries; dentries of the directory are not in use when they are        *)
(* dropped.  rmdir refuses every directory the VFS hands to it (d_unhashed *)
(* never holds), and changes nothing.                                      *)
(***************************************************************************)
EXTENDS Naturals, FiniteSets

CONSTANTS Name,      \* names in the directory
          TTL,       \* SHFS_MAX_AGE, in ticks
          MaxEvents

ASSUME NamespaceAssumption == TTL \in Nat \ {0} /\ MaxEvents \in Nat

Type == {"file", "dir", "link"}

VARIABLES
  remote,   \* what the server has under each name, "none" for nothing
  dent,     \* the dentry: none, negative, positive
  mode,     \* the type in i_mode
  ops,      \* the type whose operations the inode was given
  bad,      \* make_bad_inode
  dAge,     \* jiffies - d_time
  iAge,     \* jiffies - oldmtime
  same,     \* the inode is of what the server has, not of another
  suspect, wrongFor, renewed,
  events

belief == <<dent, mode, ops, bad>>
ghosts == <<same, suspect, wrongFor, renewed>>
vars == <<remote, belief, dAge, iAge, ghosts, events>>

DAge == 0..(TTL + 1)
IAge == 0..TTL

TypeOK ==
  /\ remote \in [Name -> Type \cup {"none"}]
  /\ dent \in [Name -> {"none", "negative", "positive"}]
  /\ mode \in [Name -> Type \cup {"none"}] /\ ops \in [Name -> Type \cup {"none"}]
  /\ bad \in [Name -> BOOLEAN]
  /\ dAge \in [Name -> DAge] /\ iAge \in [Name -> IAge]
  /\ same \in [Name -> BOOLEAN]
  /\ suspect \subseteq Name /\ renewed \subseteq Name
  /\ wrongFor \in [Name -> DAge]
  /\ events \in 0..MaxEvents
  /\ \A n \in Name : LET inode == dent[n] = "positive" IN
       /\ (mode[n] # "none") = inode /\ (ops[n] # "none") = inode
       /\ bad[n] => inode
       /\ ~same[n] => inode

Init ==
  /\ remote \in [Name -> {"none", "file", "dir"}]
  /\ dent = [n \in Name |-> "none"]
  /\ mode = [n \in Name |-> "none"] /\ ops = [n \in Name |-> "none"]
  /\ bad = [n \in Name |-> FALSE]
  /\ dAge = [n \in Name |-> 0] /\ iAge = [n \in Name |-> 0]
  /\ same = [n \in Name |-> TRUE]
  /\ suspect = {} /\ wrongFor = [n \in Name |-> 0] /\ renewed = {}
  /\ events = 0

Event == events < MaxEvents /\ events' = events + 1
Perhaps(b) == IF b THEN Event ELSE UNCHANGED events

-----------------------------------------------------------------------------
(* Beliefs *)

\* A dentry as it is after a step: a record, to be set in one go.
View(n) == [dent |-> dent[n], mode |-> mode[n], ops |-> ops[n], bad |-> bad[n],
            dAge |-> dAge[n], iAge |-> iAge[n], same |-> same[n]]
NoDentry == [dent |-> "none", mode |-> "none", ops |-> "none", bad |-> FALSE,
             dAge |-> 0, iAge |-> 0, same |-> TRUE]
Negative(age) == [NoDentry EXCEPT !.dent = "negative", !.dAge = age]
Positive(t) == [NoDentry EXCEPT !.dent = "positive", !.mode = t, !.ops = t]

\* There is something under the name, and of that type, as is believed.
TypeAgrees(v, t) ==
  \/ v.dent = "none" \/ v.bad
  \/ v.dent = "negative" /\ t = "none"
  \/ v.dent = "positive" /\ v.mode = t /\ v.ops = t

\* And it is what the inode was made for.
Agrees(v, t) == TypeAgrees(v, t) /\ (v.dent = "positive" /\ ~v.bad => v.same)

Said(v) == <<v.dent, v.mode, v.ops>>

\* The step leaves the dentries V and the remote side R.  C are names whose
\* belief may become wrong by it, D those whose d_time it renews blindly.
Become(V, R, C, D) ==
  LET right == {n \in Name : Agrees(V[n], R[n])}
      rightType == {n \in Name : TypeAgrees(V[n], R[n])} IN
  /\ remote' = R
  /\ dent' = [n \in Name |-> V[n].dent] /\ mode' = [n \in Name |-> V[n].mode]
  /\ ops' = [n \in Name |-> V[n].ops] /\ bad' = [n \in Name |-> V[n].bad]
  /\ dAge' = [n \in Name |-> V[n].dAge] /\ iAge' = [n \in Name |-> V[n].iAge]
  /\ same' = [n \in Name |-> V[n].same]
  /\ suspect' = (suspect \cup C) \ right
  /\ wrongFor' = [n \in Name |-> IF n \in rightType \/ Said(V[n]) # Said(View(n)) THEN 0
                                 ELSE wrongFor[n]]
  /\ renewed' = (renewed \cup D) \ rightType

Views == [n \in Name |-> View(n)]
With(n, v) == [Views EXCEPT ![n] = v]

\* shfs_d_revalidate without a question to the server
WouldTrust(n) ==
  /\ dent[n] # "none" /\ ~bad[n]
  /\ dAge[n] <= TTL \/ (dent[n] = "positive" /\ iAge[n] < TTL)

Negatively(n) == WouldTrust(n) /\ dent[n] = "negative"
Believed(n, S) == WouldTrust(n) /\ dent[n] = "positive" /\ ops[n] \in S

-----------------------------------------------------------------------------
(* Lookup and revalidation *)

\* shfs_lookup makes a negative dentry of every failure of the stat.
Looked(n, error) == IF error \/ remote[n] = "none" THEN Negative(0) ELSE Positive(remote[n])

\* shfs_refresh_inode: what is left of an inode after a stat.  Only the types
\* are compared, and those of a symbolic link are not.
Refreshed(n, error) ==
  IF error \/ remote[n] = "none" THEN View(n)
  ELSE IF mode[n] = "link" THEN [View(n) EXCEPT !.dAge = 0]
  ELSE IF mode[n] = remote[n] THEN [View(n) EXCEPT !.dAge = 0, !.iAge = 0]
  ELSE [View(n) EXCEPT !.dAge = 0, !.bad = TRUE]

RefreshSucceeds(n, error) ==
  /\ dent[n] = "positive" /\ ~bad[n]
  /\ ~error /\ remote[n] # "none" /\ mode[n] \in {"link", remote[n]}

\* The walk of a path comes to the name: the dentry is not trusted, it is
\* valid after a stat, or it is dropped and the name is looked up.
Resolve(n) ==
  /\ ~WouldTrust(n)
  /\ \E e1, e2 \in BOOLEAN :
       /\ Perhaps(e1 \/ e2)
       /\ Become(With(n, IF RefreshSucceeds(n, e1) THEN Refreshed(n, e1) ELSE Looked(n, e2)),
                 remote, {m \in {n} : e2}, {m \in {n} : e2})

\* shfs_getattr
Getattr(n) ==
  /\ Believed(n, Type) /\ iAge[n] = TTL
  /\ \E e \in BOOLEAN : Perhaps(e) /\ Become(With(n, Refreshed(n, e)), remote, {}, {})

\* A lookup inside a directory renews it, even when it fails.
LookupInside(n) ==
  /\ Believed(n, {"dir"})
  /\ Become(With(n, [View(n) EXCEPT !.dAge = 0]), remote, {}, {n})
  /\ UNCHANGED events

\* s_open finds what is readable, of whatever type.
FileOpen(n) ==
  /\ Believed(n, {"file"}) /\ remote[n] # "none"
  /\ Become(With(n, [View(n) EXCEPT !.dAge = 0]), remote, {}, {n})
  /\ UNCHANGED events

\* A listing is read into the cache: all dentries are aged, and those listed
\* get the attributes and a new time.  The operations of an inode stay what
\* they are.  A listing may break off.  The age that is set is one that
\* shfs_d_revalidate still trusts, until the next tick, even of a dentry that
\* had expired.

\* Mutant: a dentry that is there gets the attributes, inode or not.
FilledAnyway(n) ==
  IF dent[n] # "none"
  THEN [View(n) EXCEPT !.mode = remote[n], !.dAge = 0, !.iAge = 0]
  ELSE Positive(remote[n])

Filled(n) ==
  IF dent[n] = "positive"
  THEN [View(n) EXCEPT !.mode = remote[n], !.dAge = 0, !.iAge = 0]
  ELSE Positive(remote[n])

\* Mutant: the time is set to now.
AgedNot(n) == IF dent[n] = "none" THEN View(n) ELSE [View(n) EXCEPT !.dAge = 0]

Aged(n) == IF dent[n] = "none" THEN View(n) ELSE [View(n) EXCEPT !.dAge = TTL]

Readdir ==
  \E L \in SUBSET {n \in Name : remote[n] # "none"} :
    /\ Perhaps(\E n \in Name \ L : remote[n] # "none")
    /\ Become([n \in Name |-> IF n \in L THEN Filled(n) ELSE Aged(n)], remote, {}, {})

-----------------------------------------------------------------------------
(* Operations that change the directory.  The server refuses them, does what *)
(* is asked, or does it and the answer is lost.                              *)

\* What may be under the name once the server has done it; nothing, if it
\* cannot.  Of the two servers the shell's replaces (ln -f, ln -s -f), and
\* links into a directory that is in the way.
Made(kind, t) ==
  CASE kind = "create" -> IF t = "dir" THEN {} ELSE IF t = "link" THEN {"link"} ELSE {"file"}
    [] kind = "mkdir" -> IF t = "none" THEN {"dir"} ELSE {}
    [] kind = "symlink" -> IF t = "dir" THEN {"dir"} ELSE {"link"}
    [] kind = "hardlink" -> IF t = "dir" THEN {"dir"} ELSE {"file", "link"}

\* create, mkdir, symlink and link: then shfs_instantiate asks for what is
\* there now; if that fails the dentry stays negative.
Make(n, kind) ==
  /\ Negatively(n)
  /\ kind = "hardlink" =>
       \E o \in Name \ {n} : Believed(o, {"file", "link"}) /\ remote[o] \in {"file", "link"}
  /\ \E t \in Made(kind, remote[n]), told \in BOOLEAN :
       /\ Perhaps(~told)
       /\ Become(With(n, IF told THEN Positive(t) ELSE View(n)),
                 [remote EXCEPT ![n] = t],
                 IF told THEN {} ELSE {n}, {})

\* Mutant: the result is not returned to the VFS.
UnlinkAnyway(n) ==
  /\ Believed(n, {"file", "link"}) /\ remote[n] # "dir"
  /\ \E t \in {"none", remote[n]} :
       Become(With(n, Negative(0)), [remote EXCEPT ![n] = t], {}, {})
  /\ UNCHANGED events

\* shfs_unlink, then the VFS makes the dentry negative.
Unlink(n) ==
  /\ Believed(n, {"file", "link"}) /\ remote[n] # "dir"
  /\ \E told \in BOOLEAN :
       /\ Perhaps(~told)
       /\ Become(With(n, IF told THEN Negative(0) ELSE View(n)),
                 [remote EXCEPT ![n] = "none"],
                 IF told THEN {} ELSE {n}, {})

\* The dentry of the target is deleted before the server is asked.
Target(b) == IF dent[b] = "positive" THEN Negative(dAge[b]) ELSE View(b)

\* The perl script's rename replaces what is under b, and so does the shell's
\* mv, but for a directory there, or a link to one: it moves a into that.
CanMove(a, b, into) ==
  /\ remote[a] # "none"
  /\ IF into THEN remote[b] \in {"dir", "link"}
     ELSE remote[b] # "none" => (remote[a] = "dir" <=> remote[b] = "dir")

MovedTo(a, b, into) ==
  [remote EXCEPT ![a] = "none", ![b] = IF into THEN @ ELSE remote[a]]

\* The VFS moves the dentry, wherever the server has moved the file.
MovedView(a, into) == [View(a) EXCEPT !.dAge = 0, !.same = @ /\ ~into]

\* A directory over a directory, or anything over a link to one: the types do
\* not keep the server from moving a to where the mount does not see it.
MovedAway(a, b, into) == into /\ (ops[a] = "dir" \/ remote[b] = "link")

\* The server moves it and the VFS moves the dentry; or the answer is lost; or
\* the server refuses.
Rename(a, b) ==
  /\ a # b
  /\ Believed(a, Type) /\ WouldTrust(b)
  /\ dent[b] = "positive" => (ops[a] = "dir" <=> ops[b] = "dir")
  /\ \/ \E into \in BOOLEAN :
          /\ CanMove(a, b, into)
          /\ \/ /\ Become([With(b, MovedView(a, into)) EXCEPT ![a] = NoDentry],
                          MovedTo(a, b, into),
                          {m \in {b} : {a, b} \cap suspect # {} \/ MovedAway(a, b, into)}, {b})
                /\ UNCHANGED events
             \/ /\ Event
                /\ Become(With(b, Target(b)), MovedTo(a, b, into), {a, b}, {})
     \/ /\ dent[b] = "positive"
        /\ Become(With(b, Target(b)), remote, {b}, {})
        /\ UNCHANGED events

-----------------------------------------------------------------------------
(* The rest of the world *)

\* Somebody else removes what is there, or puts something in its place, which
\* may be of the same type.
RemoteChange(n) ==
  /\ Event
  /\ \E t \in Type \cup {"none"} :
       /\ t = "none" => remote[n] # "none"
       /\ Become(With(n, [View(n) EXCEPT !.same = dent[n] # "positive"]),
                 [remote EXCEPT ![n] = t], {n}, {})

ReclaimDentry(n) ==
  /\ dent[n] # "none"
  /\ Become(With(n, NoDentry), remote, {}, {})
  /\ UNCHANGED events

Older(age, last) == IF age < last THEN age + 1 ELSE last

Tick ==
  /\ dAge' = [n \in Name |-> IF dent[n] = "none" THEN 0 ELSE Older(dAge[n], TTL + 1)]
  /\ iAge' = [n \in Name |-> IF dent[n] = "positive" THEN Older(iAge[n], TTL) ELSE 0]
  /\ wrongFor' = [n \in Name |-> IF TypeAgrees(View(n), remote[n]) THEN 0
                                  ELSE Older(wrongFor[n], TTL + 1)]
  /\ UNCHANGED <<remote, belief, same, suspect, renewed, events>>

Next ==
  \/ \E n \in Name : \/ Resolve(n) \/ Getattr(n) \/ LookupInside(n) \/ FileOpen(n)
                     \/ Unlink(n) \/ RemoteChange(n) \/ ReclaimDentry(n)
  \/ \E n \in Name, k \in {"create", "mkdir", "symlink", "hardlink"} : Make(n, k)
  \/ \E a, b \in Name : Rename(a, b)
  \/ Readdir \/ Tick

Spec == Init /\ [][Next]_vars

-----------------------------------------------------------------------------
(* Correctness *)

\* What the mount believes of a name is what the server has, and the inode is
\* of just that, unless others changed it, an answer about it was an error or
\* was lost, a rename over it was refused, or the shell's mv moved a directory
\* that was renamed over a directory (or anything over a link to one) into it:
\* no other operation that goes well leaves a dentry wrong.
\* So create, link and symlink, which overwrite what is under a name that is
\* believed absent, overwrite only where there was such a reason for doubt.
SuspectOnly == \A n \in Name : ~Agrees(View(n), remote[n]) => n \in suspect

\* That there is nothing under the name, or something of another type than
\* is believed, is trusted wrongly for TTL at most, whatever has caused it.
\* The exceptions: the dentry was renewed without an answer about it (a lookup
\* inside it or one that failed, an open, a rename over it); the type the
\* server tells cannot be noticed (a listing changed i_mode, or the inode is a
\* symbolic link); or a listing, whether it broke off or has found the name
\* gone, has just set the age of the expired dentry to TTL.
BeliefBounded ==
  \A n \in Name : WouldTrust(n) /\ wrongFor[n] > TTL =>
    n \in renewed \/ mode[n] # ops[n] \/ mode[n] = "link" \/ dAge[n] = TTL

=============================================================================
