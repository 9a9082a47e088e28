----------------------------- MODULE MountProof -----------------------------
(***************************************************************************)
(* Proofs about module Mount: any number of shfsmount and shfsumount, any  *)
(* mount points and options.                                               *)
(*                                                                         *)
(* The lock file makes the update of mtab exclusive (OneWriter), and from  *)
(* that it follows that no entry of another mount point is lost with the   *)
(* rename of a copy that is whole (OthersKept): while a shfsumount is      *)
(* between its copy and its rename, nobody else writes mtab or mtab.tmp    *)
(* (CopyFresh).  A lock file that stays behind was left by an error path   *)
(* or a kill (LockAccounted).                                              *)
(*                                                                         *)
(* The loop of shifts that makes a cache size is a recursive function;     *)
(* that it is defined at all follows from the least number where it would  *)
(* not be, and that it gives the smallest power of two from the least      *)
(* counterexample (CacheSizes).                                            *)
(*                                                                         *)
(* mtab agrees with the mounts (MtabRight) because of each mount point at  *)
(* most one update is under way, and where none is they agree already      *)
(* (Agreement).  A connection is handed over in step (HandedOver) because  *)
(* "### 200" is said by the code and by s_init only, each of which is      *)
(* written when nothing else is left to be said (Stream).                  *)
(***************************************************************************)
EXTENDS Mount, SequenceTheorems, WellFoundedInduction, TLAPS

Places == pc \in [Process -> Stage] /\ dir \in [Process -> Dir]

\* A copy cut short has been noted as something that parts mtab and mounts.
CutSeen == cut \in BOOLEAN /\ (cut => apart # "no")

\* A copy of mtab without the entries of a mount point: all others, or only
\* some of them where the copy was cut short.
CopyOf(t, m, d, short) ==
  /\ t \subseteq {e \in m : e.dir # d}
  /\ ~short => t = {e \in m : e.dir # d}

\* What shfsumount has in mtab.tmp is a copy of the mtab there is now.
CopyFresh ==
  \A q \in Process :
    /\ pc[q] = "copy" => tmp = {}
    /\ pc[q] = "rename" => CopyOf(tmp, mtab, dir[q], cut)

IInv == Places /\ OneWriter /\ CopyFresh /\ LockAccounted

\* That a lock file may have been left behind is not forgotten.
StillLeft == apart = "left" => apart' = "left"

-----------------------------------------------------------------------------

\* Nothing of what the invariant is about changes.
LEMMA Elsewhere ==
  ASSUME IInv, UNCHANGED <<pc, dir, files, apart, cut>>
  PROVE  IInv'
BY DEF IInv, Places, OneWriter, CopyFresh, LockAccounted, files

\* A process that goes to a place outside the section, on an error path or
\* where it never was inside, and leaves the files alone, keeps the
\* invariant: the lock file stays.
LEMMA Outside ==
  ASSUME IInv, NEW p \in Process, NEW l \in Stage \ Section, Goto(p, l),
         dir' \in [Process -> Dir], \A q \in Process \ {p} : dir'[q] = dir[q],
         UNCHANGED <<files, cut>>,
         StillLeft, pc[p] \in Section => apart' = "left"
  PROVE  IInv'
<1>1. /\ pc' = [pc EXCEPT ![p] = l]
      /\ lock' = lock /\ mtab' = mtab /\ tmp' = tmp /\ cut' = cut
  BY DEF Goto, files
<1>2. Places'
  BY <1>1 DEF IInv, Places
<1>3. \A q \in Process : pc'[q] \in Section => q # p /\ pc[q] = pc'[q]
  BY <1>1 DEF IInv, Places
<1>4. OneWriter'
  BY <1>1, <1>3 DEF IInv, OneWriter
<1>5. CopyFresh'
  <2> SUFFICES ASSUME NEW q \in Process, pc'[q] \in {"copy", "rename"}
               PROVE  /\ pc[q] = pc'[q]
                      /\ dir'[q] = dir[q]
    BY <1>1 DEF CopyFresh, IInv
  <2> QED
    BY <1>3 DEF Section
<1>6. LockAccounted'
  <2>1. CASE lock /\ apart # "left" /\ pc[p] \notin Section
    <3>1. PICK q \in Process : pc[q] \in Section
      BY <2>1 DEF IInv, LockAccounted
    <3>2. pc'[q] \in Section
      BY <1>1, <2>1, <3>1 DEF IInv, Places
    <3> QED
      BY <3>2 DEF LockAccounted
  <2>2. CASE ~lock \/ apart = "left" \/ pc[p] \in Section
    BY <1>1, <2>2 DEF LockAccounted, StillLeft
  <2> QED
    BY <2>1, <2>2
<1> QED
  BY <1>2, <1>4, <1>5, <1>6 DEF IInv

\* A process inside the section goes on in it, and is the only one there.
LEMMA Inside ==
  ASSUME IInv, NEW p \in Process, NEW l \in Section,
         pc[p] \in Section, Goto(p, l), dir' = dir, lock' = lock,
         l = "copy" => tmp' = {},
         l = "rename" => CopyOf(tmp', mtab', dir[p], cut')
  PROVE  IInv'
<1>1. pc' = [pc EXCEPT ![p] = l]
  BY DEF Goto
<1>2. Places'
  BY <1>1 DEF IInv, Places, Stage
<1>3. lock /\ \A q \in Process \ {p} : pc[q] \notin Section
  BY DEF IInv, OneWriter
<1>4. pc'[p] = l /\ \A q \in Process \ {p} : pc'[q] \notin Section
  BY <1>1, <1>3 DEF IInv, Places
<1>5. OneWriter'
  BY <1>3, <1>4 DEF OneWriter
<1>6. CopyFresh'
  <2> SUFFICES ASSUME NEW q \in Process
               PROVE  /\ pc'[q] = "copy" => tmp' = {}
                      /\ pc'[q] = "rename" => CopyOf(tmp', mtab', dir'[q], cut')
    BY DEF CopyFresh
  <2>1. CASE q = p
    BY <2>1, <1>4
  <2>2. CASE q # p
    BY <2>2, <1>4 DEF Section
  <2> QED
    BY <2>1, <2>2
<1>7. LockAccounted'
  BY <1>4 DEF LockAccounted
<1> QED
  BY <1>2, <1>5, <1>6, <1>7 DEF IInv

\* The lock file can be created: nobody is inside.
LEMMA Enter ==
  ASSUME IInv, NEW p \in Process, ~lock, lock' = TRUE, Goto(p, "open"), dir' = dir
  PROVE  IInv'
<1>1. pc' = [pc EXCEPT ![p] = "open"]
  BY DEF Goto
<1>2. Places'
  BY <1>1 DEF IInv, Places, Stage, Section
<1>3. \A q \in Process : pc[q] \notin Section
  BY DEF IInv, OneWriter
<1>4. pc'[p] = "open" /\ \A q \in Process \ {p} : pc'[q] \notin Section
  BY <1>1, <1>3 DEF IInv, Places
<1>5. OneWriter'
  BY <1>4 DEF OneWriter
<1>6. CopyFresh'
  BY <1>4 DEF CopyFresh, Section
<1>7. LockAccounted'
  BY <1>4 DEF LockAccounted, Section
<1> QED
  BY <1>2, <1>5, <1>6, <1>7 DEF IInv

\* The one process inside leaves: nobody is inside any more.
LEMMA Leave ==
  ASSUME IInv, NEW p \in Process, pc[p] \in Section,
         NEW l \in Stage \ Section, Goto(p, l), dir' = dir, lock' = FALSE
  PROVE  IInv'
<1>1. pc' = [pc EXCEPT ![p] = l]
  BY DEF Goto
<1>2. Places'
  BY <1>1 DEF IInv, Places
<1>3. \A q \in Process : pc'[q] \notin Section
  BY <1>1 DEF IInv, Places, OneWriter
<1>4. OneWriter'
  BY <1>3 DEF OneWriter
<1>5. CopyFresh'
  BY <1>3 DEF CopyFresh, Section
<1>6. LockAccounted'
  BY DEF LockAccounted
<1> QED
  BY <1>2, <1>4, <1>5, <1>6 DEF IInv

-----------------------------------------------------------------------------

\* Nothing runs and no lock file exists at first.
THEOREM InitInv == Init => IInv
<1> SUFFICES ASSUME Init PROVE IInv
  OBVIOUS
<1>1. (CHOOSE d \in Dir : TRUE) \in Dir
  BY ProcessesAssumption
<1>2. Places
  BY <1>1 DEF Init, Places, Stage
<1>3. OneWriter /\ CopyFresh /\ LockAccounted
  BY DEF Init, OneWriter, CopyFresh, LockAccounted, Section
<1> QED
  BY <1>2, <1>3 DEF IInv

\* Where the connection or the process ends.
LEMMA Ending ==
  ASSUME IInv, NEW p \in Process, UNCHANGED <<files, cut>>, Exit(p) \/ NoConnection(p),
         StillLeft, pc[p] \in Section => apart' = "left"
  PROVE  IInv'
<1>1. (CHOOSE d \in Dir : TRUE) \in Dir
  BY ProcessesAssumption
<1>2. CASE Exit(p)
  <2>1. Goto(p, "done") /\ dir' = [dir EXCEPT ![p] = CHOOSE d \in Dir : TRUE]
    BY <1>2 DEF Exit
  <2>2. dir' \in [Process -> Dir] /\ \A q \in Process \ {p} : dir'[q] = dir[q]
    BY <1>1, <2>1 DEF IInv, Places
  <2>3. "done" \in Stage \ Section
    BY DEF Stage, Section
  <2> QED
    BY <2>1, <2>2, <2>3, Outside
<1>3. CASE Goto(p, "ioctl") /\ UNCHANGED dir
  <2>1. dir' \in [Process -> Dir] /\ "ioctl" \in Stage \ Section
    BY <1>3 DEF IInv, Places, Stage, Section
  <2> QED
    BY <1>3, <2>1, Outside
<1> QED
  BY <1>2, <1>3 DEF NoConnection

\* A step of a process that goes to a place outside the section, with its
\* mount point and the files as they are.
LEMMA Moves ==
  ASSUME IInv, NEW p \in Process, NEW l, l \in Stage \ Section, Goto(p, l),
         dir' = dir, UNCHANGED <<files, cut>>,
         StillLeft, pc[p] \in Section => apart' = "left"
  PROVE  IInv'
<1>1. dir' \in [Process -> Dir] /\ \A q \in Process \ {p} : dir'[q] = dir[q]
  BY DEF IInv, Places
<1> QED
  BY <1>1, Outside

\* The conversation with the remote side leaves mtab and the lock alone.
LEMMA TalkKeeps ==
  ASSUME IInv, NEW p \in Mounter,
         Start(p) \/ Converse(p) \/ RemoteStep(p) \/ SshGone(p)
  PROVE  IInv'
<1>p. p \in Process
  BY DEF Process
<1>s. {"test", "code", "init", "mount", "ioctl"} \subseteq Stage \ Section
  BY DEF Stage, Section
<1>1. CASE Start(p)
  <2>1. PICK d \in Dir : dir' = [dir EXCEPT ![p] = d] /\ Goto(p, "test")
    BY <1>1 DEF Start, Connect
  <2>2. dir' \in [Process -> Dir] /\ \A q \in Process \ {p} : dir'[q] = dir[q]
    BY <2>1 DEF IInv, Places
  <2>3. UNCHANGED <<files, cut>>
    BY <1>1 DEF Start
  <2>4. pc[p] \notin Section /\ StillLeft
    BY <1>1 DEF Start, At, Section, StillLeft
  <2> QED
    BY <1>p, <1>s, <2>1, <2>2, <2>3, <2>4, Outside
<1>2. CASE TestReply(p)
  <2>1. UNCHANGED <<files, apart, cut>> /\ pc[p] \notin Section /\ StillLeft
    BY <1>2 DEF TestReply, At, Section, StillLeft
  <2>2. \/ UNCHANGED <<pc, dir>>
        \/ Goto(p, "code") /\ UNCHANGED dir
        \/ Exit(p)
        \/ NoConnection(p)
    BY <1>2 DEF TestReply, NextProto
  <2>3. CASE UNCHANGED <<pc, dir>>
    BY <2>1, <2>3, Elsewhere
  <2>4. CASE Goto(p, "code") /\ UNCHANGED dir
    BY <1>p, <1>s, <2>1, <2>4, Moves
  <2>5. CASE Exit(p) \/ NoConnection(p)
    BY <1>p, <2>1, <2>5, Ending
  <2> QED
    BY <2>2, <2>3, <2>4, <2>5
<1>3. CASE CodeReply(p)
  <2>1. UNCHANGED <<files, apart, cut>> /\ pc[p] \notin Section /\ StillLeft
    BY <1>3 DEF CodeReply, At, Section, StillLeft
  <2>2. (Goto(p, "init") /\ UNCHANGED dir) \/ NoConnection(p)
    BY <1>3 DEF CodeReply
  <2> QED
    BY <1>p, <1>s, <2>1, <2>2, Moves, Ending
<1>4. CASE InitReply(p)
  <2>1. UNCHANGED <<files, apart, cut>> /\ pc[p] \notin Section /\ StillLeft
    BY <1>4 DEF InitReply, At, Section, StillLeft
  <2>2. \/ \E l \in {"ioctl", "mount"} : Goto(p, l) /\ UNCHANGED dir
        \/ NoConnection(p)
    BY <1>4 DEF InitReply
  <2> QED
    BY <1>p, <1>s, <2>1, <2>2, Moves, Ending
<1>5. CASE NoReply(p)
  <2>1. UNCHANGED <<files, cut>> /\ NoConnection(p) /\ pc[p] \notin Section /\ StillLeft
    BY <1>5 DEF NoReply, Section, StillLeft
  <2> QED
    BY <1>p, <2>1, Ending
<1>6. CASE RemoteStep(p) \/ SshGone(p)
  <2>1. UNCHANGED <<pc, dir, files, apart, cut>>
    BY <1>6 DEF RemoteStep, SshGone
  <2> QED
    BY <2>1, Elsewhere
<1> QED
  BY <1>1, <1>2, <1>3, <1>4, <1>5, <1>6 DEF Converse

\* So do the steps that change the mounts.
LEMMA KernelKeeps ==
  ASSUME IInv, NEW p \in Process,
         \/ p \in Mounter /\ (MountHangs(p) \/ DoMount(p) \/ MountFails(p) \/ KernelDrops(p))
         \/ p \in Unmounter /\ DoUmount(p)
  PROVE  IInv'
<1>s. {"hung", "stay", "lock"} \subseteq Stage \ Section
  BY DEF Stage, Section
<1>1. CASE MountHangs(p)
  <2>1. UNCHANGED <<dir, files, cut>> /\ Goto(p, "hung") /\ pc[p] \notin Section /\ StillLeft
    BY <1>1 DEF MountHangs, At, Section, StillLeft
  <2> QED
    BY <1>s, <2>1, Moves
<1>2. CASE DoMount(p)
  <2>1. UNCHANGED <<dir, files, cut>> /\ pc[p] \notin Section /\ StillLeft
    BY <1>2 DEF DoMount, At, Section, StillLeft, ComeApart
  <2>2. \E l \in {"stay", "lock"} : Goto(p, l)
    BY <1>2 DEF DoMount
  <2> QED
    BY <1>s, <2>1, <2>2, Moves
<1>3. CASE MountFails(p)
  <2>1. UNCHANGED <<files, cut>> /\ Exit(p) /\ pc[p] \notin Section /\ StillLeft
    BY <1>3 DEF MountFails, At, Section, StillLeft
  <2> QED
    BY <2>1, Ending
<1>4. CASE DoUmount(p)
  <2>1. PICK d \in Dir : dir' = [dir EXCEPT ![p] = d]
    BY <1>4 DEF DoUmount
  <2>2. dir' \in [Process -> Dir] /\ \A q \in Process \ {p} : dir'[q] = dir[q]
    BY <2>1 DEF IInv, Places
  <2>3. UNCHANGED <<files, cut>> /\ Goto(p, "lock") /\ pc[p] \notin Section /\ StillLeft
    BY <1>4 DEF DoUmount, At, Section, StillLeft, ComeApart
  <2> QED
    BY <1>s, <2>2, <2>3, Outside
<1>5. CASE KernelDrops(p)
  <2>1. UNCHANGED <<pc, dir, files, apart, cut>>
    BY <1>5 DEF KernelDrops
  <2> QED
    BY <2>1, Elsewhere
<1> QED
  BY <1>1, <1>2, <1>3, <1>4, <1>5

\* The steps of update_mtab.  The last shfsumount to rename finds mtab as it
\* was when it copied.
LEMMA MtabKeeps ==
  ASSUME IInv, NEW p \in Process,
         \/ MtabStep(p)
         \/ p \in Mounter /\ (AddEntry(p) \/ SetMode(p))
         \/ p \in Unmounter /\ (CopyEntries(p) \/ RenameMtab(p))
  PROVE  IInv'
<1>s. /\ {"add", "copy", "mode", "rename", "unlink"} \subseteq Section
      /\ \A q \in Process : After(q) \in Stage \ Section
  BY DEF Stage, Section, After
<1>1. CASE LockMtab(p) /\ lock
  <2>1. UNCHANGED <<dir, files, cut>> /\ Goto(p, After(p)) /\ pc[p] \notin Section /\ StillLeft
    BY <1>1 DEF LockMtab, files, At, Section, StillLeft, ComeApart, IInv, OneWriter
  <2> QED
    BY <1>s, <2>1, Moves
<1>2. CASE LockMtab(p) /\ ~lock
  <2>1. lock' = TRUE /\ Goto(p, "open") /\ dir' = dir
    BY <1>2 DEF LockMtab
  <2> QED
    BY <1>2, <2>1, Enter
<1>3. CASE OpenMtab(p)
  <2>1. pc[p] \in Section /\ dir' = dir /\ lock' = lock
    BY <1>3 DEF OpenMtab, At, Section
  <2>2. Goto(p, "add") \/ (Goto(p, "copy") /\ tmp' = {})
    BY <1>3 DEF OpenMtab
  <2>3. CASE Goto(p, "add")
    BY <1>s, <2>1, <2>3, Inside
  <2>4. CASE Goto(p, "copy") /\ tmp' = {}
    BY <1>s, <2>1, <2>4, Inside
  <2> QED
    BY <2>2, <2>3, <2>4
<1>4. CASE AddEntry(p)
  <2>1. pc[p] \in Section /\ dir' = dir /\ lock' = lock /\ Goto(p, "mode")
    BY <1>4 DEF AddEntry, At, Section
  <2> QED
    BY <1>s, <2>1, Inside
<1>5. CASE SetMode(p)
  <2>1. pc[p] \in Section /\ dir' = dir /\ lock' = lock /\ Goto(p, "unlink")
    BY <1>5 DEF SetMode, At, Section, files
  <2> QED
    BY <1>s, <2>1, Inside
<1>6. CASE CopyEntries(p)
  <2>1. pc[p] \in Section /\ dir' = dir /\ lock' = lock /\ Goto(p, "rename")
    BY <1>6 DEF CopyEntries, At, Section
  <2>2. tmp = {}
    BY <1>6 DEF CopyEntries, At, IInv, CopyFresh
  <2>3. CopyOf(tmp', mtab', dir[p], cut')
    BY <1>6, <2>2 DEF CopyEntries, CopyOf
  <2> QED
    BY <1>s, <2>1, <2>3, Inside
<1>7. CASE RenameMtab(p)
  <2>1. pc[p] \in Section /\ dir' = dir /\ lock' = lock /\ Goto(p, "unlink")
    BY <1>7 DEF RenameMtab, At, Section
  <2> QED
    BY <1>s, <2>1, Inside
<1>8. CASE UnlinkLock(p)
  <2>1. pc[p] \in Section /\ dir' = dir /\ lock' = FALSE /\ Goto(p, After(p))
    BY <1>8 DEF UnlinkLock, At, Section
  <2> QED
    BY <1>s, <2>1, Leave
<1> QED
  BY <1>1, <1>2, <1>3, <1>4, <1>5, <1>6, <1>7, <1>8 DEF MtabStep

\* And the steps that end a process.
LEMMA EndKeeps ==
  ASSUME IInv, NEW p \in Process,
         \/ p \in Mounter /\ (Stay(p) \/ Reap(p) \/ Ioctl(p))
         \/ MtabFails(p)
         \/ Killed(p)
  PROVE  IInv'
<1>s. {"reap", "test", "done"} \subseteq Stage \ Section /\ After(p) \in Stage \ Section
  BY DEF Stage, Section, After
<1>1. CASE Stay(p)
  <2>1. UNCHANGED <<files, cut>> /\ pc[p] \notin Section /\ StillLeft
    BY <1>1 DEF Stay, At, Section, StillLeft
  <2>2. (Goto(p, "reap") /\ UNCHANGED dir) \/ Exit(p)
    BY <1>1 DEF Stay
  <2> QED
    BY <1>s, <2>1, <2>2, Moves, Ending
<1>2. CASE Reap(p)
  <2>1. UNCHANGED <<dir, files, cut>> /\ Goto(p, "test") /\ pc[p] \notin Section /\ StillLeft
    BY <1>2 DEF Reap, Connect, At, Section, StillLeft
  <2> QED
    BY <1>s, <2>1, Moves
<1>3. CASE Ioctl(p)
  <2>1. UNCHANGED <<files, cut>> /\ Exit(p) /\ pc[p] \notin Section /\ StillLeft
    BY <1>3 DEF Ioctl, At, Section, StillLeft
  <2> QED
    BY <2>1, Ending
<1>4. CASE MtabFails(p)
  <2>1. UNCHANGED <<dir, files, cut>> /\ Goto(p, After(p)) /\ apart' = "left" /\ StillLeft
    BY <1>4 DEF MtabFails, StillLeft
  <2> QED
    BY <1>s, <2>1, Moves
<1>5. CASE Killed(p)
  <2>1. UNCHANGED <<files, cut>> /\ StillLeft /\ (pc[p] \in Section => apart' = "left")
    BY <1>5 DEF Killed, StillLeft, ComeApart
  <2>2. Exit(p) \/ (Goto(p, "done") /\ UNCHANGED dir)
    BY <1>5 DEF Killed
  <2> QED
    BY <1>s, <2>1, <2>2, Moves, Ending
<1> QED
  BY <1>1, <1>2, <1>3, <1>4, <1>5

-----------------------------------------------------------------------------

\* Every step keeps the invariant.
THEOREM StepInv == IInv /\ [Next]_vars => IInv'
<1> SUFFICES ASSUME IInv, [Next]_vars PROVE IInv'
  OBVIOUS
<1>1. CASE UNCHANGED vars
  BY <1>1, Elsewhere DEF vars
<1>2. ASSUME NEW p \in Mounter,
             Start(p) \/ Converse(p) \/ RemoteStep(p) \/ SshEof(p) \/ SshBreaks(p)
      PROVE  IInv'
  BY <1>2, TalkKeeps DEF SshEof, SshBreaks
<1>3. ASSUME NEW p \in Mounter, MounterStep(p) \/ MountFails(p) \/ KernelDrops(p)
      PROVE  IInv'
  BY <1>3, KernelKeeps, MtabKeeps, EndKeeps DEF MounterStep, Process
<1>4. ASSUME NEW q \in Unmounter, DoUmount(q) \/ UnmounterStep(q)
      PROVE  IInv'
  BY <1>4, KernelKeeps, MtabKeeps DEF UnmounterStep, Process
<1>5. ASSUME NEW p \in Process, MtabFails(p) \/ Killed(p)
      PROVE  IInv'
  BY <1>5, EndKeeps
<1> QED
  BY <1>1, <1>2, <1>3, <1>4, <1>5 DEF Next

\* Only one process at a time updates mtab, however many shfsmount and
\* shfsumount run and wherever they are killed.
THEOREM Writers == Spec => []OneWriter
<1>1. IInv => OneWriter
  BY DEF IInv
<1> QED
  BY <1>1, InitInv, StepInv, PTL DEF Spec

\* A lock file that belongs to nobody was left by an error path or a kill.
THEOREM Accounted == Spec => []LockAccounted
<1>1. IInv => LockAccounted
  BY DEF IInv
<1> QED
  BY <1>1, InitInv, StepInv, PTL DEF Spec

\* The steps that write mtab.
LEMMA MtabWritten ==
  ASSUME Next
  PROVE  \/ mtab' = mtab
         \/ \E p \in Mounter : AddEntry(p)
         \/ \E q \in Unmounter : RenameMtab(q)
<1>1. ASSUME NEW p \in Mounter,
             Start(p) \/ Converse(p) \/ RemoteStep(p) \/ SshEof(p) \/ SshBreaks(p)
      PROVE  mtab' = mtab
  BY <1>1 DEF Start, Converse, TestReply, CodeReply, InitReply, NoReply, RemoteStep,
              SshEof, SshBreaks, SshGone, files
<1>2. ASSUME NEW p \in Process, MtabStep(p) \/ MtabFails(p) \/ Killed(p)
      PROVE  mtab' = mtab
  BY <1>2 DEF MtabStep, LockMtab, OpenMtab, UnlinkLock, MtabFails, Killed, files
<1>3. ASSUME NEW p \in Mounter, MounterStep(p) \/ MountFails(p) \/ KernelDrops(p)
      PROVE  mtab' = mtab \/ AddEntry(p)
  BY <1>3, <1>2 DEF MounterStep, MountHangs, DoMount, MountFails, KernelDrops, SetMode,
              Stay, Reap, Ioctl, files, Process
<1>4. ASSUME NEW q \in Unmounter, DoUmount(q) \/ UnmounterStep(q)
      PROVE  mtab' = mtab \/ RenameMtab(q)
  BY <1>4, <1>2 DEF UnmounterStep, DoUmount, CopyEntries, files, Process
<1> QED
  BY <1>1, <1>2, <1>3, <1>4 DEF Next

\* The entry added is of the mount point of the process, and the copy that
\* replaces mtab holds nothing new and, unless it was cut short, lacks nothing
\* but entries of it.
THEOREM Others == Spec => OthersKept
<1>1. IInv /\ [Next]_vars => [OthersKeptStep]_vars
  <2> SUFFICES ASSUME IInv, Next PROVE OthersKeptStep
    OBVIOUS
  <2>1. CASE mtab' = mtab
    BY <2>1 DEF OthersKeptStep
  <2>2. ASSUME NEW p \in Mounter, AddEntry(p)
        PROVE  OthersKeptStep
    <3>1. pc[p] = "add" /\ pc'[p] = "mode" /\ p \in Process
      BY <2>2 DEF AddEntry, At, Goto, IInv, Places, Process
    <3>2. \A d \in Dir : d # dir[p] => EntriesOf(mtab', d) = EntriesOf(mtab, d)
      BY <2>2 DEF AddEntry, EntriesOf
    <3> QED
      BY <3>1, <3>2 DEF OthersKeptStep
  <2>3. ASSUME NEW q \in Unmounter, RenameMtab(q)
        PROVE  OthersKeptStep
    <3>1. pc[q] = "rename" /\ pc'[q] = "unlink" /\ q \in Process
      BY <2>3 DEF RenameMtab, At, Goto, IInv, Places, Process
    <3>2. CopyOf(mtab', mtab, dir[q], cut)
      BY <2>3, <3>1 DEF RenameMtab, IInv, CopyFresh
    <3>3. \A d \in Dir : /\ EntriesOf(mtab', d) \subseteq EntriesOf(mtab, d)
                         /\ d # dir[q] /\ ~cut => EntriesOf(mtab', d) = EntriesOf(mtab, d)
      BY <3>2 DEF EntriesOf, CopyOf
    <3> QED
      BY <3>1, <3>3 DEF OthersKeptStep, Renames
  <2> QED
    BY <2>1, <2>2, <2>3, MtabWritten
<1> QED
  BY <1>1, InitInv, StepInv, PTL DEF Spec, OthersKept

-----------------------------------------------------------------------------
(* The size of the cache: parse_options counts how often the number, less  *)
(* one, can be halved.  The provers know nothing of recursion: that the    *)
(* two functions are defined at all is shown first.                        *)

\* Every set of naturals that is not empty has a least element.
LEMMA LeastElement ==
  ASSUME NEW T \in SUBSET Nat, T # {}
  PROVE  \E x \in T : \A y \in T : x <= y
<1> DEFINE R == OpToRel(<, Nat)
<1>1. IsWellFoundedOn(R, Nat)
  BY NatLessThanWellFounded
<1>2. \A x, y \in Nat : y < x => <<y, x>> \in R
  BY DEF OpToRel
<1> HIDE DEF R
<1>3. PICK x \in T : \A y \in T : ~(<<y, x>> \in R)
  BY <1>1, WFMin, Zenon
<1>4. ASSUME NEW y \in T PROVE x <= y
  <2>1. ~(y < x)
    BY <1>2, <1>3
  <2> QED
    BY <2>1
<1> QED
  BY <1>4

\* f is what the recursion gives up to n: a at 0, elsewhere h of the value at
\* a smaller place g[i].
Runs(f, n, a, g, h) ==
  /\ f \in [0..n -> Nat]
  /\ \A i \in 0..n : f[i] = IF i = 0 THEN a ELSE h[f[g[i]]]

\* There is one up to every number.
LEMMA RunsExist ==
  ASSUME NEW a \in Nat, NEW g \in [Nat -> Nat], NEW h \in [Nat -> Nat],
         \A i \in Nat \ {0} : g[i] < i, NEW n \in Nat
  PROVE  \E f : Runs(f, n, a, g, h)
<1> DEFINE T == {i \in Nat : ~ \E f : Runs(f, i, a, g, h)}
<1> SUFFICES ASSUME T # {} PROVE FALSE
  OBVIOUS
<1>1. PICK x \in T : \A y \in T : x <= y
  BY LeastElement, T \in SUBSET Nat
<1>2. CASE x = 0
  <2>1. Runs([i \in 0..0 |-> a], 0, a, g, h)
    BY DEF Runs
  <2> QED
    BY <1>1, <1>2, <2>1
<1>3. CASE x # 0
  <2>1. PICK z \in Nat : z = x - 1
    BY <1>3
  <2>2. PICK e : Runs(e, x - 1, a, g, h)
    <3>1. z \notin T
      <4> SUFFICES ASSUME z \in T PROVE FALSE
        OBVIOUS
      <4>1. x <= z
        BY <1>1
      <4> QED
        BY <2>1, <4>1
    <3> QED
      BY <2>1, <3>1
  <2>3. PICK v \in Nat : v = h[e[g[x]]]
    <3>1. g[x] \in 0..(x - 1)
      BY <1>3
    <3>2. e[g[x]] \in Nat
      BY <2>2, <3>1 DEF Runs
    <3> QED
      BY <3>2
  <2> DEFINE f == [i \in 0..x |-> IF i = x THEN v ELSE e[i]]
  <2>4. \A i \in 0..x : i # x => i \in 0..(x - 1)
    OBVIOUS
  <2>5. f \in [0..x -> Nat]
    BY <2>2, <2>4 DEF Runs
  <2>6. ASSUME NEW i \in 0..x PROVE f[i] = IF i = 0 THEN a ELSE h[f[g[i]]]
    <3>1. ASSUME i # 0 PROVE f[g[i]] = e[g[i]]
      <4>1. g[i] \in Nat /\ g[i] < i
        BY <3>1
      <4>2. g[i] \in 0..x /\ g[i] # x
        BY <4>1
      <4> QED
        BY <4>2
    <3>2. CASE i = x
      BY <1>3, <2>3, <3>1, <3>2
    <3>3. CASE i # x
      <4>1. e[i] = IF i = 0 THEN a ELSE h[e[g[i]]]
        BY <2>2, <2>4, <3>3 DEF Runs
      <4> QED
        BY <3>1, <3>3, <4>1
    <3> QED
      BY <3>2, <3>3
  <2>7. Runs(f, x, a, g, h)
    BY <2>5, <2>6 DEF Runs
  <2> QED
    BY <1>1, <2>7
<1> QED
  BY <1>2, <1>3

\* A function that follows the recursion everywhere.
Follows(f, a, g, h) == f = [i \in Nat |-> IF i = 0 THEN a ELSE h[f[g[i]]]]

\* And so there is one for all numbers.
LEMMA Recursion ==
  ASSUME NEW a \in Nat, NEW g \in [Nat -> Nat], NEW h \in [Nat -> Nat],
         \A i \in Nat \ {0} : g[i] < i
  PROVE  \E f \in [Nat -> Nat] : Follows(f, a, g, h)
<1> DEFINE r(n) == CHOOSE e : Runs(e, n, a, g, h)
           f == [n \in Nat |-> r(n)[n]]
<1>1. \A n \in Nat : Runs(r(n), n, a, g, h)
  BY RunsExist
<1> HIDE DEF r
<1>2. f \in [Nat -> Nat]
  BY <1>1 DEF Runs
<1>3. ASSUME NEW n \in Nat, NEW m \in Nat, m < n
      PROVE  r(n)[m] = r(m)[m]
  <2>1. PICK e, d : e = r(n) /\ d = r(m)
    OBVIOUS
  <2>2. Runs(e, n, a, g, h) /\ Runs(d, m, a, g, h)
    BY <1>1, <2>1
  <2> DEFINE T == {i \in Nat : i <= m /\ e[i] # d[i]}
  <2> SUFFICES ASSUME T # {} PROVE FALSE
    BY <2>1
  <2>3. PICK x \in T : \A y \in T : x <= y
    BY LeastElement, T \in SUBSET Nat
  <2>4. x \in 0..n /\ x \in 0..m
    BY <1>3, <2>3
  <2>5. x # 0
    BY <2>2, <2>3, <2>4 DEF Runs
  <2>6. PICK z \in Nat : z = g[x] /\ z < x
    BY <2>5
  <2>7. e[z] = d[z]
    <3>1. z <= m /\ ~(x <= z)
      BY <2>4, <2>6
    <3> QED
      BY <2>3, <3>1
  <2>8. e[x] = h[e[z]] /\ d[x] = h[d[z]]
    BY <2>2, <2>4, <2>5, <2>6 DEF Runs
  <2> QED
    BY <2>3, <2>7, <2>8
<1>4. ASSUME NEW n \in Nat PROVE f[n] = IF n = 0 THEN a ELSE h[f[g[n]]]
  <2>1. r(n)[n] = IF n = 0 THEN a ELSE h[r(n)[g[n]]]
    BY <1>1 DEF Runs
  <2>2. ASSUME n # 0 PROVE r(n)[g[n]] = f[g[n]]
    <3>1. PICK m \in Nat : m = g[n] /\ m < n
      BY <2>2
    <3>2. r(n)[m] = r(m)[m]
      BY <3>1, <1>3
    <3> QED
      BY <3>1, <3>2
  <2> QED
    BY <2>1, <2>2
<1>5. f = [n \in Nat |-> IF n = 0 THEN a ELSE h[f[g[n]]]]
  <2>1. f = [n \in Nat |-> f[n]]
    BY <1>2
  <2> HIDE DEF f
  <2> QED
    BY <1>4, <2>1
<1>6. Follows(f, a, g, h)
  BY <1>5 DEF Follows
<1> HIDE DEF f
<1> QED
  BY <1>2, <1>6, Zenon

\* What the two functions of the model are.
LEMMA Defined ==
  /\ Shifts \in [Nat -> Nat] /\ PowerOfTwo \in [Nat -> Nat]
  /\ Shifts[0] = 0 /\ PowerOfTwo[0] = 1
  /\ \A i \in Nat \ {0} : Shifts[i] = 1 + Shifts[i \div 2]
  /\ \A j \in Nat : PowerOfTwo[j + 1] = 2 * PowerOfTwo[j]
<1>1. /\ Shifts \in [Nat -> Nat]
      /\ \A i \in Nat : Shifts[i] = IF i = 0 THEN 0 ELSE 1 + Shifts[i \div 2]
  <2> DEFINE g == [i \in Nat |-> i \div 2]
             h == [v \in Nat |-> 1 + v]
  <2>1. g \in [Nat -> Nat] /\ h \in [Nat -> Nat] /\ \A i \in Nat \ {0} : g[i] < i
    OBVIOUS
  <2>2. PICK f \in [Nat -> Nat] : Follows(f, 0, g, h)
    <3> HIDE DEF g, h
    <3>1. 0 \in Nat
      OBVIOUS
    <3> QED
      BY <2>1, <3>1, Recursion, Zenon
  <2>3. f = [i \in Nat |-> IF i = 0 THEN 0 ELSE 1 + f[i \div 2]]
    BY <2>2 DEF Follows
  <2>4. Shifts = [i \in Nat |-> IF i = 0 THEN 0 ELSE 1 + Shifts[i \div 2]]
    BY <2>3 DEF Shifts
  <2>5. \A i \in Nat : Shifts[i] = IF i = 0 THEN 0 ELSE 1 + Shifts[i \div 2]
    BY <2>4
  <2> DEFINE T == {i \in Nat : Shifts[i] \notin Nat}
  <2>6. T = {}
    <3> SUFFICES ASSUME T # {} PROVE FALSE
      OBVIOUS
    <3>1. PICK x \in T : \A y \in T : x <= y
      BY LeastElement, T \in SUBSET Nat
    <3>2. x # 0
      BY <2>5, <3>1
    <3>3. PICK z \in Nat : z = x \div 2 /\ z < x
      BY <3>2
    <3>4. Shifts[z] \in Nat
      BY <3>1, <3>3
    <3>5. Shifts[x] = 1 + Shifts[z]
      BY <2>5, <3>2, <3>3
    <3> QED
      BY <3>1, <3>4, <3>5
  <2> QED
    BY <2>4, <2>5, <2>6
<1>2. /\ PowerOfTwo \in [Nat -> Nat]
      /\ \A j \in Nat : PowerOfTwo[j] = IF j = 0 THEN 1 ELSE 2 * PowerOfTwo[j - 1]
  <2> DEFINE g == [i \in Nat |-> IF i = 0 THEN 0 ELSE i - 1]
             h == [v \in Nat |-> 2 * v]
  <2>1. g \in [Nat -> Nat] /\ h \in [Nat -> Nat] /\ \A i \in Nat \ {0} : g[i] < i
    OBVIOUS
  <2>2. PICK f \in [Nat -> Nat] : Follows(f, 1, g, h)
    <3> HIDE DEF g, h
    <3>1. 1 \in Nat
      OBVIOUS
    <3> QED
      BY <2>1, <3>1, Recursion, Zenon
  <2>3. f = [i \in Nat |-> IF i = 0 THEN 1 ELSE 2 * f[i - 1]]
    <3>1. ASSUME NEW i \in Nat, i # 0 PROVE h[f[g[i]]] = 2 * f[i - 1]
      <4>1. g[i] = i - 1 /\ i - 1 \in Nat
        BY <3>1
      <4>2. f[i - 1] \in Nat
        BY <2>2, <4>1
      <4> QED
        BY <4>1, <4>2
    <3> HIDE DEF g, h
    <3> QED
      BY <2>2, <3>1 DEF Follows
  <2>4. PowerOfTwo = [i \in Nat |-> IF i = 0 THEN 1 ELSE 2 * PowerOfTwo[i - 1]]
    BY <2>3 DEF PowerOfTwo
  <2>5. \A i \in Nat : PowerOfTwo[i] = IF i = 0 THEN 1 ELSE 2 * PowerOfTwo[i - 1]
    BY <2>4
  <2> DEFINE T == {i \in Nat : PowerOfTwo[i] \notin Nat}
  <2>6. T = {}
    <3> SUFFICES ASSUME T # {} PROVE FALSE
      OBVIOUS
    <3>1. PICK x \in T : \A y \in T : x <= y
      BY LeastElement, T \in SUBSET Nat
    <3>2. x # 0
      BY <2>5, <3>1
    <3>3. PICK z \in Nat : z = x - 1 /\ z < x
      BY <3>2
    <3>4. PowerOfTwo[z] \in Nat
      BY <3>1, <3>3
    <3>5. PowerOfTwo[x] = 2 * PowerOfTwo[z]
      BY <2>5, <3>2, <3>3
    <3> QED
      BY <3>1, <3>4, <3>5
  <2> QED
    BY <2>4, <2>5, <2>6
<1>3. ASSUME NEW j \in Nat PROVE PowerOfTwo[j + 1] = 2 * PowerOfTwo[j]
  <2>1. j + 1 \in Nat /\ j + 1 # 0 /\ (j + 1) - 1 = j
    OBVIOUS
  <2> QED
    BY <1>2, <2>1
<1> QED
  BY <1>1, <1>2, <1>3, 0 \in Nat

\* Two more facts: what is halved doubles at most, and powers grow.
LEMMA Sizes ==
  /\ \A i \in Nat : PowerOfTwo[Shifts[i]] > i /\ (i > 0 => PowerOfTwo[Shifts[i]] <= 2 * i)
  /\ \A j \in Nat : j >= 18 => PowerOfTwo[j] >= 512 * 512
<1>1. \A i \in Nat : PowerOfTwo[Shifts[i]] > i /\ (i > 0 => PowerOfTwo[Shifts[i]] <= 2 * i)
  <2> DEFINE T == {i \in Nat : ~(/\ PowerOfTwo[Shifts[i]] > i
                                 /\ i > 0 => PowerOfTwo[Shifts[i]] <= 2 * i)}
  <2> SUFFICES ASSUME T # {} PROVE FALSE
    OBVIOUS
  <2>1. PICK x \in T : \A y \in T : x <= y
    BY LeastElement, T \in SUBSET Nat
  <2>2. x # 0
    BY <2>1, Defined
  <2>3. PICK z \in Nat : z = x \div 2 /\ z < x /\ (x = 2 * z \/ x = (2 * z) + 1)
    BY <2>2
  <2>4. z \notin T
    <3> SUFFICES ASSUME z \in T PROVE FALSE
      OBVIOUS
    <3>1. x <= z
      BY <2>1
    <3> QED
      BY <2>3, <3>1
  <2>5. PICK s \in Nat, v \in Nat : s = Shifts[z] /\ v = PowerOfTwo[s]
    BY Defined
  <2>6. v > z /\ (z > 0 => v <= 2 * z)
    BY <2>4, <2>5
  <2>7. Shifts[x] = s + 1
    BY <2>2, <2>3, <2>5, Defined
  <2>8. PowerOfTwo[Shifts[x]] = 2 * v
    BY <2>5, <2>7, Defined
  <2>9. z = 0 => v = 1
    BY <2>5, Defined
  <2>10. 2 * v > x /\ 2 * v <= 2 * x
    BY <2>2, <2>3, <2>6, <2>9
  <2> QED
    BY <2>1, <2>8, <2>10
<1>2. PowerOfTwo[18] = 512 * 512
  <2>1. /\ PowerOfTwo[1] = 2 /\ PowerOfTwo[2] = 4 /\ PowerOfTwo[3] = 8
        /\ PowerOfTwo[4] = 16 /\ PowerOfTwo[5] = 32 /\ PowerOfTwo[6] = 64
    BY Defined, \A j \in {0, 1, 2, 3, 4, 5} : PowerOfTwo[j + 1] = 2 * PowerOfTwo[j]
  <2>2. /\ PowerOfTwo[7] = 128 /\ PowerOfTwo[8] = 256 /\ PowerOfTwo[9] = 512
        /\ PowerOfTwo[10] = 1024 /\ PowerOfTwo[11] = 2048 /\ PowerOfTwo[12] = 4096
    <3>1. \A j \in {6, 7, 8, 9, 10, 11} : PowerOfTwo[j + 1] = 2 * PowerOfTwo[j]
      BY Defined
    <3> QED
      BY <2>1, <3>1
  <2>3. /\ PowerOfTwo[13] = 8192 /\ PowerOfTwo[14] = 16384 /\ PowerOfTwo[15] = 32768
        /\ PowerOfTwo[16] = 65536 /\ PowerOfTwo[17] = 131072
    <3>1. \A j \in {12, 13, 14, 15, 16} : PowerOfTwo[j + 1] = 2 * PowerOfTwo[j]
      BY Defined
    <3> QED
      BY <2>2, <3>1
  <2>4. PowerOfTwo[17 + 1] = 2 * PowerOfTwo[17]
    BY Defined
  <2> QED
    BY <2>3, <2>4
<1>3. PICK c \in Nat : c = 512 * 512
  OBVIOUS
<1>4. \A j \in Nat : j >= 18 => PowerOfTwo[j] >= c
  <2> DEFINE T == {j \in Nat : j >= 18 /\ ~(PowerOfTwo[j] >= c)}
  <2> SUFFICES ASSUME T # {} PROVE FALSE
    OBVIOUS
  <2>1. PICK x \in T : \A y \in T : x <= y
    BY LeastElement, T \in SUBSET Nat
  <2>2. x # 18
    BY <1>2, <1>3, <2>1
  <2>3. PICK z \in Nat : x = z + 1 /\ z >= 18
    <3>1. x - 1 \in Nat /\ x = (x - 1) + 1 /\ x - 1 >= 18
      BY <2>1, <2>2
    <3> QED
      BY <3>1
  <2>4. PowerOfTwo[z] >= c
    <3> SUFFICES ASSUME z \in T PROVE FALSE
      BY <2>3
    <3>1. x <= z
      BY <2>1
    <3> QED
      BY <2>1, <2>3, <3>1
  <2>5. PICK v \in Nat : v = PowerOfTwo[z]
    BY Defined
  <2>6. PowerOfTwo[x] = 2 * v
    BY <2>3, <2>5, Defined
  <2>7. 2 * v >= c
    BY <2>4, <2>5
  <2>8. ~(2 * v >= c)
    BY <2>1, <2>6
  <2> QED
    BY <2>7, <2>8
<1> QED
  BY <1>1, <1>3, <1>4

\* The cache has at least as many pages as the option says, fewer than twice
\* as many, and a power of two of them.
LEMMA CacheSizeRight ==
  ASSUME NEW n \in Nat \ {0}
  PROVE  /\ FCacheSize(n) \in Nat
         /\ n <= FCacheSize(n) /\ FCacheSize(n) < 2 * n
         /\ n <= 256 * 512 => \E k \in 0..17 : FCacheSize(n) = PowerOfTwo[k]
<1>1. PICK m \in Nat : m = n - 1
  OBVIOUS
<1>2. PICK s \in Nat, v \in Nat : s = Shifts[m] /\ v = PowerOfTwo[s]
  BY Defined
<1>3. FCacheSize(n) = v
  BY <1>1, <1>2, Zenon DEF FCacheSize
<1>4. v > m /\ (m > 0 => v <= 2 * m)
  BY <1>2, Sizes
<1>5. m = 0 => v = 1
  BY <1>2, Defined
<1>6. n <= v /\ v < 2 * n
  BY <1>1, <1>4, <1>5
<1>7. ASSUME n <= 256 * 512
      PROVE  \E k \in 0..17 : v = PowerOfTwo[k]
  <2>1. v < 512 * 512
    BY <1>6, <1>7
  <2>2. ~(s >= 18)
    BY <1>2, <2>1, Sizes
  <2>3. s \in 0..17
    BY <2>2
  <2> QED
    BY <1>2, <2>3
<1> QED
  BY <1>3, <1>6, <1>7

-----------------------------------------------------------------------------
(* The types *)

ConnTypes ==
  /\ proto \in [Mounter -> Protos]
  /\ toSh \in [Mounter -> Seq(Commands)] /\ out \in [Mounter -> Seq(Lines)]
  /\ runs \in [Mounter -> {"sh", "perl", "shell", "perl ready", "shell ready"}]
  /\ ssh \in [Mounter -> BOOLEAN] /\ fd \in [Mounter -> BOOLEAN]

\* The lines the two sides write.
LEMMA LinesTyped ==
  /\ \A k \in {"text", "look", "okword", "failed", "200"} : Line(k) \in Lines
  /\ \A c \in {"test perl", "test shell"} : TestAnswers(c) \subseteq Lines
  /\ Greetings \subseteq Seq(Lines)
<1>1. \A k \in {"text", "look", "okword", "failed", "200"} : Line(k) \in Lines
  BY DEF Line, Lines
<1>2. \A c \in {"test perl", "test shell"} : TestAnswers(c) \subseteq Lines
  <2>1. \A s \in {{"stable"}, {"stable", "preserve"}} : [k |-> "ok", caps |-> s] \in Lines
    BY DEF Lines
  <2>2. Line("failed") \in Lines
    BY <1>1
  <2> QED
    BY <2>1, <2>2 DEF TestAnswers
<1>3. Greetings \subseteq Seq(Lines)
  <2>1. <<>> \in Seq(Lines)
    OBVIOUS
  <2>2. ASSUME NEW k \in {"text", "look", "okword"}
        PROVE  <<Line(k)>> \in Seq(Lines)
    <3>1. Line(k) \in Lines
      BY <1>1
    <3> QED
      BY <3>1
  <2> QED
    BY <2>1, <2>2 DEF Greetings
<1> QED
  BY <1>1, <1>2, <1>3

\* A new connection.
LEMMA ConnectTyped ==
  ASSUME ConnTypes, NEW p \in Mounter, NEW o, Connect(p, o)
  PROVE  ConnTypes'
<1>1. First(o) \in Protos
  BY DEF First, Protos
<1>2. PICK g \in Greetings : out' = [out EXCEPT ![p] = g]
  BY DEF Connect
<1>3. g \in Seq(Lines)
  BY <1>2, LinesTyped
<1>4. <<IF First(o) = "perl" THEN "test perl" ELSE "test shell">> \in Seq(Commands)
  BY DEF Commands
<1> QED
  BY <1>1, <1>2, <1>3, <1>4 DEF Connect, ConnTypes

\* A connection that is closed,
LEMMA CloseTyped ==
  ASSUME ConnTypes, NEW p \in Mounter, CloseSocket(p), Forget(p),
         ssh' \in [Mounter -> BOOLEAN]
  PROVE  ConnTypes'
<1>1. <<>> \in Seq(Commands) /\ <<>> \in Seq(Lines)
  OBVIOUS
<1>2. "perl" \in Protos
  BY DEF Protos
<1> QED
  BY <1>1, <1>2 DEF ConnTypes, CloseSocket, Forget

\* as by the end of a process.
LEMMA EndTyped ==
  ASSUME ConnTypes, NEW p \in Mounter, Exit(p) \/ NoConnection(p)
  PROVE  ConnTypes'
<1>1. CloseSocket(p) /\ Forget(p)
  BY DEF Exit, NoConnection
<1>2. ssh' \in [Mounter -> BOOLEAN]
  BY DEF Exit, NoConnection, ConnTypes
<1> QED
  BY <1>1, <1>2, CloseTyped

\* A read takes whole lines,
LEMMA ReadTyped ==
  ASSUME ConnTypes, NEW p \in Mounter, NEW n \in 1..Len(out[p]), Read(p, n)
  PROVE  out' \in [Mounter -> Seq(Lines)]
<1>1. out[p] \in Seq(Lines)
  BY DEF ConnTypes
<1>2. SubSeq(out[p], n + 1, Len(out[p])) \in Seq(Lines)
  BY <1>1, SubSeqProperties
<1> QED
  BY <1>2 DEF Read, ConnTypes

\* a write adds a command.
LEMMA WriteTyped ==
  ASSUME ConnTypes, NEW p \in Mounter, NEW c \in Commands, Write(p, c)
  PROVE  toSh' \in [Mounter -> Seq(Commands)]
<1>0. toSh[p] \in Seq(Commands)
  BY DEF ConnTypes
<1>1. Append(toSh[p], c) \in Seq(Commands)
  BY <1>0, AppendProperties
<1> QED
  BY <1>1 DEF Write, ConnTypes

\* The conversation, on the side of shfsmount
LEMMA ConverseTyped ==
  ASSUME ConnTypes, NEW p \in Mounter, Converse(p)
  PROVE  ConnTypes'
<1>1. CASE TestReply(p)
  <2>1. PICK n \in 1..Len(out[p]) :
          \/ Read(p, n) /\ UNCHANGED <<ssh, fd, proto, runs, toSh>>
          \/ Read(p, n) /\ Write(p, CodeOf(proto[p])) /\ UNCHANGED <<ssh, fd, proto, runs>>
          \/ Exit(p)
          \/ NextProto(p, n)
    BY <1>1 DEF TestReply
  <2>2. CodeOf(proto[p]) \in Commands /\ TestOf("shell") \in Commands
    BY DEF CodeOf, TestOf, Commands
  <2>3. CASE Read(p, n) /\ UNCHANGED <<ssh, fd, proto, runs, toSh>>
    BY <2>3, ReadTyped DEF ConnTypes
  <2>4. CASE Read(p, n) /\ Write(p, CodeOf(proto[p])) /\ UNCHANGED <<ssh, fd, proto, runs>>
    BY <2>2, <2>4, ReadTyped, WriteTyped DEF ConnTypes
  <2>5. CASE Exit(p) \/ NoConnection(p)
    BY <2>5, EndTyped
  <2>6. CASE /\ proto' = [proto EXCEPT ![p] = "shell"]
             /\ Read(p, n) /\ Write(p, TestOf("shell")) /\ UNCHANGED <<ssh, fd, runs>>
    <3>1. proto' \in [Mounter -> Protos]
      BY <2>6 DEF ConnTypes, Protos
    <3> QED
      BY <2>2, <2>6, <3>1, ReadTyped, WriteTyped DEF ConnTypes
  <2> QED
    BY <2>1, <2>3, <2>4, <2>5, <2>6 DEF NextProto
<1>2. CASE CodeReply(p)
  <2>1. PICK n \in 1..Len(out[p]) :
          \/ Read(p, n) /\ Write(p, "s_init") /\ UNCHANGED <<ssh, fd, proto, runs>>
          \/ NoConnection(p)
    BY <1>2 DEF CodeReply
  <2>2. "s_init" \in Commands
    BY DEF Commands
  <2>3. CASE Read(p, n) /\ Write(p, "s_init") /\ UNCHANGED <<ssh, fd, proto, runs>>
    BY <2>2, <2>3, ReadTyped, WriteTyped DEF ConnTypes
  <2> QED
    BY <2>1, <2>3, EndTyped
<1>3. CASE InitReply(p)
  <2>1. PICK n \in 1..Len(out[p]) :
          \/ Read(p, n) /\ UNCHANGED <<ssh, fd, toSh, proto, runs>>
          \/ NoConnection(p)
    BY <1>3 DEF InitReply
  <2>2. CASE Read(p, n) /\ UNCHANGED <<ssh, fd, toSh, proto, runs>>
    BY <2>2, ReadTyped DEF ConnTypes
  <2> QED
    BY <2>1, <2>2, EndTyped
<1>4. CASE NoReply(p)
  BY <1>4, EndTyped DEF NoReply
<1> QED
  BY <1>1, <1>2, <1>3, <1>4 DEF Converse

\* and on the remote side.
LEMMA RemoteTyped ==
  ASSUME ConnTypes, NEW p \in Mounter, RemoteStep(p)
  PROVE  ConnTypes'
<1>1. toSh[p] \in Seq(Commands) /\ toSh[p] # <<>>
  BY DEF RemoteStep, ConnTypes
<1>2. toSh' \in [Mounter -> Seq(Commands)]
  <2>1. Tail(toSh[p]) \in Seq(Commands)
    BY <1>1
  <2> QED
    BY <2>1 DEF RemoteStep, ConnTypes
<1>3. UNCHANGED <<proto, fd>>
  BY DEF RemoteStep
<1>4. ASSUME NEW l \in Lines, Say(p, l)
      PROVE  out' \in [Mounter -> Seq(Lines)]
  <2>0. out[p] \in Seq(Lines)
    BY DEF ConnTypes
  <2>1. Append(out[p], l) \in Seq(Lines)
    BY <1>4, <2>0, AppendProperties
  <2> QED
    BY <1>4, <2>1 DEF Say, ConnTypes
<1>5. out' \in [Mounter -> Seq(Lines)]
  <2>1. UNCHANGED out \/ \E l \in Lines : Say(p, l)
    BY LinesTyped DEF RemoteStep
  <2> QED
    BY <1>4, <2>1 DEF ConnTypes
<1>6. runs' \in [Mounter -> {"sh", "perl", "shell", "perl ready", "shell ready"}]
      /\ ssh' \in [Mounter -> BOOLEAN]
  BY DEF RemoteStep, ConnTypes
<1> QED
  BY <1>2, <1>3, <1>5, <1>6 DEF ConnTypes

\* The kernel's state, the options, and the files.
KernelTypes ==
  /\ again \in [Mounter -> BOOLEAN] /\ held \in [Mounter -> BOOLEAN]
  /\ size \in [Mounter -> Nat]
  /\ mounts \in [Dir -> Seq(Mounter)]

FileTypes ==
  /\ mtab \subseteq Entry /\ tmp \subseteq Entry
  /\ lock \in BOOLEAN
  /\ apart \in {"no", "yes", "left"} /\ cut \in BOOLEAN

Chosen == opt \in [Mounter -> Options] /\ \A p \in Mounter : opt[p] \in Opts[p]

Types == Places /\ Chosen /\ ConnTypes /\ KernelTypes /\ FileTypes

\* The steps of Next, without the order in which it lists them.
LEMMA Steps ==
  ASSUME Next
  PROVE  \/ \E p \in Mounter :
              \/ Start(p) \/ Converse(p) \/ RemoteStep(p) \/ SshGone(p)
              \/ MountHangs(p) \/ DoMount(p) \/ MountFails(p) \/ KernelDrops(p)
              \/ AddEntry(p) \/ SetMode(p) \/ Stay(p) \/ Reap(p) \/ Ioctl(p)
         \/ \E q \in Unmounter : DoUmount(q) \/ CopyEntries(q) \/ RenameMtab(q)
         \/ \E p \in Process : MtabStep(p) \/ MtabFails(p) \/ Killed(p)
BY DEF Next, MounterStep, UnmounterStep, SshEof, SshBreaks, Process

\* Every step keeps the types of the connections.
LEMMA NextConnTypes ==
  ASSUME ConnTypes, [Next]_vars
  PROVE  ConnTypes'
<1>1. CASE UNCHANGED <<proto, toSh, out, runs, ssh, fd>>
  BY <1>1 DEF ConnTypes
<1>2. ASSUME NEW p \in Mounter, Start(p) \/ Reap(p) PROVE ConnTypes'
  BY <1>2, ConnectTyped DEF Start, Reap
<1>3. ASSUME NEW p \in Mounter, SshGone(p) PROVE ConnTypes'
  BY <1>3 DEF SshGone, ConnTypes
<1>4. ASSUME NEW p \in Mounter, MountFails(p) \/ Stay(p) \/ Ioctl(p) PROVE ConnTypes'
  <2>1. CASE Exit(p)
    BY <2>1, EndTyped
  <2>2. CASE CloseSocket(p) /\ Forget(p) /\ UNCHANGED ssh
    BY <2>2, CloseTyped DEF ConnTypes
  <2> QED
    BY <1>4, <2>1, <2>2 DEF MountFails, Stay, Ioctl
<1>5. ASSUME NEW p \in Process, Killed(p) PROVE ConnTypes'
  <2>1. CASE p \in Mounter
    BY <1>5, <2>1, EndTyped DEF Killed
  <2>2. CASE p \notin Mounter
    BY <1>1, <1>5, <2>2 DEF Killed
  <2> QED
    BY <2>1, <2>2
<1>6. ASSUME NEW p \in Mounter,
             MountHangs(p) \/ DoMount(p) \/ KernelDrops(p) \/ AddEntry(p) \/ SetMode(p)
      PROVE  ConnTypes'
  BY <1>1, <1>6 DEF MountHangs, DoMount, KernelDrops, AddEntry, SetMode, connection
<1>7. ASSUME NEW q \in Unmounter, DoUmount(q) \/ CopyEntries(q) \/ RenameMtab(q)
      PROVE  ConnTypes'
  BY <1>1, <1>7 DEF DoUmount, CopyEntries, RenameMtab, connection
<1>8. ASSUME NEW p \in Process, MtabStep(p) \/ MtabFails(p)
      PROVE  ConnTypes'
  BY <1>1, <1>8 DEF MtabStep, LockMtab, OpenMtab, UnlinkLock, MtabFails, connection
<1>9. CASE UNCHANGED vars
  BY <1>1, <1>9 DEF vars, connection
<1> QED
  BY <1>2, <1>3, <1>4, <1>5, <1>6, <1>7, <1>8, <1>9, Steps, ConverseTyped, RemoteTyped

\* The options are those the process was started with.
LEMMA NextChosen ==
  ASSUME Chosen, [Next]_vars
  PROVE  Chosen' /\ \A p \in Mounter : opt'[p] = opt[p] \/ (Start(p) /\ pc[p] = "start")
<1>1. ASSUME NEW p \in Mounter, Start(p)
      PROVE  Chosen' /\ \A q \in Mounter : opt'[q] = opt[q] \/ (Start(q) /\ pc[q] = "start")
  <2>1. PICK o \in Opts[p] : opt' = [opt EXCEPT ![p] = o]
    BY <1>1 DEF Start
  <2>2. o \in Options
    BY <2>1, OptionsAssumption
  <2>3. pc[p] = "start" /\ \A q \in Mounter \ {p} : opt'[q] = opt[q]
    BY <1>1, <2>1 DEF Start, At, Chosen
  <2> QED
    BY <1>1, <2>1, <2>2, <2>3 DEF Chosen
<1>2. CASE UNCHANGED opt
  BY <1>2 DEF Chosen
<1>3. ASSUME NEW p \in Mounter,
             \/ Converse(p) \/ RemoteStep(p) \/ SshGone(p) \/ MountHangs(p) \/ DoMount(p)
             \/ MountFails(p) \/ KernelDrops(p) \/ AddEntry(p) \/ SetMode(p)
             \/ Stay(p) \/ Reap(p) \/ Ioctl(p)
      PROVE  UNCHANGED opt
  BY <1>3 DEF Converse, TestReply, CodeReply, InitReply, NoReply, RemoteStep, SshGone,
              MountHangs, DoMount, MountFails, KernelDrops, AddEntry, SetMode, Stay,
              Reap, Ioctl
<1>4. ASSUME NEW q \in Unmounter, DoUmount(q) \/ CopyEntries(q) \/ RenameMtab(q)
      PROVE  UNCHANGED opt
  BY <1>4 DEF DoUmount, CopyEntries, RenameMtab
<1>5. ASSUME NEW p \in Process, MtabStep(p) \/ MtabFails(p) \/ Killed(p)
      PROVE  UNCHANGED opt
  BY <1>5 DEF MtabStep, LockMtab, OpenMtab, UnlinkLock, MtabFails, Killed
<1>6. CASE UNCHANGED vars
  BY <1>2, <1>6 DEF vars
<1> QED
  BY <1>1, <1>2, <1>3, <1>4, <1>5, <1>6, Steps

\* Most steps leave the kernel alone.
LEMMA KernelAlone ==
  ASSUME [Next]_vars
  PROVE  \/ UNCHANGED <<held, size, mounts>>
         \/ \E p \in Mounter : DoMount(p) \/ MountFails(p) \/ KernelDrops(p)
         \/ \E q \in Unmounter : DoUmount(q)
<1>1. ASSUME NEW p \in Mounter,
             \/ Start(p) \/ Converse(p) \/ RemoteStep(p) \/ SshGone(p) \/ MountHangs(p)
             \/ AddEntry(p) \/ SetMode(p) \/ Stay(p) \/ Reap(p) \/ Ioctl(p)
      PROVE  UNCHANGED <<held, size, mounts>>
  BY <1>1 DEF Start, Converse, TestReply, CodeReply, InitReply, NoReply, RemoteStep,
              SshGone, MountHangs, AddEntry, SetMode, Stay, Reap, Ioctl, kernel
<1>2. ASSUME NEW q \in Unmounter, CopyEntries(q) \/ RenameMtab(q)
      PROVE  UNCHANGED <<held, size, mounts>>
  BY <1>2 DEF CopyEntries, RenameMtab, kernel
<1>3. ASSUME NEW p \in Process, MtabStep(p) \/ MtabFails(p) \/ Killed(p)
      PROVE  UNCHANGED <<held, size, mounts>>
  BY <1>3 DEF MtabStep, LockMtab, OpenMtab, UnlinkLock, MtabFails, Killed, kernel
<1>4. CASE UNCHANGED vars
  BY <1>4 DEF vars, kernel
<1> QED
  BY <1>1, <1>2, <1>3, <1>4, Steps

\* again is set when the first connection has ended, and never reset.
LEMMA AgainTyped ==
  ASSUME again \in [Mounter -> BOOLEAN], [Next]_vars
  PROVE  again' \in [Mounter -> BOOLEAN]
<1>1. ASSUME NEW p \in Mounter, Reap(p)
      PROVE  again' \in [Mounter -> BOOLEAN]
  BY <1>1 DEF Reap
<1>2. ASSUME NEW p \in Mounter,
             \/ Start(p) \/ Converse(p) \/ RemoteStep(p) \/ SshGone(p) \/ MountHangs(p)
             \/ DoMount(p) \/ MountFails(p) \/ KernelDrops(p)
             \/ AddEntry(p) \/ SetMode(p) \/ Stay(p) \/ Ioctl(p)
      PROVE  UNCHANGED again
  BY <1>2 DEF Start, Converse, TestReply, CodeReply, InitReply, NoReply, RemoteStep,
              SshGone, MountHangs, DoMount, MountFails, KernelDrops, AddEntry, SetMode,
              Stay, Ioctl, connection
<1>3. ASSUME NEW q \in Unmounter, DoUmount(q) \/ CopyEntries(q) \/ RenameMtab(q)
      PROVE  UNCHANGED again
  BY <1>3 DEF DoUmount, CopyEntries, RenameMtab, connection
<1>4. ASSUME NEW p \in Process, MtabStep(p) \/ MtabFails(p) \/ Killed(p)
      PROVE  UNCHANGED again
  BY <1>4 DEF MtabStep, LockMtab, OpenMtab, UnlinkLock, MtabFails, Killed, connection
<1>5. CASE UNCHANGED vars
  BY <1>5 DEF vars, connection
<1> QED
  BY <1>1, <1>2, <1>3, <1>4, <1>5, Steps

\* What a mount and an unmount do to the stack of a mount point.
LEMMA StackMoves ==
  ASSUME KernelTypes, Places
  PROVE  /\ \A p \in Mounter : DoMount(p) =>
              /\ mounts' = [mounts EXCEPT ![dir[p]] = Append(@, p)]
              /\ dir[p] \in Dir /\ Append(mounts[dir[p]], p) \in Seq(Mounter)
              /\ Len(Append(mounts[dir[p]], p)) = Len(mounts[dir[p]]) + 1
         /\ \A d \in Dir : mounts[d] # <<>> =>
              /\ Front(mounts[d]) \in Seq(Mounter) /\ Last(mounts[d]) \in Mounter
              /\ Len(mounts[d]) >= 1 /\ Len(Front(mounts[d])) = Len(mounts[d]) - 1
<1>1. ASSUME NEW p \in Mounter, DoMount(p)
      PROVE  /\ mounts' = [mounts EXCEPT ![dir[p]] = Append(@, p)]
             /\ dir[p] \in Dir /\ Append(mounts[dir[p]], p) \in Seq(Mounter)
             /\ Len(Append(mounts[dir[p]], p)) = Len(mounts[dir[p]]) + 1
  <2>1. dir[p] \in Dir
    BY DEF Places, Process
  <2>2. mounts[dir[p]] \in Seq(Mounter)
    BY <2>1 DEF KernelTypes
  <2> QED
    BY <1>1, <2>1, <2>2, AppendProperties DEF DoMount
<1>2. ASSUME NEW d \in Dir, mounts[d] # <<>>
      PROVE  /\ Front(mounts[d]) \in Seq(Mounter) /\ Last(mounts[d]) \in Mounter
             /\ Len(mounts[d]) >= 1 /\ Len(Front(mounts[d])) = Len(mounts[d]) - 1
  <2>1. PICK s \in Seq(Mounter) : s = mounts[d] /\ s # <<>>
    BY <1>2 DEF KernelTypes
  <2>2. Len(s) \in Nat /\ Len(s) >= 1
    BY <2>1, EmptySeq
  <2>3. Last(s) \in Mounter
    BY <2>2 DEF Last
  <2>4. Front(s) \in Seq(Mounter) /\ Len(Front(s)) = Len(s) - 1
    <3>1. PICK n \in Nat : n = Len(s) - 1
      BY <2>2
    <3>2. SubSeq(s, 1, n) \in Seq(Mounter) /\ Len(SubSeq(s, 1, n)) = n
      BY <2>2, <3>1, SubSeqProperties
    <3> QED
      BY <3>1, <3>2 DEF Front
  <2> QED
    BY <2>1, <2>2, <2>3, <2>4
<1> QED
  BY <1>1, <1>2

\* The size of a mount's cache is the rule applied to its option.
Sized ==
  \A p \in Mounter :
    size[p] # 0 =>
      pc[p] # "start" /\ opt[p].cachesize > 0 /\ size[p] = FCacheSize(opt[p].cachesize)

\* The kernel's state keeps its types.
LEMMA NextKernelTypes ==
  ASSUME KernelTypes, Places, Chosen, [Next]_vars
  PROVE  KernelTypes'
<1>1. again' \in [Mounter -> BOOLEAN]
  BY AgainTyped DEF KernelTypes
<1>2. CASE UNCHANGED <<held, size, mounts>>
  BY <1>1, <1>2 DEF KernelTypes
<1>3. ASSUME NEW p \in Mounter, DoMount(p) PROVE KernelTypes'
  <2>1. mounts' \in [Dir -> Seq(Mounter)]
    BY <1>3, StackMoves DEF KernelTypes
  <2>2. opt[p].cachesize \in Nat \ {0}
    BY <1>3 DEF DoMount, Chosen, Options
  <2>3. FCacheSize(opt[p].cachesize) \in Nat
    BY <2>2, CacheSizeRight
  <2> QED
    BY <1>1, <1>3, <2>1, <2>3 DEF DoMount, KernelTypes
<1>4. ASSUME NEW p \in Mounter, MountFails(p) \/ KernelDrops(p) PROVE KernelTypes'
  BY <1>1, <1>4 DEF MountFails, KernelDrops, KernelTypes
<1>5. ASSUME NEW q \in Unmounter, DoUmount(q) PROVE KernelTypes'
  <2>1. PICK d \in Dir : /\ mounts[d] # <<>> /\ mounts' = [mounts EXCEPT ![d] = Front(@)]
                         /\ held' = [held EXCEPT ![Last(mounts[d])] = FALSE]
    BY <1>5 DEF DoUmount
  <2>2. mounts' \in [Dir -> Seq(Mounter)]
    BY <2>1, StackMoves DEF KernelTypes
  <2> QED
    BY <1>1, <1>5, <2>1, <2>2 DEF DoUmount, KernelTypes
<1> QED
  BY <1>2, <1>3, <1>4, <1>5, KernelAlone

\* Every step moves one process at most, and none back to the start.
LEMMA Motion ==
  ASSUME [Next]_vars
  PROVE  UNCHANGED pc \/ \E p \in Process, l \in Stage \ {"start"} : Goto(p, l)
<1>s. /\ Mounter \subseteq Process /\ Unmounter \subseteq Process
      /\ {"test", "code", "init", "mount", "hung", "ioctl", "stay", "lock", "open", "add",
          "mode", "copy", "rename", "unlink", "reap", "done"} \subseteq Stage \ {"start"}
      /\ \A p \in Process : After(p) \in Stage \ {"start"}
  BY DEF Process, Stage, Section, After
<1>e. ASSUME NEW p \in Mounter, Exit(p) \/ NoConnection(p)
      PROVE  \E l \in {"done", "ioctl"} : Goto(p, l)
  BY <1>e DEF Exit, NoConnection
<1>1. ASSUME NEW p \in Mounter, Converse(p)
      PROVE  UNCHANGED pc \/ \E l \in {"code", "init", "mount", "ioctl", "done"} : Goto(p, l)
  BY <1>1, <1>e DEF Converse, TestReply, NextProto, CodeReply, InitReply, NoReply
<1>2. ASSUME NEW p \in Mounter,
             MountFails(p) \/ Stay(p) \/ Ioctl(p) \/ (p \in Process /\ Killed(p))
      PROVE  \E l \in {"done", "reap", "ioctl"} : Goto(p, l)
  BY <1>2, <1>e DEF MountFails, Stay, Ioctl, Killed
<1>3. ASSUME NEW p \in Mounter,
             \/ Start(p) \/ MountHangs(p) \/ DoMount(p) \/ AddEntry(p) \/ SetMode(p) \/ Reap(p)
      PROVE  \E l \in {"test", "hung", "stay", "lock", "mode", "unlink"} : Goto(p, l)
  BY <1>3 DEF Start, Connect, MountHangs, DoMount, AddEntry, SetMode, Reap
<1>4. ASSUME NEW p \in Mounter, RemoteStep(p) \/ SshGone(p) \/ KernelDrops(p)
      PROVE  UNCHANGED pc
  BY <1>4 DEF RemoteStep, SshGone, KernelDrops
<1>5. ASSUME NEW q \in Unmounter, DoUmount(q) \/ CopyEntries(q) \/ RenameMtab(q)
      PROVE  \E l \in {"lock", "rename", "unlink"} : Goto(q, l)
  BY <1>5 DEF DoUmount, CopyEntries, RenameMtab
<1>6. ASSUME NEW p \in Process, MtabStep(p) \/ MtabFails(p) \/ (Killed(p) /\ p \notin Mounter)
      PROVE  \E l \in {"open", "add", "copy", "done", After(p)} : Goto(p, l)
  BY <1>6 DEF MtabStep, LockMtab, OpenMtab, UnlinkLock, MtabFails, Killed
<1>7. CASE UNCHANGED vars
  BY <1>7 DEF vars
<1>8. ASSUME NEW p \in Process, \E l \in Stage \ {"start"} : Goto(p, l)
      PROVE  \E q \in Process, l \in Stage \ {"start"} : Goto(q, l)
  BY <1>8
<1> QED
  BY <1>s, <1>1, <1>2, <1>3, <1>4, <1>5, <1>6, <1>7, <1>8, Steps

\* A size was computed from the option its process still has.
LEMMA NextSized ==
  ASSUME Sized, KernelTypes, Places, Chosen, [Next]_vars
  PROVE  Sized'
<1>1. \A p \in Mounter : pc[p] # "start" => pc'[p] # "start" /\ opt'[p] = opt[p]
  <2>1. \A p \in Mounter : pc[p] # "start" => pc'[p] # "start"
    BY Motion DEF Goto, Places, Process
  <2> QED
    BY <2>1, NextChosen
<1>2. CASE UNCHANGED size
  BY <1>1, <1>2 DEF Sized
<1>3. ASSUME NEW p \in Mounter, DoMount(p) PROVE Sized'
  <2>1. pc[p] = "mount" /\ opt[p].cachesize > 0
        /\ size' = [size EXCEPT ![p] = FCacheSize(opt[p].cachesize)]
    BY <1>3 DEF DoMount, At
  <2> QED
    BY <1>1, <2>1 DEF Sized, KernelTypes
<1> QED
  BY <1>2, <1>3, KernelAlone DEF MountFails, KernelDrops, DoUmount

\* What parts mtab and the mounts is not forgotten, and nothing else writes
\* the two notes.
LEMMA Noted ==
  ASSUME [Next]_vars
  PROVE  /\ UNCHANGED apart \/ apart' \in {"yes", "left"}
         /\ UNCHANGED cut \/ (cut' \in BOOLEAN /\ (cut' => apart' # "no"))
<1>1. ASSUME NEW b, ComeApart(b) PROVE UNCHANGED apart \/ apart' \in {"yes", "left"}
  BY <1>1 DEF ComeApart
<1>2. ASSUME NEW p \in Mounter,
             \/ Start(p) \/ Converse(p) \/ RemoteStep(p) \/ SshGone(p) \/ MountHangs(p)
             \/ MountFails(p) \/ KernelDrops(p) \/ SetMode(p)
             \/ Stay(p) \/ Reap(p) \/ Ioctl(p)
      PROVE  UNCHANGED <<apart, cut>>
  BY <1>2 DEF Start, Converse, TestReply, CodeReply, InitReply, NoReply, RemoteStep,
              SshGone, MountHangs, MountFails, KernelDrops, SetMode, Stay, Reap, Ioctl
<1>3. ASSUME NEW p \in Process,
             DoMount(p) \/ DoUmount(p) \/ AddEntry(p) \/ MtabStep(p) \/ MtabFails(p) \/ Killed(p)
      PROVE  (UNCHANGED apart \/ apart' \in {"yes", "left"}) /\ UNCHANGED cut
  BY <1>1, <1>3 DEF DoMount, DoUmount, AddEntry, MtabStep, LockMtab, OpenMtab, UnlinkLock,
                    MtabFails, Killed
<1>4. ASSUME NEW q \in Unmounter, RenameMtab(q)
      PROVE  UNCHANGED apart /\ cut' = FALSE
  BY <1>4 DEF RenameMtab
<1>5. ASSUME NEW q \in Unmounter, CopyEntries(q)
      PROVE  /\ UNCHANGED apart \/ apart' \in {"yes", "left"}
             /\ cut' \in BOOLEAN /\ (cut' => apart' # "no")
  BY <1>5 DEF CopyEntries, ComeApart
<1> QED
  BY <1>2, <1>3, <1>4, <1>5, Steps DEF Process, vars

LEMMA NextCutSeen ==
  ASSUME CutSeen, [Next]_vars
  PROVE  CutSeen'
BY Noted DEF CutSeen

\* mtab and its copy hold entries of shfsmount processes, and nothing else.
LEMMA NextFileTypes ==
  ASSUME FileTypes, Places, [Next]_vars
  PROVE  FileTypes'
<1>0. apart' \in {"no", "yes", "left"} /\ cut' \in BOOLEAN
  BY Noted DEF FileTypes
<1>1. CASE UNCHANGED <<mtab, tmp, lock>>
  BY <1>0, <1>1 DEF FileTypes
<1>2. ASSUME NEW p \in Mounter, AddEntry(p) PROVE FileTypes'
  <2>1. [dir |-> dir[p], by |-> p] \in Entry
    BY DEF Entry, Places, Process
  <2> QED
    BY <1>0, <1>2, <2>1 DEF AddEntry, FileTypes
<1>3. ASSUME NEW q \in Unmounter, CopyEntries(q) \/ RenameMtab(q) PROVE FileTypes'
  BY <1>0, <1>3 DEF CopyEntries, RenameMtab, FileTypes
<1>4. ASSUME NEW p \in Process, MtabStep(p) PROVE FileTypes'
  BY <1>0, <1>4 DEF MtabStep, LockMtab, OpenMtab, UnlinkLock, FileTypes
<1>5. ASSUME NEW p \in Mounter,
             \/ Start(p) \/ Converse(p) \/ RemoteStep(p) \/ SshGone(p) \/ MountHangs(p)
             \/ DoMount(p) \/ MountFails(p) \/ KernelDrops(p) \/ SetMode(p)
             \/ Stay(p) \/ Reap(p) \/ Ioctl(p)
      PROVE  UNCHANGED <<mtab, tmp, lock>>
  BY <1>5 DEF Start, Converse, TestReply, CodeReply, InitReply, NoReply, RemoteStep,
              SshGone, MountHangs, DoMount, MountFails, KernelDrops, SetMode, Stay, Reap,
              Ioctl, files
<1>6. ASSUME NEW p \in Process, DoUmount(p) \/ MtabFails(p) \/ Killed(p)
      PROVE  UNCHANGED <<mtab, tmp, lock>>
  BY <1>6 DEF DoUmount, MtabFails, Killed, files
<1> QED
  BY <1>1, <1>2, <1>3, <1>4, <1>5, <1>6, Steps DEF Process, vars, files

\* The first state.
LEMMA InitTypes == Init => Types /\ Sized
<1> SUFFICES ASSUME Init PROVE Types /\ Sized
  OBVIOUS
<1>1. (CHOOSE d \in Dir : TRUE) \in Dir
  BY ProcessesAssumption
<1>2. \A p \in Mounter : (CHOOSE o \in Opts[p] : TRUE) \in Opts[p] /\ Opts[p] \subseteq Options
  BY OptionsAssumption
<1>3. Places
  BY <1>1 DEF Init, Places, Stage
<1>4. Chosen
  BY <1>2 DEF Init, Chosen
<1>5. ConnTypes
  <2>1. <<>> \in Seq(Commands) /\ <<>> \in Seq(Lines) /\ "perl" \in Protos
    BY DEF Protos
  <2> QED
    BY <2>1 DEF Init, ConnTypes
<1>6. KernelTypes
  <2>1. <<>> \in Seq(Mounter)
    OBVIOUS
  <2> QED
    BY <2>1 DEF Init, KernelTypes
<1>7. FileTypes /\ Sized
  BY DEF Init, FileTypes, Sized
<1> QED
  BY <1>3, <1>4, <1>5, <1>6, <1>7 DEF Types

\* The types are preserved together: the stacks need the places.
LEMMA NextTypes == IInv /\ Types /\ Sized /\ [Next]_vars => Types' /\ Sized'
<1> SUFFICES ASSUME IInv, Types, Sized, [Next]_vars PROVE Types' /\ Sized'
  OBVIOUS
<1>1. Places'
  BY StepInv DEF IInv
<1> QED
  BY <1>1, NextChosen, NextConnTypes, NextKernelTypes, NextFileTypes, NextSized DEF Types

\* All of this holds in every state.
LEMMA TypesHold == Spec => [](IInv /\ Types /\ Sized)
BY InitInv, StepInv, InitTypes, NextTypes, PTL DEF Spec

\* The variables keep their types, the pages of a cache (a power computed by
\* shifting) and the streams to the remote side included.
THEOREM TypeCorrect == Spec => []TypeOK
<1>1. Types => TypeOK
  BY DEF Types, Places, Chosen, ConnTypes, KernelTypes, FileTypes, TypeOK
<1> QED
  BY <1>1, TypesHold, PTL

\* Whatever number the user gives for cachesize, the cache of the mount is
\* the smallest power of two of pages that holds it.
THEOREM CacheSizes == Spec => []CacheSizeFits
<1>1. ASSUME Types, Sized PROVE CacheSizeFits
  <2> SUFFICES ASSUME NEW p \in Mounter, size[p] > 0
               PROVE  /\ opt[p].cachesize <= size[p]
                      /\ size[p] < 2 * opt[p].cachesize
                      /\ \E k \in 0..17 : size[p] = PowerOfTwo[k]
    BY DEF CacheSizeFits
  <2>1. PICK n \in Nat \ {0} : n = opt[p].cachesize
    BY <1>1 DEF Types, Chosen, Options, Sized, KernelTypes
  <2>2. size[p] = FCacheSize(n)
    BY <1>1, <2>1 DEF Types, KernelTypes, Sized
  <2>3. n <= 256 * 512
    BY <1>1, <2>1, OptionsAssumption, SMT DEF Types, Chosen
  <2> QED
    BY <2>1, <2>2, <2>3, CacheSizeRight
<1> QED
  BY <1>1, TypesHold, PTL

-----------------------------------------------------------------------------
(* mtab and the mounts *)

Updating(p) == pc[p] \in Section \cup {"lock"}
Listed(d) == \E e \in mtab : e.dir = d

\* Of each mount point at most one process has its update of mtab before it;
\* everywhere else mtab lists what is mounted.
OneUpdate ==
  \A p, q \in Process : Updating(p) /\ Updating(q) /\ dir[p] = dir[q] => p = q

Settled ==
  \A d \in Dir :
    /\ Len(mounts[d]) <= 1
    /\ (\A p \in Process : Updating(p) => dir[p] # d) => (Listed(d) <=> mounts[d] # <<>>)

\* Where an update is under way the mount is done, and after its write the
\* entry is there, or gone.
UnderWay ==
  /\ \A p \in Mounter : Updating(p) =>
       /\ pc[p] \notin {"copy", "rename"}
       /\ mounts[dir[p]] # <<>>
       /\ pc[p] \in {"mode", "unlink"} => Listed(dir[p])
  /\ \A q \in Unmounter : Updating(q) =>
       /\ pc[q] \notin {"add", "mode"}
       /\ mounts[dir[q]] = <<>>
       /\ pc[q] = "unlink" => ~Listed(dir[q])

Agreement == apart = "no" => OneUpdate /\ Settled /\ UnderWay

\* Nothing of what the agreement is about changes.
LEMMA Undisturbed ==
  ASSUME Agreement, Places, UNCHANGED <<mounts, mtab>>, apart' = "no" => apart = "no",
         \A p \in Process :
           /\ Updating(p)' = Updating(p)
           /\ Updating(p) => pc'[p] = pc[p] /\ dir'[p] = dir[p]
  PROVE  Agreement'
<1> SUFFICES ASSUME apart = "no" PROVE OneUpdate' /\ Settled' /\ UnderWay'
  BY DEF Agreement
<1>1. OneUpdate /\ Settled /\ UnderWay
  BY DEF Agreement
<1>2. \A d : Listed(d)' = Listed(d)
  BY DEF Listed
<1>3. OneUpdate'
  BY <1>1 DEF OneUpdate
<1>4. Settled'
  BY <1>1, <1>2 DEF Settled
<1>5. UnderWay'
  BY <1>1, <1>2 DEF UnderWay, Process
<1> QED
  BY <1>3, <1>4, <1>5

\* A process that has no update before it moves, and takes on none.
LEMMA Idle ==
  ASSUME Agreement, Places, UNCHANGED <<mounts, mtab>>, apart' = "no" => apart = "no",
         NEW p \in Process, ~Updating(p), NEW l, l \notin Section \cup {"lock"}, Goto(p, l),
         \A q \in Process \ {p} : dir'[q] = dir[q]
  PROVE  Agreement'
<1>1. \A q \in Process : /\ Updating(q)' = Updating(q)
                         /\ Updating(q) => pc'[q] = pc[q] /\ dir'[q] = dir[q]
  BY DEF Updating, Goto, Places
<1> QED
  BY <1>1, Undisturbed

\* An update goes on, without a write.
LEMMA GoesOn ==
  ASSUME Agreement, Places, UNCHANGED <<dir, mounts, mtab>>, apart' = "no" => apart = "no",
         NEW p \in Process, Updating(p), NEW l \in Section, Goto(p, l),
         p \in Mounter => /\ l \notin {"copy", "rename"}
                          /\ l \in {"mode", "unlink"} => pc[p] \in {"mode", "unlink"},
         p \in Unmounter => l \notin {"add", "mode", "unlink"}
  PROVE  Agreement'
<1> SUFFICES ASSUME apart = "no" PROVE OneUpdate' /\ Settled' /\ UnderWay'
  BY DEF Agreement
<1>1. OneUpdate /\ Settled /\ UnderWay
  BY DEF Agreement
<1>2. \A d : Listed(d)' = Listed(d)
  BY DEF Listed
<1>3. pc'[p] = l /\ \A q \in Process : /\ Updating(q)' = Updating(q)
                                       /\ q # p => pc'[q] = pc[q]
  BY DEF Updating, Goto, Places
<1>4. OneUpdate'
  BY <1>1, <1>3 DEF OneUpdate
<1>5. Settled'
  BY <1>1, <1>2, <1>3 DEF Settled
<1>6. UnderWay'
  BY <1>1, <1>2, <1>3 DEF UnderWay, Process
<1> QED
  BY <1>4, <1>5, <1>6

\* The write itself: the entry of the mount point comes or goes.
LEMMA Writes ==
  ASSUME Agreement, Places, UNCHANGED <<dir, mounts>>, apart' = apart,
         NEW p \in Process, Updating(p),
         \/ p \in Mounter /\ Goto(p, "mode") /\ Listed(dir[p])'
         \/ p \in Unmounter /\ Goto(p, "unlink") /\ ~Listed(dir[p])',
         \A d \in Dir \ {dir[p]} : Listed(d)' = Listed(d)
  PROVE  Agreement'
<1> SUFFICES ASSUME apart = "no" PROVE OneUpdate' /\ Settled' /\ UnderWay'
  BY DEF Agreement
<1>1. OneUpdate /\ Settled /\ UnderWay
  BY DEF Agreement
<1>2. \A q \in Process : Updating(q)' = Updating(q) /\ (q # p => pc'[q] = pc[q])
  BY DEF Updating, Goto, Places, Section
<1>3. pc'[p] = "mode" \/ pc'[p] = "unlink"
  BY DEF Goto, Places
<1>4. \A q \in Process : q # p /\ Updating(q) => dir[q] \in Dir \ {dir[p]}
  BY <1>1 DEF OneUpdate, Places
<1>5. OneUpdate'
  BY <1>1, <1>2 DEF OneUpdate
<1>6. Settled'
  BY <1>1, <1>2 DEF Settled
<1>7. ASSUME NEW q \in Mounter, Updating(q)'
      PROVE  /\ pc'[q] \notin {"copy", "rename"}
             /\ mounts'[dir'[q]] # <<>>
             /\ pc'[q] \in {"mode", "unlink"} => Listed(dir[q])'
  <2>1. q \in Process
    BY DEF Process
  <2>2. CASE q = p
    <3>1. Goto(p, "mode") /\ Listed(dir[p])'
      BY <2>2, ProcessesAssumption
    <3> QED
      BY <1>1, <1>3, <2>2, <3>1 DEF UnderWay
  <2>3. CASE q # p
    BY <1>1, <1>2, <1>4, <1>7, <2>1, <2>3 DEF UnderWay
  <2> QED
    BY <2>2, <2>3
<1>8. ASSUME NEW q \in Unmounter, Updating(q)'
      PROVE  /\ pc'[q] \notin {"add", "mode"}
             /\ mounts'[dir'[q]] = <<>>
             /\ pc'[q] = "unlink" => ~Listed(dir[q])'
  <2>1. q \in Process
    BY DEF Process
  <2>2. CASE q = p
    <3>1. Goto(p, "unlink") /\ ~Listed(dir[p])'
      BY <2>2, ProcessesAssumption
    <3> QED
      BY <1>1, <2>2, <3>1 DEF UnderWay, Goto, Places
  <2>3. CASE q # p
    BY <1>1, <1>2, <1>4, <1>8, <2>1, <2>3 DEF UnderWay
  <2> QED
    BY <2>2, <2>3
<1> QED
  BY <1>5, <1>6, <1>7, <1>8 DEF UnderWay, Listed

\* The update is done: from now on the entry must be what the mounts say.
LEMMA Ends ==
  ASSUME Agreement, Places, UNCHANGED <<dir, mounts, mtab>>, apart' = apart,
         NEW p \in Process, pc[p] = "unlink", Goto(p, After(p))
  PROVE  Agreement'
<1> SUFFICES ASSUME apart = "no" PROVE OneUpdate' /\ Settled' /\ UnderWay'
  BY DEF Agreement
<1>1. OneUpdate /\ Settled /\ UnderWay
  BY DEF Agreement
<1>2. Updating(p) /\ (Listed(dir[p]) <=> mounts[dir[p]] # <<>>) /\ dir[p] \in Dir
  BY <1>1 DEF Updating, UnderWay, Section, Process, Places
<1>3. ~Updating(p)' /\ \A q \in Process \ {p} : Updating(q)' = Updating(q) /\ pc'[q] = pc[q]
  BY DEF Updating, After, Goto, Places, Section
<1>4. \A d : Listed(d)' = Listed(d)
  BY DEF Listed
<1>5. OneUpdate'
  BY <1>1, <1>3 DEF OneUpdate
<1>6. Settled'
  <2> SUFFICES ASSUME NEW d \in Dir
               PROVE  /\ Len(mounts[d]) <= 1
                      /\ (\A q \in Process : Updating(q)' => dir[q] # d) =>
                           (Listed(d) <=> mounts[d] # <<>>)
    BY <1>4 DEF Settled
  <2>1. CASE d = dir[p]
    BY <1>1, <1>2, <2>1 DEF Settled
  <2>2. CASE d # dir[p]
    BY <1>1, <1>3, <2>2 DEF Settled
  <2> QED
    BY <2>1, <2>2
<1>7. UnderWay'
  BY <1>1, <1>3, <1>4 DEF UnderWay, Process
<1> QED
  BY <1>5, <1>6, <1>7

\* The mounts change, and the process has an update before it.
LEMMA Starts ==
  ASSUME Agreement, Places, KernelTypes, mtab' = mtab,
         NEW p \in Process, ~Updating(p), Goto(p, "lock"),
         NEW d \in Dir, dir'[p] = d, \A q \in Process \ {p} : dir'[q] = dir[q],
         NEW s, mounts' = [mounts EXCEPT ![d] = s],
         apart' = "no" => /\ apart = "no" /\ ~Overlap(p, d) /\ Len(s) <= 1
                          /\ p \in Mounter => s # <<>>
                          /\ p \in Unmounter => s = <<>>
  PROVE  Agreement'
<1> SUFFICES ASSUME apart' = "no" PROVE OneUpdate' /\ Settled' /\ UnderWay'
  BY DEF Agreement
<1>1. OneUpdate /\ Settled /\ UnderWay
  BY DEF Agreement
<1>2. /\ pc'[p] = "lock" /\ Updating(p)'
      /\ \A q \in Process \ {p} : Updating(q)' = Updating(q) /\ pc'[q] = pc[q]
  BY DEF Updating, Goto, Places
<1>3. \A q \in Process \ {p} : Updating(q) => dir[q] # d
  BY DEF Overlap, Updating
<1>4. mounts'[d] = s /\ \A e \in Dir \ {d} : mounts'[e] = mounts[e]
  BY DEF KernelTypes
<1>5. \A e : Listed(e)' = Listed(e)
  BY DEF Listed
<1>6. OneUpdate'
  BY <1>1, <1>2, <1>3 DEF OneUpdate
<1>7. Settled'
  <2> SUFFICES ASSUME NEW e \in Dir
               PROVE  /\ Len(mounts'[e]) <= 1
                      /\ (\A q \in Process : Updating(q)' => dir'[q] # e) =>
                           (Listed(e) <=> mounts'[e] # <<>>)
    BY <1>5 DEF Settled
  <2>1. CASE e = d
    BY <1>2, <1>4, <2>1
  <2>2. CASE e # d
    <3>1. mounts'[e] = mounts[e]
      BY <1>4, <2>2
    <3>2. ASSUME \A q \in Process : Updating(q)' => dir'[q] # e
          PROVE  \A q \in Process : Updating(q) => dir[q] # e
      BY <1>2, <3>2
    <3> QED
      BY <1>1, <3>1, <3>2 DEF Settled
  <2> QED
    BY <2>1, <2>2
<1>8. UnderWay'
  <2>1. ASSUME NEW q \in Process, q # p, Updating(q)
        PROVE  pc'[q] = pc[q] /\ dir'[q] = dir[q] /\ mounts'[dir'[q]] = mounts[dir[q]]
    BY <1>2, <1>3, <1>4, <2>1 DEF Places
  <2> QED
    BY <1>1, <1>2, <1>4, <1>5, <2>1 DEF UnderWay, Process
<1> QED
  BY <1>6, <1>7, <1>8

\* Every step keeps the agreement.
LEMMA NextAgreement ==
  ASSUME IInv, Types, CutSeen, Agreement, [Next]_vars
  PROVE  Agreement'
<1>t. /\ Places /\ KernelTypes /\ Mounter \subseteq Process /\ Unmounter \subseteq Process
      /\ Mounter \cap Unmounter = {} /\ Process = Mounter \cup Unmounter
  BY ProcessesAssumption DEF Types, Process
<1>e. ASSUME NEW p \in Mounter, Exit(p) \/ NoConnection(p), ~Updating(p),
             UNCHANGED <<mounts, mtab, apart>>
      PROVE  Agreement'
  <2>1. \A q \in Process \ {p} : dir'[q] = dir[q]
    BY <1>e, <1>t DEF Exit, NoConnection, Places
  <2>2. \E l \in {"done", "ioctl"} : Goto(p, l)
    BY <1>e DEF Exit, NoConnection
  <2> QED
    BY <1>e, <1>t, <2>1, <2>2, Idle DEF Section
<1>1. ASSUME NEW p \in Mounter, Start(p) PROVE Agreement'
  <2>1. PICK d \in Dir : dir' = [dir EXCEPT ![p] = d]
    BY <1>1 DEF Start
  <2>2. \A q \in Process \ {p} : dir'[q] = dir[q]
    BY <1>t, <2>1 DEF Places
  <2>3. Goto(p, "test") /\ ~Updating(p) /\ UNCHANGED <<mounts, mtab, apart>>
    BY <1>1 DEF Start, Connect, At, Updating, Section, kernel, files
  <2> QED
    BY <1>t, <2>2, <2>3, Idle DEF Section
<1>2. ASSUME NEW p \in Mounter, Converse(p) PROVE Agreement'
  <2>1. ~Updating(p) /\ UNCHANGED <<mounts, mtab, apart>>
    BY <1>2 DEF Converse, TestReply, CodeReply, InitReply, NoReply, At, Updating, Section,
                kernel, files
  <2>2. \/ UNCHANGED <<pc, dir>>
        \/ \E l \in {"code", "init", "mount", "ioctl"} : Goto(p, l) /\ UNCHANGED dir
        \/ Exit(p) \/ NoConnection(p)
    BY <1>2 DEF Converse, TestReply, NextProto, CodeReply, InitReply, NoReply
  <2>3. CASE UNCHANGED <<pc, dir>>
    BY <1>t, <2>1, <2>3, Undisturbed DEF Updating
  <2>4. ASSUME NEW l \in {"code", "init", "mount", "ioctl"}, Goto(p, l), UNCHANGED dir
        PROVE  Agreement'
    BY <1>t, <2>1, <2>4, Idle DEF Section
  <2> QED
    BY <1>e, <2>1, <2>2, <2>3, <2>4
<1>3. ASSUME NEW p \in Mounter, RemoteStep(p) \/ SshGone(p) \/ KernelDrops(p) PROVE Agreement'
  <2>1. UNCHANGED <<pc, dir, mounts, mtab, apart>>
    BY <1>3 DEF RemoteStep, SshGone, KernelDrops, kernel, files
  <2> QED
    BY <1>t, <2>1, Undisturbed DEF Updating
<1>4. ASSUME NEW p \in Mounter, MountHangs(p) \/ Reap(p) PROVE Agreement'
  <2>1. ~Updating(p) /\ UNCHANGED <<dir, mounts, mtab, apart>>
        /\ (Goto(p, "hung") \/ Goto(p, "test"))
    BY <1>4 DEF MountHangs, Reap, Connect, At, Updating, Section, kernel, files
  <2> QED
    BY <1>t, <2>1, Idle DEF Section
<1>5. ASSUME NEW p \in Mounter, MountFails(p) \/ Stay(p) \/ Ioctl(p) PROVE Agreement'
  <2>1. ~Updating(p) /\ UNCHANGED <<mounts, mtab, apart>>
    BY <1>5 DEF MountFails, Stay, Ioctl, At, Updating, Section, kernel, files
  <2>2. Exit(p) \/ (Goto(p, "reap") /\ UNCHANGED dir)
    BY <1>5 DEF MountFails, Stay, Ioctl
  <2>3. CASE Goto(p, "reap") /\ UNCHANGED dir
    BY <1>t, <2>1, <2>3, Idle DEF Section
  <2> QED
    BY <1>e, <2>1, <2>2, <2>3
<1>6. ASSUME NEW p \in Mounter, DoMount(p) PROVE Agreement'
  <2>1. /\ mounts' = [mounts EXCEPT ![dir[p]] = Append(mounts[dir[p]], p)]
        /\ dir[p] \in Dir /\ Len(Append(mounts[dir[p]], p)) = Len(mounts[dir[p]]) + 1
    BY <1>6, <1>t, StackMoves
  <2>2. /\ ~Updating(p) /\ UNCHANGED <<dir, mtab>>
        /\ Goto(p, IF opt[p].nomtab THEN "stay" ELSE "lock")
        /\ ComeApart(opt[p].nomtab \/ mounts[dir[p]] # <<>> \/ Overlap(p, dir[p]))
    BY <1>6 DEF DoMount, At, Updating, Section, files
  <2> SUFFICES ASSUME apart' = "no" PROVE Agreement'
    BY DEF Agreement
  <2>3. apart = "no" /\ Goto(p, "lock") /\ mounts[dir[p]] = <<>> /\ ~Overlap(p, dir[p])
    BY <2>2 DEF ComeApart
  <2>4. PICK s : s = Append(mounts[dir[p]], p)
    OBVIOUS
  <2>5. Len(s) = 1 /\ s # <<>>
    <3>1. mounts[dir[p]] \in Seq(Mounter) /\ Len(mounts[dir[p]]) = 0
      BY <1>t, <2>1, <2>3, EmptySeq DEF KernelTypes
    <3>2. Len(s) = 1
      BY <2>1, <2>4, <3>1
    <3> QED
      BY <3>2
  <2>6. dir'[p] = dir[p] /\ \A q \in Process \ {p} : dir'[q] = dir[q]
    BY <2>2
  <2>7. mounts' = [mounts EXCEPT ![dir[p]] = s] /\ p \notin Unmounter /\ Len(s) <= 1
    BY <1>t, <2>1, <2>4, <2>5
  <2>8. PICK d \in Dir : d = dir[p]
    BY <2>1
  <2>9. mounts' = [mounts EXCEPT ![d] = s] /\ dir'[p] = d /\ ~Overlap(p, d)
    BY <2>3, <2>6, <2>7, <2>8, Zenon
  <2>10. /\ apart = "no" /\ ~Overlap(p, d) /\ Len(s) <= 1
         /\ p \in Mounter => s # <<>>
         /\ p \in Unmounter => s = <<>>
    BY <2>3, <2>5, <2>7, <2>9, Zenon
  <2>11. mtab' = mtab /\ p \in Process
    BY <2>2 DEF Process
  <2> QED
    BY <1>t, <2>2, <2>3, <2>6, <2>9, <2>10, <2>11, Starts, Zenon
<1>7. ASSUME NEW q \in Unmounter, DoUmount(q) PROVE Agreement'
  <2>1. PICK d \in Dir :
          /\ mounts[d] # <<>> /\ dir' = [dir EXCEPT ![q] = d]
          /\ mounts' = [mounts EXCEPT ![d] = Front(mounts[d])]
          /\ ComeApart(Overlap(q, d))
    BY <1>7 DEF DoUmount
  <2>2. ~Updating(q) /\ Goto(q, "lock") /\ mtab' = mtab
    BY <1>7 DEF DoUmount, At, Updating, Section, files
  <2> SUFFICES ASSUME apart' = "no" PROVE Agreement'
    BY DEF Agreement
  <2>3. apart = "no" /\ ~Overlap(q, d)
    BY <2>1 DEF ComeApart
  <2>4. PICK s : s = Front(mounts[d])
    OBVIOUS
  <2>5. s = <<>>
    <3>1. Len(mounts[d]) <= 1
      BY <2>3 DEF Agreement, Settled
    <3>2. /\ s \in Seq(Mounter) /\ Len(s) = Len(mounts[d]) - 1 /\ Len(mounts[d]) >= 1
          /\ Len(mounts[d]) \in Nat
      BY <1>t, <2>1, <2>4, StackMoves DEF KernelTypes
    <3>3. Len(s) = 0
      <4>1. PICK n \in Nat : n = Len(mounts[d])
        BY <3>2
      <4>2. n = 1
        <5>1. n <= 1 /\ n >= 1
          BY <3>1, <3>2, <4>1, Zenon
        <5> QED
          BY <5>1
      <4> QED
        BY <3>2, <4>1, <4>2
    <3> QED
      BY <3>2, <3>3, EmptySeq
  <2>6. dir'[q] = d /\ \A r \in Process \ {q} : dir'[r] = dir[r]
    BY <1>t, <2>1 DEF Places
  <2>7. mounts' = [mounts EXCEPT ![d] = s] /\ q \notin Mounter /\ Len(s) <= 1
    <3>1. Len(<<>>) = 0
      OBVIOUS
    <3> QED
      BY <1>t, <2>1, <2>4, <2>5, <3>1
  <2> QED
    BY <1>t, <2>2, <2>3, <2>5, <2>6, <2>7, Starts
<1>8. ASSUME NEW p \in Process, LockMtab(p) PROVE Agreement'
  <2>1. CASE lock
    BY <1>8, <2>1 DEF LockMtab, ComeApart, Agreement
  <2>2. CASE ~lock
    <3>1. /\ Updating(p) /\ Goto(p, "open") /\ UNCHANGED <<dir, mounts, mtab>>
          /\ apart' = apart
      BY <1>8, <2>2 DEF LockMtab, ComeApart, At, Updating, kernel
    <3> QED
      BY <1>t, <3>1, GoesOn DEF Section
  <2> QED
    BY <2>1, <2>2
<1>9. ASSUME NEW p \in Process, OpenMtab(p) PROVE Agreement'
  <2>1. Updating(p) /\ UNCHANGED <<dir, mounts, mtab, apart>>
    BY <1>9 DEF OpenMtab, At, Updating, Section, kernel
  <2>2. CASE p \in Mounter
    <3>1. Goto(p, "add") /\ p \notin Unmounter
      BY <1>9, <1>t, <2>2 DEF OpenMtab
    <3> QED
      BY <1>t, <2>1, <3>1, GoesOn DEF Section
  <2>3. CASE p \notin Mounter
    <3>1. Goto(p, "copy")
      BY <1>9, <2>3 DEF OpenMtab
    <3> QED
      BY <1>t, <2>1, <2>3, <3>1, GoesOn DEF Section
  <2> QED
    BY <2>2, <2>3
<1>10. ASSUME NEW p \in Mounter, SetMode(p) PROVE Agreement'
  <2>1. /\ Updating(p) /\ UNCHANGED <<dir, mounts, mtab, apart>> /\ pc[p] = "mode"
        /\ Goto(p, "unlink") /\ p \notin Unmounter
    BY <1>10, <1>t DEF SetMode, At, Updating, Section, kernel, files
  <2> QED
    BY <1>t, <2>1, GoesOn DEF Section
<1>11. ASSUME NEW q \in Unmounter, CopyEntries(q) PROVE Agreement'
  <2>1. /\ Updating(q) /\ UNCHANGED <<dir, mounts, mtab>>
        /\ Goto(q, "rename") /\ q \notin Mounter
        /\ apart' = "no" => apart = "no"
    BY <1>11, <1>t DEF CopyEntries, ComeApart, At, Updating, Section, kernel
  <2> QED
    BY <1>t, <2>1, GoesOn DEF Section
<1>12. ASSUME NEW p \in Mounter, AddEntry(p) PROVE Agreement'
  <2> SUFFICES ASSUME apart' = "no" PROVE Agreement'
    BY DEF Agreement
  <2>1. /\ Updating(p) /\ UNCHANGED <<dir, mounts, apart>> /\ Goto(p, "mode")
        /\ mtab' = mtab \cup {[dir |-> dir[p], by |-> p]}
    BY <1>12 DEF AddEntry, ComeApart, At, Updating, Section, kernel
  <2>2. PICK e : e = [dir |-> dir[p], by |-> p] /\ e.dir = dir[p]
    <3>1. [dir |-> dir[p], by |-> p].dir = dir[p]
      OBVIOUS
    <3> QED
      BY <3>1, Zenon
  <2>3. mtab' = mtab \cup {e}
    BY <2>1, <2>2
  <2>4. Listed(dir[p])' /\ \A d \in Dir \ {dir[p]} : Listed(d)' = Listed(d)
    BY <2>1, <2>2, <2>3, Zenon DEF Listed
  <2> QED
    BY <1>t, <2>1, <2>4, Writes
<1>13. ASSUME NEW q \in Unmounter, RenameMtab(q) PROVE Agreement'
  <2>1. /\ Updating(q) /\ UNCHANGED <<dir, mounts, apart>> /\ Goto(q, "unlink")
        /\ mtab' = tmp /\ pc[q] = "rename"
    BY <1>13 DEF RenameMtab, At, Updating, Section, kernel
  <2> SUFFICES ASSUME apart' = "no" PROVE Agreement'
    BY DEF Agreement
  <2>2. tmp = {e \in mtab : e.dir # dir[q]}
    <3>1. ~cut
      BY <2>1 DEF CutSeen
    <3>2. CopyOf(tmp, mtab, dir[q], cut)
      BY <1>t, <2>1 DEF IInv, CopyFresh
    <3> QED
      BY <3>1, <3>2 DEF CopyOf
  <2>3. ~Listed(dir[q])' /\ \A d \in Dir \ {dir[q]} : Listed(d)' = Listed(d)
    BY <2>1, <2>2 DEF Listed
  <2> QED
    BY <1>t, <2>1, <2>3, Writes
<1>14. ASSUME NEW p \in Process, UnlinkLock(p) PROVE Agreement'
  <2>1. /\ pc[p] = "unlink" /\ UNCHANGED <<dir, mounts, mtab, apart>> /\ Goto(p, After(p))
    BY <1>14 DEF UnlinkLock, At, kernel
  <2> QED
    BY <1>t, <2>1, Ends
<1>15. ASSUME NEW p \in Process, MtabFails(p) PROVE Agreement'
  BY <1>15 DEF MtabFails, Agreement
<1>16. ASSUME NEW p \in Process, Killed(p) PROVE Agreement'
  <2>1. CASE Updating(p)
    BY <1>16, <2>1 DEF Killed, ComeApart, At, Updating, Agreement
  <2>2. CASE ~Updating(p)
    <3>1. apart' = apart /\ UNCHANGED <<mounts, mtab>>
      BY <1>16, <2>2 DEF Killed, ComeApart, At, Updating, kernel, files
    <3>2. CASE p \in Mounter
      BY <1>16, <1>e, <2>2, <3>1, <3>2 DEF Killed
    <3>3. CASE p \notin Mounter
      <4>1. Goto(p, "done") /\ UNCHANGED dir
        BY <1>16, <3>3 DEF Killed
      <4> QED
        BY <1>t, <2>2, <3>1, <4>1, Idle DEF Section
    <3> QED
      BY <3>2, <3>3
  <2> QED
    BY <2>1, <2>2
<1>17. CASE UNCHANGED vars
  <2>1. UNCHANGED <<pc, dir, mounts, mtab, apart>>
    BY <1>17 DEF vars, kernel, files
  <2> QED
    BY <1>t, <2>1, Undisturbed DEF Updating
<1> QED
  BY <1>1, <1>2, <1>3, <1>4, <1>5, <1>6, <1>7, <1>8, <1>9, <1>10, <1>11, <1>12, <1>13,
     <1>14, <1>15, <1>16, <1>17, Steps DEF MtabStep

\* At first nothing is mounted or listed.
LEMMA InitAgreement == Init => Agreement
<1> SUFFICES ASSUME Init PROVE OneUpdate /\ Settled /\ UnderWay
  BY DEF Agreement
<1>1. \A p \in Process : ~Updating(p)
  BY DEF Init, Updating, Section
<1>2. \A d \in Dir : mounts[d] = <<>> /\ ~Listed(d)
  BY DEF Init, Listed
<1>3. Len(<<>>) = 0
  OBVIOUS
<1> QED
  BY <1>1, <1>2, <1>3 DEF OneUpdate, Settled, UnderWay, Process

\* However many shfsmount and shfsumount run: when all updates have run to
\* their end mtab lists exactly the mount points that are mounted, unless an
\* update failed, was killed or cut short, found the lock file, or overlapped
\* another one of its mount point.
THEOREM MtabRight == Spec => []MtabAgrees
<1>1. ASSUME Types, Agreement PROVE MtabAgrees
  <2> SUFFICES ASSUME apart = "no", \A p \in Process : pc[p] \notin Section \cup {"lock"}
               PROVE  {e.dir : e \in mtab} = {d \in Dir : mounts[d] # <<>>}
    BY DEF MtabAgrees
  <2>1. \A d \in Dir : Listed(d) <=> mounts[d] # <<>>
    BY <1>1 DEF Agreement, Settled, Updating
  <2>2. \A e \in mtab : e.dir \in Dir
    BY <1>1 DEF Types, FileTypes, Entry
  <2> QED
    BY <2>1, <2>2 DEF Listed
<1>2. Init => CutSeen
  BY DEF Init, CutSeen
<1> QED
  BY <1>1, <1>2, InitInv, StepInv, InitTypes, NextTypes, NextCutSeen, InitAgreement,
     NextAgreement, PTL DEF Spec

-----------------------------------------------------------------------------
(* The stream between shfsmount and its remote side *)

Tests == {"test perl", "test shell"}
Silent(o) == \A i \in 1..Len(o) : o[i].k # "200"
Ready(k) == IF k = "perl" THEN "perl ready" ELSE "shell ready"

\* While the variants are tested nothing says "### 200".
Testing(p) == runs[p] = "sh" /\ Silent(out[p]) /\ toSh[p] \in Seq(Tests)

\* The code is the last that was written: before the remote side has run it
\* nothing says "### 200", after that only the last line does.
CodeSent(p) ==
  /\ runs[p] = "sh"
  /\ Silent(out[p])
  /\ \A i \in 1..Len(toSh[p]) :
       toSh[p][i] \in Tests \/ (i = Len(toSh[p]) /\ toSh[p][i] = CodeOf(proto[p]))

CodeRun(p) ==
  /\ runs[p] = proto[p] /\ toSh[p] = <<>>
  /\ \A i \in 1..Len(out[p]) : out[p][i].k = "200" => i = Len(out[p])

InitSent(p) == runs[p] = proto[p] /\ toSh[p] = <<"s_init">> /\ out[p] = <<>>
InitRun(p) == runs[p] = Ready(proto[p]) /\ toSh[p] = <<>> /\ out[p] = <<Line("200")>>
InStep(p) == runs[p] = Ready(proto[p]) /\ toSh[p] = <<>> /\ out[p] = <<>>

StreamOf(p) ==
  /\ pc[p] = "test" => Testing(p)
  /\ pc[p] = "code" => CodeSent(p) \/ CodeRun(p)
  /\ pc[p] = "init" => InitSent(p) \/ InitRun(p)
  /\ pc[p] \in {"mount", "hung"} \/ (pc[p] = "ioctl" /\ fd[p]) => InStep(p)
  /\ pc[p] \notin Talking => toSh[p] = <<>>

Stream == \A p \in Mounter : StreamOf(p)

\* Reading lines, and adding one that is not "### 200", keeps the silence.
LEMMA SilentRead ==
  ASSUME NEW o \in Seq(Lines), Silent(o), NEW n \in 1..Len(o)
  PROVE  Silent(SubSeq(o, n + 1, Len(o)))
<1> DEFINE s == SubSeq(o, n + 1, Len(o))
<1>1. Len(o) \in Nat
  OBVIOUS
<1>2. Len(s) = Len(o) - n /\ \A i \in 1..Len(s) : s[i] = o[i + n]
  OBVIOUS
<1>3. \A i \in 1..Len(s) : i + n \in 1..Len(o)
  BY <1>1, <1>2
<1> QED
  BY <1>2, <1>3 DEF Silent

\* Nor does a line that does not say it.
LEMMA SilentSaid ==
  ASSUME NEW o \in Seq(Lines), Silent(o), NEW l \in Lines, l.k # "200"
  PROVE  Silent(Append(o, l))
<1>1. /\ Len(Append(o, l)) = Len(o) + 1 /\ Len(o) \in Nat
      /\ Append(o, l)[Len(o) + 1] = l
      /\ \A i \in 1..Len(o) : Append(o, l)[i] = o[i]
  OBVIOUS
<1>2. \A i \in 1..(Len(o) + 1) : i \in 1..Len(o) \/ i = Len(o) + 1
  BY <1>1
<1> QED
  BY <1>1, <1>2 DEF Silent

\* The text fetched is the line "### 200" only if that is the first line.
LEMMA FirstLine ==
  ASSUME NEW o \in Seq(Lines), NEW n \in 1..Len(o), SubSeq(o, 1, n) = <<Line("200")>>
  PROVE  n = 1 /\ Len(o) >= 1 /\ o[1].k = "200"
<1>1. Len(SubSeq(o, 1, n)) = n /\ SubSeq(o, 1, n)[1] = o[1] /\ Len(o) \in Nat
  OBVIOUS
<1>2. Len(<<Line("200")>>) = 1 /\ <<Line("200")>>[1] = Line("200")
  OBVIOUS
<1>3. Line("200").k = "200"
  BY DEF Line
<1>4. n = 1 /\ o[1] = Line("200")
  BY <1>1, <1>2, Zenon
<1>5. Len(o) >= 1
  BY <1>1
<1> QED
  BY <1>3, <1>4, <1>5

\* What the remote side has not read yet, after it read one line.
LEMMA TailOf ==
  ASSUME NEW S, NEW s \in Seq(S), s # <<>>
  PROVE  /\ Head(s) = s[1] /\ 1 \in 1..Len(s) /\ Len(s) \in Nat
         /\ Tail(s) \in Seq(S) /\ Len(Tail(s)) = Len(s) - 1
         /\ \A i \in 1..Len(Tail(s)) : Tail(s)[i] = s[i + 1] /\ i + 1 \in 1..Len(s)
         /\ Len(s) = 1 => Tail(s) = <<>>
<1>1. /\ Tail(s) \in Seq(S) /\ Len(Tail(s)) = Len(s) - 1 /\ Len(s) \in Nat /\ Len(s) # 0
      /\ \A i \in 1..Len(Tail(s)) : Tail(s)[i] = s[i + 1]
  BY HeadTailProperties, EmptySeq
<1>2. Head(s) = s[1]
  OBVIOUS
<1>3. 1 \in 1..Len(s) /\ \A i \in 1..Len(Tail(s)) : i + 1 \in 1..Len(s)
  BY <1>1
<1>4. Len(s) = 1 => Len(Tail(s)) = 0
  BY <1>1
<1>5. Len(s) = 1 => Tail(s) = <<>>
  BY <1>1, <1>4, EmptySeq
<1> QED
  BY <1>1, <1>2, <1>3, <1>5

\* A step of one process leaves the streams of the others alone.
LEMMA OneStream ==
  ASSUME Stream, NEW p \in Mounter, StreamOf(p)',
         \A q \in Mounter \ {p} :
           /\ pc'[q] = pc[q] /\ runs'[q] = runs[q] /\ proto'[q] = proto[q]
           /\ toSh'[q] = toSh[q] /\ out'[q] = out[q] /\ fd'[q] = fd[q]
  PROVE  Stream'
<1> SUFFICES ASSUME NEW q \in Mounter \ {p} PROVE StreamOf(q)'
  BY DEF Stream
<1>1. StreamOf(q)
  BY DEF Stream
<1> QED
  BY <1>1 DEF StreamOf, Testing, CodeSent, CodeRun, InitSent, InitRun, InStep

\* Where the connection is not looked at any more.
LEMMA OffStage ==
  ASSUME Stream, Places, UNCHANGED connection, NEW p \in Process, pc[p] \notin Talking,
         NEW l \in Section \cup {"lock", "stay", "done"}, Goto(p, l)
  PROVE  Stream'
<1> SUFFICES ASSUME NEW q \in Mounter PROVE StreamOf(q)'
  BY DEF Stream
<1>1. UNCHANGED <<proto, toSh, out, runs, fd>>
  BY DEF connection
<1>2. StreamOf(q)
  BY DEF Stream
<1>3. CASE q # p
  <2>1. pc'[q] = pc[q]
    BY <1>3 DEF Goto, Places, Process
  <2> QED
    BY <1>1, <1>2, <2>1 DEF StreamOf, Testing, CodeSent, CodeRun, InitSent, InitRun, InStep
<1>4. CASE q = p
  <2>1. pc'[q] = l /\ toSh[q] = <<>>
    BY <1>2, <1>4 DEF Goto, Places, Process, StreamOf
  <2> QED
    BY <1>1, <2>1 DEF StreamOf, Section
<1> QED
  BY <1>3, <1>4

\* A closed connection has nothing in it.
LEMMA ClosedStream ==
  ASSUME Stream, Places, ConnTypes, NEW p \in Mounter, CloseSocket(p), Forget(p),
         NEW l \in {"done", "ioctl", "reap"}, Goto(p, l)
  PROVE  Stream'
<1>1. pc'[p] = l /\ toSh'[p] = <<>> /\ fd'[p] = FALSE
  BY DEF CloseSocket, Goto, Places, ConnTypes, Process
<1>2. \A q \in Mounter \ {p} :
        /\ pc'[q] = pc[q] /\ runs'[q] = runs[q] /\ proto'[q] = proto[q]
        /\ toSh'[q] = toSh[q] /\ out'[q] = out[q] /\ fd'[q] = fd[q]
  BY DEF CloseSocket, Forget, Goto, Places, ConnTypes, Process
<1>3. StreamOf(p)'
  BY <1>1 DEF StreamOf
<1> QED
  BY <1>2, <1>3, OneStream

\* As by the end of a process, or a connection that failed.
LEMMA EndStream ==
  ASSUME Stream, Places, ConnTypes, NEW p \in Mounter, Exit(p) \/ NoConnection(p)
  PROVE  Stream'
<1>1. CloseSocket(p) /\ Forget(p) /\ \E l \in {"done", "ioctl"} : Goto(p, l)
  BY DEF Exit, NoConnection
<1> QED
  BY <1>1, ClosedStream

\* A new connection starts with a test.
LEMMA ConnectStream ==
  ASSUME Stream, Places, ConnTypes, NEW p \in Mounter, NEW o, Connect(p, o)
  PROVE  Stream'
<1>1. PICK g \in Greetings : out' = [out EXCEPT ![p] = g]
  BY DEF Connect
<1>2. Silent(g)
  <2>1. \A k \in {"text", "look", "okword"} : Silent(<<Line(k)>>)
    <3> SUFFICES ASSUME NEW k \in {"text", "look", "okword"} PROVE Silent(<<Line(k)>>)
      OBVIOUS
    <3>1. Line(k).k # "200"
      BY DEF Line
    <3>2. Len(<<Line(k)>>) = 1 /\ <<Line(k)>>[1] = Line(k)
      OBVIOUS
    <3> QED
      BY <3>1, <3>2 DEF Silent
  <2>2. Silent(<<>>)
    BY DEF Silent
  <2> QED
    BY <1>1, <2>1, <2>2 DEF Greetings
<1>3. PICK c \in Tests : toSh' = [toSh EXCEPT ![p] = <<c>>]
  BY DEF Connect, Tests
<1>4. <<c>> \in Seq(Tests)
  OBVIOUS
<1>5. /\ pc'[p] = "test" /\ runs'[p] = "sh" /\ toSh'[p] = <<c>> /\ out'[p] = g
  BY <1>1, <1>3 DEF Connect, Goto, Places, ConnTypes, Process
<1>6. StreamOf(p)'
  BY <1>2, <1>4, <1>5 DEF StreamOf, Testing, Talking
<1>7. \A q \in Mounter \ {p} :
        /\ pc'[q] = pc[q] /\ runs'[q] = runs[q] /\ proto'[q] = proto[q]
        /\ toSh'[q] = toSh[q] /\ out'[q] = out[q] /\ fd'[q] = fd[q]
  BY <1>1, <1>3 DEF Connect, Goto, Places, ConnTypes, Process
<1> QED
  BY <1>6, <1>7, OneStream

\* Only what p's place, its two directions and its remote side are matters.
LEMMA ConverseFrame ==
  ASSUME Places, ConnTypes, NEW p \in Mounter, NEW l, Goto(p, l)
  PROVE  /\ l = pc'[p]
         /\ \A q \in Mounter \ {p} : pc'[q] = pc[q]
BY DEF Goto, Places, Process

\* What is left after a read.
LEMMA ReadMore ==
  ASSUME ConnTypes, NEW p \in Mounter, NEW n \in 1..Len(out[p]), Read(p, n)
  PROVE  /\ Silent(out[p]) => Silent(out'[p])
         /\ n = Len(out[p]) => out'[p] = <<>>
         /\ \A q \in Mounter \ {p} : out'[q] = out[q]
<1>1. out[p] \in Seq(Lines) /\ out'[p] = SubSeq(out[p], n + 1, Len(out[p]))
  BY DEF Read, ConnTypes
<1>2. Silent(out[p]) => Silent(out'[p])
  BY <1>1, SilentRead
<1>3. n = Len(out[p]) => out'[p] = <<>>
  BY <1>1, SubSeqEmpty
<1> QED
  BY <1>2, <1>3 DEF Read, ConnTypes

\* What is on the way after a write.
LEMMA WriteMore ==
  ASSUME ConnTypes, NEW p \in Mounter, NEW c \in Commands, Write(p, c)
  PROVE  /\ toSh'[p] = Append(toSh[p], c) /\ toSh[p] \in Seq(Commands)
         /\ \A q \in Mounter \ {p} : toSh'[q] = toSh[q]
BY DEF Write, ConnTypes

\* The replies to the tests.
LEMMA TestStream ==
  ASSUME Stream, Places, ConnTypes, NEW p \in Mounter, TestReply(p)
  PROVE  Stream'
<1>1. pc[p] = "test" /\ Testing(p)
  BY DEF TestReply, At, Stream, StreamOf
<1>2. PICK n \in 1..Len(out[p]) :
        \/ Read(p, n) /\ UNCHANGED <<pc, fd, proto, runs, toSh>>
        \/ Goto(p, "code") /\ Read(p, n) /\ Write(p, CodeOf(proto[p])) /\ UNCHANGED <<fd, proto, runs>>
        \/ Exit(p)
        \/ NextProto(p, n)
  BY DEF TestReply
<1>3. toSh[p] \in Seq(Tests) /\ Silent(out[p]) /\ runs[p] = "sh"
  BY <1>1 DEF Testing
<1>4. CodeOf(proto[p]) \in Commands /\ TestOf("shell") \in Commands /\ TestOf("shell") \in Tests
  BY DEF CodeOf, TestOf, Commands, Tests
<1>5. CASE Read(p, n) /\ UNCHANGED <<pc, fd, proto, runs, toSh>>
  <2>1. StreamOf(p)'
    BY <1>1, <1>3, <1>5, ReadMore DEF StreamOf, Testing, Talking
  <2> QED
    BY <1>5, <2>1, ReadMore, OneStream
<1>6. CASE Goto(p, "code") /\ Read(p, n) /\ Write(p, CodeOf(proto[p])) /\ UNCHANGED <<fd, proto, runs>>
  <2>1. /\ pc'[p] = "code" /\ \A q \in Mounter \ {p} : pc'[q] = pc[q]
    BY <1>6, ConverseFrame
  <2>2. CodeSent(p)'
    <3>1. toSh'[p] = Append(toSh[p], CodeOf(proto[p]))
      BY <1>4, <1>6, WriteMore
    <3>2. PICK c \in Commands : c = CodeOf(proto[p])
      BY <1>4
    <3>3. \A i \in 1..Len(Append(toSh[p], c)) :
             Append(toSh[p], c)[i] \in Tests
               \/ (i = Len(Append(toSh[p], c)) /\ Append(toSh[p], c)[i] = c)
      BY <1>3
    <3>4. proto'[p] = proto[p] /\ runs'[p] = "sh" /\ Silent(out'[p])
      BY <1>3, <1>6, ReadMore
    <3> QED
      BY <3>1, <3>2, <3>3, <3>4, Zenon DEF CodeSent
  <2>3. StreamOf(p)'
    BY <2>1, <2>2 DEF StreamOf, Talking
  <2>4. \A q \in Mounter \ {p} : toSh'[q] = toSh[q] /\ out'[q] = out[q]
    BY <1>4, <1>6, ReadMore, WriteMore
  <2> QED
    BY <1>6, <2>1, <2>3, <2>4, OneStream
<1>7. CASE Exit(p) \/ NoConnection(p)
  BY <1>7, EndStream
<1>8. CASE /\ proto' = [proto EXCEPT ![p] = "shell"]
           /\ Read(p, n) /\ Write(p, TestOf("shell"))
           /\ UNCHANGED <<pc, fd, runs>>
  <2>1. Append(toSh[p], TestOf("shell")) \in Seq(Tests)
    BY <1>3, <1>4, AppendProperties
  <2>2. StreamOf(p)'
    BY <1>1, <1>3, <1>4, <1>8, <2>1, ReadMore, WriteMore DEF StreamOf, Testing, Talking
  <2>3. \A q \in Mounter \ {p} : proto'[q] = proto[q]
    BY <1>8 DEF ConnTypes
  <2> QED
    BY <1>4, <1>8, <2>2, <2>3, ReadMore, WriteMore, OneStream
<1> QED
  BY <1>2, <1>5, <1>6, <1>7, <1>8 DEF NextProto

\* The replies to the code and to s_init.
LEMMA ReplyStream ==
  ASSUME Stream, Places, ConnTypes, NEW p \in Mounter, CodeReply(p) \/ InitReply(p) \/ NoReply(p)
  PROVE  Stream'
<1>0. out[p] \in Seq(Lines)
  BY DEF ConnTypes
<1>1. CASE CodeReply(p)
  <2>1. pc[p] = "code" /\ (CodeSent(p) \/ CodeRun(p))
    BY <1>1 DEF CodeReply, At, Stream, StreamOf
  <2>2. PICK n \in 1..Len(out[p]) :
          \/ /\ SubSeq(out[p], 1, n) = <<Line("200")>>
             /\ Goto(p, "init") /\ Read(p, n) /\ Write(p, "s_init") /\ UNCHANGED <<fd, proto, runs>>
          \/ NoConnection(p)
    BY <1>1 DEF CodeReply
  <2>3. CASE /\ SubSeq(out[p], 1, n) = <<Line("200")>>
             /\ Goto(p, "init") /\ Read(p, n) /\ Write(p, "s_init") /\ UNCHANGED <<fd, proto, runs>>
    <3>1. n = 1 /\ Len(out[p]) >= 1 /\ out[p][1].k = "200"
      BY <1>0, <2>3, FirstLine
    <3>2. Len(out[p]) \in Nat /\ 1 \in 1..Len(out[p])
      BY <1>0, <3>1
    <3>3. CodeRun(p) /\ Len(out[p]) = 1
      BY <2>1, <3>1, <3>2 DEF CodeSent, CodeRun, Silent
    <3>4. out'[p] = <<>>
      BY <2>3, <3>1, <3>3, ReadMore
    <3>5. "s_init" \in Commands
      BY DEF Commands
    <3>6. Append(<<>>, "s_init") = <<"s_init">>
      OBVIOUS
    <3>7. toSh'[p] = <<"s_init">>
      BY <2>3, <3>3, <3>5, <3>6, WriteMore DEF CodeRun
    <3>8. pc'[p] = "init" /\ \A q \in Mounter \ {p} : pc'[q] = pc[q]
      BY <2>3, ConverseFrame
    <3>9. InitSent(p)'
      BY <2>3, <3>3, <3>4, <3>7 DEF CodeRun, InitSent
    <3>10. StreamOf(p)'
      BY <3>8, <3>9 DEF StreamOf, Talking
    <3> QED
      BY <2>3, <3>5, <3>8, <3>10, ReadMore, WriteMore, OneStream
  <2> QED
    BY <2>2, <2>3, EndStream
<1>2. CASE InitReply(p)
  <2>1. pc[p] = "init" /\ (InitSent(p) \/ InitRun(p))
    BY <1>2 DEF InitReply, At, Stream, StreamOf
  <2>2. PICK n \in 1..Len(out[p]) :
          \/ /\ SubSeq(out[p], 1, n) = <<Line("200")>>
             /\ Goto(p, IF again[p] THEN "ioctl" ELSE "mount")
             /\ Read(p, n) /\ UNCHANGED <<fd, toSh, proto, runs>>
          \/ NoConnection(p)
    BY <1>2 DEF InitReply
  <2>3. CASE /\ SubSeq(out[p], 1, n) = <<Line("200")>>
             /\ Goto(p, IF again[p] THEN "ioctl" ELSE "mount")
             /\ Read(p, n) /\ UNCHANGED <<fd, toSh, proto, runs>>
    <3>1. n = 1 /\ Len(out[p]) >= 1
      BY <1>0, <2>3, FirstLine
    <3>2. Len(<<>>) = 0 /\ Len(<<Line("200")>>) = 1
      OBVIOUS
    <3>3. InitRun(p) /\ Len(out[p]) = 1
      <4>1. out[p] # <<>>
        BY <3>1, <3>2
      <4> QED
        BY <2>1, <3>2, <4>1, Zenon DEF InitSent, InitRun
    <3>4. out'[p] = <<>>
      BY <2>3, <3>1, <3>3, ReadMore
    <3>5. /\ pc'[p] \in {"ioctl", "mount"}
          /\ \A q \in Mounter \ {p} : pc'[q] = pc[q]
      BY <2>3, ConverseFrame
    <3>6. InStep(p)'
      BY <2>3, <3>3, <3>4 DEF InitRun, InStep
    <3>7. StreamOf(p)'
      BY <3>5, <3>6 DEF StreamOf, InStep
    <3> QED
      BY <2>3, <3>5, <3>7, ReadMore, OneStream
  <2> QED
    BY <2>2, <2>3, EndStream
<1>3. CASE NoReply(p)
  BY <1>3, EndStream DEF NoReply
<1> QED
  BY <1>1, <1>2, <1>3


\* The remote side reads a line and answers it.
LEMMA RemoteStream ==
  ASSUME Stream, Places, ConnTypes, NEW p \in Mounter, RemoteStep(p)
  PROVE  Stream'
<1>0. out[p] \in Seq(Lines) /\ toSh[p] \in Seq(Commands) /\ toSh[p] # <<>>
  BY DEF ConnTypes, RemoteStep
<1>1. StreamOf(p) /\ UNCHANGED <<pc, fd, proto>>
  BY DEF Stream, RemoteStep
<1>2. /\ toSh'[p] = Tail(toSh[p])
      /\ \A q \in Mounter \ {p} : toSh'[q] = toSh[q] /\ out'[q] = out[q] /\ runs'[q] = runs[q]
  BY DEF RemoteStep, Say, ConnTypes
<1>3. PICK c \in Commands : c = Head(toSh[p])
  BY <1>0, TailOf
<1>4. /\ c = toSh[p][1] /\ 1 \in 1..Len(toSh[p]) /\ Len(toSh[p]) \in Nat
      /\ toSh'[p] \in Seq(Commands) /\ Len(toSh'[p]) = Len(toSh[p]) - 1
      /\ \A i \in 1..Len(toSh'[p]) : toSh'[p][i] = toSh[p][i + 1] /\ i + 1 \in 1..Len(toSh[p])
      /\ Len(toSh[p]) = 1 => toSh'[p] = <<>>
  BY <1>0, <1>2, <1>3, TailOf
<1>5. ASSUME c \in Tests
      PROVE  runs'[p] = runs[p] /\ (Silent(out[p]) => Silent(out'[p]))
  <2>1. PICK l \in TestAnswers(c) : Say(p, l) /\ UNCHANGED runs
    BY <1>3, <1>5 DEF RemoteStep, Tests
  <2>2. l \in Lines /\ l.k # "200"
    <3>1. l \in Lines
      BY <1>5, LinesTyped DEF Tests
    <3>2. Line("failed").k # "200" /\ \A s : [k |-> "ok", caps |-> s].k # "200"
      BY DEF Line
    <3> QED
      BY <3>1, <3>2 DEF TestAnswers
  <2>3. out'[p] = Append(out[p], l)
    BY <2>1 DEF Say, ConnTypes
  <2> QED
    BY <1>0, <2>1, <2>2, <2>3, SilentSaid
<1>6. CASE pc[p] = "test"
  <2>1. toSh[p] \in Seq(Tests) /\ c \in Tests /\ runs[p] = "sh" /\ Silent(out[p])
    BY <1>1, <1>4, <1>6 DEF StreamOf, Testing
  <2>2. Tail(toSh[p]) \in Seq(Tests)
    BY <1>0, <2>1, TailOf
  <2>3. Testing(p)'
    BY <1>2, <1>5, <2>1, <2>2 DEF Testing
  <2>4. StreamOf(p)'
    BY <1>1, <1>6, <2>3 DEF StreamOf, Talking
  <2> QED
    BY <1>1, <1>2, <2>4, OneStream
<1>7. CASE pc[p] = "code"
  <2>1. CodeSent(p)
    BY <1>0, <1>1, <1>7 DEF StreamOf, CodeRun
  <2>2. ASSUME c \in Tests PROVE CodeSent(p)'
    <3>1. \A i \in 1..Len(toSh'[p]) :
            toSh'[p][i] \in Tests \/ (i = Len(toSh'[p]) /\ toSh'[p][i] = CodeOf(proto[p]))
      <4> SUFFICES ASSUME NEW i \in 1..Len(toSh'[p]), toSh'[p][i] \notin Tests
                   PROVE  i = Len(toSh'[p]) /\ toSh'[p][i] = CodeOf(proto[p])
        OBVIOUS
      <4>1. i + 1 = Len(toSh[p]) /\ toSh[p][i + 1] = CodeOf(proto[p])
        BY <1>4, <2>1 DEF CodeSent
      <4> QED
        BY <1>4, <4>1
    <3> QED
      BY <1>1, <1>5, <2>1, <2>2, <3>1 DEF CodeSent
  <2>3. ASSUME c \notin Tests PROVE CodeSent(p)' \/ CodeRun(p)'
    <3>1. c = CodeOf(proto[p]) /\ Len(toSh[p]) = 1 /\ toSh'[p] = <<>>
      <4>1. 1 = Len(toSh[p]) /\ c = CodeOf(proto[p])
        BY <1>4, <2>1, <2>3 DEF CodeSent
      <4> QED
        BY <1>4, <4>1
    <3>2. proto[p] \in Protos /\ c \in {"code perl", "code shell"} /\ c \notin {"test perl", "test shell", "s_init"}
          /\ (c = "code perl" <=> proto[p] = "perl")
      BY <3>1 DEF ConnTypes, Protos, CodeOf
    <3>3. CASE /\ runs' = [runs EXCEPT ![p] = IF c = "code perl" THEN "perl" ELSE "shell"]
               /\ Say(p, Line("200"))
      <4>1. runs'[p] = proto[p]
        BY <3>2, <3>3 DEF ConnTypes, Protos
      <4>2. out'[p] = Append(out[p], Line("200")) /\ Line("200") \in Lines
        BY <3>3, LinesTyped DEF Say, ConnTypes
      <4>3. Silent(out[p])
        BY <2>1 DEF CodeSent
      <4>4. \A i \in 1..Len(Append(out[p], Line("200"))) :
              Append(out[p], Line("200"))[i].k = "200" => i = Len(Append(out[p], Line("200")))
        <5>1. PICK m \in Lines : m = Line("200")
          BY <4>2
        <5>2. \A i \in 1..Len(Append(out[p], m)) :
                Append(out[p], m)[i].k = "200" => i = Len(Append(out[p], m))
          BY <1>0, <4>3 DEF Silent
        <5> QED
          BY <5>1, <5>2
      <4> QED
        BY <1>1, <3>1, <4>1, <4>2, <4>4, Zenon DEF CodeRun
    <3>4. CASE UNCHANGED <<out, runs>>
      <4>1. Len(<<>>) = 0
        OBVIOUS
      <4> QED
        BY <1>1, <2>1, <3>1, <3>4, <4>1 DEF CodeSent
    <3> QED
      BY <1>3, <3>2, <3>3, <3>4 DEF RemoteStep
  <2>4. StreamOf(p)'
    BY <1>1, <1>7, <2>2, <2>3 DEF StreamOf, Talking
  <2> QED
    BY <1>1, <1>2, <2>4, OneStream
<1>8. CASE pc[p] = "init"
  <2>1. InitSent(p)
    BY <1>0, <1>1, <1>8 DEF StreamOf, InitRun
  <2>2. Len(<<"s_init">>) = 1 /\ <<"s_init">>[1] = "s_init"
    OBVIOUS
  <2>3. c = "s_init" /\ toSh'[p] = <<>>
    BY <1>4, <2>1, <2>2 DEF InitSent
  <2>4. /\ runs' = [runs EXCEPT ![p] = IF @ = "perl" THEN "perl ready" ELSE "shell ready"]
        /\ Say(p, Line("200"))
    BY <1>3, <2>3 DEF RemoteStep
  <2>5. runs'[p] = Ready(proto[p])
    BY <2>1, <2>4 DEF ConnTypes, InitSent, Ready
  <2>6. out'[p] = Append(out[p], Line("200"))
    BY <2>4 DEF Say, ConnTypes
  <2>7. Append(<<>>, Line("200")) = <<Line("200")>>
    OBVIOUS
  <2>8. out'[p] = <<Line("200")>>
    BY <2>1, <2>6, <2>7 DEF InitSent
  <2>9. InitRun(p)'
    BY <1>1, <2>3, <2>5, <2>8 DEF InitRun, Ready
  <2>10. StreamOf(p)'
    BY <1>1, <1>8, <2>9 DEF StreamOf, Talking
  <2> QED
    BY <1>1, <1>2, <2>10, OneStream
<1> QED
  BY <1>0, <1>1, <1>6, <1>7, <1>8 DEF StreamOf, Talking

\* Every step keeps the streams in order.
LEMMA NextStream ==
  ASSUME Types, Stream, [Next]_vars
  PROVE  Stream'
<1>t. Places /\ ConnTypes /\ Mounter \cap Unmounter = {}
  BY ProcessesAssumption DEF Types
<1>m. Mounter \subseteq Process /\ Unmounter \subseteq Process
  BY DEF Process
<1>1. ASSUME NEW p \in Mounter, Start(p) \/ Reap(p) PROVE Stream'
  BY <1>1, <1>t, ConnectStream DEF Start, Reap
<1>2. ASSUME NEW p \in Mounter, Converse(p) PROVE Stream'
  BY <1>2, <1>t, TestStream, ReplyStream DEF Converse
<1>3. ASSUME NEW p \in Mounter, RemoteStep(p) PROVE Stream'
  BY <1>3, <1>t, RemoteStream
<1>4. CASE UNCHANGED <<pc, proto, toSh, out, runs, fd>>
  BY <1>4 DEF Stream, StreamOf, Testing, CodeSent, CodeRun, InitSent, InitRun, InStep
<1>5. ASSUME NEW p \in Mounter, SshGone(p) \/ KernelDrops(p) PROVE Stream'
  <2>1. UNCHANGED <<pc, proto, toSh, out, runs, fd>>
    BY <1>5 DEF SshGone, KernelDrops, connection
  <2> QED
    BY <1>4, <2>1
<1>6. ASSUME NEW p \in Mounter, MountHangs(p) PROVE Stream'
  <2>1. UNCHANGED connection /\ pc[p] = "mount" /\ pc'[p] = "hung"
        /\ \A q \in Mounter \ {p} : pc'[q] = pc[q]
    BY <1>6, <1>t, <1>m DEF MountHangs, At, Goto, Places
  <2>2. StreamOf(p)'
    <3>1. InStep(p)
      BY <2>1 DEF Stream, StreamOf
    <3> QED
      BY <2>1, <3>1 DEF StreamOf, InStep, connection
  <2> QED
    BY <2>1, <2>2, OneStream DEF connection
<1>7. ASSUME NEW p \in Mounter, DoMount(p) \/ AddEntry(p) \/ SetMode(p) PROVE Stream'
  <2>1. /\ UNCHANGED connection /\ pc[p] \notin Talking
        /\ \E l \in Section \cup {"lock", "stay", "done"} : Goto(p, l)
    BY <1>7 DEF DoMount, AddEntry, SetMode, At, Talking, Section
  <2> QED
    BY <1>m, <1>t, <2>1, OffStage
<1>8. ASSUME NEW q \in Unmounter, DoUmount(q) \/ CopyEntries(q) \/ RenameMtab(q) PROVE Stream'
  <2>1. /\ UNCHANGED connection /\ pc[q] \notin Talking
        /\ \E l \in Section \cup {"lock", "stay", "done"} : Goto(q, l)
    BY <1>8 DEF DoUmount, CopyEntries, RenameMtab, At, Talking, Section
  <2> QED
    BY <1>m, <1>t, <2>1, OffStage
<1>9. ASSUME NEW p \in Process, MtabStep(p) \/ MtabFails(p) PROVE Stream'
  <2>1. /\ UNCHANGED connection /\ pc[p] \notin Talking
        /\ \E l \in Section \cup {"lock", "stay", "done"} : Goto(p, l)
    BY <1>9 DEF MtabStep, LockMtab, OpenMtab, UnlinkLock, MtabFails, At, Talking, Section, After
  <2> QED
    BY <1>t, <2>1, OffStage
<1>10. ASSUME NEW p \in Mounter, MountFails(p) \/ Ioctl(p) PROVE Stream'
  BY <1>10, <1>t, EndStream DEF MountFails, Ioctl
<1>11. ASSUME NEW p \in Mounter, Stay(p) PROVE Stream'
  <2>1. (CloseSocket(p) /\ Forget(p) /\ Goto(p, "reap")) \/ Exit(p)
    BY <1>11 DEF Stay
  <2> QED
    BY <1>t, <2>1, ClosedStream, EndStream
<1>12. ASSUME NEW p \in Process, Killed(p) PROVE Stream'
  <2>1. CASE p \in Mounter
    BY <1>12, <1>t, <2>1, EndStream DEF Killed
  <2>2. CASE p \notin Mounter
    <3>1. /\ UNCHANGED <<proto, toSh, out, runs, fd>> /\ Goto(p, "done")
      BY <1>12, <2>2 DEF Killed
    <3>2. \A q \in Mounter : pc'[q] = pc[q]
      BY <1>t, <2>2, <3>1 DEF Goto, Places
    <3> QED
      BY <3>1, <3>2 DEF Stream, StreamOf, Testing, CodeSent, CodeRun, InitSent, InitRun, InStep
  <2> QED
    BY <2>1, <2>2
<1>13. CASE UNCHANGED vars
  BY <1>4, <1>13 DEF vars, connection
<1> QED
  BY <1>1, <1>2, <1>3, <1>5, <1>6, <1>7, <1>8, <1>9, <1>10, <1>11, <1>12, <1>13, Steps

\* No connection exists at first.
LEMMA InitStream == Init => Stream
<1> SUFFICES ASSUME Init, NEW p \in Mounter PROVE StreamOf(p)
  BY DEF Stream
<1>1. pc[p] = "start" /\ toSh[p] = <<>>
  BY DEF Init, Process
<1> QED
  BY <1>1 DEF StreamOf

\* Whatever the remote side prints before and between its answers, and
\* however the reads are cut: a connection that mount(2) or the ioctl gets
\* has an initialised server on its other end, of the variant selected, and
\* nothing left in it in either direction.
THEOREM HandedOver == Spec => []HandedOverClean
<1>1. ASSUME Stream PROVE HandedOverClean
  BY <1>1 DEF Stream, StreamOf, InStep, Ready, HandedOverClean
<1> QED
  BY <1>1, TypesHold, InitStream, NextStream, PTL DEF Spec

=============================================================================
