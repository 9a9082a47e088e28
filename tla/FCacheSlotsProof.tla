--------------------------- MODULE FCacheSlotsProof ---------------------------
(***************************************************************************)
(* Proofs about FCacheSlots, for any number of files, inodes and caches:   *)
(* the types, the accounting of slots, the limit of the mount, and that    *)
(* nobody touches or loses a cache as long as the operations of an inode   *)
(* keep apart.                                                             *)
(*                                                                         *)
(* TypeOK is inductive.  So is SlotAccounting given TypeOK: every action   *)
(* moves at most one slot, from one of the five counts to another.  The    *)
(* limit follows, since no count is negative.                              *)
(*                                                                         *)
(* Ownership is the invariant behind the rest.  Roles and Guarded hold     *)
(* always; Apart says what holds until two operations clash: the threads   *)
(* of an inode exclude each other (Exclusive), p->cache is the inode's own *)
(* cache except between free_fcache and p->cache = NULL (Owned), what a    *)
(* thread copied from it is still there (Current), and no allocated cache  *)
(* is out of reach of the last close (Reachable).                          *)
(***************************************************************************)
EXTENDS FCacheSlots, FiniteSetTheorems, TLAPS

\* Adding a new element to a finite set, or taking one away, counts as one.
LEMMA CountOne ==
  ASSUME NEW S, IsFiniteSet(S), NEW x
  PROVE  /\ IsFiniteSet(S \cup {x}) /\ IsFiniteSet(S \ {x})
         /\ Cardinality(S) \in Nat
         /\ x \notin S => Cardinality(S \cup {x}) = Cardinality(S) + 1
         /\ x \in S => /\ Cardinality(S \ {x}) = Cardinality(S) - 1
                       /\ Cardinality(S \ {x}) \in Nat
BY FS_AddElement, FS_RemoveElement, FS_CardinalityType

\* The sets that are counted are finite.
LEMMA Finite ==
  /\ IsFiniteSet(live) /\ Cardinality(live) \in Nat
  /\ \A label : IsFiniteSet(In(label)) /\ Cardinality(In(label)) \in Nat
BY FiniteAssumption, FS_Subset, FS_CardinalityType DEF live, In

\* A file that goes to a label leaves the one it was at.
LEMMA Moves ==
  ASSUME TypeOK, NEW f \in Files, NEW label \in Labels, Goto(f, label)
  PROVE  \A l : In(l)' = IF l = label THEN In(l) \cup {f} ELSE In(l) \ {f}
BY DEF TypeOK, Goto, In

\* The initial state has its types.
LEMMA InitTypeOK == Init => TypeOK
<1> SUFFICES ASSUME Init PROVE TypeOK OBVIOUS
<1>1. free \in Nat /\ opens \in 0..MaxOpens /\ lost \in Nat /\ extra \in Nat
  BY CacheMaxAssumption, MaxOpensAssumption DEF Init
<1>2. /\ home \in [Objs -> Inodes \cup {NoInode}]
      /\ cache \in [Inodes -> Objs \cup {NoObj}]
      /\ local \in [Files \cup {Lister} -> Objs \cup {NoObj}]
      /\ ino \in [Files -> Inodes \cup {NoInode}]
  BY DEF Init
<1>3. /\ pc \in [Files -> Labels]
      /\ op \in [Files -> {"none", "open", "access", "flush", "release"}]
      /\ \A f \in Files : pc[f] = "closed"
  BY DEF Init, Labels
<1> QED
  BY <1>1, <1>2, <1>3 DEF Init, TypeOK

\* Every step keeps them.
LEMMA NextTypeOK == TypeOK /\ [Next]_vars => TypeOK'
<1> SUFFICES ASSUME TypeOK, [Next]_vars PROVE TypeOK' OBVIOUS
<1> USE CacheMaxAssumption, MaxOpensAssumption, NoneAssumption DEF TypeOK, Labels
<1>1. ASSUME NEW f \in Files, Step(f) PROVE TypeOK'
  <2>1. CASE Test(f)
    BY <2>1 DEF Test, Goto, history
  <2>2. CASE AllocSlot(f)
    BY <2>2 DEF AllocSlot, Goto, history
  <2>3. CASE AllocMemory(f)
    BY <2>3 DEF AllocMemory, Goto, history, live
  <2>4. CASE AllocFails(f)
    BY <2>4 DEF AllocFails, Goto
  <2>5. CASE Attach(f)
    BY <2>5 DEF Attach, Goto, history
  <2>6. CASE Load(f)
    BY <2>6 DEF Load, Goto, history
  <2>7. CASE Use(f)
    BY <2>7 DEF Use, Goto, Touch
  <2>8. CASE Wake(f)
    BY <2>8 DEF Wake, Goto, Touch
  <2>9. CASE Sync(f)
    <3>1. cache[ino[f]] \in Objs \cup {NoObj} /\ stray' \in BOOLEAN
      BY <2>9 DEF Sync, Synced, Touch
    <3>2. local' \in [Files \cup {Lister} -> Objs \cup {NoObj}]
      BY <2>9, <3>1 DEF Sync
    <3>3. \E l \in Labels : Goto(f, l)
      BY <2>9 DEF Sync, Synced
    <3>4. pc' \in [Files -> Labels]
      BY <3>3 DEF Goto
    <3>5. ASSUME NEW g \in Files
          PROVE  /\ pc'[g] = "closed" \/ ino[g] \in Inodes
                 /\ pc'[g] \in {"use", "asleep", "writing"} => local'[g] \in Objs
      <4>1. CASE g = f
        BY <2>9, <4>1 DEF Sync, Synced, Goto
      <4>2. CASE g # f
        <5>1. pc'[g] = pc[g] /\ local'[g] = local[g]
          BY <2>9, <3>3, <4>2 DEF Sync, Goto
        <5> QED
          BY <5>1
      <4> QED
        BY <4>1, <4>2
    <3>6. UNCHANGED <<free, home, cache, dirty, ino, op, mutex, listing, opens,
                      lost, extra, syncFailed, overlapped>>
      BY <2>9 DEF Sync
    <3> QED
      BY <3>1, <3>2, <3>4, <3>5, <3>6
  <2>10. CASE SyncWrote(f)
    BY <2>10 DEF SyncWrote, Synced, Goto, Touch
  <2>11. CASE FreeNothing(f)
    BY <2>11 DEF FreeNothing, Goto, history
  <2>12. CASE Free(f)
    BY <2>12 DEF Free, Goto
  <2>13. CASE FreeSlot(f)
    BY <2>13 DEF FreeSlot, Goto, history
  <2>14. CASE Detach(f)
    BY <2>14 DEF Detach, Goto, history
  <2> QED
    BY <1>1, <2>1, <2>2, <2>3, <2>4, <2>5, <2>6, <2>7, <2>8, <2>9, <2>10,
       <2>11, <2>12, <2>13, <2>14 DEF Step
<1>2. ASSUME NEW f \in Files, Call(f) PROVE TypeOK'
  <2>1. ASSUME NEW i \in Inodes, Open(f, i) PROVE TypeOK'
    BY <2>1 DEF Open, Begin, Overlap, Goto
  <2>2. CASE Access(f)
    BY <2>2 DEF Access, Begin, Overlap, Goto
  <2>3. CASE Flush(f)
    BY <2>3 DEF Flush, Begin, Overlap, Goto
  <2>4. CASE Release(f)
    BY <2>4 DEF Release, Begin, Overlap, Goto
  <2> QED
    BY <1>2, <2>1, <2>2, <2>3, <2>4 DEF Call
<1>3. ASSUME NEW i \in Inodes, Clear(i) PROVE TypeOK'
  BY <1>3 DEF Clear, Overlap
<1>4. ASSUME NEW i \in Inodes, Evict(i) PROVE TypeOK'
  BY <1>4 DEF Evict, files, history
<1>5. CASE ClearDone
  BY <1>5 DEF ClearDone, Touch, files
<1>6. CASE UNCHANGED vars
  BY <1>6 DEF vars, files, history
<1> QED
  BY <1>1, <1>2, <1>3, <1>4, <1>5, <1>6 DEF Next

\* The mount starts with CacheMax free slots and no cache.
LEMMA InitAccounting == Init => SlotAccounting
<1> SUFFICES ASSUME Init PROVE SlotAccounting OBVIOUS
<1>1. live = {} /\ In("kmem") = {} /\ In("unslot") = {}
  BY DEF Init, live, In
<1> QED
  BY <1>1, FS_EmptySet, CacheMaxAssumption DEF Init, SlotAccounting

\* A step that allocates or frees nothing and keeps the counters keeps the
\* accounting, if no file goes to or from the two labels between.
LEMMA OtherSteps ==
  ASSUME SlotAccounting, UNCHANGED <<free, home, lost, extra>>,
         In("kmem")' = In("kmem"), In("unslot")' = In("unslot")
  PROVE  SlotAccounting'
<1>1. live' = live
  BY DEF live
<1> QED
  BY <1>1 DEF SlotAccounting

\* Every step keeps the accounting.
LEMMA NextAccounting == TypeOK /\ SlotAccounting /\ [Next]_vars => SlotAccounting'
<1> SUFFICES ASSUME TypeOK, SlotAccounting, [Next]_vars PROVE SlotAccounting'
  OBVIOUS
<1> DEFINE Quiet == {"closed", "ready", "test", "slot", "attach", "load", "use",
                     "asleep", "sync", "writing", "free", "detach"}
<1>a. ASSUME NEW f \in Files, pc[f] \in Quiet, NEW label \in Quiet, Goto(f, label),
             UNCHANGED <<free, home, lost, extra>>
      PROVE SlotAccounting'
  <2>1. In("kmem")' = In("kmem") /\ In("unslot")' = In("unslot")
    <3>1. label \in Labels /\ label \notin {"kmem", "unslot"}
      BY <1>a DEF Labels
    <3>2. \A l : In(l)' = IF l = label THEN In(l) \cup {f} ELSE In(l) \ {f}
      BY <1>a, <3>1, Moves
    <3>3. f \notin In("kmem") /\ f \notin In("unslot")
      BY <1>a DEF In
    <3> QED
      BY <3>1, <3>2, <3>3
  <2> QED
    BY <1>a, <2>1, OtherSteps
<1>b. /\ live' \subseteq Objs /\ IsFiniteSet(live) /\ Cardinality(live) \in Nat
      /\ \A l : IsFiniteSet(In(l)) /\ Cardinality(In(l)) \in Nat
      /\ free \in Nat /\ lost \in Nat /\ extra \in Nat /\ CacheMax \in Nat
  BY Finite, CacheMaxAssumption DEF live, TypeOK
<1>1. ASSUME NEW f \in Files, Step(f) PROVE SlotAccounting'
  <2>1. CASE Test(f)
    <3>1. PICK label \in Quiet : Goto(f, label)
      BY <2>1 DEF Test
    <3> QED
      BY <1>a, <2>1, <3>1 DEF Test, history
  <2>2. CASE AllocSlot(f)
    <3>1. CASE free > 0
      <4>1. In("kmem")' = In("kmem") \cup {f} /\ In("unslot")' = In("unslot")
            /\ f \notin In("kmem")
        BY <2>2, <3>1, Moves DEF AllocSlot, Labels, In
      <4>2. live' = live /\ free' = free - 1 /\ UNCHANGED <<lost, extra>>
        BY <2>2, <3>1 DEF AllocSlot, live, history
      <4>3. Cardinality(In("kmem")') = Cardinality(In("kmem")) + 1
        BY <1>b, <4>1, CountOne
      <4> QED
        BY <1>b, <4>1, <4>2, <4>3 DEF SlotAccounting
    <3>2. CASE ~(free > 0)
      BY <1>a, <2>2, <3>2 DEF AllocSlot, history
    <3> QED
      BY <3>1, <3>2
  <2>3. CASE AllocMemory(f)
    <3>1. PICK o \in Objs \ live : home' = [home EXCEPT ![o] = ino[f]]
      BY <2>3 DEF AllocMemory
    <3>2. ino[f] \in Inodes
      BY <2>3 DEF AllocMemory, TypeOK
    <3>3. live' = live \cup {o}
      BY <3>1, <3>2, NoneAssumption DEF live, TypeOK
    <3>4. In("kmem")' = In("kmem") \ {f} /\ In("unslot")' = In("unslot")
          /\ f \in In("kmem")
      BY <2>3, Moves DEF AllocMemory, Labels, In
    <3>5. UNCHANGED <<free, lost, extra>>
      BY <2>3 DEF AllocMemory, history
    <3>6. Cardinality(live') = Cardinality(live) + 1
      BY <1>b, <3>1, <3>3, CountOne
    <3>7. Cardinality(In("kmem")') = Cardinality(In("kmem")) - 1
      BY <1>b, <3>4, CountOne
    <3> QED
      BY <1>b, <3>4, <3>5, <3>6, <3>7 DEF SlotAccounting
  <2>4. CASE AllocFails(f)
    <3>1. In("kmem")' = In("kmem") \ {f} /\ In("unslot")' = In("unslot")
          /\ f \in In("kmem")
      BY <2>4, Moves DEF AllocFails, Labels, In
    <3>2. live' = live /\ lost' = lost + 1 /\ UNCHANGED <<free, extra>>
      BY <2>4 DEF AllocFails, live
    <3>3. Cardinality(In("kmem")') = Cardinality(In("kmem")) - 1
      BY <1>b, <3>1, CountOne
    <3> QED
      BY <1>b, <3>1, <3>2, <3>3 DEF SlotAccounting
  <2>5. CASE Attach(f)
    <3>1. PICK label \in Quiet : Goto(f, label)
      BY <2>5 DEF Attach
    <3> QED
      BY <1>a, <2>5, <3>1 DEF Attach, history
  <2>6. CASE Load(f)
    <3>1. PICK label \in Quiet : Goto(f, label)
      BY <2>6 DEF Load
    <3> QED
      BY <1>a, <2>6, <3>1 DEF Load, history
  <2>7. CASE Use(f)
    <3>1. PICK label \in Quiet : Goto(f, label)
      BY <2>7 DEF Use
    <3> QED
      BY <1>a, <2>7, <3>1 DEF Use
  <2>8. CASE Wake(f)
    <3>1. PICK label \in Quiet : Goto(f, label)
      BY <2>8 DEF Wake
    <3> QED
      BY <1>a, <2>8, <3>1 DEF Wake
  <2>9. CASE Sync(f)
    <3>1. PICK label \in Quiet : Goto(f, label)
      BY <2>9 DEF Sync, Synced
    <3> QED
      BY <1>a, <2>9, <3>1 DEF Sync
  <2>10. CASE SyncWrote(f)
    <3>1. PICK label \in Quiet : Goto(f, label)
      BY <2>10 DEF SyncWrote, Synced
    <3> QED
      BY <1>a, <2>10, <3>1 DEF SyncWrote
  <2>11. CASE FreeNothing(f)
    BY <1>a, <2>11 DEF FreeNothing, history
  <2>12. CASE Free(f)
    <3>1. PICK o \in Objs : /\ home' = [home EXCEPT ![o] = NoInode]
                            /\ extra' = IF o \in live THEN extra ELSE extra + 1
      BY <2>12 DEF Free
    <3>2. live' = live \ {o}
      BY <3>1 DEF live, TypeOK
    <3>3. In("unslot")' = In("unslot") \cup {f} /\ In("kmem")' = In("kmem")
          /\ f \notin In("unslot")
      BY <2>12, Moves DEF Free, Labels, In
    <3>4. UNCHANGED <<free, lost>>
      BY <2>12 DEF Free
    <3>5. Cardinality(In("unslot")') = Cardinality(In("unslot")) + 1
      BY <1>b, <3>3, CountOne
    <3>6. CASE o \in live
      <4>1. Cardinality(live') = Cardinality(live) - 1 /\ extra' = extra
        BY <1>b, <3>1, <3>2, <3>6, CountOne
      <4> QED
        BY <1>b, <3>3, <3>4, <3>5, <4>1 DEF SlotAccounting
    <3>7. CASE o \notin live
      <4>1. live' = live /\ extra' = extra + 1
        BY <3>1, <3>2, <3>7
      <4> QED
        BY <1>b, <3>3, <3>4, <3>5, <4>1 DEF SlotAccounting
    <3> QED
      BY <3>6, <3>7
  <2>13. CASE FreeSlot(f)
    <3>1. In("unslot")' = In("unslot") \ {f} /\ In("kmem")' = In("kmem")
          /\ f \in In("unslot")
      BY <2>13, Moves DEF FreeSlot, Labels, In
    <3>2. live' = live /\ free' = free + 1 /\ UNCHANGED <<lost, extra>>
      BY <2>13 DEF FreeSlot, live, history
    <3>3. Cardinality(In("unslot")') = Cardinality(In("unslot")) - 1
      BY <1>b, <3>1, CountOne
    <3> QED
      BY <1>b, <3>1, <3>2, <3>3 DEF SlotAccounting
  <2>14. CASE Detach(f)
    BY <1>a, <2>14 DEF Detach, history
  <2> QED
    BY <1>1, <2>1, <2>2, <2>3, <2>4, <2>5, <2>6, <2>7, <2>8, <2>9, <2>10,
       <2>11, <2>12, <2>13, <2>14 DEF Step
<1>2. ASSUME NEW f \in Files, Call(f) PROVE SlotAccounting'
  <2>1. PICK label \in Quiet : Goto(f, label)
    BY <1>2 DEF Call, Open, Access, Flush, Release
  <2>2. pc[f] \in Quiet /\ UNCHANGED <<free, home, lost, extra>>
    BY <1>2 DEF Call, Open, Access, Flush, Release
  <2> QED
    BY <1>a, <2>1, <2>2
<1>3. CASE \/ \E i \in Inodes : Clear(i) \/ Evict(i)
           \/ ClearDone
           \/ UNCHANGED vars
  <2>1. UNCHANGED <<free, home, lost, extra, pc>>
    BY <1>3 DEF Clear, Evict, ClearDone, vars, files, history
  <2>2. In("kmem")' = In("kmem") /\ In("unslot")' = In("unslot")
    BY <2>1 DEF In
  <2> QED
    BY <2>1, <2>2, OtherSteps
<1> QED
  BY <1>1, <1>2, <1>3 DEF Next

\* Both hold in every state.
LEMMA Accounted == Spec => [](TypeOK /\ SlotAccounting)
BY InitTypeOK, NextTypeOK, InitAccounting, NextAccounting, PTL DEF Spec

-----------------------------------------------------------------------------
(* Who may touch a cache, as long as the operations of an inode keep apart. *)

Allocating == {"test", "slot", "kmem", "attach"}
Accessing == {"load", "use", "asleep"}
Syncing == {"sync", "writing"}
Freeing == {"free", "unslot", "detach"}

Busy(f) == pc[f] \notin Resting

\* The label says which operation a file is in.
Roles ==
  \A f \in Files :
    /\ pc[f] \in Allocating => op[f] \in {"open", "access"}
    /\ pc[f] \in Accessing => op[f] = "access"
    /\ pc[f] \in Syncing => op[f] \in {"flush", "release"}
    /\ pc[f] \in Freeing => op[f] = "release"

\* shfs_mutex: an access holds it, and so does the listing.
Guarded ==
  /\ \A f \in Files : Busy(f) /\ op[f] = "access" => mutex = f
  /\ listing # NoInode => mutex = Lister
  /\ mutex = Lister => listing # NoInode

\* No two operations of one inode clash.
Exclusive ==
  /\ \A f, g \in Files :
       f # g /\ ino[f] = ino[g] /\ Busy(f) /\ Busy(g) => ~Clash(op[f], op[g])
  /\ \A f \in Files : Busy(f) /\ listing = ino[f] => op[f] # "release"

\* Between free_fcache and p->cache = NULL the pointer of an inode dangles,
\* and the address may have a new owner.
Dangling(f) == pc[f] \in {"unslot", "detach"}

\* p->cache is the inode's own cache, except while it dangles.
Owned ==
  /\ \A i \in Inodes :
       /\ cache[i] # NoObj
       /\ \A f \in Files : ino[f] = i => ~Dangling(f)
       => home[cache[i]] = i
  /\ \A f \in Files :
       Dangling(f) /\ cache[ino[f]] # NoObj => home[cache[ino[f]]] # ino[f]

\* What a thread keeps in a local variable is still what the inode has; a
\* cache on its way to the inode is the only one.
Current ==
  /\ \A f \in Files :
       /\ pc[f] \in {"slot", "kmem", "attach"} => cache[ino[f]] = NoObj
       /\ pc[f] = "attach" /\ local[f] # NoObj => home[local[f]] = ino[f]
       /\ pc[f] \in {"use", "asleep", "writing"} => local[f] = cache[ino[f]]
  /\ listing # NoInode => local[Lister] = cache[listing] /\ local[Lister] # NoObj

\* A cache is in its inode or on its way there, and an inode with one is open.
Reachable ==
  /\ \A o \in live :
       \/ cache[home[o]] = o
       \/ \E f \in Files : pc[f] = "attach" /\ local[f] = o /\ ino[f] = home[o]
  /\ \A i \in Inodes :
       cache[i] # NoObj => \E f \in Files : ino[f] = i /\ pc[f] # "closed"

Apart ==
  ~overlapped =>
    /\ Exclusive /\ Owned /\ Current /\ ~stray /\ extra = 0
    /\ ~syncFailed => Reachable

Ownership == Roles /\ Guarded /\ Apart

\* A step of an operation: its file was busy, and the call stays what it is.
LEMMA StepMoves ==
  ASSUME TypeOK, Roles, NEW f \in Files, Step(f)
  PROVE  /\ Busy(f) /\ (\E label \in Labels : Goto(f, label))
         /\ UNCHANGED <<ino, op, listing, overlapped>>
         /\ \/ mutex' = mutex
            \/ mutex' = NoFile /\ pc'[f] = "ready" /\ op[f] = "access"
<1> USE DEF Busy, Resting, Labels
<1>1. CASE Test(f)
  BY <1>1 DEF Test, history
<1>2. CASE AllocSlot(f)
  BY <1>2 DEF AllocSlot, history
<1>3. CASE AllocMemory(f) \/ AllocFails(f)
  BY <1>3 DEF AllocMemory, AllocFails, history
<1>4. CASE Attach(f)
  BY <1>4 DEF Attach, history
<1>5. CASE Load(f) \/ Use(f) \/ Wake(f)
  <2>1. op[f] = "access" /\ pc[f] \in {"load", "use", "asleep"}
    BY <1>5 DEF Load, Use, Wake, Roles, Accessing
  <2>2. (\E label \in Labels : Goto(f, label)) /\ UNCHANGED <<ino, op, listing, overlapped>>
    BY <1>5 DEF Load, Use, Wake, history
  <2>3. mutex' = mutex \/ (mutex' = NoFile /\ Goto(f, "ready"))
    BY <1>5 DEF Load, Use, Wake
  <2> QED
    BY <2>1, <2>2, <2>3 DEF Goto, TypeOK
<1>6. CASE Sync(f)
  BY <1>6 DEF Sync, Synced
<1>7. CASE SyncWrote(f)
  BY <1>7 DEF SyncWrote, Synced
<1>8. CASE FreeNothing(f) \/ Free(f) \/ FreeSlot(f) \/ Detach(f)
  BY <1>8 DEF FreeNothing, Free, FreeSlot, Detach, history
<1> QED
  BY <1>1, <1>2, <1>3, <1>4, <1>5, <1>6, <1>7, <1>8 DEF Step

\* Labels and operations stay paired.
LEMMA NextRoles == TypeOK /\ Roles /\ [Next]_vars => Roles'
<1> SUFFICES ASSUME TypeOK, Roles, [Next]_vars PROVE Roles' OBVIOUS
<1> USE DEF TypeOK, Roles, Allocating, Accessing, Syncing, Freeing
<1>1. ASSUME NEW f \in Files, Step(f) PROVE Roles'
  <2>1. CASE Test(f) \/ AllocSlot(f) \/ AllocMemory(f) \/ AllocFails(f) \/ Attach(f)
    BY <2>1 DEF Test, AllocSlot, AllocMemory, AllocFails, Attach, Goto
  <2>2. CASE Load(f) \/ Use(f) \/ Wake(f)
    BY <2>2 DEF Load, Use, Wake, Goto
  <2>3. CASE Sync(f) \/ SyncWrote(f)
    BY <2>3 DEF Sync, SyncWrote, Synced, Goto
  <2>4. CASE FreeNothing(f) \/ Free(f) \/ FreeSlot(f) \/ Detach(f)
    BY <2>4 DEF FreeNothing, Free, FreeSlot, Detach, Goto
  <2> QED
    BY <1>1, <2>1, <2>2, <2>3, <2>4 DEF Step
<1>2. ASSUME NEW f \in Files, Call(f) PROVE Roles'
  BY <1>2 DEF Call, Open, Access, Flush, Release, Begin, Goto
<1>3. CASE \/ \E i \in Inodes : Clear(i) \/ Evict(i)
           \/ ClearDone
           \/ UNCHANGED vars
  BY <1>3 DEF Clear, Evict, ClearDone, vars, files
<1> QED
  BY <1>1, <1>2, <1>3 DEF Next

\* shfs_mutex is with the access or the listing that is running.
LEMMA NextGuarded == TypeOK /\ Guarded /\ Roles /\ [Next]_vars => Guarded'
<1> SUFFICES ASSUME TypeOK, Guarded, Roles, [Next]_vars PROVE Guarded' OBVIOUS
<1> USE NoneAssumption DEF TypeOK, Guarded, Busy, Resting
<1>1. ASSUME NEW f \in Files, Step(f) PROVE Guarded'
  <2>1. /\ Busy(f) /\ (\E label \in Labels : Goto(f, label))
        /\ UNCHANGED <<ino, op, listing, overlapped>>
        /\ \/ mutex' = mutex
           \/ mutex' = NoFile /\ pc'[f] = "ready" /\ op[f] = "access"
    BY <1>1, StepMoves
  <2> QED
    BY <2>1 DEF Goto
<1>2. ASSUME NEW f \in Files, Call(f) PROVE Guarded'
  <2>1. ASSUME NEW i \in Inodes, Open(f, i) PROVE Guarded'
    BY <2>1 DEF Open, Begin, Goto
  <2>2. CASE Access(f)
    BY <2>2 DEF Access, Begin, Goto
  <2>3. CASE Flush(f) \/ Release(f)
    BY <2>3 DEF Flush, Release, Begin, Goto
  <2> QED
    BY <1>2, <2>1, <2>2, <2>3 DEF Call
<1>3. ASSUME NEW i \in Inodes, Clear(i) PROVE Guarded'
  BY <1>3 DEF Clear
<1>4. CASE (\E i \in Inodes : Evict(i)) \/ ClearDone \/ UNCHANGED vars
  BY <1>4 DEF Evict, ClearDone, vars, files
<1> QED
  BY <1>1, <1>2, <1>3, <1>4 DEF Next

\* An operation that starts finds nothing beside it that it clashes with, if
\* the history says so.
LEMMA Begins ==
  ASSUME TypeOK, Exclusive, NEW f \in Files, NEW i \in Inodes,
         NEW what \in {"open", "access", "flush", "release"}, NEW label,
         pc[f] \in Resting, Begin(f, i, what), Goto(f, label),
         ino' = [ino EXCEPT ![f] = i], listing' = listing, ~overlapped'
  PROVE  Exclusive'
<1>1. /\ op' = [op EXCEPT ![f] = what]
      /\ \A other \in Running(i) : ~Clash(what, other)
  BY DEF Begin, Overlap
<1>2. \A g \in Files : g # f /\ Busy(g) /\ ino[g] = i =>
        ~Clash(what, op[g]) /\ ~Clash(op[g], what)
  BY <1>1 DEF Running, Busy, Clash
<1>3. listing = i => what # "release"
  BY <1>1 DEF Running, Clash
<1>4. \A g \in Files : g # f => /\ Busy(g)' = Busy(g) /\ ino'[g] = ino[g]
                                /\ op'[g] = op[g]
  BY <1>1 DEF Busy, Goto, TypeOK
<1>5. ino'[f] = i /\ op'[f] = what
  BY <1>1 DEF TypeOK
<1>6. ASSUME NEW g \in Files, NEW h \in Files, g # h, ino'[g] = ino'[h],
             Busy(g)', Busy(h)'
      PROVE ~Clash(op'[g], op'[h])
  BY <1>2, <1>4, <1>5, <1>6 DEF Exclusive
<1>7. \A g \in Files : Busy(g)' /\ listing' = ino'[g] => op'[g] # "release"
  BY <1>3, <1>4, <1>5 DEF Exclusive
<1> QED
  BY <1>6, <1>7 DEF Exclusive, Clash

\* Operations of an inode keep apart as long as none has started too early.
LEMMA NextExclusive ==
  TypeOK /\ Roles /\ Exclusive /\ [Next]_vars /\ ~overlapped' => Exclusive'
<1> SUFFICES ASSUME TypeOK, Roles, Exclusive, [Next]_vars, ~overlapped'
             PROVE  Exclusive'
  OBVIOUS
<1>1. ASSUME NEW f \in Files, Step(f) PROVE Exclusive'
  <2>1. /\ Busy(f) /\ (\E label \in Labels : Goto(f, label))
        /\ UNCHANGED <<ino, op, listing>>
    BY <1>1, StepMoves
  <2>2. \A g \in Files : Busy(g)' => Busy(g)
    BY <2>1 DEF Busy, Goto, TypeOK
  <2> QED
    BY <2>1, <2>2 DEF Exclusive, Clash
<1>2. ASSUME NEW f \in Files, Call(f) PROVE Exclusive'
  <2>1. pc[f] \in Resting /\ listing' = listing
    BY <1>2 DEF Call, Open, Access, Flush, Release, Resting
  <2>2. \E i \in Inodes, what \in {"open", "access", "flush", "release"}, label \in Labels :
          Begin(f, i, what) /\ Goto(f, label) /\ ino' = [ino EXCEPT ![f] = i]
    <3>1. CASE \E i \in Inodes : Open(f, i)
      BY <3>1 DEF Open, Labels
    <3>2. CASE Access(f) \/ Flush(f) \/ Release(f)
      <4>1. ino[f] \in Inodes /\ ino' = [ino EXCEPT ![f] = ino[f]]
        BY <3>2 DEF Access, Flush, Release, TypeOK
      <4> QED
        BY <3>2, <4>1 DEF Access, Flush, Release, Labels
    <3> QED
      BY <1>2, <3>1, <3>2 DEF Call
  <2> QED
    BY <2>1, <2>2, Begins
<1>3. ASSUME NEW i \in Inodes, Clear(i) PROVE Exclusive'
  <2>1. \A f \in Files : Busy(f) /\ ino[f] = i => op[f] # "release"
    BY <1>3 DEF Clear, Overlap, Running, Clash, Busy
  <2> QED
    BY <1>3, <2>1 DEF Clear, Exclusive, Busy, Clash
<1>4. CASE (\E i \in Inodes : Evict(i)) \/ ClearDone \/ UNCHANGED vars
  <2>1. UNCHANGED <<pc, op, ino>> /\ (listing' = listing \/ listing' = NoInode)
    BY <1>4 DEF Evict, ClearDone, vars, files
  <2>2. \A f \in Files : Busy(f) => ino[f] # NoInode
    BY NoneAssumption DEF Busy, Resting, TypeOK
  <2> QED
    BY <2>1, <2>2 DEF Exclusive, Busy, Clash
<1> QED
  BY <1>1, <1>2, <1>3, <1>4 DEF Next

\* Beside a release an inode has no other operation; beside an open or an
\* access only a flush.
LEMMA Alone ==
  ASSUME TypeOK, Guarded, Exclusive, NEW f \in Files, NEW g \in Files,
         f # g, ino[f] = ino[g], Busy(f), Busy(g)
  PROVE  /\ op[f] # "release" /\ op[g] # "release"
         /\ op[f] \in {"open", "access"} => op[g] \notin {"open", "access"}
BY DEF Guarded, Exclusive, Clash

\* What every step must show: pointers and locals stay right, and nothing is
\* touched or freed that is not the inode's.
Kept == Owned' /\ Current' /\ UNCHANGED <<stray, extra>>

\* A pointer that does not dangle is the inode's own cache, and thus allocated.
LEMMA Own ==
  ASSUME TypeOK, Roles, Guarded, Exclusive, Owned, NEW f \in Files, Busy(f),
         ~Dangling(f), cache[ino[f]] # NoObj
  PROVE  home[cache[ino[f]]] = ino[f] /\ cache[ino[f]] \in live
<1>1. ino[f] \in Inodes
  BY DEF TypeOK, Busy, Resting
<1>2. ASSUME NEW g \in Files, ino[g] = ino[f] PROVE ~Dangling(g)
  <2>1. CASE Dangling(g)
    <3>1. Busy(g) /\ op[g] = "release"
      BY <2>1 DEF Dangling, Busy, Resting, Roles, Freeing
    <3> QED
      BY <1>2, <2>1, <3>1, Alone
  <2> QED
    BY <2>1
<1> QED
  BY <1>1, <1>2, NoneAssumption DEF Owned, live, TypeOK

\* The steps of a file's operation keep pointers and locals right.
LEMMA StepKept ==
  ASSUME TypeOK, Roles, Guarded, Exclusive, Owned, Current, NEW f \in Files, Step(f)
  PROVE  Kept
<1> USE NoneAssumption DEF Kept
<1>0. Busy(f) /\ ino[f] \in Inodes
  BY StepMoves DEF TypeOK, Busy, Resting
<1>1. CASE Test(f)
  BY <1>0, <1>1 DEF Test, Goto, TypeOK, Owned, Current, Dangling, history
<1>2. CASE AllocSlot(f)
  BY <1>0, <1>2 DEF AllocSlot, Goto, TypeOK, Owned, Current, Dangling, history
<1>3. CASE AllocMemory(f)
  BY <1>0, <1>3 DEF AllocMemory, Goto, TypeOK, Owned, Current, Dangling, history, live
<1>4. CASE AllocFails(f)
  BY <1>0, <1>4 DEF AllocFails, Goto, TypeOK, Owned, Current, Dangling
<1>5. CASE Attach(f)
  <2>1. cache[ino[f]] = NoObj /\ (local[f] # NoObj => home[local[f]] = ino[f])
    BY <1>5 DEF Attach, Current
  <2>2. PICK label \in Labels \ {"slot", "kmem", "attach", "use", "asleep", "writing",
                                "unslot", "detach"} :
          /\ Goto(f, label)
          /\ cache' = [cache EXCEPT ![ino[f]] = local[f]]
          /\ UNCHANGED <<home, ino, local, listing, stray, extra>>
    BY <1>5 DEF Attach, history, Labels
  <2>3. \A g \in Files : ino[g] = ino[f] => ~Dangling(g)
    BY <1>0, <1>5, Alone DEF Dangling, Busy, Resting, Roles, Freeing, Allocating, Attach
  <2>4. \A g \in Files : ino[g] = ino[f] /\ g # f =>
          pc[g] \notin {"slot", "kmem", "attach", "use", "asleep", "writing"}
    <3> SUFFICES ASSUME NEW g \in Files, ino[g] = ino[f], g # f,
                        pc[g] \in {"slot", "kmem", "attach", "use", "asleep", "writing"}
                 PROVE  FALSE
      OBVIOUS
    <3>1. CASE pc[g] \in {"use", "asleep", "writing"}
      BY <2>1, <3>1, <1>0 DEF Current, TypeOK
    <3>2. CASE pc[g] \in {"slot", "kmem", "attach"}
      BY <1>0, <1>5, <3>2, Alone DEF Busy, Resting, Roles, Allocating, Attach
    <3> QED
      BY <3>1, <3>2
  <2>5. Owned'
    BY <1>0, <2>1, <2>2, <2>3 DEF Owned, Dangling, Goto, TypeOK
  <2>6. Current'
    BY <1>0, <2>1, <2>2, <2>4 DEF Current, Goto, TypeOK
  <2> QED
    BY <2>2, <2>5, <2>6
<1>6. CASE Load(f)
  BY <1>0, <1>6 DEF Load, Goto, TypeOK, Owned, Current, Dangling, history
<1>7. CASE Use(f)
  BY <1>0, <1>7, Own DEF Use, Touch, Goto, TypeOK, Owned, Current, Dangling
<1>8. CASE Wake(f)
  BY <1>0, <1>8, Own DEF Wake, Touch, Goto, TypeOK, Owned, Current, Dangling
<1>9. CASE Sync(f)
  BY <1>0, <1>9, Own DEF Sync, Synced, Touch, Goto, TypeOK, Owned, Current, Dangling
<1>10. CASE SyncWrote(f)
  BY <1>0, <1>10, Own DEF SyncWrote, Synced, Touch, Goto, TypeOK, Owned, Current, Dangling
<1>11. CASE FreeNothing(f)
  BY <1>0, <1>11 DEF FreeNothing, Goto, TypeOK, Owned, Current, Dangling, history
<1>12. CASE Free(f)
  BY <1>0, <1>12, Own, Alone DEF Free, Goto, TypeOK, Owned, Current, Dangling
<1>13. CASE FreeSlot(f)
  BY <1>0, <1>13 DEF FreeSlot, Goto, TypeOK, Owned, Current, Dangling, history
<1>14. CASE Detach(f)
  <2>1. /\ pc[f] = "detach" /\ Goto(f, "closed") /\ cache' = [cache EXCEPT ![ino[f]] = NoObj]
        /\ UNCHANGED <<home, ino, local, listing, stray, extra>>
    BY <1>14 DEF Detach, history
  <2>2. op[f] = "release" /\ listing # ino[f]
    BY <1>0, <2>1 DEF Roles, Freeing, Exclusive
  <2>3. \A g \in Files : ino[g] = ino[f] /\ g # f => ~Busy(g)
    BY <1>0, <2>2, Alone
  <2>4. Owned'
    BY <1>0, <2>1, <2>3 DEF Owned, Dangling, Busy, Resting, Goto, TypeOK
  <2>5. Current'
    BY <1>0, <2>1, <2>2, <2>3 DEF Current, Busy, Resting, Goto, TypeOK
  <2> QED
    BY <2>1, <2>4, <2>5
<1> QED
  BY <1>1, <1>2, <1>3, <1>4, <1>5, <1>6, <1>7, <1>8, <1>9, <1>10, <1>11,
     <1>12, <1>13, <1>14 DEF Step

\* So do the calls,
LEMMA CallKept ==
  ASSUME TypeOK, Exclusive, Owned, Current, NEW f \in Files, Call(f)
  PROVE  Kept
<1>1. /\ pc[f] \in Resting /\ UNCHANGED <<home, cache, local, listing, stray, extra>>
      /\ \E label \in {"test", "sync"} : Goto(f, label)
      /\ ino' = ino \/ (\E i \in Inodes : ino' = [ino EXCEPT ![f] = i])
  BY DEF Call, Open, Access, Flush, Release, Resting
<1>2. Owned'
  BY <1>1 DEF Owned, Dangling, Resting, Goto, TypeOK
<1>3. Current'
  BY <1>1 DEF Current, Resting, Goto, TypeOK
<1> QED
  BY <1>1, <1>2, <1>3 DEF Kept

\* and the listing of a directory and the eviction of an inode.
LEMMA RestKept ==
  ASSUME TypeOK, Roles, Guarded, Exclusive, Owned, Current,
         \/ \E i \in Inodes : Clear(i) \/ Evict(i)
         \/ ClearDone
         \/ UNCHANGED vars
  PROVE  Kept
<1> USE NoneAssumption DEF Kept
<1>1. ASSUME NEW i \in Inodes, Clear(i) PROVE Kept
  BY <1>1 DEF Clear, TypeOK, Owned, Current, Dangling
<1>2. ASSUME NEW i \in Inodes, Evict(i) PROVE Kept
  BY <1>2 DEF Evict, TypeOK, Owned, Current, Dangling, files, history
<1>3. CASE ClearDone
  <2>1. listing # NoInode /\ local[Lister] = cache[listing] /\ local[Lister] # NoObj
    BY <1>3 DEF ClearDone, Guarded, Current
  <2>2. ASSUME NEW f \in Files, ino[f] = listing PROVE ~Dangling(f)
    BY <2>2 DEF Roles, Freeing, Exclusive, Dangling, Busy, Resting
  <2>3. home[local[Lister]] = listing
    BY <2>1, <2>2 DEF Owned, TypeOK
  <2>4. stray' = stray /\ listing' = NoInode /\ UNCHANGED <<home, cache, files, extra>>
    BY <1>3, <2>3 DEF ClearDone, Touch, TypeOK
  <2> QED
    BY <2>4 DEF Owned, Current, Dangling, files
<1>4. CASE UNCHANGED vars
  BY <1>4 DEF vars, Owned, Current, Dangling, files, history
<1> QED
  BY <1>1, <1>2, <1>3, <1>4

\* A step that leaves the caches where they are, of a file that is not about
\* to attach one and does not become closed.
LEMMA StillReachable ==
  ASSUME TypeOK, Reachable, NEW f \in Files, NEW label \in Labels, Goto(f, label),
         pc[f] # "attach", label # "closed", UNCHANGED <<home, cache>>,
         \A g \in Files : g # f => ino'[g] = ino[g] /\ local'[g] = local[g],
         ino' = ino \/ pc[f] = "closed"
  PROVE  Reachable'
<1>1. \A g \in Files : g # f => pc'[g] = pc[g]
  BY DEF Goto, TypeOK
<1>2. pc'[f] = label
  BY DEF Goto, TypeOK
<1>3. ASSUME NEW o \in live'
      PROVE  \/ cache'[home'[o]] = o
             \/ \E g \in Files : pc'[g] = "attach" /\ local'[g] = o /\ ino'[g] = home'[o]
  <2>1. o \in live
    BY <1>3 DEF live
  <2>2. CASE cache[home[o]] = o
    BY <2>2
  <2>3. ASSUME NEW g \in Files, pc[g] = "attach", local[g] = o, ino[g] = home[o]
        PROVE pc'[g] = "attach" /\ local'[g] = o /\ ino'[g] = home'[o]
    BY <2>3, <1>1
  <2> QED
    BY <2>1, <2>2, <2>3 DEF Reachable
<1>4. ASSUME NEW i \in Inodes, cache'[i] # NoObj
      PROVE  \E g \in Files : ino'[g] = i /\ pc'[g] # "closed"
  <2>1. PICK g \in Files : ino[g] = i /\ pc[g] # "closed"
    BY <1>4 DEF Reachable
  <2> QED
    BY <2>1, <1>1, <1>2
<1> QED
  BY <1>3, <1>4 DEF Reachable

\* No cache gets out of reach, unless the server refuses a release.
LEMMA NextReachable ==
  ASSUME TypeOK, Roles, Exclusive, Guarded, Owned, Current, Reachable, [Next]_vars, ~syncFailed'
  PROVE  Reachable'
<1> USE NoneAssumption
<1>1. ASSUME NEW f \in Files, Step(f) PROVE Reachable'
  <2>0. Busy(f) /\ ino[f] \in Inodes
    BY <1>1, StepMoves DEF TypeOK, Busy, Resting
  <2>1. CASE Test(f)
    BY <2>1, StillReachable DEF Test, history, Labels
  <2>2. CASE AllocSlot(f) \/ AllocFails(f)
    BY <2>2, StillReachable DEF AllocSlot, AllocFails, history, TypeOK, Labels
  <2>3. CASE AllocMemory(f)
    BY <2>0, <2>3 DEF AllocMemory, Goto, TypeOK, Reachable, live, history
  <2>4. CASE Attach(f)
    BY <2>0, <2>4 DEF Attach, Goto, TypeOK, Reachable, Current, live, history
  <2>5. CASE Load(f) \/ Use(f) \/ Wake(f)
    BY <2>5, StillReachable DEF Load, Use, Wake, TypeOK, history, Labels
  <2>6. CASE Sync(f)
    BY <2>6, StillReachable DEF Sync, Synced, TypeOK, Labels
  <2>7. CASE SyncWrote(f)
    <3>1. op[f] = "flush" \/ op[f] = "release"
      BY <2>7 DEF SyncWrote, Roles, Syncing
    <3>2. Goto(f, "ready") \/ Goto(f, "free")
      BY <2>7, <3>1 DEF SyncWrote, Synced
    <3> QED
      BY <2>7, <3>2, StillReachable DEF SyncWrote, Labels
  <2>8. CASE FreeNothing(f)
    BY <2>0, <2>8 DEF FreeNothing, Goto, TypeOK, Reachable, live, history
  <2>9. CASE Free(f)
    BY <2>0, <2>9, Own DEF Free, Goto, TypeOK, Reachable, live, Dangling
  <2>10. CASE FreeSlot(f)
    BY <2>10, StillReachable DEF FreeSlot, history, Labels
  <2>11. CASE Detach(f)
    BY <2>0, <2>11 DEF Detach, Goto, TypeOK, Reachable, Owned, Dangling, live, history
  <2> QED
    BY <1>1, <2>1, <2>2, <2>3, <2>4, <2>5, <2>6, <2>7, <2>8, <2>9, <2>10, <2>11 DEF Step
<1>2. ASSUME NEW f \in Files, Call(f) PROVE Reachable'
  <2>1. ASSUME NEW i \in Inodes, Open(f, i) PROVE Reachable'
    BY <2>1, StillReachable DEF Open, TypeOK, Labels
  <2>2. CASE Access(f) \/ Flush(f) \/ Release(f)
    BY <2>2, StillReachable DEF Access, Flush, Release, Labels
  <2> QED
    BY <1>2, <2>1, <2>2 DEF Call
<1>3. ASSUME NEW i \in Inodes, Clear(i) PROVE Reachable'
  BY <1>3 DEF Clear, TypeOK, Reachable, live
<1>4. ASSUME NEW i \in Inodes, Evict(i) PROVE Reachable'
  BY <1>4 DEF Evict, Reachable
<1>5. CASE ClearDone \/ UNCHANGED vars
  BY <1>5 DEF ClearDone, Reachable, live, files, vars
<1> QED
  BY <1>1, <1>2, <1>3, <1>4, <1>5 DEF Next

\* No file is open and nothing is allocated at first.
LEMMA InitOwnership == Init => Ownership
<1> SUFFICES ASSUME Init PROVE Ownership OBVIOUS
<1>1. Roles /\ Guarded
  BY NoneAssumption DEF Init, Roles, Guarded, Busy, Resting, Allocating, Accessing, Syncing, Freeing
<1>2. Exclusive /\ Owned /\ Current /\ Reachable
  BY DEF Init, Exclusive, Owned, Current, Reachable, Busy, Resting, Dangling, live
<1> QED
  BY <1>1, <1>2 DEF Init, Ownership, Apart

\* Ownership is inductive, given the types.
LEMMA NextOwnership == TypeOK /\ Ownership /\ [Next]_vars => Ownership'
<1> SUFFICES ASSUME TypeOK, Ownership, [Next]_vars PROVE Ownership' OBVIOUS
<1>1. Roles' /\ Guarded' /\ TypeOK'
  BY NextTypeOK, NextRoles, NextGuarded DEF Ownership
<1>2. ASSUME ~overlapped' PROVE Apart'
  <2>1. ~overlapped /\ (~syncFailed' => ~syncFailed)
    <3>1. ASSUME NEW f \in Files, Step(f) PROVE overlapped' = overlapped
      BY <3>1, StepMoves DEF Ownership
    <3>2. ASSUME NEW f \in Files, Step(f), ~syncFailed' PROVE ~syncFailed
      BY <3>2 DEF Step, Test, AllocSlot, AllocMemory, AllocFails, Attach, Load, Use, Wake,
                  Sync, SyncWrote, FreeNothing, Free, FreeSlot, Detach, history
    <3>3. ASSUME NEW f \in Files, Call(f)
          PROVE  (overlapped => overlapped') /\ syncFailed' = syncFailed
      BY <3>3 DEF Call, Open, Access, Flush, Release, Begin, Overlap
    <3>4. ASSUME NEW i \in Inodes, Clear(i)
          PROVE  (overlapped => overlapped') /\ syncFailed' = syncFailed
      BY <3>4 DEF Clear, Overlap
    <3>5. CASE (\E i \in Inodes : Evict(i)) \/ ClearDone \/ UNCHANGED vars
      <4>1. UNCHANGED <<overlapped, syncFailed>>
        BY <3>5 DEF Evict, ClearDone, vars, history
      <4> QED
        BY <1>2, <4>1
    <3> QED
      BY <1>2, <3>1, <3>2, <3>3, <3>4, <3>5 DEF Next
  <2>2. Exclusive'
    BY <1>2, <2>1, NextExclusive DEF Ownership, Apart
  <2>3. Kept
    BY <2>1, StepKept, CallKept, RestKept DEF Ownership, Apart, Next
  <2>4. ~syncFailed' => Reachable'
    BY <2>1, NextReachable DEF Ownership, Apart
  <2> QED
    BY <2>1, <2>2, <2>3, <2>4 DEF Ownership, Apart, Kept
<1> QED
  BY <1>1, <1>2 DEF Ownership, Apart

-----------------------------------------------------------------------------
\* The variables keep their types: fcache_free never goes below zero, and an
\* open file has an inode.
THEOREM TypeCorrect == Spec => []TypeOK
BY Accounted, PTL

\* alloc_fcache, free_fcache and the failures between them account for every
\* slot of the mount, in any interleaving of any number of files.
THEOREM EverySlotAccounted == Spec => []SlotAccounting
BY Accounted, PTL

\* The option cachemax is kept as long as no cache is freed twice, although
\* the pointers to the caches have no lock.
THEOREM LimitKept == Spec => []LimitHolds
<1>1. TypeOK /\ SlotAccounting => LimitHolds
  BY Finite, CacheMaxAssumption DEF TypeOK, SlotAccounting, LimitHolds
<1> QED
  BY <1>1, Accounted, PTL

\* Everything above holds in every state.
LEMMA Sound == Spec => [](TypeOK /\ SlotAccounting /\ Ownership)
BY InitTypeOK, NextTypeOK, InitAccounting, NextAccounting, InitOwnership,
   NextOwnership, PTL DEF Spec

\* If a release meets no other operation of its inode, and an open no other
\* open or access, then no thread touches a cache that is not the inode's and
\* none is freed twice, though nothing locks p->cache: in any interleaving of
\* any number of files and inodes, with failed allocations and failed writes.
THEOREM ApartSafe == Spec => []ApartIsSafe
<1>1. Ownership => ApartIsSafe
  BY DEF Ownership, Apart, ApartIsSafe
<1> QED
  BY <1>1, Sound, PTL

\* Under that condition fcache_file_close leaves no slot behind: when every
\* file is closed all slots are free again but the lost ones, unless the
\* server refused the data of a release.
THEOREM SlotsReturn == Spec => []SlotsComeBack
<1>1. ASSUME TypeOK, SlotAccounting, Ownership PROVE SlotsComeBack
  <2> SUFFICES ASSUME AllClosed, ~overlapped, ~syncFailed
               PROVE  live = {} /\ free + lost = CacheMax
    BY DEF SlotsComeBack
  <2>1. Reachable /\ extra = 0
    BY <1>1 DEF Ownership, Apart
  <2>2. live = {}
    <3> SUFFICES ASSUME NEW o \in live PROVE FALSE OBVIOUS
    <3>1. home[o] \in Inodes /\ o # NoObj
      BY <1>1, NoneAssumption DEF live, TypeOK
    <3>2. cache[home[o]] = o
      BY <2>1 DEF Reachable, AllClosed
    <3> QED
      BY <2>1, <3>1, <3>2 DEF Reachable, AllClosed
  <2>3. In("kmem") = {} /\ In("unslot") = {}
    BY DEF AllClosed, In
  <2>4. free + 0 + 0 + 0 + lost = CacheMax + 0
    BY <1>1, <2>1, <2>2, <2>3, FS_EmptySet DEF SlotAccounting
  <2> QED
    BY <1>1, <2>2, <2>4, CacheMaxAssumption DEF TypeOK
<1> QED
  BY <1>1, Sound, PTL

=============================================================================
