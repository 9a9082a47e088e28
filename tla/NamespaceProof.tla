---------------------------- MODULE NamespaceProof ----------------------------
(***************************************************************************)
(* Proof that a belief about a name can only be wrong where there was a    *)
(* reason for doubt (SuspectOnly), for any set of names and any number of  *)
(* events.  Together with the fact that remote is a function of the names  *)
(* the property is inductive: every operation either asks the server, or   *)
(* changes both sides alike, or leaves a reason behind.                    *)
(*                                                                         *)
(* And proof that a wrong belief is trusted for TTL at most                *)
(* (BeliefBounded): for how long it has been wrong is bounded by the ages  *)
(* of the dentry and its inode (Ages), because no step but the excused     *)
(* ones makes a belief younger that it has not asked about, or younger     *)
(* than TTL (NoYounger).                                                   *)
(***************************************************************************)
EXTENDS Namespace, TLAPS

RemoteType == remote \in [Name -> Type \cup {"none"}]

IInv == RemoteType /\ SuspectOnly

-----------------------------------------------------------------------------

\* A step that sets the dentries to V and the remote side to R keeps the
\* invariant if every name where they disagree has a reason to.
LEMMA BecomeKeeps ==
  ASSUME NEW V, NEW R \in [Name -> Type \cup {"none"}], NEW C, NEW D,
         Become(V, R, C, D),
         \A n \in Name : ~Agrees(V[n], R[n]) => n \in suspect \cup C
  PROVE  IInv'
<1>1. RemoteType'
  BY DEF Become, RemoteType
<1>2. ASSUME NEW n \in Name, ~Agrees(View(n), remote[n])'
      PROVE  n \in suspect'
  <2>1. /\ View(n)'.dent = V[n].dent /\ View(n)'.bad = V[n].bad
        /\ View(n)'.mode = V[n].mode /\ View(n)'.ops = V[n].ops /\ View(n)'.same = V[n].same
    BY DEF Become, View
  <2>2. ~Agrees(V[n], R[n])
    BY <1>2, <2>1 DEF Agrees, TypeAgrees, Become
  <2> QED
    BY <2>2 DEF Become
<1> QED
  BY <1>1, <1>2 DEF IInv, SuspectOnly

\* The same for a step that concerns one name: what is believed of the
\* others, and what there is of them, stay.
LEMMA OneNameKeeps ==
  ASSUME IInv, NEW n \in Name, NEW v, NEW t \in Type \cup {"none"}, NEW C, NEW D,
         Become(With(n, v), [remote EXCEPT ![n] = t], C, D),
         ~Agrees(v, t) => n \in suspect \cup C
  PROVE  IInv'
<1> DEFINE R == [remote EXCEPT ![n] = t]
<1>1. R \in [Name -> Type \cup {"none"}]
  BY DEF IInv, RemoteType
<1>2. ASSUME NEW m \in Name, ~Agrees(With(n, v)[m], R[m])
      PROVE  m \in suspect \cup C
  <2>1. CASE m = n
    <3>1. With(n, v)[m] = v /\ R[m] = t
      BY <2>1 DEF With, Views, IInv, RemoteType
    <3> QED
      BY <1>2, <2>1, <3>1
  <2>2. CASE m # n
    <3>1. With(n, v)[m] = View(m) /\ R[m] = remote[m]
      BY <2>2 DEF With, Views, IInv, RemoteType
    <3> QED
      BY <1>2, <3>1 DEF IInv, SuspectOnly
  <2> QED
    BY <2>1, <2>2
<1> QED
  BY <1>1, <1>2, BecomeKeeps

\* An operation that only asks the server, or nobody.
LEMMA AskedKeeps ==
  ASSUME IInv, NEW n \in Name, NEW v, NEW C, NEW D,
         Become(With(n, v), remote, C, D),
         ~Agrees(v, remote[n]) => n \in suspect \cup C
  PROVE  IInv'
<1>1. remote = [remote EXCEPT ![n] = remote[n]] /\ remote[n] \in Type \cup {"none"}
  BY DEF IInv, RemoteType
<1> QED
  BY <1>1, OneNameKeeps

\* What a stat leaves of an inode is right if the inode was.
LEMMA RefreshedAgrees ==
  ASSUME IInv, NEW n \in Name, NEW e \in BOOLEAN
  PROVE  ~Agrees(Refreshed(n, e), remote[n]) => n \in suspect
BY DEF Refreshed, View, Agrees, TypeAgrees, IInv, SuspectOnly

-----------------------------------------------------------------------------

LEMMA LookupKeeps ==
  ASSUME IInv, NEW n \in Name,
         Resolve(n) \/ Getattr(n) \/ LookupInside(n) \/ FileOpen(n)
  PROVE  IInv'
<1>1. CASE Resolve(n)
  <2>1. PICK e1, e2 \in BOOLEAN :
          Become(With(n, IF RefreshSucceeds(n, e1) THEN Refreshed(n, e1) ELSE Looked(n, e2)),
                 remote, {m \in {n} : e2}, {m \in {n} : e2})
    BY <1>1 DEF Resolve
  <2>2. CASE RefreshSucceeds(n, e1)
    BY <2>1, <2>2, RefreshedAgrees, AskedKeeps
  <2>3. CASE ~RefreshSucceeds(n, e1)
    <3>1. ~Agrees(Looked(n, e2), remote[n]) => n \in {m \in {n} : e2}
      BY DEF Looked, Agrees, TypeAgrees, Negative, Positive, NoDentry
    <3> QED
      BY <2>1, <2>3, <3>1, AskedKeeps
  <2> QED
    BY <2>2, <2>3
<1>2. CASE Getattr(n)
  <2>1. PICK e \in BOOLEAN : Become(With(n, Refreshed(n, e)), remote, {}, {})
    BY <1>2 DEF Getattr
  <2> QED
    BY <2>1, RefreshedAgrees, AskedKeeps
<1>3. CASE LookupInside(n) \/ FileOpen(n)
  <2>1. Become(With(n, [View(n) EXCEPT !.dAge = 0]), remote, {}, {n})
    BY <1>3 DEF LookupInside, FileOpen
  <2>2. ~Agrees([View(n) EXCEPT !.dAge = 0], remote[n]) => n \in suspect
    BY DEF View, Agrees, TypeAgrees, IInv, SuspectOnly
  <2> QED
    BY <2>1, <2>2, AskedKeeps
<1> QED
  BY <1>1, <1>2, <1>3

LEMMA ReaddirKeeps ==
  ASSUME IInv, Readdir
  PROVE  IInv'
<1> DEFINE V(L) == [n \in Name |-> IF n \in L THEN Filled(n) ELSE Aged(n)]
<1>1. PICK L \in SUBSET {n \in Name : remote[n] # "none"} :
        Become(V(L), remote, {}, {})
  BY DEF Readdir
<1>2. ASSUME NEW n \in Name, ~Agrees(V(L)[n], remote[n])
      PROVE  n \in suspect
  <2>1. CASE n \in L
    BY <1>2, <2>1 DEF Filled, Positive, NoDentry, View, Agrees, TypeAgrees, IInv, SuspectOnly
  <2>2. CASE n \notin L
    BY <1>2, <2>2 DEF Aged, View, Agrees, TypeAgrees, IInv, SuspectOnly
  <2> QED
    BY <2>1, <2>2
<1> HIDE DEF V
<1> QED
  BY <1>1, <1>2, BecomeKeeps DEF IInv, RemoteType

LEMMA MakeKeeps ==
  ASSUME IInv, NEW n \in Name, NEW kind \in {"create", "mkdir", "symlink", "hardlink"},
         Make(n, kind)
  PROVE  IInv'
<1>1. PICK t \in Made(kind, remote[n]), told \in BOOLEAN :
        Become(With(n, IF told THEN Positive(t) ELSE View(n)), [remote EXCEPT ![n] = t],
               IF told THEN {} ELSE {n}, {})
  BY DEF Make
<1>2. t \in Type \cup {"none"}
  BY DEF Made, Type
<1>3. told => Agrees(IF told THEN Positive(t) ELSE View(n), t)
  BY DEF Positive, NoDentry, Agrees, TypeAgrees
<1> QED
  BY <1>1, <1>2, <1>3, OneNameKeeps

LEMMA UnlinkKeeps ==
  ASSUME IInv, NEW n \in Name, Unlink(n)
  PROVE  IInv'
<1>1. PICK told \in BOOLEAN :
        Become(With(n, IF told THEN Negative(0) ELSE View(n)), [remote EXCEPT ![n] = "none"],
               IF told THEN {} ELSE {n}, {})
  BY DEF Unlink
<1>2. told => Agrees(IF told THEN Negative(0) ELSE View(n), "none")
  BY DEF Negative, NoDentry, Agrees, TypeAgrees
<1> QED
  BY <1>1, <1>2, OneNameKeeps

\* A rename that went well takes the belief along, but where the server moved
\* the file into what was in the way: then there was a reason for doubt before,
\* or the types are no guard (MovedAway).
LEMMA RenameKeeps ==
  ASSUME IInv, NEW a \in Name, NEW b \in Name, Rename(a, b)
  PROVE  IInv'
<1> DEFINE Moved(into) == [With(b, MovedView(a, into)) EXCEPT ![a] = NoDentry]
           C(into) == {m \in {b} : {a, b} \cap suspect # {} \/ MovedAway(a, b, into)}
<1>a. a # b /\ Believed(a, Type) /\ WouldTrust(b)
      /\ (dent[b] = "positive" => (ops[a] = "dir" <=> ops[b] = "dir"))
  BY DEF Rename
<1>m. \A into \in BOOLEAN : MovedTo(a, b, into) \in [Name -> Type \cup {"none"}]
  BY DEF MovedTo, IInv, RemoteType, Type
<1>1. ASSUME NEW into \in BOOLEAN, CanMove(a, b, into), Become(Moved(into), MovedTo(a, b, into), C(into), {b})
      PROVE  IInv'
  <2>1. ASSUME NEW n \in Name, ~Agrees(Moved(into)[n], MovedTo(a, b, into)[n])
        PROVE  n \in suspect \cup C(into)
    <3>1. CASE n = a
      BY <2>1, <3>1 DEF With, Views, Agrees, TypeAgrees, NoDentry
    <3>2. CASE n = b
      <4>1. SUFFICES ASSUME a \notin suspect, b \notin suspect, ~MovedAway(a, b, into) PROVE FALSE
        BY <3>2
      <4>2. Moved(into)[b] = MovedView(a, into)
        BY <1>a DEF With, Views
      <4>3. dent[a] = "positive" /\ mode[a] = remote[a] /\ ops[a] = remote[a] /\ same[a]
        BY <1>a, <4>1 DEF Believed, WouldTrust, IInv, SuspectOnly, Agrees, TypeAgrees, View
      <4>4. ~into
        <5>1. into => remote[b] = "dir" /\ ops[a] # "dir"
          BY <1>1, <4>1 DEF CanMove, MovedAway
        <5>2. remote[b] = "dir" => dent[b] = "positive" /\ ops[b] = "dir"
          BY <1>a, <4>1 DEF WouldTrust, IInv, SuspectOnly, Agrees, TypeAgrees, View
        <5> QED
          BY <1>a, <5>1, <5>2
      <4>5. MovedTo(a, b, into)[b] = remote[a]
        BY <4>4 DEF MovedTo, IInv, RemoteType
      <4>6. /\ MovedView(a, into).dent = dent[a] /\ MovedView(a, into).mode = mode[a]
            /\ MovedView(a, into).ops = ops[a] /\ MovedView(a, into).same = (same[a] /\ ~into)
        BY DEF MovedView, View
      <4> QED
        BY <2>1, <3>2, <4>2, <4>3, <4>4, <4>5, <4>6 DEF Agrees, TypeAgrees
    <3>3. CASE n \notin {a, b}
      <4>1. Moved(into)[n] = View(n) /\ MovedTo(a, b, into)[n] = remote[n]
        BY <3>3 DEF With, Views, MovedTo, IInv, RemoteType
      <4> QED
        BY <2>1, <4>1 DEF IInv, SuspectOnly
    <3> QED
      BY <3>1, <3>2, <3>3
  <2> HIDE DEF Moved, C
  <2> QED
    BY <1>1, <1>m, <2>1, BecomeKeeps
<1>2. ASSUME NEW into \in BOOLEAN, Become(With(b, Target(b)), MovedTo(a, b, into), {a, b}, {})
      PROVE  IInv'
  <2>1. ASSUME NEW n \in Name, ~Agrees(With(b, Target(b))[n], MovedTo(a, b, into)[n])
        PROVE  n \in suspect \cup {a, b}
    <3>1. CASE n \notin {a, b}
      <4>1. With(b, Target(b))[n] = View(n) /\ MovedTo(a, b, into)[n] = remote[n]
        BY <3>1 DEF With, Views, MovedTo, IInv, RemoteType
      <4> QED
        BY <2>1, <4>1 DEF IInv, SuspectOnly
    <3> QED
      BY <3>1
  <2> QED
    BY <1>2, <1>m, <2>1, BecomeKeeps
<1>3. CASE Become(With(b, Target(b)), remote, {b}, {})
  BY <1>3, AskedKeeps
<1> QED
  BY <1>1, <1>2, <1>3 DEF Rename

LEMMA WorldKeeps ==
  ASSUME IInv, NEW n \in Name, RemoteChange(n) \/ ReclaimDentry(n)
  PROVE  IInv'
<1>1. CASE RemoteChange(n)
  <2>1. PICK t \in Type \cup {"none"} :
          Become(With(n, [View(n) EXCEPT !.same = dent[n] # "positive"]), [remote EXCEPT ![n] = t], {n}, {})
    BY <1>1 DEF RemoteChange
  <2> QED
    BY <2>1, OneNameKeeps
<1>2. CASE ReclaimDentry(n)
  <2>1. Become(With(n, NoDentry), remote, {}, {}) /\ Agrees(NoDentry, remote[n])
    BY <1>2 DEF ReclaimDentry, Agrees, TypeAgrees, NoDentry
  <2> QED
    BY <2>1, AskedKeeps
<1> QED
  BY <1>1, <1>2

\* Nothing of it changes.
LEMMA QuietKeeps ==
  ASSUME IInv, UNCHANGED <<remote, belief, same, suspect>>
  PROVE  IInv'
<1>1. RemoteType'
  BY DEF IInv, RemoteType
<1>2. ASSUME NEW n \in Name, ~Agrees(View(n), remote[n])'
      PROVE  n \in suspect'
  <2>1. ~Agrees(View(n), remote[n])
    BY <1>2 DEF Agrees, TypeAgrees, View, belief
  <2> QED
    BY <2>1 DEF IInv, SuspectOnly
<1> QED
  BY <1>1, <1>2 DEF IInv, SuspectOnly

-----------------------------------------------------------------------------

THEOREM InitInv == Init => IInv
BY DEF Init, IInv, RemoteType, SuspectOnly, Agrees, TypeAgrees, View, Type

\* Every step keeps the invariant.
THEOREM StepInv == IInv /\ [Next]_vars => IInv'
<1> SUFFICES ASSUME IInv, [Next]_vars PROVE IInv'
  OBVIOUS
<1>1. CASE UNCHANGED vars
  BY <1>1, QuietKeeps DEF vars, ghosts
<1>2. CASE Tick
  BY <1>2, QuietKeeps DEF Tick
<1> QED
  BY <1>1, <1>2, LookupKeeps, ReaddirKeeps, MakeKeeps, UnlinkKeeps, RenameKeeps, WorldKeeps
     DEF Next

\* No operation that goes well leaves a dentry wrong, for any set of names
\* of a directory and however much others change.
THEOREM Suspects == Spec => []SuspectOnly
<1>1. IInv => SuspectOnly
  BY DEF IInv
<1> QED
  BY <1>1, InitInv, StepInv, PTL DEF Spec

-----------------------------------------------------------------------------
(* Types, and how long a wrong belief is trusted *)

Dentry == [dent : {"none", "negative", "positive"}, mode : Type \cup {"none"},
           ops : Type \cup {"none"}, bad : BOOLEAN, dAge : DAge, iAge : IAge,
           same : BOOLEAN]

Coherent(v) ==
  LET inode == v.dent = "positive" IN
  /\ (v.mode # "none") = inode /\ (v.ops # "none") = inode
  /\ v.bad => inode
  /\ ~v.same => inode

\* A belief v about n that may stay wrong is not made younger, but to TTL.
NoYounger(n, v, t, D) ==
  \/ TypeAgrees(v, t) \/ Said(v) # Said(View(n))
  \/ n \in D \/ v.mode # v.ops \/ v.mode = "link"
  \/ (dAge[n] <= v.dAge \/ v.dAge = TTL) /\ iAge[n] <= v.iAge

\* The dentries V, the remote side R, and the excuses C and D are legal.
Legal(V, R, C, D) ==
  /\ \A n \in Name : V[n] \in Dentry /\ Coherent(V[n]) /\ NoYounger(n, V[n], R[n], D)
  /\ R \in [Name -> Type \cup {"none"}]
  /\ C \subseteq Name /\ D \subseteq Name

\* For how long a belief may have been wrong is in its ages.
Ages ==
  \A n \in Name : n \notin renewed /\ mode[n] = ops[n] /\ mode[n] # "link" =>
    /\ wrongFor[n] <= dAge[n] \/ dAge[n] = TTL
    /\ dent[n] = "positive" => wrongFor[n] <= iAge[n] \/ iAge[n] = TTL

TInv == TypeOK /\ Ages

LEMMA AgesAreNumbers ==
  /\ TTL \in Nat \ {0} /\ MaxEvents \in Nat
  /\ DAge \subseteq Nat /\ IAge \subseteq Nat /\ IAge \subseteq DAge
  /\ 0 \in DAge /\ 0 \in IAge /\ TTL \in DAge /\ TTL \in IAge
  /\ \A x \in IAge : x <= TTL
  /\ \A x \in DAge : x <= TTL + 1
BY NamespaceAssumption DEF DAge, IAge

\* What the variables say of a name.
LEMMA ViewIsDentry ==
  ASSUME TypeOK, NEW n \in Name
  PROVE  /\ View(n) \in Dentry /\ Coherent(View(n))
         /\ View(n).dent = dent[n] /\ View(n).mode = mode[n] /\ View(n).ops = ops[n]
         /\ View(n).bad = bad[n] /\ View(n).same = same[n] /\ View(n).dAge = dAge[n] /\ View(n).iAge = iAge[n]
         /\ dAge[n] \in DAge /\ iAge[n] \in IAge /\ wrongFor[n] \in DAge
         /\ dAge[n] \in Nat /\ iAge[n] \in Nat /\ wrongFor[n] \in Nat
BY AgesAreNumbers DEF TypeOK, View, Dentry, Coherent

\* The dentries an operation makes from nothing.
LEMMA MadeDentries ==
  /\ NoDentry \in Dentry /\ Coherent(NoDentry) /\ NoDentry.dent = "none"
  /\ \A age \in DAge : /\ Negative(age) \in Dentry /\ Coherent(Negative(age))
                       /\ Negative(age).dent = "negative"
  /\ \A t \in Type : /\ Positive(t) \in Dentry /\ Coherent(Positive(t))
                     /\ TypeAgrees(Positive(t), t)
BY AgesAreNumbers DEF NoDentry, Negative, Positive, Dentry, Coherent, TypeAgrees, Type

LEMMA BecomeTypes ==
  ASSUME TypeOK, NEW V, NEW R, NEW C, NEW D, Legal(V, R, C, D), Become(V, R, C, D),
         events' \in 0..MaxEvents
  PROVE  TypeOK'
<1>1. /\ remote' \in [Name -> Type \cup {"none"}]
      /\ dent' \in [Name -> {"none", "negative", "positive"}]
      /\ mode' \in [Name -> Type \cup {"none"}] /\ ops' \in [Name -> Type \cup {"none"}]
      /\ bad' \in [Name -> BOOLEAN] /\ same' \in [Name -> BOOLEAN]
      /\ dAge' \in [Name -> DAge] /\ iAge' \in [Name -> IAge]
  BY DEF Become, Legal, Dentry
<1>2. suspect' \subseteq Name /\ renewed' \subseteq Name
  BY DEF TypeOK, Become, Legal
<1>3. wrongFor' \in [Name -> DAge]
  <2>1. \A n \in Name : wrongFor[n] \in DAge /\ 0 \in DAge
    BY ViewIsDentry, AgesAreNumbers
  <2> QED
    BY <2>1 DEF Become
<1>4. \A n \in Name : LET inode == dent'[n] = "positive" IN
        /\ (mode'[n] # "none") = inode /\ (ops'[n] # "none") = inode
        /\ bad'[n] => inode
        /\ ~same'[n] => inode
  BY DEF Become, Legal, Coherent
<1> QED
  BY <1>1, <1>2, <1>3, <1>4 DEF TypeOK, DAge, IAge

LEMMA BecomeAges ==
  ASSUME TInv, NEW V, NEW R, NEW C, NEW D, Legal(V, R, C, D), Become(V, R, C, D)
  PROVE  Ages'
<1> SUFFICES ASSUME NEW n \in Name, n \notin renewed', mode'[n] = ops'[n], mode'[n] # "link"
             PROVE  /\ wrongFor'[n] <= dAge'[n] \/ dAge'[n] = TTL
                    /\ dent'[n] = "positive" => wrongFor'[n] <= iAge'[n] \/ iAge'[n] = TTL
  BY DEF Ages
<1>1. /\ dent'[n] = V[n].dent /\ mode'[n] = V[n].mode /\ ops'[n] = V[n].ops
      /\ dAge'[n] = V[n].dAge /\ iAge'[n] = V[n].iAge
      /\ wrongFor'[n] = IF TypeAgrees(V[n], R[n]) \/ Said(V[n]) # Said(View(n)) THEN 0 ELSE wrongFor[n]
      /\ n \in renewed' <=> ((n \in renewed \/ n \in D) /\ ~TypeAgrees(V[n], R[n]))
  BY DEF Become
<1>2. V[n].dAge \in Nat /\ V[n].iAge \in Nat /\ V[n].iAge <= TTL /\ TTL \in Nat
  BY AgesAreNumbers DEF Legal, Dentry
<1>3. CASE wrongFor'[n] = 0
  BY <1>1, <1>2, <1>3
<1>4. CASE wrongFor'[n] # 0
  <2>1. /\ ~TypeAgrees(V[n], R[n]) /\ Said(V[n]) = Said(View(n))
        /\ wrongFor'[n] = wrongFor[n] /\ n \notin renewed /\ n \notin D
    BY <1>1, <1>4
  <2>2. dent[n] = V[n].dent /\ mode[n] = V[n].mode /\ ops[n] = V[n].ops
    BY <2>1 DEF Said, View
  <2>3. (dAge[n] <= V[n].dAge \/ V[n].dAge = TTL) /\ iAge[n] <= V[n].iAge
    BY <1>1, <2>1 DEF Legal, NoYounger
  <2>4. /\ dAge[n] \in Nat /\ iAge[n] \in Nat /\ wrongFor[n] \in Nat
        /\ wrongFor[n] <= TTL + 1 /\ V[n].dAge <= TTL + 1
    BY ViewIsDentry, AgesAreNumbers DEF TInv, Legal, Dentry
  <2>5. /\ wrongFor[n] <= dAge[n] \/ dAge[n] = TTL
        /\ dent[n] = "positive" => wrongFor[n] <= iAge[n] \/ iAge[n] = TTL
    BY <1>1, <2>1, <2>2 DEF TInv, Ages
  <2> QED
    BY <1>1, <1>2, <2>1, <2>2, <2>3, <2>4, <2>5
<1> QED
  BY <1>3, <1>4

\* What concerns one name is legal if it is for that name.
LEMMA OneNameLegal ==
  ASSUME TypeOK, NEW n \in Name, NEW v \in Dentry, Coherent(v), NEW t \in Type \cup {"none"},
         NEW C \in SUBSET Name, NEW D \in SUBSET Name, NoYounger(n, v, t, D)
  PROVE  Legal(With(n, v), [remote EXCEPT ![n] = t], C, D)
<1> DEFINE R == [remote EXCEPT ![n] = t]
<1>1. R \in [Name -> Type \cup {"none"}]
  BY DEF TypeOK
<1>2. ASSUME NEW m \in Name
      PROVE  /\ With(n, v)[m] \in Dentry /\ Coherent(With(n, v)[m])
             /\ NoYounger(m, With(n, v)[m], R[m], D)
  <2>1. CASE m = n
    <3>1. With(n, v)[m] = v /\ R[m] = t
      BY <2>1 DEF With, Views, TypeOK
    <3> QED
      BY <2>1, <3>1
  <2>2. CASE m # n
    <3>1. With(n, v)[m] = View(m)
      BY <2>2 DEF With, Views
    <3>2. dAge[m] <= View(m).dAge /\ iAge[m] <= View(m).iAge
      BY ViewIsDentry
    <3> QED
      BY <3>1, <3>2, ViewIsDentry DEF NoYounger
  <2> QED
    BY <2>1, <2>2
<1> QED
  BY <1>1, <1>2 DEF Legal

\* The same for an operation that changes nothing on the server.
LEMMA AskedLegal ==
  ASSUME TypeOK, NEW n \in Name, NEW v \in Dentry, Coherent(v),
         NEW C \in SUBSET Name, NEW D \in SUBSET Name, NoYounger(n, v, remote[n], D)
  PROVE  Legal(With(n, v), remote, C, D)
<1>1. remote = [remote EXCEPT ![n] = remote[n]] /\ remote[n] \in Type \cup {"none"}
  BY DEF TypeOK
<1> QED
  BY <1>1, OneNameLegal

\* The view of a name, with one field or two of them renewed.
LEMMA RenewedDentries ==
  ASSUME TypeOK, NEW n \in Name
  PROVE  /\ [View(n) EXCEPT !.dAge = 0] \in Dentry /\ Coherent([View(n) EXCEPT !.dAge = 0])
         /\ dent[n] = "positive" =>
              \A e \in BOOLEAN : Refreshed(n, e) \in Dentry /\ Coherent(Refreshed(n, e))
<1>1. View(n) \in Dentry /\ Coherent(View(n)) /\ 0 \in DAge /\ 0 \in IAge
  BY ViewIsDentry, AgesAreNumbers
<1>2. [View(n) EXCEPT !.dAge = 0] \in Dentry /\ Coherent([View(n) EXCEPT !.dAge = 0])
  BY <1>1 DEF Dentry, Coherent
<1>3. [View(n) EXCEPT !.dAge = 0, !.iAge = 0] \in Dentry
      /\ Coherent([View(n) EXCEPT !.dAge = 0, !.iAge = 0])
  BY <1>1 DEF Dentry, Coherent
<1>4. ASSUME dent[n] = "positive"
      PROVE  [View(n) EXCEPT !.dAge = 0, !.bad = TRUE] \in Dentry
             /\ Coherent([View(n) EXCEPT !.dAge = 0, !.bad = TRUE])
  BY <1>1, <1>4, ViewIsDentry DEF Dentry, Coherent
<1> QED
  BY <1>1, <1>2, <1>3, <1>4 DEF Refreshed

\* Only an answer about the inode makes it younger.
LEMMA RefreshedYoung ==
  ASSUME TypeOK, NEW n \in Name, dent[n] = "positive", NEW e \in BOOLEAN
  PROVE  \A D : NoYounger(n, Refreshed(n, e), remote[n], D)
<1>1. CASE e \/ remote[n] = "none"
  BY <1>1, ViewIsDentry DEF Refreshed, NoYounger
<1>2. CASE ~e /\ remote[n] # "none" /\ mode[n] = "link"
  <2>1. Refreshed(n, e).mode = "link"
    BY <1>2 DEF Refreshed, View
  <2> QED
    BY <2>1 DEF NoYounger
<1>3. CASE ~e /\ remote[n] # "none" /\ mode[n] # "link" /\ mode[n] = remote[n]
  <2> DEFINE v == Refreshed(n, e)
  <2>1. v.dent = "positive" /\ v.mode = remote[n]
    BY <1>3 DEF Refreshed, View
  <2>2. v.mode # v.ops \/ TypeAgrees(v, remote[n])
    BY <2>1 DEF TypeAgrees
  <2> HIDE DEF v
  <2> QED
    BY <2>2 DEF NoYounger, v
<1>4. CASE ~e /\ remote[n] # "none" /\ mode[n] # "link" /\ mode[n] # remote[n]
  <2>1. Refreshed(n, e).bad
    BY <1>4 DEF Refreshed, View
  <2> QED
    BY <2>1 DEF NoYounger, TypeAgrees
<1> QED
  BY <1>1, <1>2, <1>3, <1>4

\* A legal step keeps types and ages.
LEMMA BecomeTyped ==
  ASSUME TInv, NEW V, NEW R, NEW C, NEW D, Legal(V, R, C, D), Become(V, R, C, D),
         events' \in 0..MaxEvents
  PROVE  TInv'
BY BecomeTypes, BecomeAges DEF TInv

LEMMA EventTypes ==
  ASSUME TypeOK
  PROVE  /\ Event => events' \in 0..MaxEvents
         /\ \A b \in BOOLEAN : Perhaps(b) => events' \in 0..MaxEvents
BY AgesAreNumbers DEF TypeOK, Event, Perhaps

LEMMA LookupTyped ==
  ASSUME TInv, NEW n \in Name,
         Resolve(n) \/ Getattr(n) \/ LookupInside(n) \/ FileOpen(n)
  PROVE  TInv'
<1> USE DEF TInv
<1>1. CASE Resolve(n)
  <2>1. PICK e1, e2 \in BOOLEAN :
          /\ Perhaps(e1 \/ e2)
          /\ Become(With(n, IF RefreshSucceeds(n, e1) THEN Refreshed(n, e1) ELSE Looked(n, e2)),
                    remote, {m \in {n} : e2}, {m \in {n} : e2})
    BY <1>1 DEF Resolve
  <2> DEFINE v == IF RefreshSucceeds(n, e1) THEN Refreshed(n, e1) ELSE Looked(n, e2)
             C == {m \in {n} : e2}
  <2>2. v \in Dentry /\ Coherent(v)
    <3>1. CASE RefreshSucceeds(n, e1)
      BY <3>1, RenewedDentries DEF RefreshSucceeds
    <3>2. CASE ~RefreshSucceeds(n, e1)
      <4>1. remote[n] \in Type \cup {"none"} /\ 0 \in DAge
        BY AgesAreNumbers DEF TypeOK
      <4> QED
        BY <3>2, <4>1, MadeDentries DEF Looked
    <3> QED
      BY <3>1, <3>2
  <2>3. NoYounger(n, v, remote[n], C)
    <3>1. CASE RefreshSucceeds(n, e1)
      <4>1. v = Refreshed(n, e1) /\ ~e1 /\ remote[n] # "none"
            /\ dent[n] = "positive" /\ mode[n] \in {"link", remote[n]}
        BY <3>1 DEF RefreshSucceeds
      <4> HIDE DEF v
      <4> QED
        BY <4>1, RefreshedYoung DEF RefreshSucceeds
    <3>2. CASE ~RefreshSucceeds(n, e1) /\ e2
      BY <3>2 DEF NoYounger
    <3>3. CASE ~RefreshSucceeds(n, e1) /\ ~e2
      <4>1. v = Looked(n, FALSE)
        BY <3>3
      <4>2. TypeAgrees(Looked(n, FALSE), remote[n])
        BY DEF Looked, TypeAgrees, Negative, Positive, NoDentry
      <4> HIDE DEF v, C
      <4> QED
        BY <4>1, <4>2 DEF NoYounger
    <3> QED
      BY <3>1, <3>2, <3>3
  <2>4. C \in SUBSET Name /\ (e1 \/ e2) \in BOOLEAN
    OBVIOUS
  <2> HIDE DEF v, C
  <2>5. Legal(With(n, v), remote, C, C)
    BY <2>2, <2>3, <2>4, AskedLegal
  <2> QED
    BY <2>1, <2>4, <2>5, BecomeTyped, EventTypes DEF v, C
<1>2. CASE Getattr(n)
  <2>1. PICK e \in BOOLEAN : Perhaps(e) /\ Become(With(n, Refreshed(n, e)), remote, {}, {})
    BY <1>2 DEF Getattr
  <2>2. dent[n] = "positive"
    BY <1>2 DEF Getattr, Believed
  <2>3. Legal(With(n, Refreshed(n, e)), remote, {}, {})
    BY <2>2, RenewedDentries, RefreshedYoung, AskedLegal
  <2> QED
    BY <2>1, <2>3, BecomeTyped, EventTypes
<1>3. CASE LookupInside(n) \/ FileOpen(n)
  <2>1. Become(With(n, [View(n) EXCEPT !.dAge = 0]), remote, {}, {n}) /\ UNCHANGED events
    BY <1>3 DEF LookupInside, FileOpen
  <2>2. Legal(With(n, [View(n) EXCEPT !.dAge = 0]), remote, {}, {n})
    BY RenewedDentries, AskedLegal DEF NoYounger
  <2> QED
    BY <2>1, <2>2, BecomeTyped DEF TypeOK
<1> QED
  BY <1>1, <1>2, <1>3

LEMMA ReaddirTyped ==
  ASSUME TInv, Readdir
  PROVE  TInv'
<1> USE DEF TInv
<1> DEFINE V(L) == [n \in Name |-> IF n \in L THEN Filled(n) ELSE Aged(n)]
<1>1. PICK L \in SUBSET {n \in Name : remote[n] # "none"} :
        /\ Perhaps(\E n \in Name \ L : remote[n] # "none")
        /\ Become(V(L), remote, {}, {})
  BY DEF Readdir
<1>2. ASSUME NEW n \in Name
      PROVE  /\ V(L)[n] \in Dentry /\ Coherent(V(L)[n])
             /\ NoYounger(n, V(L)[n], remote[n], {})
  <2>1. /\ View(n) \in Dentry /\ Coherent(View(n)) /\ View(n).dent = dent[n]
        /\ View(n).dAge = dAge[n] /\ View(n).iAge = iAge[n]
        /\ dAge[n] \in Nat /\ iAge[n] \in Nat /\ TTL \in Nat
        /\ 0 \in DAge /\ 0 \in IAge /\ TTL \in DAge
    BY ViewIsDentry, AgesAreNumbers
  <2>2. CASE n \in L
    <3>1. V(L)[n] = Filled(n) /\ remote[n] \in Type
      BY <2>2 DEF TypeOK
    <3> HIDE DEF V
    <3>2. CASE dent[n] = "positive"
      <4> DEFINE v == [View(n) EXCEPT !.mode = remote[n], !.dAge = 0, !.iAge = 0]
      <4>1. V(L)[n] = v
        BY <3>1, <3>2 DEF Filled
      <4>2. v \in Dentry /\ Coherent(v) /\ v.mode = remote[n] /\ v.dent = "positive"
        <5>1. "none" \notin Type
          BY DEF Type
        <5> QED
          BY <2>1, <3>1, <3>2, <5>1 DEF Dentry, Coherent
      <4>3. v.mode = v.ops => TypeAgrees(v, remote[n])
        BY <4>2 DEF TypeAgrees
      <4> HIDE DEF v
      <4> QED
        BY <4>1, <4>2, <4>3 DEF NoYounger
    <3>3. CASE dent[n] # "positive"
      BY <3>1, <3>3, MadeDentries DEF Filled, NoYounger
    <3> QED
      BY <3>2, <3>3
  <2>3. CASE n \notin L
    <3>1. V(L)[n] = Aged(n)
      BY <2>3
    <3> HIDE DEF V
    <3>3. CASE dent[n] = "none"
      BY <2>1, <3>1, <3>3 DEF Aged, NoYounger
    <3>4. CASE dent[n] # "none"
      <4>1. V(L)[n] = [View(n) EXCEPT !.dAge = TTL]
        BY <3>1, <3>4 DEF Aged
      <4>2. V(L)[n] \in Dentry /\ Coherent(V(L)[n]) /\ V(L)[n].dAge = TTL /\ V(L)[n].iAge = iAge[n]
        BY <2>1, <4>1 DEF Dentry, Coherent
      <4> QED
        BY <2>1, <4>2 DEF NoYounger
    <3> QED
      BY <3>3, <3>4
  <2> QED
    BY <2>2, <2>3
<1>3. (\E n \in Name \ L : remote[n] # "none") \in BOOLEAN
  OBVIOUS
<1> HIDE DEF V
<1>4. Legal(V(L), remote, {}, {})
  BY <1>2, <1>3 DEF Legal, TypeOK
<1> QED
  BY <1>1, <1>3, <1>4, BecomeTyped, EventTypes

LEMMA MakeTyped ==
  ASSUME TInv, NEW n \in Name, NEW kind \in {"create", "mkdir", "symlink", "hardlink"},
         Make(n, kind)
  PROVE  TInv'
<1> USE DEF TInv
<1>1. PICK t \in Made(kind, remote[n]), told \in BOOLEAN :
        /\ Perhaps(~told)
        /\ Become(With(n, IF told THEN Positive(t) ELSE View(n)), [remote EXCEPT ![n] = t],
                  IF told THEN {} ELSE {n}, {})
  BY DEF Make
<1> DEFINE v == IF told THEN Positive(t) ELSE View(n)
           C == IF told THEN {} ELSE {n}
<1>2. t \in Type
  BY DEF Made, Type
<1>3. v \in Dentry /\ Coherent(v) /\ NoYounger(n, v, t, {})
  BY <1>2, MadeDentries, ViewIsDentry DEF NoYounger
<1>4. C \in SUBSET Name /\ {} \in SUBSET Name /\ t \in Type \cup {"none"} /\ (~told) \in BOOLEAN
  BY <1>2
<1> HIDE DEF v, C
<1>5. Legal(With(n, v), [remote EXCEPT ![n] = t], C, {})
  BY <1>3, <1>4, OneNameLegal
<1> QED
  BY <1>1, <1>4, <1>5, BecomeTyped, EventTypes DEF v, C

LEMMA UnlinkTyped ==
  ASSUME TInv, NEW n \in Name, Unlink(n)
  PROVE  TInv'
<1> USE DEF TInv
<1>1. PICK told \in BOOLEAN :
        /\ Perhaps(~told)
        /\ Become(With(n, IF told THEN Negative(0) ELSE View(n)), [remote EXCEPT ![n] = "none"],
                  IF told THEN {} ELSE {n}, {})
  BY DEF Unlink
<1> DEFINE v == IF told THEN Negative(0) ELSE View(n)
           C == IF told THEN {} ELSE {n}
<1>2. v \in Dentry /\ Coherent(v) /\ NoYounger(n, v, "none", {})
  <2>1. CASE told
    <3>1. 0 \in DAge /\ Negative(0).dent = "negative"
      BY AgesAreNumbers, MadeDentries
    <3> QED
      BY <2>1, <3>1, MadeDentries DEF NoYounger, TypeAgrees
  <2>2. CASE ~told
    BY <2>2, ViewIsDentry DEF NoYounger
  <2> QED
    BY <2>1, <2>2
<1>3. C \in SUBSET Name /\ {} \in SUBSET Name /\ "none" \in Type \cup {"none"} /\ (~told) \in BOOLEAN
  OBVIOUS
<1> HIDE DEF v, C
<1>4. Legal(With(n, v), [remote EXCEPT ![n] = "none"], C, {})
  BY <1>2, <1>3, OneNameLegal
<1> QED
  BY <1>1, <1>3, <1>4, BecomeTyped, EventTypes DEF v, C

LEMMA RenameTyped ==
  ASSUME TInv, NEW a \in Name, NEW b \in Name, Rename(a, b)
  PROVE  TInv'
<1> USE DEF TInv
<1> DEFINE Moved(into) == [With(b, MovedView(a, into)) EXCEPT ![a] = NoDentry]
           C(into) == {m \in {b} : {a, b} \cap suspect # {} \/ MovedAway(a, b, into)}
<1>a. a # b /\ dent[a] = "positive" /\ dent[b] # "none"
  BY DEF Rename, Believed, WouldTrust
<1>m. \A into \in BOOLEAN : MovedTo(a, b, into) \in [Name -> Type \cup {"none"}]
  BY DEF MovedTo, TypeOK, Type
<1>v. \A into \in BOOLEAN : MovedView(a, into) \in Dentry /\ Coherent(MovedView(a, into))
  <2>1. View(a) \in Dentry /\ Coherent(View(a)) /\ View(a).dent = "positive" /\ 0 \in DAge
    BY <1>a, ViewIsDentry, AgesAreNumbers
  <2> QED
    BY <2>1 DEF MovedView, Dentry, Coherent
<1>o. ASSUME NEW n \in Name
      PROVE  /\ View(n) \in Dentry /\ Coherent(View(n))
             /\ \A t, D : NoYounger(n, View(n), t, D)
  BY ViewIsDentry DEF NoYounger
<1>t. Target(b) \in Dentry /\ Coherent(Target(b)) /\ \A t, D : NoYounger(b, Target(b), t, D)
  <2>1. CASE dent[b] = "positive"
    <3>1. Target(b) = Negative(dAge[b]) /\ dAge[b] \in DAge /\ Target(b).dent = "negative"
      BY <2>1, ViewIsDentry, MadeDentries DEF Target
    <3>2. Said(Target(b)) # Said(View(b))
      BY <2>1, <3>1 DEF Said, View
    <3> QED
      BY <3>1, <3>2, MadeDentries DEF NoYounger
  <2>2. CASE dent[b] # "positive"
    BY <1>o, <2>2 DEF Target
  <2> QED
    BY <2>1, <2>2
<1>1. ASSUME NEW into \in BOOLEAN, Become(Moved(into), MovedTo(a, b, into), C(into), {b}),
             UNCHANGED events
      PROVE  TInv'
  <2>1. ASSUME NEW n \in Name
        PROVE  /\ Moved(into)[n] \in Dentry /\ Coherent(Moved(into)[n])
               /\ NoYounger(n, Moved(into)[n], MovedTo(a, b, into)[n], {b})
    <3>1. CASE n = a
      <4>1. Moved(into)[n] = NoDentry
        BY <3>1 DEF With, Views
      <4> HIDE DEF Moved
      <4> QED
        BY <4>1, MadeDentries DEF NoYounger, TypeAgrees
    <3>2. CASE n = b
      <4>1. Moved(into)[n] = MovedView(a, into)
        BY <1>a, <3>2 DEF With, Views
      <4> HIDE DEF Moved
      <4> QED
        BY <1>v, <3>2, <4>1 DEF NoYounger
    <3>3. CASE n \notin {a, b}
      <4>1. Moved(into)[n] = View(n)
        BY <3>3 DEF With, Views
      <4> HIDE DEF Moved
      <4> QED
        BY <1>o, <4>1
    <3> QED
      BY <3>1, <3>2, <3>3
  <2>2. C(into) \subseteq Name /\ {b} \subseteq Name
    OBVIOUS
  <2> HIDE DEF Moved, C
  <2>3. Legal(Moved(into), MovedTo(a, b, into), C(into), {b})
    BY <1>m, <2>1, <2>2 DEF Legal
  <2> QED
    BY <1>1, <2>3, BecomeTyped DEF TypeOK
<1>2. ASSUME NEW into \in BOOLEAN, Become(With(b, Target(b)), MovedTo(a, b, into), {a, b}, {}),
             Event
      PROVE  TInv'
  <2>1. ASSUME NEW n \in Name
        PROVE  /\ With(b, Target(b))[n] \in Dentry /\ Coherent(With(b, Target(b))[n])
               /\ NoYounger(n, With(b, Target(b))[n], MovedTo(a, b, into)[n], {})
    <3>1. CASE n = b
      <4>1. With(b, Target(b))[n] = Target(b)
        BY <3>1 DEF With, Views
      <4> QED
        BY <1>t, <3>1, <4>1
    <3>2. CASE n # b
      <4>1. With(b, Target(b))[n] = View(n)
        BY <3>2 DEF With, Views
      <4> QED
        BY <1>o, <4>1
    <3> QED
      BY <3>1, <3>2
  <2>2. Legal(With(b, Target(b)), MovedTo(a, b, into), {a, b}, {})
    BY <1>m, <2>1 DEF Legal
  <2> QED
    BY <1>2, <2>2, BecomeTyped, EventTypes
<1>3. CASE Become(With(b, Target(b)), remote, {b}, {}) /\ UNCHANGED events
  <2>1. Legal(With(b, Target(b)), remote, {b}, {})
    BY <1>t, AskedLegal
  <2> QED
    BY <1>3, <2>1, BecomeTyped DEF TypeOK
<1> QED
  BY <1>1, <1>2, <1>3 DEF Rename

LEMMA WorldTyped ==
  ASSUME TInv, NEW n \in Name, RemoteChange(n) \/ ReclaimDentry(n)
  PROVE  TInv'
<1> USE DEF TInv
<1>1. CASE RemoteChange(n)
  <2>1. PICK t \in Type \cup {"none"} :
            /\ Event
            /\ Become(With(n, [View(n) EXCEPT !.same = dent[n] # "positive"]),
                      [remote EXCEPT ![n] = t], {n}, {})
    BY <1>1 DEF RemoteChange
  <2> DEFINE v == [View(n) EXCEPT !.same = dent[n] # "positive"]
  <2>2. v \in Dentry /\ Coherent(v) /\ v.dAge = dAge[n] /\ v.iAge = iAge[n]
    BY ViewIsDentry DEF Dentry, Coherent
  <2> HIDE DEF v
  <2>3. NoYounger(n, v, t, {})
    BY <2>2, ViewIsDentry DEF NoYounger
  <2>4. Legal(With(n, v), [remote EXCEPT ![n] = t], {n}, {})
    BY <2>2, <2>3, OneNameLegal
  <2> QED
    BY <2>1, <2>4, BecomeTyped, EventTypes DEF v
<1>2. CASE ReclaimDentry(n)
  <2>1. Become(With(n, NoDentry), remote, {}, {}) /\ UNCHANGED events
    BY <1>2 DEF ReclaimDentry
  <2>2. NoYounger(n, NoDentry, remote[n], {})
    BY MadeDentries DEF NoYounger, TypeAgrees
  <2>3. Legal(With(n, NoDentry), remote, {}, {})
    BY <2>2, MadeDentries, AskedLegal
  <2> QED
    BY <2>1, <2>3, BecomeTyped DEF TypeOK
<1> QED
  BY <1>1, <1>2

\* As time goes by ages keep up with how long a belief has been wrong.
LEMMA TickTyped ==
  ASSUME TInv, Tick
  PROVE  TInv'
<1> USE DEF TInv
<1>1. \A n \in Name : /\ Older(dAge[n], TTL + 1) \in DAge
                      /\ Older(iAge[n], TTL) \in IAge
                      /\ Older(wrongFor[n], TTL + 1) \in DAge
  BY AgesAreNumbers DEF Older, TypeOK, DAge, IAge
<1>2. TypeOK'
  BY <1>1, AgesAreNumbers DEF Tick, TypeOK, belief
<1>3. ASSUME NEW n \in Name, n \notin renewed', mode'[n] = ops'[n], mode'[n] # "link"
      PROVE  /\ wrongFor'[n] <= dAge'[n] \/ dAge'[n] = TTL
             /\ dent'[n] = "positive" => wrongFor'[n] <= iAge'[n] \/ iAge'[n] = TTL
  <2>1. /\ dAge'[n] = IF dent[n] = "none" THEN 0 ELSE Older(dAge[n], TTL + 1)
        /\ iAge'[n] = IF dent[n] = "positive" THEN Older(iAge[n], TTL) ELSE 0
        /\ wrongFor'[n] = IF TypeAgrees(View(n), remote[n]) THEN 0 ELSE Older(wrongFor[n], TTL + 1)
        /\ dent'[n] = dent[n]
    BY DEF Tick, belief
  <2>2. /\ dAge[n] \in Nat /\ iAge[n] \in Nat /\ wrongFor[n] \in Nat /\ TTL \in Nat
        /\ iAge[n] <= TTL /\ wrongFor[n] <= TTL + 1
    BY ViewIsDentry, AgesAreNumbers
  <2>3. dent[n] = "none" => TypeAgrees(View(n), remote[n])
    BY DEF TypeAgrees, View
  <2>4. /\ wrongFor[n] <= dAge[n] \/ dAge[n] = TTL
        /\ dent[n] = "positive" => wrongFor[n] <= iAge[n] \/ iAge[n] = TTL
    BY <1>3 DEF Ages, Tick, belief
  <2>5. CASE TypeAgrees(View(n), remote[n])
    BY <2>1, <2>2, <2>5 DEF Older
  <2>6. CASE ~TypeAgrees(View(n), remote[n])
    BY <2>1, <2>2, <2>3, <2>4, <2>6 DEF Older
  <2> QED
    BY <2>5, <2>6
<1>4. Ages'
  BY <1>3 DEF Ages
<1> QED
  BY <1>2, <1>4

LEMMA InitTyped == Init => TInv
<1> SUFFICES ASSUME Init
             PROVE  TInv
  OBVIOUS
<1>1. TypeOK
  BY AgesAreNumbers DEF Init, TypeOK, Type
<1>2. Ages
  BY AgesAreNumbers DEF Init, Ages
<1> QED
  BY <1>1, <1>2 DEF TInv

LEMMA StepTyped == TInv /\ [Next]_vars => TInv'
<1> SUFFICES ASSUME TInv, [Next]_vars
             PROVE  TInv'
  OBVIOUS
<1>1. CASE UNCHANGED vars
  BY <1>1 DEF vars, belief, ghosts, TInv, TypeOK, Ages
<1> QED
  BY <1>1, LookupTyped, ReaddirTyped, MakeTyped, UnlinkTyped, RenameTyped, WorldTyped, TickTyped
     DEF Next

\* The dentries, inodes and ghosts keep their types: an inode is there just
\* when the dentry is positive, and only such a one is made bad.
THEOREM TypeCorrect == Spec => []TypeOK
<1>1. TInv => TypeOK
  BY DEF TInv
<1> QED
  BY <1>1, InitTyped, StepTyped, PTL DEF Spec

\* shfs_d_revalidate trusts a wrong dentry for SHFS_MAX_AGE at most, for any
\* set of names, any age and any number of events, but for the exceptions
\* the property names.
THEOREM Bounded == Spec => []BeliefBounded
<1>1. ASSUME TInv
      PROVE  BeliefBounded
  <2> SUFFICES ASSUME NEW n \in Name, WouldTrust(n), wrongFor[n] > TTL,
                      n \notin renewed, mode[n] = ops[n], mode[n] # "link", dAge[n] # TTL
               PROVE  FALSE
    BY DEF BeliefBounded
  <2>1. /\ wrongFor[n] <= dAge[n]
        /\ dent[n] = "positive" => wrongFor[n] <= iAge[n] \/ iAge[n] = TTL
    BY <1>1 DEF TInv, Ages
  <2>2. dAge[n] \in Nat /\ iAge[n] \in Nat /\ wrongFor[n] \in Nat /\ TTL \in Nat
    BY <1>1, ViewIsDentry, AgesAreNumbers DEF TInv
  <2>3. dAge[n] <= TTL \/ (dent[n] = "positive" /\ iAge[n] < TTL)
    BY DEF WouldTrust
  <2> QED
    BY <2>1, <2>2, <2>3
<1> QED
  BY <1>1, InitTyped, StepTyped, PTL DEF Spec

=============================================================================
