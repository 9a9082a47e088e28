---------------------------- MODULE DirCacheProof ----------------------------
(***************************************************************************)
(* Proofs about module DirCache: any names, any number of sweeps, pages of *)
(* any size, and any bound on the age, on the room of a call and on events.*)
(*                                                                         *)
(* Listing exists and has every name of the directory once (ListingIs):    *)
(* the ranks of its names list a finite set of naturals in order (Sorted). *)
(* What a call does is brought into one form, Served for a call that the   *)
(* cache can serve and Refilled for one that reads the directory, and all  *)
(* else is proved about these.                                             *)
(*                                                                         *)
(* Shape ties heads to page 0, positions to dentries and f_pos to the      *)
(* number of names given.  Kept is the reason why a sweep over a cache     *)
(* whose pages come and go is exact: behind the pages there is one listing *)
(* L; a dentry that has a position is the name L has there, whatever the   *)
(* pointers are worth, and a sweep whose names have not moved was given    *)
(* the beginning of L, but for names that a rename has changed (Follows).  *)
(* To serve a name from the cache goes on with L; a rename puts the new    *)
(* name in L where the old one was; to read the directory again puts       *)
(* another listing in its place and marks the sweeps of which it is not    *)
(* true any more (moved).  A call that finds nothing to give is at the end *)
(* of L (AllGiven).                                                        *)
(*                                                                         *)
(* That names move only if something disturbed the sweep follows from what *)
(* lies ahead of one that nothing has disturbed (Ahead): all pointers up   *)
(* to the end are valid, so that the directory is not read again.          *)
(*                                                                         *)
(* That the sweeps are those of one directory (Implements) needs no more:  *)
(* after a call the listing that is kept then says that what was given so  *)
(* far is right (GoesOn), and each other step maps to one of the abstract  *)
(* directory or to none.                                                   *)
(***************************************************************************)
EXTENDS DirCache, WellFoundedInduction, FunctionTheorems, FiniteSetTheorems, SequenceTheorems, TLAPS

-----------------------------------------------------------------------------
(* Numbers, sets and sequences *)

\* Every set of naturals that is not empty has a least element.
LEMMA LeastElement ==
  ASSUME NEW T \in SUBSET Nat, T # {}
  PROVE  \E t \in T : \A u \in T : t <= u
<1> DEFINE R == OpToRel(<, Nat)
<1>1. IsWellFoundedOn(R, Nat)
  BY NatLessThanWellFounded
<1>2. \A x, y \in Nat : y < x => <<y, x>> \in R
  BY DEF OpToRel
<1> HIDE DEF R
<1>3. PICK t \in T : \A u \in T : ~(<<u, t>> \in R)
  BY <1>1, WFMin, Zenon
<1>4. ASSUME NEW u \in T
      PROVE  t <= u
  <2>1. ~(u < t)
    BY <1>2, <1>3
  <2> QED
    BY <2>1
<1> QED
  BY <1>4

\* A bounded one has a greatest.
LEMMA GreatestElement ==
  ASSUME NEW T \in SUBSET Nat, T # {}, NEW b \in Nat, \A u \in T : u <= b
  PROVE  \E t \in T : \A u \in T : u <= t
<1> DEFINE U == {c \in Nat : \A u \in T : u <= c}
<1>1. U \in SUBSET Nat /\ b \in U
  OBVIOUS
<1>2. PICK c \in U : \A d \in U : c <= d
  BY <1>1, LeastElement
<1>3. c \in T
  <2>1. CASE c = 0
    <3>1. \A u \in T : u = 0
      BY <1>2, <2>1
    <3> QED
      BY <2>1, <3>1
  <2>2. CASE c # 0 /\ c \notin T
    <3>1. c - 1 \in Nat /\ \A u \in T : u <= c - 1
      BY <2>2
    <3>2. c - 1 \in U
      BY <3>1
    <3> QED
      BY <1>2, <2>2, <3>2
  <2> QED
    BY <2>1, <2>2
<1> QED
  BY <1>2, <1>3

\* A sequence as a function: its domain, its members.
LEMMA MembersOf ==
  ASSUME NEW S, NEW s \in Seq(S)
  PROVE  /\ Len(s) \in Nat /\ DOMAIN s = 1..Len(s)
         /\ \A x : x \in ToSet(s) <=> \E i \in 1..Len(s) : s[i] = x
         /\ \A i \in 1..Len(s) : s[i] \in S
BY LenProperties, ElementOfSeq DEF ToSet

\* A set of naturals is listed by the ranks of its elements.
LEMMA Sorted ==
  ASSUME NEW T \in SUBSET Nat, IsFiniteSet(T)
  PROVE  LET L == [i \in 1..Cardinality(T) |-> CHOOSE n \in T : Cardinality({m \in T : m <= n}) = i] IN
         L \in [1..Cardinality(T) -> T] /\ \A i, j \in DOMAIN L : i < j => L[i] < L[j]
<1> DEFINE below(n) == {m \in T : m <= n}
           N == Cardinality(T)
           L == [i \in 1..N |-> CHOOSE n \in T : Cardinality(below(n)) = i]
           rank == [n \in T |-> Cardinality(below(n))]
<1>1. N \in Nat
  BY FS_CardinalityType
<1>2. ASSUME NEW n \in T
      PROVE  IsFiniteSet(below(n)) /\ Cardinality(below(n)) \in 1..N
  <2>1. below(n) \in SUBSET T /\ n \in below(n)
    OBVIOUS
  <2>2. IsFiniteSet(below(n)) /\ Cardinality(below(n)) <= N
    BY <2>1, FS_Subset
  <2>3. Cardinality(below(n)) \in Nat
    BY <2>2, FS_CardinalityType
  <2>4. Cardinality(below(n)) # 0
    BY <2>1, <2>2, FS_EmptySet
  <2> QED
    BY <1>1, <2>2, <2>3, <2>4
<1>3. ASSUME NEW m \in T, NEW n \in T, m < n
      PROVE  Cardinality(below(m)) < Cardinality(below(n))
  <2>0. m \in Nat /\ n \in Nat
    OBVIOUS
  <2>1. below(m) \in SUBSET below(n) /\ n \in below(n) /\ n \notin below(m)
    <3>1. \A k \in T : k <= m => k <= n
      BY <1>3, <2>0
    <3>2. n <= n /\ ~(n <= m)
      BY <1>3, <2>0
    <3> QED
      BY <3>1, <3>2, Zenon DEF below
  <2>2. Cardinality(below(m)) <= Cardinality(below(n)) /\ Cardinality(below(m)) # Cardinality(below(n))
    BY <1>2, <2>1, FS_Subset
  <2> QED
    BY <1>1, <1>2, <2>2
<1>4. rank \in [T -> 1..N] /\ \A n \in T : rank[n] = Cardinality(below(n))
  BY <1>2
<1> HIDE DEF rank, N, below, L
<1>5. \A m, n \in T : m < n => rank[m] < rank[n]
  BY <1>3, <1>4
<1>6. \A m, n \in T : rank[m] = rank[n] => m = n
  <2>1. \A m, n \in T : m \in Nat /\ n \in Nat /\ rank[m] \in Nat /\ rank[n] \in Nat
    BY <1>1, <1>4
  <2>2. \A m, n \in T : m < n \/ n < m \/ m = n
    BY <2>1
  <2> QED
    BY <1>5, <2>1, <2>2
<1>7. rank \in Injection(T, 1..N)
  BY <1>4, <1>6, Fun_IsInj
<1>8. IsFiniteSet(1..N) /\ Cardinality(1..N) = Cardinality(T)
  <2>1. IsFiniteSet(1..N) /\ Cardinality(1..N) = IF 1 > N THEN 0 ELSE N - 1 + 1
    BY <1>1, FS_Interval
  <2> QED
    BY <1>1, <2>1 DEF N
<1>9. rank \in Surjection(T, 1..N)
  BY <1>7, <1>8, FS_Injection
<1>10. \A i \in 1..N : \E n \in T : rank[n] = i
  BY <1>9, Fun_SurjectionProperties
<1>11. \A i \in 1..N : L[i] \in T /\ rank[L[i]] = i
  <2>1. \A i \in 1..N : \E n \in T : Cardinality(below(n)) = i
    BY <1>4, <1>10
  <2>2. \A i \in 1..N : L[i] = CHOOSE n \in T : Cardinality(below(n)) = i
    BY DEF L
  <2> QED
    BY <1>4, <2>1, <2>2
<1>12. L \in [1..N -> T] /\ DOMAIN L = 1..N
  BY <1>11 DEF L
<1>13. ASSUME NEW i \in 1..N, NEW j \in 1..N, i < j
       PROVE  L[i] < L[j]
  <2>1. L[i] \in Nat /\ L[j] \in Nat /\ rank[L[i]] = i /\ rank[L[j]] = j
    BY <1>11
  <2>2. ~(L[j] < L[i]) /\ L[i] # L[j]
    BY <1>1, <1>5, <1>11, <1>13, <2>1
  <2> QED
    BY <2>1, <2>2
<1>14. L \in [1..N -> T] /\ \A i, j \in DOMAIN L : i < j => L[i] < L[j]
  BY <1>12, <1>13
<1> QED
  BY <1>14, Zenon DEF L, N, below

-----------------------------------------------------------------------------
(* The listing, and what is read of it *)

\* L has no name twice.
Once(L) == \A i, j \in 1..Len(L) : L[i] = L[j] => i = j

\* B is the beginning of L.
Begins(B, L) == Len(B) <= Len(L) /\ \A i \in 1..Len(B) : B[i] = L[i]

\* Where A and B have the same name it is at the same place, or in T.
Apart(A, B, T) == \A i \in 1..Len(A), j \in 1..Len(B) : A[i] = B[j] => i = j \/ A[i] \in T

\* B is the beginning of L but for names in E, and among all of them only
\* those in T are at two places.
Follows(B, L, E, T) ==
  /\ Len(B) <= Len(L)
  /\ \A i \in 1..Len(B) : B[i] = L[i] \/ (B[i] \in E /\ L[i] \in E)
  /\ Apart(L, L, T) /\ Apart(B, L, T) /\ Apart(B, B, T)

\* The listing has every name of the directory once.
LEMMA ListingIs ==
  ASSUME remote \subseteq Name
  PROVE  /\ Listing \in Seq(remote) /\ Listing \in Seq(Name)
         /\ Once(Listing) /\ ToSet(Listing) = remote
         /\ Len(Listing) \in Nat /\ Len(Listing) <= Cardinality(Name)
<1> DEFINE N == Cardinality(remote)
<1>1. /\ remote \in SUBSET Nat /\ IsFiniteSet(remote) /\ N \in Nat
      /\ N <= Cardinality(Name)
  BY NameAssumption, FS_Subset, FS_CardinalityType
<1>3. Listing \in [1..N -> remote] /\ \A i, j \in DOMAIN Listing : i < j => Listing[i] < Listing[j]
  BY <1>1, Sorted, Zenon DEF Listing
<1> HIDE DEF Listing, N
<1>4. Listing \in Seq(remote) /\ Len(Listing) = N /\ DOMAIN Listing = 1..N
  BY <1>1, <1>3
<1>5. ASSUME NEW i \in 1..N, NEW j \in 1..N, Listing[i] = Listing[j]
      PROVE  i = j
  <2>1. Listing[i] \in Nat /\ Listing[j] \in Nat
    BY <1>1, <1>3
  <2>2. ~(i < j) /\ ~(j < i)
    BY <1>3, <1>4, <1>5, <2>1
  <2> QED
    BY <1>1, <2>2
<1>6. Once(Listing)
  BY <1>4, <1>5 DEF Once
<1>7. Listing \in Injection(1..N, remote)
  BY <1>3, <1>5, Fun_IsInj
<1>8. IsFiniteSet(1..N) /\ Cardinality(1..N) = N
  <2>1. IsFiniteSet(1..N) /\ Cardinality(1..N) = IF 1 > N THEN 0 ELSE N - 1 + 1
    BY <1>1, FS_Interval
  <2> QED
    BY <1>1, <2>1
<1>9. Listing \in Surjection(1..N, remote)
  BY <1>1, <1>7, <1>8, FS_Injection DEF N
<1>10. \A n \in remote : \E i \in 1..N : Listing[i] = n
  BY <1>9 DEF Surjection
<1>11. ToSet(Listing) = remote
  BY <1>3, <1>4, <1>10 DEF ToSet
<1>12. Listing \in Seq(Name)
  BY <1>4, SeqMonotonic
<1> QED
  BY <1>1, <1>4, <1>6, <1>11, <1>12

\* The beginning of a listing has no name twice, either.
LEMMA BeginsOnce ==
  ASSUME NEW S, NEW L \in Seq(S), NEW B \in Seq(S), Begins(B, L), Once(L)
  PROVE  Once(B)
<1>1. Len(B) \in Nat /\ Len(L) \in Nat
  BY LenProperties
<1>2. \A i \in 1..Len(B) : i \in 1..Len(L)
  BY <1>1 DEF Begins
<1> QED
  BY <1>2 DEF Begins, Once

\* It follows it, with no exception.
LEMMA BeginsFollows ==
  ASSUME NEW S, NEW L \in Seq(S), NEW B \in Seq(S), Begins(B, L), Once(L), NEW E, NEW T
  PROVE  Follows(B, L, E, T)
<1>1. Len(B) \in Nat /\ Len(L) \in Nat /\ Len(B) <= Len(L)
  BY LenProperties DEF Begins
<1>2. \A i \in 1..Len(B) : i \in 1..Len(L) /\ B[i] = L[i]
  BY <1>1 DEF Begins
<1>3. Apart(L, L, T)
  BY DEF Apart, Once
<1>4. Apart(B, L, T) /\ Apart(B, B, T)
  BY <1>2, Zenon DEF Apart, Once
<1> QED
  BY <1>1, <1>2, <1>3, <1>4 DEF Follows

\* The first m of a sequence.
LEMMA FirstOf ==
  ASSUME NEW S, NEW L \in Seq(S), NEW m \in Nat, m <= Len(L)
  PROVE  SubSeq(L, 1, m) \in Seq(S) /\ Len(SubSeq(L, 1, m)) = m /\ Begins(SubSeq(L, 1, m), L)
<1>1. Len(L) \in Nat /\ \A i \in 1..m : L[i] \in S
  BY LenProperties, ElementOfSeq
<1>2. /\ SubSeq(L, 1, m) \in Seq(S)
      /\ Len(SubSeq(L, 1, m)) = IF 1 <= m THEN m - 1 + 1 ELSE 0
      /\ \A i \in 1 .. m - 1 + 1 : SubSeq(L, 1, m)[i] = L[1 + i - 1]
  BY <1>1, SubSeqProperties
<1>3. Len(SubSeq(L, 1, m)) = m
  BY <1>2
<1>4. \A i \in 1..m : SubSeq(L, 1, m)[i] = L[i]
  <2>1. \A i \in 1..m : i \in 1 .. m - 1 + 1 /\ 1 + i - 1 = i
    OBVIOUS
  <2> QED
    BY <1>2, <2>1
<1> QED
  BY <1>2, <1>3, <1>4 DEF Begins

\* Before: the names in front of position p.
LEMMA BeforeIs ==
  ASSUME NEW S, NEW L \in Seq(S), NEW p \in Nat, p >= 2
  PROVE  /\ Before(L, p) \in Seq(S) /\ Len(Before(L, p)) <= p - 2 /\ Begins(Before(L, p), L)
         /\ p - 2 <= Len(L) => Len(Before(L, p)) = p - 2
<1>1. Len(L) \in Nat
  BY LenProperties
<1>2. PICK m : m = Least(p - 2, Len(L))
  OBVIOUS
<1>3. m \in Nat /\ m <= Len(L) /\ m <= p - 2 /\ (p - 2 <= Len(L) => m = p - 2)
  BY <1>1, <1>2 DEF Least
<1>4. SubSeq(L, 1, m) \in Seq(S) /\ Len(SubSeq(L, 1, m)) = m /\ Begins(SubSeq(L, 1, m), L)
  BY <1>3, FirstOf
<1> QED
  BY <1>2, <1>3, <1>4 DEF Before

\* Names: as many as there is room for, from a position on.
LEMMA NamesAre ==
  ASSUME NEW S, NEW L \in Seq(S), NEW from \in Nat, from >= 2, NEW room \in Nat
  PROVE  /\ Names(L, from, room) \in Seq(S)
         /\ Len(Names(L, from, room)) \in 0..room
         /\ Len(Names(L, from, room)) > 0 => from - 2 + Len(Names(L, from, room)) <= Len(L)
         /\ \A i \in 1..Len(Names(L, from, room)) :
              from - 2 + i \in 1..Len(L) /\ Names(L, from, room)[i] = L[from - 2 + i]
         /\ room > 0 /\ Len(Names(L, from, room)) = 0 => Len(L) <= from - 2
<1>1. Len(L) \in Nat
  BY LenProperties
<1>2. PICK m : m = from - 1
  OBVIOUS
<1>3. PICK n : n = Least(from - 2 + room, Len(L))
  OBVIOUS
<1>4. /\ m \in Nat /\ m >= 1 /\ n \in Nat /\ n <= Len(L) /\ n <= from - 2 + room
      /\ (n = Len(L) \/ n = from - 2 + room)
  BY <1>1, <1>2, <1>3 DEF Least
<1>5. \A i \in m..n : L[i] \in S
  <2>1. \A i \in m..n : i \in 1..Len(L)
    BY <1>1, <1>4
  <2> QED
    BY <2>1, ElementOfSeq
<1>6. PICK s : s = SubSeq(L, m, n)
  OBVIOUS
<1>7. /\ s \in Seq(S)
      /\ Len(s) = IF m <= n THEN n - m + 1 ELSE 0
      /\ \A i \in 1 .. n - m + 1 : s[i] = L[m + i - 1]
  <2>1. m \in Int /\ n \in Int
    BY <1>4
  <2> QED
    BY <1>5, <1>6, <2>1, SubSeqProperties
<1>8. Len(s) \in 0..room /\ (Len(s) > 0 => from - 2 + Len(s) <= Len(L))
      /\ (room > 0 /\ Len(s) = 0 => Len(L) <= from - 2)
  BY <1>1, <1>2, <1>4, <1>7
<1>9. ASSUME NEW i \in 1..Len(s)
      PROVE  from - 2 + i \in 1..Len(L) /\ s[i] = L[from - 2 + i]
  <2>1. Len(s) = n - m + 1 /\ i \in 1 .. n - m + 1 /\ m + i - 1 = from - 2 + i
    BY <1>2, <1>4, <1>7
  <2>2. from - 2 + i \in 1..Len(L)
    BY <1>1, <1>2, <1>4, <2>1
  <2> QED
    BY <1>7, <2>1, <2>2
<1>10. Names(L, from, room) = s
  BY <1>2, <1>3, <1>6 DEF Names
<1> QED
  BY <1>7, <1>8, <1>9, <1>10

\* The readings: the beginning of the listing with the pages it needs; or, as
\* much as is needed, with page 0 alone, where a page is missing for the end.
LEMMA ReadingsAre ==
  ASSUME remote \subseteq Name, NEW from \in Nat, NEW left \in Nat, NEW R \in Readings(from, left)
  PROVE  /\ R.L \in Seq(Name) /\ Begins(R.L, Listing) /\ R.failed \in BOOLEAN
         /\ \/ R.P = PagesOf(R.L)
            \/ /\ R.P = {0} /\ R.failed = FALSE /\ Len(R.L) >= 1 /\ PageOf(Len(R.L) + 1) # 0
               /\ Len(R.L) = Len(Listing) \/ Len(R.L) >= from - 1 + left
<1>1. Listing \in Seq(Name) /\ Len(Listing) \in Nat
  BY ListingIs
<1>2. ASSUME NEW n \in 0..Len(Listing)
      PROVE  SubSeq(Listing, 1, n) \in Seq(Name) /\ Len(SubSeq(Listing, 1, n)) = n /\ Begins(SubSeq(Listing, 1, n), Listing)
  BY <1>1, FirstOf
<1> DEFINE whole == {[L |-> SubSeq(Listing, 1, n), P |-> PagesOf(SubSeq(Listing, 1, n)), failed |-> f] :
                       n \in 0..Len(Listing), f \in BOOLEAN}
           part == {[L |-> SubSeq(Listing, 1, n), P |-> {0}, failed |-> FALSE] :
                      n \in {m \in 1..Len(Listing) :
                              /\ PageOf(m + 1) # 0
                              /\ m = Len(Listing) \/ (m >= from - 1 + left /\ (m > from - 1 + left => PageOf(m) = 0))}}
<1>3. CASE R \in whole
  <2>1. PICK n \in 0..Len(Listing), f \in BOOLEAN :
          R = [L |-> SubSeq(Listing, 1, n), P |-> PagesOf(SubSeq(Listing, 1, n)), failed |-> f]
    BY <1>3
  <2>2. R.L = SubSeq(Listing, 1, n) /\ R.P = PagesOf(SubSeq(Listing, 1, n)) /\ R.failed = f
    BY <2>1, Zenon
  <2> QED
    BY <1>2, <2>2
<1>4. CASE R \in part
  <2>1. PICK n \in 1..Len(Listing) :
          /\ R = [L |-> SubSeq(Listing, 1, n), P |-> {0}, failed |-> FALSE]
          /\ PageOf(n + 1) # 0
          /\ n = Len(Listing) \/ n >= from - 1 + left
    BY <1>4
  <2>2. R.L = SubSeq(Listing, 1, n) /\ R.P = {0} /\ R.failed = FALSE
    BY <2>1, Zenon
  <2>3. n \in 0..Len(Listing) /\ n >= 1
    BY <1>1
  <2> QED
    BY <1>2, <2>1, <2>2, <2>3
<1>5. Readings(from, left) = whole \cup part
  BY DEF Readings
<1> HIDE DEF whole, part
<1>6. R \in whole \/ R \in part
  BY <1>5
<1> QED
  BY <1>3, <1>4, <1>6, Zenon

\* Longest: all that is valid from a position on.
LEMMA LongestIs ==
  ASSUME NEW from \in Nat, NEW room \in Nat
  PROVE  /\ Longest(from, room) \in 0..room
         /\ \A p \in from..(from + Longest(from, room) - 1) : p <= head.end /\ Valid(p)
         /\ Longest(from, room) < room =>
              ~(from + Longest(from, room) <= head.end /\ Valid(from + Longest(from, room)))
<1> DEFINE ok(p) == p <= head.end /\ Valid(p)
           runs == Run(from, room)
<1>1. runs = {k \in 0..room : \A p \in from..(from + k - 1) : ok(p)}
  BY DEF Run
<1> HIDE DEF ok, runs
<1>2. runs \in SUBSET Nat /\ 0 \in runs /\ \A k \in runs : k <= room
  BY <1>1
<1>3. \E k \in runs : \A j \in runs : j <= k
  BY <1>2, GreatestElement
<1>4. PICK k : k = Longest(from, room)
  OBVIOUS
<1>5. k \in runs /\ \A j \in runs : j <= k
  BY <1>3, <1>4, Zenon DEF Longest, runs
<1>6. k \in 0..room /\ \A p \in from..(from + k - 1) : ok(p)
  BY <1>1, <1>5
<1>7. ASSUME k < room, ok(from + k)
      PROVE  FALSE
  <2>1. k + 1 \in 0..room /\ k \in Nat
    BY <1>6, <1>7
  <2>2. \A p \in from..(from + (k + 1) - 1) : p \in from..(from + k - 1) \/ p = from + k
    BY <2>1
  <2>3. k + 1 \in runs
    BY <1>1, <1>6, <1>7, <2>1, <2>2
  <2>4. ~(k + 1 <= k)
    BY <2>1
  <2> QED
    BY <1>5, <2>3, <2>4
<1> QED
  BY <1>4, <1>6, <1>7 DEF ok

\* Cached: the children at these positions.
LEMMA CachedIs ==
  ASSUME TypeOK, NEW from \in Nat, from >= 2, NEW k \in Nat,
         \A p \in from..(from + k - 1) : p <= head.end /\ Valid(p)
  PROVE  /\ Cached(from, k) \in Seq(Name) /\ Len(Cached(from, k)) = k
         /\ \A i \in 1..k : /\ from + i - 1 \in Position /\ Cached(from, k)[i] = slot[from + i - 1]
                            /\ from + i - 1 <= head.end /\ Valid(from + i - 1)
         /\ k > 0 => from + k <= Cardinality(Name) + 2
<1>1. head.end \in 1..(Cardinality(Name) + 1) /\ Cardinality(Name) \in Nat
  <2>1. Cardinality(Name) \in Nat
    BY NameAssumption, FS_CardinalityType
  <2>2. head.end \in Position \cup {1}
    BY DEF TypeOK, CacheHead
  <2> QED
    BY <2>1, <2>2 DEF Position
<1>2. ASSUME NEW i \in 1..k
      PROVE  /\ from + i - 1 \in Position /\ slot[from + i - 1] \in Name
             /\ from + i - 1 <= head.end /\ Valid(from + i - 1)
  <2>1. from + i - 1 \in from..(from + k - 1)
    OBVIOUS
  <2>2. from + i - 1 <= head.end /\ Valid(from + i - 1)
    BY <2>1
  <2>3. from + i - 1 \in Position
    BY <1>1, <2>1, <2>2 DEF Position
  <2> QED
    BY <2>2, <2>3 DEF TypeOK, Valid
<1>3. Cached(from, k) = [i \in 1..k |-> slot[from + i - 1]]
  BY DEF Cached
<1>4. Cached(from, k) \in Seq(Name) /\ Len(Cached(from, k)) = k
  <2>1. Cached(from, k) \in [1..k -> Name]
    BY <1>2, <1>3
  <2> QED
    BY <2>1
<1>5. \A i \in 1..k : Cached(from, k)[i] = slot[from + i - 1]
  BY <1>3
<1>6. ASSUME k > 0
      PROVE  from + k <= Cardinality(Name) + 2
  <2>1. k \in 1..k
    BY <1>6
  <2>2. from + k - 1 <= head.end
    BY <1>2, <2>1
  <2> QED
    BY <1>1, <2>2
<1> QED
  BY <1>2, <1>4, <1>5, <1>6

-----------------------------------------------------------------------------
(* A refill *)

\* What r does when it reads the directory, after it was given served from
\* the cache: it gives names, and keeps L, the beginning of the listing W, in
\* the pages of P.
Refilled(r, served, names, L, W, P, failed, partial) ==
  LET missed == remote \ ToSet(W) IN
  /\ names \in Seq(Name) /\ L \in Seq(Name) /\ W \in Seq(Name)
  /\ Once(W) /\ Begins(L, W) /\ ToSet(W) \subseteq remote /\ Len(W) <= Cardinality(Name)
  /\ P \subseteq Page /\ 0 \in P /\ failed \in BOOLEAN /\ partial \in BOOLEAN
  /\ (\A i \in 1..Len(L) : PageOf(i + 1) \in P) => L = W
  /\ ~partial => L = W /\ \A i \in 1..Len(L) : PageOf(i + 1) \in P
  /\ ToSet(W) = remote \/ events' # events
  /\ Len(names) > 0 => fpos[r] + Len(names) <= Cardinality(Name) + 2
  /\ Len(names) = 0 => Len(W) <= fpos[r] - 2
  /\ served = <<>> /\ fpos[r] = 2 => Begins(names, L)
  /\ NoCache(r) \/ \E p \in fpos[r]..head.end : ~Valid(p)
  /\ phase[r] = "read" /\ events' \in 0..MaxEvents
  /\ FillCache(L, P)
  /\ Give(r, names, failed)
  /\ moved' = [q \in Sweep |->
                moved[q] \/ (/\ Under(q)
                             /\ IF q = r THEN got[r] \o names # Before(W, fpos[r] + Len(names))
                                         ELSE got[q] # Before(W, fpos[q]))]
  /\ got' = [q \in Sweep |-> IF moved'[q] THEN <<>> ELSE IF q = r THEN got[r] \o names ELSE got[q]]
  /\ excuse' = [q \in Sweep |->
                 IF moved'[q] THEN Name
                 ELSE IF q = r /\ fpos[r] = 2 THEN missed
                 ELSE IF Under(q) THEN excuse[q] \cup missed ELSE excuse[q]]
  /\ taken' = [q \in Sweep |-> IF Under(q) THEN {} ELSE taken[q]]
  /\ unlisted' = missed
  /\ disturbed' = [q \in Sweep |->
                    IF q = r /\ fpos[r] = 2 THEN served # <<>> \/ partial
                    ELSE disturbed[q] \/ (Under(q) /\ (q # r \/ partial))]
  /\ UNCHANGED <<remote, stale, inoAge>>

\* The pages of what is read are pages of the directory.
LEMMA PagesAre ==
  ASSUME NEW L \in Seq(Name), Len(L) <= Cardinality(Name)
  PROVE  /\ PagesOf(L) \subseteq Page /\ 0 \in PagesOf(L) /\ {0} \subseteq Page
         /\ \A i \in 1..Len(L) : PageOf(i + 1) \in PagesOf(L)
<1>1. Len(L) \in Nat /\ Cardinality(Name) \in Nat /\ DOMAIN L = 1..Len(L)
  BY NameAssumption, FS_CardinalityType, LenProperties
<1>2. \A i \in 1..Len(L) : i + 1 \in Position
  BY <1>1 DEF Position
<1> QED
  BY <1>1, <1>2 DEF PagesOf, Page

\* ReadReally does what Refilled says, with the listing that is found.
LEMMA ReadIs ==
  ASSUME TypeOK, NEW r \in Sweep, phase[r] = "read", fpos[r] >= 2,
         NEW room \in 1..MaxRoom, NEW served \in Seq(Name), Len(served) <= room,
         Len(served) > 0 => fpos[r] + Len(served) <= Cardinality(Name) + 2,
         NoCache(r) \/ \E p \in fpos[r]..head.end : ~Valid(p),
         ReadReally(r, room, served), UNCHANGED <<remote, stale, inoAge>>
  PROVE  \E names, L, W, P, failed, partial : Refilled(r, served, names, L, W, P, failed, partial)
<1>1. /\ remote \subseteq Name /\ Cardinality(Name) \in Nat /\ fpos[r] \in Nat
      /\ MaxRoom \in Nat /\ Len(served) \in Nat /\ room \in Nat /\ room >= 1
      /\ fpos[r] <= Cardinality(Name) + 2
  <2>1. Cardinality(Name) \in Nat
    BY NameAssumption, FS_CardinalityType
  <2> QED
    BY <2>1, SizeAssumption, LenProperties DEF TypeOK, Position
<1> DEFINE from == fpos[r] + Len(served)
           left == room - Len(served)
<1>2. PICK R \in Readings(from, left) :
        LET names == served \o Names(R.L, from, left)
            whole == IF PagesOf(R.L) = R.P THEN R.L ELSE Listing
            missed == remote \ ToSet(whole)
            partial == R.failed \/ R.L # Listing \/ R.P # PagesOf(Listing)
            mine == got[r] \o names
            differs(q) ==
              /\ Under(q)
              /\ IF q = r THEN mine # Before(whole, fpos[r] + Len(names))
                          ELSE got[q] # Before(whole, fpos[q]) IN
        /\ IF partial THEN Event ELSE UNCHANGED events
        /\ FillCache(R.L, R.P)
        /\ Give(r, names, R.failed)
        /\ moved' = [q \in Sweep |-> moved[q] \/ differs(q)]
        /\ got' = [q \in Sweep |-> IF moved'[q] THEN <<>> ELSE IF q = r THEN mine ELSE got[q]]
        /\ excuse' = [q \in Sweep |->
                       IF moved'[q] THEN Name
                       ELSE IF q = r /\ fpos[r] = 2 THEN missed
                       ELSE IF Under(q) THEN excuse[q] \cup missed ELSE excuse[q]]
        /\ taken' = [q \in Sweep |-> IF Under(q) THEN {} ELSE taken[q]]
        /\ unlisted' = missed
        /\ disturbed' = [q \in Sweep |->
                          IF q = r /\ fpos[r] = 2 THEN served # <<>> \/ partial
                          ELSE disturbed[q] \/ (Under(q) /\ (q # r \/ partial))]
  BY Zenon DEF ReadReally
<1>3. from \in Nat /\ from >= 2 /\ left \in Nat /\ from = fpos[r] + Len(served) /\ left = room - Len(served)
  BY <1>1
<1> DEFINE names == served \o Names(R.L, from, left)
           W == IF PagesOf(R.L) = R.P THEN R.L ELSE Listing
           partial == R.failed \/ R.L # Listing \/ R.P # PagesOf(Listing)
<1>4. /\ IF partial THEN Event ELSE UNCHANGED events
      /\ FillCache(R.L, R.P)
      /\ Give(r, names, R.failed)
      /\ moved' = [q \in Sweep |->
                    moved[q] \/ (/\ Under(q)
                                 /\ IF q = r THEN got[r] \o names # Before(W, fpos[r] + Len(names))
                                             ELSE got[q] # Before(W, fpos[q]))]
      /\ got' = [q \in Sweep |-> IF moved'[q] THEN <<>> ELSE IF q = r THEN got[r] \o names ELSE got[q]]
      /\ excuse' = [q \in Sweep |->
                     IF moved'[q] THEN Name
                     ELSE IF q = r /\ fpos[r] = 2 THEN remote \ ToSet(W)
                     ELSE IF Under(q) THEN excuse[q] \cup (remote \ ToSet(W)) ELSE excuse[q]]
      /\ taken' = [q \in Sweep |-> IF Under(q) THEN {} ELSE taken[q]]
      /\ unlisted' = remote \ ToSet(W)
      /\ disturbed' = [q \in Sweep |->
                        IF q = r /\ fpos[r] = 2 THEN served # <<>> \/ partial
                        ELSE disturbed[q] \/ (Under(q) /\ (q # r \/ partial))]
  BY <1>2, Zenon
<1>5. PICK L, P, f : L = R.L /\ P = R.P /\ f = R.failed
  OBVIOUS
<1>6. /\ Listing \in Seq(Name) /\ Once(Listing) /\ ToSet(Listing) = remote
      /\ Len(Listing) \in Nat /\ Len(Listing) <= Cardinality(Name)
  BY <1>1, ListingIs
<1>7. /\ L \in Seq(Name) /\ Begins(L, Listing) /\ f \in BOOLEAN
      /\ \/ P = PagesOf(L)
         \/ /\ P = {0} /\ f = FALSE /\ Len(L) >= 1 /\ PageOf(Len(L) + 1) # 0
            /\ Len(L) = Len(Listing) \/ Len(L) >= from - 1 + left
  BY <1>1, <1>3, <1>5, ReadingsAre
<1>p. /\ W = IF PagesOf(L) = P THEN L ELSE Listing
      /\ partial \in BOOLEAN
      /\ ~partial => L = Listing /\ P = PagesOf(Listing)
      /\ names = served \o Names(L, from, left)
  BY <1>5, <1>7
<1> HIDE DEF from, left, names, W, partial
<1>8. Len(L) \in Nat /\ Len(L) <= Len(Listing)
  BY <1>7, LenProperties DEF Begins
<1>9. /\ PagesOf(L) \subseteq Page /\ 0 \in PagesOf(L) /\ {0} \subseteq Page
      /\ \A i \in 1..Len(L) : PageOf(i + 1) \in PagesOf(L)
  <2>1. Len(L) <= Cardinality(Name)
    BY <1>1, <1>6, <1>8
  <2> QED
    BY <1>7, <2>1, PagesAre, Zenon
<1>10. W = IF PagesOf(L) = P THEN L ELSE Listing
  BY <1>p
<1>11. P \subseteq Page /\ 0 \in P
  BY <1>7, <1>9
<1>12. W \in Seq(Name) /\ Once(W) /\ Begins(L, W) /\ ToSet(W) \subseteq remote /\ Len(W) <= Cardinality(Name)
  <2>1. CASE W = L
    <3>1. Once(L) /\ Begins(L, L)
      BY <1>6, <1>7, <1>8, BeginsOnce DEF Begins
    <3>2. ToSet(L) \subseteq remote
      <4>1. ASSUME NEW x \in ToSet(L)
            PROVE  x \in ToSet(Listing)
        <5>1. PICK i \in 1..Len(L) : L[i] = x
          BY <1>7, MembersOf
        <5>2. i \in 1..Len(Listing) /\ Listing[i] = x
          BY <1>6, <1>7, <1>8, <5>1 DEF Begins
        <5> QED
          BY <1>6, <5>2, MembersOf
      <4> QED
        BY <1>6, <4>1
    <3>3. Len(L) <= Cardinality(Name)
      BY <1>1, <1>6, <1>8
    <3> QED
      BY <1>7, <2>1, <3>1, <3>2, <3>3, Zenon
  <2>2. CASE W = Listing
    BY <1>6, <1>7, <2>2, Zenon
  <2> QED
    BY <1>10, <2>1, <2>2, Zenon
<1>13. (\A i \in 1..Len(L) : PageOf(i + 1) \in P) => L = W
  <2>1. CASE P = PagesOf(L)
    BY <1>10, <2>1
  <2>2. CASE P = {0} /\ Len(L) >= 1 /\ PageOf(Len(L) + 1) # 0
    <3>1. Len(L) \in 1..Len(L) /\ PageOf(Len(L) + 1) \notin P
      BY <1>8, <2>2
    <3> QED
      BY <3>1
  <2> QED
    BY <1>7, <2>1, <2>2
<1>14. ~partial => L = W /\ \A i \in 1..Len(L) : PageOf(i + 1) \in P
  BY <1>9, <1>10, <1>p
<1>15. PICK ext : ext = Names(L, from, left)
  OBVIOUS
<1>16. /\ ext \in Seq(Name) /\ Len(ext) \in Nat
       /\ Len(ext) > 0 => from - 2 + Len(ext) <= Len(L)
       /\ \A i \in 1..Len(ext) : from - 2 + i \in 1..Len(L) /\ ext[i] = L[from - 2 + i]
       /\ left > 0 /\ Len(ext) = 0 => Len(L) <= from - 2
  <2>1. /\ ext \in Seq(Name) /\ Len(ext) \in 0..left
        /\ Len(ext) > 0 => from - 2 + Len(ext) <= Len(L)
        /\ \A i \in 1..Len(ext) : from - 2 + i \in 1..Len(L) /\ ext[i] = L[from - 2 + i]
        /\ left > 0 /\ Len(ext) = 0 => Len(L) <= from - 2
    <3>1. L \in Seq(Name) /\ from \in Nat /\ from >= 2 /\ left \in Nat
      BY <1>3, <1>7
    <3>2. /\ Names(L, from, left) \in Seq(Name)
          /\ Len(Names(L, from, left)) \in 0..left
          /\ Len(Names(L, from, left)) > 0 => from - 2 + Len(Names(L, from, left)) <= Len(L)
          /\ \A i \in 1..Len(Names(L, from, left)) :
               from - 2 + i \in 1..Len(L) /\ Names(L, from, left)[i] = L[from - 2 + i]
          /\ left > 0 /\ Len(Names(L, from, left)) = 0 => Len(L) <= from - 2
      BY <3>1, NamesAre, Zenon
    <3> QED
      BY <1>15, <3>2, Zenon
  <2>2. Len(ext) \in Nat
    BY <1>3, <2>1
  <2> QED
    BY <2>1, <2>2, Zenon
<1>17. names = served \o ext
  BY <1>p, <1>15
<1>18. names \in Seq(Name) /\ Len(names) = Len(served) + Len(ext)
  BY <1>16, <1>17, ConcatProperties
<1>19. Len(names) > 0 => fpos[r] + Len(names) <= Cardinality(Name) + 2
  <2>1. CASE Len(ext) > 0
    <3>1. from - 2 + Len(ext) <= Cardinality(Name)
      BY <1>1, <1>3, <1>6, <1>8, <1>16, <2>1
    <3>2. \A a, b, c, e, g \in Nat : e = a + b /\ e - 2 + c <= g => a + (b + c) <= g + 2
      OBVIOUS
    <3>3. fpos[r] \in Nat /\ Len(served) \in Nat /\ Cardinality(Name) \in Nat
      BY <1>1
    <3>4. fpos[r] + (Len(served) + Len(ext)) <= Cardinality(Name) + 2
      BY <1>3, <1>16, <3>1, <3>2, <3>3, Zenon
    <3> QED
      BY <1>18, <3>4, Zenon
  <2>2. CASE Len(ext) = 0
    BY <1>1, <1>18, <2>2
  <2> QED
    BY <1>16, <2>1, <2>2
<1>20. Len(names) = 0 => Len(W) <= fpos[r] - 2
  <2> SUFFICES ASSUME Len(names) = 0
               PROVE  Len(W) <= fpos[r] - 2
    OBVIOUS
  <2>1. Len(served) = 0 /\ Len(ext) = 0
    <3>1. \A a, b \in Nat : a + b = 0 => a = 0 /\ b = 0
      OBVIOUS
    <3> QED
      BY <1>1, <1>16, <1>18, <3>1, Zenon
  <2>2. left = room /\ from = fpos[r] /\ left > 0 /\ Len(L) <= from - 2
    BY <1>1, <1>3, <1>16, <2>1
  <2>3. W = L \/ (W = Listing /\ (Len(L) = Len(Listing) \/ Len(L) >= from - 1 + left))
    BY <1>7, <1>10
  <2> QED
    BY <1>1, <1>3, <1>6, <1>8, <2>2, <2>3
<1>21. served = <<>> /\ fpos[r] = 2 => Begins(names, L)
  <2> SUFFICES ASSUME served = <<>>, fpos[r] = 2
               PROVE  Begins(names, L)
    OBVIOUS
  <2>1. Len(served) = 0
    BY EmptySeq
  <2>2. names = ext /\ from = 2
    BY <1>3, <1>16, <1>17, <2>1, ConcatEmptySeq
  <2>3. Len(ext) <= Len(L) /\ \A i \in 1..Len(ext) : ext[i] = L[i]
    BY <1>8, <1>16, <2>2
  <2> QED
    BY <2>2, <2>3 DEF Begins
<1>22. events' \in 0..MaxEvents
  <2>1. events \in 0..MaxEvents /\ MaxEvents \in Nat
    BY SizeAssumption DEF TypeOK
  <2>2. Event \/ events' = events
    BY <1>4, Zenon
  <2> QED
    BY <2>1, <2>2 DEF Event
<1>23. partial \in BOOLEAN
  BY <1>p
<1>24. FillCache(L, P) /\ Give(r, names, f)
  BY <1>4, <1>5
<1>26. ToSet(W) = remote \/ events' # events
  <2>1. CASE partial
    <3>1. events \in Nat /\ events' = events + 1
      BY <1>4, <2>1 DEF Event, TypeOK
    <3> QED
      BY <3>1
  <2>2. CASE ~partial
    <3>1. W = Listing
      BY <1>10, <1>p, <2>2, Zenon
    <3> QED
      BY <1>6, <3>1, Zenon
  <2> QED
    BY <2>1, <2>2
<1>25. Refilled(r, served, names, L, W, P, f, partial)
  BY <1>26, <1>4, <1>7, <1>11, <1>12, <1>13, <1>14, <1>18, <1>19, <1>20, <1>21, <1>22, <1>23, <1>24, Zenon DEF Refilled
<1> QED
  BY <1>25

\* Refill: with nothing served where there is no cache, with what is valid
\* where there is one.
LEMMA RefillIs ==
  ASSUME TypeOK, NEW r \in Sweep, fpos[r] >= 2, Refill(r)
  PROVE  \E served, names, L, W, P, failed, partial : Refilled(r, served, names, L, W, P, failed, partial)
<1>1. phase[r] = "read" /\ UNCHANGED <<remote, stale, inoAge>>
  BY DEF Refill
<1>2. fpos[r] \in Nat /\ MaxRoom \in Nat /\ head.end \in Nat
  <2>1. Cardinality(Name) \in Nat
    BY NameAssumption, FS_CardinalityType
  <2> QED
    BY <2>1, SizeAssumption DEF TypeOK, Position, CacheHead
<1>3. PICK room \in 1..MaxRoom :
        \/ NoCache(r) /\ ReadReally(r, room, <<>>)
        \/ LET k == Longest(fpos[r], room) IN
           /\ ~NoCache(r) /\ fpos[r] + k <= head.end /\ ~Valid(fpos[r] + k)
           /\ ReadReally(r, room, Cached(fpos[r], k))
  BY DEF Refill
<1>4. CASE NoCache(r) /\ ReadReally(r, room, <<>>)
  <2>1. <<>> \in Seq(Name) /\ Len(<<>>) = 0
    BY EmptySeq
  <2>2. Len(<<>>) <= room /\ ~(Len(<<>>) > 0)
    BY <1>2, <2>1
  <2>3. \E names, L, W, P, failed, partial : Refilled(r, <<>>, names, L, W, P, failed, partial)
    BY <1>1, <1>4, <2>1, <2>2, ReadIs
  <2> QED
    BY <2>3
<1>5. ASSUME ~NoCache(r), NEW k, k = Longest(fpos[r], room), fpos[r] + k <= head.end, ~Valid(fpos[r] + k),
             ReadReally(r, room, Cached(fpos[r], k))
      PROVE  \E served, names, L, W, P, failed, partial : Refilled(r, served, names, L, W, P, failed, partial)
  <2>0. room \in Nat /\ fpos[r] \in Nat
    BY <1>2
  <2>1. k \in 0..room /\ \A p \in fpos[r]..(fpos[r] + k - 1) : p <= head.end /\ Valid(p)
    BY <1>5, <2>0, LongestIs, Zenon
  <2>2. PICK served : served = Cached(fpos[r], k)
    OBVIOUS
  <2>3. /\ served \in Seq(Name) /\ Len(served) = k
        /\ k > 0 => fpos[r] + k <= Cardinality(Name) + 2
    <3>1. k \in Nat
      BY <2>0, <2>1
    <3> QED
      BY <2>0, <2>1, <2>2, <3>1, CachedIs, Zenon
  <2>4. \E p \in fpos[r]..head.end : ~Valid(p)
    BY <1>2, <1>5, <2>1
  <2>5. Len(served) <= room /\ ReadReally(r, room, served)
    BY <1>2, <1>5, <2>1, <2>2, <2>3
  <2>6. \E names, L, W, P, failed, partial : Refilled(r, served, names, L, W, P, failed, partial)
    BY <1>1, <2>3, <2>4, <2>5, ReadIs
  <2> QED
    BY <2>6
<1> QED
  BY <1>3, <1>4, <1>5

-----------------------------------------------------------------------------
(* The invariants *)

\* A head needs page 0, and a position a dentry; a sweep counts what it gives.
Shape ==
  /\ 0 \notin up => head = NoHead
  /\ \A n \in Name : dent[n] = "none" => fsdata[n] = 0
  /\ \A r \in Sweep :
       /\ moved[r] => got[r] = <<>>
       /\ phase[r] = "closed" => fpos[r] = 0 /\ got[r] = <<>> /\ ~moved[r] /\ ~disturbed[r]
       /\ phase[r] = "read" => fpos[r] >= 2
       /\ Under(r) /\ ~moved[r] => Len(got[r]) = IF fpos[r] = 0 THEN 0 ELSE fpos[r] - 2

\* L is the listing that the cache was filled from, under the names of now: a
\* dentry with a position is the name at that position, the head knows the
\* end, and while the head is young there was no rename and unlisted has all
\* the names whose presence has changed since.  A sweep under way has been
\* given the beginning of L.
Laid(L) ==
  /\ \A n \in Name : fsdata[n] # 0 => fsdata[n] - 1 \in 1..Len(L) /\ L[fsdata[n] - 1] = n
  /\ head.eof => head.end = Len(L) + 1
  /\ head.age < TTL => Once(L) /\ remote \ unlisted = ToSet(L) \ unlisted
  /\ \A r \in Sweep : Under(r) /\ ~moved[r] /\ fpos[r] > 2 =>
       /\ fpos[r] - 2 <= Len(L) /\ Follows(got[r], L, excuse[r], taken[r])
       /\ remote \ excuse[r] = ToSet(L) \ excuse[r]

Kept == \E L \in Seq(Name) : Laid(L)

\* What lies ahead of a sweep that nothing disturbed is there, and new to it.
Ahead ==
  \A r \in Sweep : Under(r) /\ fpos[r] > 2 /\ ~disturbed[r] =>
    /\ head.eof
    /\ \A p \in fpos[r]..head.end : Valid(p) /\ slot[p] \notin ToSet(got[r])

\* Names only move for a sweep that was given some.
Further == \A r \in Sweep : moved[r] => fpos[r] > 2

-----------------------------------------------------------------------------
(* Types *)

\* The numbers that bound the positions.
LEMMA Sizes ==
  ASSUME TypeOK
  PROVE  /\ Cardinality(Name) \in Nat
         /\ TTL \in Nat /\ TTL >= 1 /\ MaxEvents \in Nat
         /\ head.end \in 1..(Cardinality(Name) + 1) /\ head.age \in 0..TTL /\ head.eof \in BOOLEAN
         /\ Position = 2..(Cardinality(Name) + 1)
         /\ \A r \in Sweep : fpos[r] \in Nat /\ fpos[r] <= Cardinality(Name) + 2 /\ (fpos[r] = 0 \/ fpos[r] >= 2)
<1>1. Cardinality(Name) \in Nat
  BY NameAssumption, FS_CardinalityType
<1>2. TTL \in Nat /\ TTL >= 1 /\ MaxEvents \in Nat
  BY SizeAssumption
<1>3. Position = 2..(Cardinality(Name) + 1)
  BY DEF Position
<1>4. head.end \in 1..(Cardinality(Name) + 1) /\ head.age \in 0..TTL /\ head.eof \in BOOLEAN
  BY <1>1, <1>3 DEF TypeOK, CacheHead, Age
<1>5. ASSUME NEW r \in Sweep
      PROVE  fpos[r] \in Nat /\ fpos[r] <= Cardinality(Name) + 2 /\ (fpos[r] = 0 \/ fpos[r] >= 2)
  <2>1. fpos[r] \in {0} \cup Position \cup {Cardinality(Name) + 2}
    BY DEF TypeOK
  <2> QED
    BY <1>1, <1>3, <2>1
<1> QED
  BY <1>1, <1>2, <1>3, <1>4, <1>5

\* What a call gives that is served from the cache.
Served(r, names) ==
  /\ names \in Seq(Name)
  /\ \A i \in 1..Len(names) :
       /\ fpos[r] + i - 1 \in Position /\ names[i] = slot[fpos[r] + i - 1]
       /\ fpos[r] + i - 1 <= head.end /\ Valid(fpos[r] + i - 1)
  /\ Len(names) > 0 => fpos[r] + Len(names) <= Cardinality(Name) + 2
  /\ Len(names) = 0 => fpos[r] > head.end
  /\ phase[r] = "read" /\ ~NoCache(r)
  /\ Give(r, names, FALSE)
  /\ got' = [got EXCEPT ![r] = IF moved[r] THEN <<>> ELSE @ \o names]
  /\ excuse' = [excuse EXCEPT ![r] = IF fpos[r] = 2 THEN unlisted ELSE @]
  /\ taken' = [taken EXCEPT ![r] = IF fpos[r] = 2 THEN {} ELSE @]
  /\ disturbed' = [disturbed EXCEPT ![r] =
                     IF fpos[r] = 2 THEN \E p \in 2..head.end : ~Valid(p) ELSE @]
  /\ UNCHANGED <<remote, stale, inoAge, cache, dentries, moved, events>>

\* ServeCache gives the names whose positions are valid, as far as it goes.
LEMMA ServeIs ==
  ASSUME TypeOK, NEW r \in Sweep, fpos[r] >= 2, ServeCache(r)
  PROVE  \E names : Served(r, names)
<1>1. fpos[r] \in Nat /\ head.end \in Nat /\ MaxRoom \in Nat
  BY Sizes, SizeAssumption
<1>2. PICK room \in 1..MaxRoom :
        LET k == Longest(fpos[r], room) IN
        /\ fpos[r] + k <= head.end => Valid(fpos[r] + k)
        /\ Give(r, Cached(fpos[r], k), FALSE)
        /\ got' = [got EXCEPT ![r] = IF moved[r] THEN <<>> ELSE @ \o Cached(fpos[r], k)]
  BY DEF ServeCache
<1>3. PICK k : k = Longest(fpos[r], room)
  OBVIOUS
<1>4. PICK names : names = Cached(fpos[r], k)
  OBVIOUS
<1>5. /\ fpos[r] + k <= head.end => Valid(fpos[r] + k)
      /\ Give(r, names, FALSE)
      /\ got' = [got EXCEPT ![r] = IF moved[r] THEN <<>> ELSE @ \o names]
  BY <1>2, <1>3, <1>4, Zenon
<1>6. room \in Nat /\ room >= 1
  BY <1>1
<1>7. /\ k \in 0..room
      /\ \A p \in fpos[r]..(fpos[r] + k - 1) : p <= head.end /\ Valid(p)
      /\ k < room => ~(fpos[r] + k <= head.end /\ Valid(fpos[r] + k))
  BY <1>1, <1>3, <1>6, LongestIs, Zenon
<1>8. k \in Nat
  BY <1>6, <1>7
<1>9. /\ names \in Seq(Name) /\ Len(names) = k
      /\ \A i \in 1..k : /\ fpos[r] + i - 1 \in Position /\ names[i] = slot[fpos[r] + i - 1]
                         /\ fpos[r] + i - 1 <= head.end /\ Valid(fpos[r] + i - 1)
      /\ k > 0 => fpos[r] + k <= Cardinality(Name) + 2
  BY <1>1, <1>4, <1>7, <1>8, CachedIs, Zenon
<1>10. Len(names) = 0 => fpos[r] > head.end
  <2> SUFFICES ASSUME Len(names) = 0
               PROVE  fpos[r] > head.end
    OBVIOUS
  <2>1. k < room /\ fpos[r] + k = fpos[r]
    BY <1>1, <1>6, <1>9
  <2>2. ~(fpos[r] <= head.end)
    BY <1>5, <1>7, <2>1
  <2> QED
    BY <1>1, <2>2
<1>11. /\ phase[r] = "read" /\ ~NoCache(r)
       /\ excuse' = [excuse EXCEPT ![r] = IF fpos[r] = 2 THEN unlisted ELSE @]
       /\ taken' = [taken EXCEPT ![r] = IF fpos[r] = 2 THEN {} ELSE @]
       /\ disturbed' = [disturbed EXCEPT ![r] =
                          IF fpos[r] = 2 THEN \E p \in 2..head.end : ~Valid(p) ELSE @]
       /\ UNCHANGED <<remote, stale, inoAge, cache, dentries, moved, events>>
  BY DEF ServeCache
<1>12. Served(r, names)
  BY <1>5, <1>9, <1>10, <1>11 DEF Served
<1> QED
  BY <1>12

\* Dropped pages, and an invalid cache, leave a cache of the right type.
LEMMA CacheTyped ==
  ASSUME TypeOK
  PROVE  /\ \A S : DropPages(S) => /\ up' \subseteq Page /\ head' \in CacheHead /\ unlisted' = unlisted
                                   /\ slot' \in [Position -> Name \cup {None}]
         /\ InvalidDirCache => head' \in CacheHead
         /\ \A n \in Name, state \in {"negative", "positive"} : Alloc(n, state) =>
              /\ slot' \in [Position -> Name \cup {None}]
              /\ dent' \in [Name -> {"none", "negative", "positive"}]
<1>1. TTL \in Nat
  BY Sizes
<1>2. NoHead \in CacheHead
  BY <1>1 DEF NoHead, CacheHead, Age
<1>3. [head EXCEPT !.age = TTL] \in CacheHead
  <2>1. TTL \in Age /\ head \in CacheHead
    BY <1>1 DEF TypeOK, Age
  <2> QED
    BY <2>1 DEF CacheHead
<1>4. ASSUME NEW S, DropPages(S)
      PROVE  /\ up' \subseteq Page /\ head' \in CacheHead /\ unlisted' = unlisted
             /\ slot' \in [Position -> Name \cup {None}]
  BY <1>2, <1>4 DEF DropPages, TypeOK
<1>5. InvalidDirCache => head' \in CacheHead
  BY <1>3 DEF InvalidDirCache, TypeOK
<1>6. ASSUME NEW n \in Name, NEW state \in {"negative", "positive"}, Alloc(n, state)
      PROVE  /\ slot' \in [Position -> Name \cup {None}]
             /\ dent' \in [Name -> {"none", "negative", "positive"}]
  BY <1>6 DEF Alloc, TypeOK
<1> QED
  BY <1>4, <1>5, <1>6

\* What a call gives moves the position of its sweep.
LEMMA GiveTyped ==
  ASSUME TypeOK, NEW r \in Sweep, fpos[r] >= 2, NEW names \in Seq(Name), NEW failed \in BOOLEAN,
         Len(names) > 0 => fpos[r] + Len(names) <= Cardinality(Name) + 2,
         Give(r, names, failed)
  PROVE  /\ phase' \in [Sweep -> {"closed", "open", "read", "end", "failed"}]
         /\ fpos' \in [Sweep -> {0} \cup Position \cup {Cardinality(Name) + 2}]
         /\ first' \in [Sweep -> BOOLEAN]
<1>1. /\ Cardinality(Name) \in Nat /\ Position = 2..(Cardinality(Name) + 1)
      /\ fpos[r] \in Nat /\ fpos[r] <= Cardinality(Name) + 2 /\ Len(names) \in Nat
  BY Sizes, LenProperties
<1>2. fpos[r] + Len(names) \in {0} \cup Position \cup {Cardinality(Name) + 2}
  BY <1>1
<1>3. fpos' = [fpos EXCEPT ![r] = @ + Len(names)]
  BY DEF Give
<1>4. fpos' \in [Sweep -> {0} \cup Position \cup {Cardinality(Name) + 2}]
  BY <1>2, <1>3 DEF TypeOK
<1>5. phase' \in [Sweep -> {"closed", "open", "read", "end", "failed"}]
  BY DEF Give, TypeOK
<1>6. first' \in [Sweep -> BOOLEAN]
  BY DEF Give, TypeOK
<1> QED
  BY <1>4, <1>5, <1>6

\* A call that is served from the cache keeps the types.
LEMMA ServeTyped ==
  ASSUME TypeOK, NEW r \in Sweep, fpos[r] >= 2, NEW names, Served(r, names)
  PROVE  TypeOK'
<1>1. /\ phase' \in [Sweep -> {"closed", "open", "read", "end", "failed"}]
      /\ fpos' \in [Sweep -> {0} \cup Position \cup {Cardinality(Name) + 2}]
      /\ first' \in [Sweep -> BOOLEAN]
  BY GiveTyped DEF Served
<1>2. got' \in [Sweep -> Seq(Name)]
  <2>1. got[r] \in Seq(Name) /\ names \in Seq(Name)
    BY DEF TypeOK, Served
  <2>2. got[r] \o names \in Seq(Name) /\ <<>> \in Seq(Name)
    BY <2>1, ConcatProperties, EmptySeq
  <2> QED
    BY <2>2 DEF TypeOK, Served
<1>3. excuse' \in [Sweep -> SUBSET Name]
  BY DEF TypeOK, Served
<1>4. disturbed' \in [Sweep -> BOOLEAN]
  BY DEF TypeOK, Served
<1>5. UNCHANGED <<remote, stale, inoAge, up, head, slot, unlisted, dent, fsdata, moved, events>>
  BY DEF Served, cache, dentries
<1>6. taken' \in [Sweep -> SUBSET Name]
  BY DEF TypeOK, Served
<1> QED
  BY <1>1, <1>2, <1>3, <1>4, <1>5, <1>6 DEF TypeOK

\* The positions of a listing.
LEMMA AtIs ==
  ASSUME NEW S, NEW L \in Seq(S), NEW n \in ToSet(L)
  PROVE  At(L, n) \in 1..Len(L) /\ L[At(L, n)] = n
<1>1. DOMAIN L = 1..Len(L) /\ \E i \in 1..Len(L) : L[i] = n
  BY MembersOf
<1> QED
  BY <1>1 DEF At

\* So does a listing that is put into the cache,
LEMMA FillTyped ==
  ASSUME TypeOK, NEW L \in Seq(Name), Len(L) <= Cardinality(Name), NEW P \in SUBSET Page, FillCache(L, P)
  PROVE  /\ slot' \in [Position -> Name \cup {None}]
         /\ dent' \in [Name -> {"none", "negative", "positive"}]
         /\ fsdata' \in [Name -> Position \cup {0}]
         /\ up' \subseteq Page
         /\ head' = [age |-> 0, end |-> Len(L) + 1, eof |-> \A i \in 1..Len(L) : PageOf(i + 1) \in P]
         /\ head' \in CacheHead
<1>1. /\ Cardinality(Name) \in Nat /\ Position = 2..(Cardinality(Name) + 1) /\ TTL \in Nat
      /\ Len(L) \in Nat /\ DOMAIN L = 1..Len(L)
  BY Sizes, LenProperties
<1>2. slot' \in [Position -> Name \cup {None}]
  <2>1. \A p \in Position : p - 1 \in DOMAIN L => L[p - 1] \in Name
    BY <1>1, ElementOfSeq
  <2> QED
    BY <2>1 DEF FillCache
<1>3. dent' \in [Name -> {"none", "negative", "positive"}]
  BY DEF FillCache, TypeOK
<1>4. fsdata' \in [Name -> Position \cup {0}]
  <2>1. \A n \in ToSet(L) : At(L, n) + 1 \in Position
    BY <1>1, AtIs
  <2> QED
    BY <2>1 DEF FillCache
<1>5. up' \subseteq Page
  BY DEF FillCache
<1>6. head' = [age |-> 0, end |-> Len(L) + 1, eof |-> \A i \in 1..Len(L) : PageOf(i + 1) \in P]
  BY <1>1, Zenon DEF FillCache
<1>7. head' \in CacheHead
  <2>1. Len(L) + 1 \in Position \cup {1} /\ 0 \in Age
    BY <1>1 DEF Age
  <2>2. PICK e \in BOOLEAN : e <=> \A i \in 1..Len(L) : PageOf(i + 1) \in P
    OBVIOUS
  <2>3. head' = [age |-> 0, end |-> Len(L) + 1, eof |-> \A i \in DOMAIN L : PageOf(i + 1) \in P]
    BY DEF FillCache
  <2>4. (\A i \in DOMAIN L : PageOf(i + 1) \in P) \in BOOLEAN
    OBVIOUS
  <2> QED
    BY <2>1, <2>3, <2>4, Zenon DEF CacheHead
<1> QED
  BY <1>2, <1>3, <1>4, <1>5, <1>6, <1>7

\* and with it the call that reads the listing again.
LEMMA RefillTyped ==
  ASSUME TypeOK, NEW r \in Sweep, fpos[r] >= 2, NEW served, NEW names, NEW L, NEW W, NEW P,
         NEW failed, NEW partial, Refilled(r, served, names, L, W, P, failed, partial)
  PROVE  TypeOK'
<1>1. /\ names \in Seq(Name) /\ L \in Seq(Name) /\ W \in Seq(Name) /\ Begins(L, W)
      /\ Len(W) <= Cardinality(Name)
      /\ P \subseteq Page /\ failed \in BOOLEAN /\ partial \in BOOLEAN
      /\ Len(names) > 0 => fpos[r] + Len(names) <= Cardinality(Name) + 2
      /\ events' \in 0..MaxEvents /\ FillCache(L, P) /\ Give(r, names, failed)
      /\ UNCHANGED <<remote, stale, inoAge>>
  BY Zenon DEF Refilled
<1>2. Len(L) <= Cardinality(Name)
  <2>1. Len(L) \in Nat /\ Len(W) \in Nat /\ Cardinality(Name) \in Nat /\ Len(L) <= Len(W)
    BY <1>1, Sizes, LenProperties DEF Begins
  <2> QED
    BY <1>1, <2>1
<1>3. /\ phase' \in [Sweep -> {"closed", "open", "read", "end", "failed"}]
      /\ fpos' \in [Sweep -> {0} \cup Position \cup {Cardinality(Name) + 2}]
      /\ first' \in [Sweep -> BOOLEAN]
  BY <1>1, GiveTyped
<1>4. /\ slot' \in [Position -> Name \cup {None}]
      /\ dent' \in [Name -> {"none", "negative", "positive"}]
      /\ fsdata' \in [Name -> Position \cup {0}]
      /\ up' \subseteq Page /\ head' \in CacheHead
  BY <1>1, <1>2, FillTyped
<1>5. moved' \in [Sweep -> BOOLEAN]
  BY DEF Refilled
<1>6. got' \in [Sweep -> Seq(Name)]
  <2>1. got[r] \in Seq(Name) /\ <<>> \in Seq(Name)
    BY EmptySeq DEF TypeOK
  <2>2. got[r] \o names \in Seq(Name)
    BY <1>1, <2>1, ConcatProperties
  <2>3. got' = [q \in Sweep |-> IF moved'[q] THEN <<>> ELSE IF q = r THEN got[r] \o names ELSE got[q]]
    BY Zenon DEF Refilled
  <2> QED
    BY <2>1, <2>2, <2>3 DEF TypeOK
<1>7. excuse' \in [Sweep -> SUBSET Name]
  <2>1. excuse' = [q \in Sweep |->
                    IF moved'[q] THEN Name
                    ELSE IF q = r /\ fpos[r] = 2 THEN remote \ ToSet(W)
                    ELSE IF Under(q) THEN excuse[q] \cup (remote \ ToSet(W)) ELSE excuse[q]]
    BY Zenon DEF Refilled
  <2> QED
    BY <2>1 DEF TypeOK
<1>8. disturbed' \in [Sweep -> BOOLEAN]
  <2>1. disturbed' = [q \in Sweep |->
                       IF q = r /\ fpos[r] = 2 THEN served # <<>> \/ partial
                       ELSE disturbed[q] \/ (Under(q) /\ (q # r \/ partial))]
    BY Zenon DEF Refilled
  <2> QED
    BY <2>1
<1>9. unlisted' \subseteq Name
  BY DEF Refilled, TypeOK
<1>10. taken' \in [Sweep -> SUBSET Name]
  <2>1. taken' = [q \in Sweep |-> IF Under(q) THEN {} ELSE taken[q]]
    BY Zenon DEF Refilled
  <2> QED
    BY <2>1 DEF TypeOK
<1> QED
  BY <1>1, <1>3, <1>4, <1>5, <1>6, <1>7, <1>8, <1>9, <1>10 DEF TypeOK

\* Events are counted up to their bound.
LEMMA EventTyped ==
  ASSUME TypeOK, Event
  PROVE  events' \in 0..MaxEvents
BY Sizes DEF TypeOK, Event

\* The beginning of a call keeps the types,
LEMMA BeginTyped ==
  ASSUME TypeOK, NEW r \in Sweep, Begin(r)
  PROVE  TypeOK'
<1>1. /\ Cardinality(Name) \in Nat /\ Position = 2..(Cardinality(Name) + 1) /\ TTL \in Nat
  BY Sizes
<1>2. 2 \in {0} \cup Position \cup {Cardinality(Name) + 2}
  BY <1>1
<1>3. fpos' \in [Sweep -> {0} \cup Position \cup {Cardinality(Name) + 2}]
  BY <1>2 DEF Begin, TypeOK
<1>4. phase' \in [Sweep -> {"closed", "open", "read", "end", "failed"}]
  BY DEF Begin, TypeOK
<1>5. stale' \in BOOLEAN /\ inoAge' \in Age
  <2>1. 0 \in Age /\ stale \in BOOLEAN /\ inoAge \in Age
    BY <1>1 DEF TypeOK, Age
  <2>2. (UNCHANGED <<stale, inoAge>>) \/ (inoAge' = 0 /\ stale' = FALSE)
    BY DEF Begin
  <2> QED
    BY <2>1, <2>2
<1>6. /\ up' \subseteq Page /\ head' \in CacheHead /\ unlisted' \subseteq Name
      /\ slot' \in [Position -> Name \cup {None}]
  <2>1. UNCHANGED cache \/ DropPages(Page)
    BY DEF Begin
  <2> QED
    BY <2>1, CacheTyped DEF cache, TypeOK
<1>7. disturbed' \in [Sweep -> BOOLEAN]
  <2>1. UNCHANGED disturbed \/ DisturbOpen
    BY DEF Begin
  <2> QED
    BY <2>1 DEF DisturbOpen, TypeOK
<1>8. first' \in [Sweep -> BOOLEAN]
  BY DEF Begin, TypeOK
<1>9. UNCHANGED <<remote, dent, fsdata, got, excuse, taken, moved, events>>
  BY DEF Begin, dentries
<1> QED
  BY <1>3, <1>4, <1>5, <1>6, <1>7, <1>8, <1>9 DEF TypeOK

\* as do the ends of a sweep,
LEMMA OpenCloseTyped ==
  ASSUME TypeOK, NEW r \in Sweep, Open(r) \/ Close(r)
  PROVE  TypeOK'
<1>1. <<>> \in Seq(Name)
  BY EmptySeq
<1>2. UNCHANGED <<remote, stale, inoAge, up, head, slot, unlisted, dent, fsdata, events>>
  BY DEF Open, Close, cache, dentries
<1>3. CASE Open(r)
  BY <1>2, <1>3 DEF Open, TypeOK
<1>4. CASE Close(r)
  BY <1>1, <1>2, <1>4 DEF Close, TypeOK
<1> QED
  BY <1>3, <1>4

\* What changes the directory or its dentries, from this side or another.
LEMMA ChangeTyped ==
  ASSUME TypeOK, NEW n \in Name, Create(n) \/ Unlink(n) \/ RemoteChange(n) \/ Lookup(n) \/ ReclaimDentry(n)
  PROVE  TypeOK'
<1>1. events' \in 0..MaxEvents
  BY EventTyped DEF Create, Unlink, RemoteChange, Lookup, ReclaimDentry
<1>2. CASE Create(n)
  <2>1. Alloc(n, "positive") /\ InvalidDirCache /\ Touch({n})
    BY <1>2 DEF Create
  <2>2. /\ slot' \in [Position -> Name \cup {None}]
        /\ dent' \in [Name -> {"none", "negative", "positive"}]
        /\ head' \in CacheHead
    BY <2>1, CacheTyped
  <2>3. excuse' \in [Sweep -> SUBSET Name]
    BY <2>1 DEF Touch, TypeOK
  <2> QED
    BY <1>1, <1>2, <2>2, <2>3 DEF Create, TypeOK
<1>3. CASE Unlink(n)
  <2>1. Alloc(n, "negative") /\ InvalidDirCache /\ Touch({n})
    BY <1>3 DEF Unlink
  <2>2. /\ slot' \in [Position -> Name \cup {None}]
        /\ dent' \in [Name -> {"none", "negative", "positive"}]
        /\ head' \in CacheHead
    BY <2>1, CacheTyped
  <2>3. excuse' \in [Sweep -> SUBSET Name]
    BY <2>1 DEF Touch, TypeOK
  <2>4. disturbed' \in [Sweep -> BOOLEAN]
    BY <1>3 DEF Unlink, Awaits, TypeOK
  <2> QED
    BY <1>1, <1>3, <2>2, <2>3, <2>4 DEF Unlink, TypeOK
<1>4. CASE RemoteChange(n)
  <2>1. excuse' \in [Sweep -> SUBSET Name]
    BY <1>4 DEF RemoteChange, Touch, TypeOK
  <2> QED
    BY <1>1, <1>4, <2>1 DEF RemoteChange, dentries, TypeOK
<1>5. CASE Lookup(n)
  <2>1. /\ slot' \in [Position -> Name \cup {None}]
        /\ dent' \in [Name -> {"none", "negative", "positive"}]
    BY <1>5, CacheTyped DEF Lookup
  <2> QED
    BY <1>1, <1>5, <2>1 DEF Lookup, sweeps, TypeOK
<1>6. CASE ReclaimDentry(n)
  <2>1. slot' \in [Position -> Name \cup {None}]
    BY <1>6 DEF ReclaimDentry, Without, TypeOK
  <2>2. disturbed' \in [Sweep -> BOOLEAN]
    BY <1>6 DEF ReclaimDentry, DisturbOpen, TypeOK
  <2> QED
    BY <1>1, <1>6, <2>1, <2>2 DEF ReclaimDentry, TypeOK
<1> QED
  BY <1>2, <1>3, <1>4, <1>5, <1>6

\* A rename, and one that is refused
LEMMA RenameTyped ==
  ASSUME TypeOK, NEW a \in Name, NEW b \in Name, Rename(a, b) \/ RenameFails(b)
  PROVE  TypeOK'
<1>1. events' \in 0..MaxEvents /\ InvalidDirCache
  BY EventTyped DEF Rename, RenameFails
<1>2. head' \in CacheHead
  BY <1>1, CacheTyped
<1>3. disturbed' \in [Sweep -> BOOLEAN] /\ dent' \in [Name -> {"none", "negative", "positive"}]
  BY DEF Rename, RenameFails, Awaits, TypeOK
<1>4. CASE Rename(a, b)
  <2>1. slot' \in [Position -> Name \cup {None}] /\ fsdata' \in [Name -> Position \cup {0}]
    BY <1>4 DEF Rename, TypeOK
  <2>2. excuse' \in [Sweep -> SUBSET Name] /\ taken' \in [Sweep -> SUBSET Name]
    BY <1>4 DEF Rename, Touch, TypeOK
  <2> QED
    BY <1>1, <1>2, <1>3, <1>4, <2>1, <2>2 DEF Rename, TypeOK
<1>5. CASE RenameFails(b)
  BY <1>1, <1>2, <1>3, <1>5 DEF RenameFails, TypeOK
<1> QED
  BY <1>4, <1>5

\* and what memory and time do.
LEMMA OthersTyped ==
  ASSUME TypeOK, RemoveFails \/ Tick \/ \E P \in Page : ReclaimPage(P)
  PROVE  TypeOK'
<1>1. TTL \in Nat /\ inoAge \in 0..TTL /\ head \in CacheHead /\ head.age \in 0..TTL
  BY Sizes DEF TypeOK, Age
<1>2. CASE RemoveFails
  <2>1. events' \in 0..MaxEvents /\ head' \in CacheHead
    BY <1>2, EventTyped, CacheTyped DEF RemoveFails
  <2> QED
    BY <1>2, <2>1 DEF RemoveFails, dentries, sweeps, TypeOK
<1>3. CASE Tick
  <2>1. Least(inoAge + 1, TTL) \in Age /\ Least(head.age + 1, TTL) \in Age
    BY <1>1 DEF Least, Age
  <2>2. inoAge' \in Age /\ head' \in CacheHead
    BY <1>1, <1>3, <2>1 DEF Tick, CacheHead
  <2> QED
    BY <1>3, <2>2 DEF Tick, dentries, sweeps, TypeOK
<1>4. ASSUME NEW P \in Page, ReclaimPage(P)
      PROVE  TypeOK'
  <2>1. events' \in 0..MaxEvents
    BY <1>4, EventTyped DEF ReclaimPage
  <2>2. DropPages({P})
    BY <1>4 DEF ReclaimPage
  <2>3. /\ up' \subseteq Page /\ head' \in CacheHead /\ unlisted' = unlisted
        /\ slot' \in [Position -> Name \cup {None}]
    BY <2>2, CacheTyped
  <2>4. disturbed' \in [Sweep -> BOOLEAN]
    BY <1>4 DEF ReclaimPage, DisturbOpen, TypeOK
  <2> QED
    BY <1>4, <2>1, <2>3, <2>4 DEF ReclaimPage, dentries, TypeOK
<1> QED
  BY <1>2, <1>3, <1>4

\* Every step keeps the types.
LEMMA TypeStep ==
  ASSUME TypeOK, Shape, [Next]_vars
  PROVE  TypeOK'
<1>1. ASSUME NEW r \in Sweep, ServeCache(r)
      PROVE  TypeOK'
  <2>1. fpos[r] >= 2
    BY <1>1 DEF ServeCache, Shape
  <2>2. PICK names : Served(r, names)
    BY <1>1, <2>1, ServeIs
  <2> QED
    BY <2>1, <2>2, ServeTyped
<1>2. ASSUME NEW r \in Sweep, Refill(r)
      PROVE  TypeOK'
  <2>1. fpos[r] >= 2
    BY <1>2 DEF Refill, Shape
  <2>2. PICK served, names, L, W, P, failed, partial : Refilled(r, served, names, L, W, P, failed, partial)
    BY <1>2, <2>1, RefillIs
  <2> QED
    BY <2>1, <2>2, RefillTyped
<1>3. CASE UNCHANGED vars
  BY <1>3 DEF vars, cache, dentries, sweeps, TypeOK
<1> QED
  BY <1>1, <1>2, <1>3, OpenCloseTyped, BeginTyped, ChangeTyped, RenameTyped, OthersTyped DEF Next

\* The types hold at the start.
LEMMA TypeInit ==
  ASSUME Init
  PROVE  TypeOK
<1>1. TTL \in Nat /\ MaxEvents \in Nat /\ <<>> \in Seq(Name)
  BY SizeAssumption, EmptySeq
<1>2. NoHead \in CacheHead
  BY <1>1 DEF NoHead, CacheHead, Age
<1>3. 0 \in Age
  BY <1>1 DEF Age
<1>4. /\ slot \in [Position -> Name \cup {None}]
      /\ dent \in [Name -> {"none", "negative", "positive"}]
      /\ fsdata \in [Name -> Position \cup {0}]
  BY DEF Init
<1>5. /\ phase \in [Sweep -> {"closed", "open", "read", "end", "failed"}]
      /\ fpos \in [Sweep -> {0} \cup Position \cup {Cardinality(Name) + 2}]
      /\ first \in [Sweep -> BOOLEAN] /\ got \in [Sweep -> Seq(Name)]
      /\ excuse \in [Sweep -> SUBSET Name] /\ taken \in [Sweep -> SUBSET Name]
      /\ moved \in [Sweep -> BOOLEAN] /\ disturbed \in [Sweep -> BOOLEAN]
  BY <1>1 DEF Init
<1>6. /\ remote \subseteq Name /\ stale \in BOOLEAN /\ inoAge \in Age
      /\ up \subseteq Page /\ head \in CacheHead
  <2>1. inoAge = 0 /\ head = NoHead /\ stale = FALSE /\ up = {} /\ remote \in SUBSET Name
    BY Zenon DEF Init
  <2> QED
    BY <1>2, <1>3, <2>1
<1>7. events \in 0..MaxEvents /\ unlisted \subseteq Name
  BY <1>1 DEF Init
<1> QED
  BY <1>4, <1>5, <1>6, <1>7 DEF TypeOK

-----------------------------------------------------------------------------
(* Heads, positions and counts *)

\* A call that is served from the cache counts what it gives,
LEMMA ShapeServe ==
  ASSUME TypeOK, Shape, NEW r \in Sweep, NEW names, Served(r, names)
  PROVE  Shape'
<1>1. /\ UNCHANGED <<up, head, dent, fsdata, moved>> /\ phase[r] = "read" /\ fpos[r] >= 2
      /\ names \in Seq(Name) /\ Len(names) \in Nat
      /\ fpos[r] \in Nat
      /\ got[r] \in Seq(Name) /\ Len(got[r]) \in Nat
  BY Sizes, LenProperties DEF Served, cache, dentries, Shape, TypeOK
<1>2. /\ \A q \in Sweep : q # r => phase'[q] = phase[q] /\ fpos'[q] = fpos[q] /\ got'[q] = got[q]
                                    /\ disturbed'[q] = disturbed[q]
      /\ phase'[r] \in {"open", "end", "failed"} /\ fpos'[r] = fpos[r] + Len(names)
      /\ got'[r] = IF moved[r] THEN <<>> ELSE got[r] \o names
  BY DEF Served, Give, TypeOK
<1>3. Len(got[r] \o names) = Len(got[r]) + Len(names)
  BY <1>1, ConcatProperties
<1>4. ASSUME NEW q \in Sweep
      PROVE  /\ moved'[q] => got'[q] = <<>>
             /\ phase'[q] = "closed" => fpos'[q] = 0 /\ got'[q] = <<>> /\ ~moved'[q] /\ ~disturbed'[q]
             /\ phase'[q] = "read" => fpos'[q] >= 2
             /\ phase'[q] \in {"open", "read"} /\ ~moved'[q]
                  => Len(got'[q]) = IF fpos'[q] = 0 THEN 0 ELSE fpos'[q] - 2
  <2>1. CASE q # r
    BY <1>1, <1>2, <2>1, Zenon DEF Shape, Under
  <2>2. CASE q = r
    <3>1. moved'[r] => got'[r] = <<>>
      BY <1>1, <1>2
    <3>2. ~moved[r] => Len(got[r]) = fpos[r] - 2
      BY <1>1 DEF Shape, Under
    <3>3. ~moved'[r] => Len(got'[r]) = IF fpos'[r] = 0 THEN 0 ELSE fpos'[r] - 2
      <4>1. \A a, b \in Nat : a >= 2 => a + b # 0 /\ (a - 2) + b = (a + b) - 2
        OBVIOUS
      <4>2. fpos[r] + Len(names) # 0 /\ (fpos[r] - 2) + Len(names) = (fpos[r] + Len(names)) - 2
        BY <1>1, <4>1, Zenon
      <4>3. ~moved'[r] => Len(got'[r]) = (fpos[r] - 2) + Len(names)
        BY <1>1, <1>2, <1>3, <3>2, Zenon
      <4> QED
        BY <1>2, <4>2, <4>3, Zenon
    <3> QED
      BY <1>2, <2>2, <3>1, <3>3
  <2> QED
    BY <2>1, <2>2
<1> QED
  BY <1>1, <1>4 DEF Shape, Under

\* and so does one that reads the listing again, if its names have not moved.
LEMMA ShapeRefill ==
  ASSUME TypeOK, Shape, NEW r \in Sweep, fpos[r] >= 2, NEW served, NEW names, NEW L, NEW W, NEW P,
         NEW failed, NEW partial, Refilled(r, served, names, L, W, P, failed, partial)
  PROVE  Shape'
<1>1. /\ names \in Seq(Name) /\ L \in Seq(Name) /\ 0 \in P /\ phase[r] = "read"
      /\ FillCache(L, P) /\ Give(r, names, failed)
      /\ got' = [q \in Sweep |-> IF moved'[q] THEN <<>> ELSE IF q = r THEN got[r] \o names ELSE got[q]]
  BY Zenon DEF Refilled
<1>2. fpos[r] \in Nat /\ Len(names) \in Nat /\ got[r] \in Seq(Name) /\ Len(got[r]) \in Nat
  BY <1>1, Sizes, LenProperties DEF TypeOK
<1>3. 0 \in up' /\ \A n \in Name : dent'[n] = "none" => fsdata'[n] = 0
  BY <1>1 DEF FillCache
<1>4. /\ \A q \in Sweep : q # r => phase'[q] = phase[q] /\ fpos'[q] = fpos[q]
      /\ phase'[r] \in {"open", "end", "failed"} /\ fpos'[r] = fpos[r] + Len(names)
  BY <1>1 DEF Give, TypeOK
<1>5. \A q \in Sweep : moved[q] => moved'[q]
  BY DEF Refilled
<1>6. \A q \in Sweep : phase[q] = "closed" => (moved'[q] <=> moved[q]) /\ (disturbed'[q] <=> disturbed[q])
  <2>1. \A q \in Sweep : phase[q] = "closed" => q # r /\ ~Under(q)
    BY <1>1 DEF Under
  <2> QED
    BY <2>1 DEF Refilled
<1>7. Len(got[r] \o names) = Len(got[r]) + Len(names)
  BY <1>1, <1>2, ConcatProperties
<1>8. ASSUME NEW q \in Sweep
      PROVE  /\ moved'[q] => got'[q] = <<>>
             /\ phase'[q] = "closed" => fpos'[q] = 0 /\ got'[q] = <<>> /\ ~moved'[q] /\ ~disturbed'[q]
             /\ phase'[q] = "read" => fpos'[q] >= 2
             /\ phase'[q] \in {"open", "read"} /\ ~moved'[q]
                  => Len(got'[q]) = IF fpos'[q] = 0 THEN 0 ELSE fpos'[q] - 2
  <2>1. moved'[q] => got'[q] = <<>>
    BY <1>1
  <2>2. CASE q # r
    <3>1. ~moved'[q] => got'[q] = got[q] /\ ~moved[q]
      BY <1>1, <1>5, <2>2
    <3>2. phase'[q] = phase[q] /\ fpos'[q] = fpos[q]
      BY <1>4, <2>2
    <3>3. phase[q] = "closed" => fpos[q] = 0 /\ got[q] = <<>> /\ ~moved[q] /\ ~disturbed[q]
      BY DEF Shape
    <3>4. phase[q] = "read" => fpos[q] >= 2
      BY DEF Shape
    <3>5. phase[q] \in {"open", "read"} /\ ~moved[q] => Len(got[q]) = IF fpos[q] = 0 THEN 0 ELSE fpos[q] - 2
      BY DEF Shape, Under
    <3>6. phase[q] = "closed" => ~moved'[q] /\ ~disturbed'[q]
      BY <1>6, <3>3
    <3> QED
      BY <2>1, <3>1, <3>2, <3>3, <3>4, <3>5, <3>6, Zenon
  <2>3. CASE q = r
    <3>1. ~moved'[r] => got'[r] = got[r] \o names /\ ~moved[r]
      BY <1>1, <1>5
    <3>2. ~moved[r] => Len(got[r]) = fpos[r] - 2
      BY <1>1, <1>2 DEF Shape, Under
    <3>3. ~moved'[r] => Len(got'[r]) = IF fpos'[r] = 0 THEN 0 ELSE fpos'[r] - 2
      <4>1. \A a, b \in Nat : a >= 2 => a + b # 0 /\ (a - 2) + b = (a + b) - 2
        OBVIOUS
      <4>2. fpos[r] + Len(names) # 0 /\ (fpos[r] - 2) + Len(names) = (fpos[r] + Len(names)) - 2
        BY <1>2, <4>1, Zenon
      <4>3. ~moved'[r] => Len(got'[r]) = (fpos[r] - 2) + Len(names)
        BY <1>7, <3>1, <3>2, Zenon
      <4> QED
        BY <1>4, <4>2, <4>3, Zenon
    <3> QED
      BY <1>4, <2>1, <2>3, <3>3
  <2> QED
    BY <2>2, <2>3
<1> QED
  BY <1>3, <1>8 DEF Shape, Under

\* A pointer more, a younger head or a page fewer.
LEMMA ShapeCache ==
  ASSUME Shape
  PROVE  /\ \A S : DropPages(S) => (0 \notin up' => head' = NoHead)
         /\ InvalidDirCache /\ up' = up => (0 \notin up' => head' = NoHead)
<1>1. ASSUME NEW S, DropPages(S), 0 \notin up'
      PROVE  head' = NoHead
  BY <1>1 DEF DropPages, Shape
<1>2. ASSUME InvalidDirCache, up' = up, 0 \notin up'
      PROVE  head' = NoHead
  BY <1>2 DEF InvalidDirCache, Shape
<1> QED
  BY <1>1, <1>2

\* The beginning of a call gives no name.
LEMMA ShapeBegin ==
  ASSUME TypeOK, Shape, NEW r \in Sweep, Begin(r)
  PROVE  Shape'
<1>1. 0 \notin up' => head' = NoHead
  <2>1. UNCHANGED cache \/ DropPages(Page)
    BY DEF Begin
  <2> QED
    BY <2>1, ShapeCache DEF cache, Shape
<1>2. UNCHANGED <<dent, fsdata, got, moved>>
  BY DEF Begin, dentries
<1>3. /\ \A q \in Sweep : q # r => phase'[q] = phase[q] /\ fpos'[q] = fpos[q]
      /\ phase'[r] \in {"open", "read", "failed"} /\ phase[r] = "open"
      /\ fpos'[r] = IF fpos[r] = 0 THEN 2 ELSE fpos[r]
      /\ \A q \in Sweep : ~Under(q) => disturbed'[q] = disturbed[q]
  BY DEF Begin, TypeOK, DisturbOpen, Under
<1>4. fpos[r] \in Nat /\ (fpos[r] = 0 \/ fpos[r] >= 2)
  BY Sizes
<1>5. ASSUME NEW q \in Sweep
      PROVE  /\ moved'[q] => got'[q] = <<>>
             /\ phase'[q] = "closed" => fpos'[q] = 0 /\ got'[q] = <<>> /\ ~moved'[q] /\ ~disturbed'[q]
             /\ phase'[q] = "read" => fpos'[q] >= 2
             /\ phase'[q] \in {"open", "read"} /\ ~moved'[q]
                  => Len(got'[q]) = IF fpos'[q] = 0 THEN 0 ELSE fpos'[q] - 2
  <2>1. CASE q # r
    BY <1>2, <1>3, <2>1 DEF Shape, Under
  <2>2. CASE q = r
    <3>1. ~moved[r] => Len(got[r]) = IF fpos[r] = 0 THEN 0 ELSE fpos[r] - 2
      BY <1>3 DEF Shape, Under
    <3>2. moved[r] => got[r] = <<>>
      BY DEF Shape
    <3> QED
      BY <1>2, <1>3, <1>4, <2>2, <3>1, <3>2
  <2> QED
    BY <2>1, <2>2
<1>6. \A n \in Name : dent'[n] = "none" => fsdata'[n] = 0
  BY <1>2 DEF Shape
<1> QED
  BY <1>1, <1>5, <1>6 DEF Shape, Under

\* A sweep begins with nothing, and ends so.
LEMMA ShapeOpenClose ==
  ASSUME TypeOK, Shape, NEW r \in Sweep, Open(r) \/ Close(r)
  PROVE  Shape'
<1>1. UNCHANGED <<up, head, dent, fsdata>> /\ Len(<<>>) = 0
  BY EmptySeq DEF Open, Close, cache, dentries
<1>2. \A q \in Sweep : q # r => /\ phase'[q] = phase[q] /\ fpos'[q] = fpos[q] /\ got'[q] = got[q]
                                /\ moved'[q] = moved[q] /\ disturbed'[q] = disturbed[q]
  BY DEF Open, Close, TypeOK
<1>3. /\ fpos'[r] = 0 /\ got'[r] = <<>> /\ ~moved'[r] /\ ~disturbed'[r]
      /\ phase'[r] \in {"open", "closed"}
  BY DEF Open, Close, TypeOK, Shape
<1>4. ASSUME NEW q \in Sweep
      PROVE  /\ moved'[q] => got'[q] = <<>>
             /\ phase'[q] = "closed" => fpos'[q] = 0 /\ got'[q] = <<>> /\ ~moved'[q] /\ ~disturbed'[q]
             /\ phase'[q] = "read" => fpos'[q] >= 2
             /\ phase'[q] \in {"open", "read"} /\ ~moved'[q]
                  => Len(got'[q]) = IF fpos'[q] = 0 THEN 0 ELSE fpos'[q] - 2
  <2>1. CASE q # r
    BY <1>2, <2>1 DEF Shape, Under
  <2>2. CASE q = r
    BY <1>1, <1>3, <2>2
  <2> QED
    BY <2>1, <2>2
<1>5. /\ 0 \notin up' => head' = NoHead
      /\ \A n \in Name : dent'[n] = "none" => fsdata'[n] = 0
  BY <1>1 DEF Shape
<1> QED
  BY <1>4, <1>5 DEF Shape, Under

\* What leaves the sweeps where they are.
LEMMA ShapeOthers ==
  ASSUME TypeOK, Shape,
         \/ \E n \in Name : Create(n) \/ Unlink(n) \/ RemoteChange(n) \/ Lookup(n) \/ ReclaimDentry(n)
         \/ \E a, b \in Name : Rename(a, b) \/ RenameFails(b)
         \/ RemoveFails \/ Tick \/ \E P \in Page : ReclaimPage(P)
  PROVE  Shape'
<1>1. /\ UNCHANGED <<phase, fpos, got, moved>>
      /\ \A q \in Sweep : ~Under(q) => disturbed'[q] = disturbed[q]
  <2>1. CASE \E a, b \in Name : Rename(a, b) \/ RenameFails(b)
    <3>1. UNCHANGED <<phase, fpos, got, moved>>
      BY <2>1 DEF Rename, RenameFails
    <3>2. ASSUME NEW a \in Name, NEW b \in Name, Rename(a, b) \/ RenameFails(b)
          PROVE  \A q \in Sweep : ~Under(q) => disturbed'[q] = disturbed[q]
      <4>1. CASE Rename(a, b)
        BY <4>1 DEF Rename, Awaits, TypeOK
      <4>2. CASE RenameFails(b)
        BY <4>2 DEF RenameFails, Awaits, TypeOK
      <4> QED
        BY <3>2, <4>1, <4>2
    <3> QED
      BY <2>1, <3>1, <3>2
  <2>2. CASE \/ \E n \in Name : Create(n) \/ Unlink(n) \/ RemoteChange(n) \/ Lookup(n) \/ ReclaimDentry(n)
             \/ RemoveFails \/ Tick \/ \E P \in Page : ReclaimPage(P)
    BY <2>2 DEF Create, Unlink, RemoteChange, Lookup, ReclaimDentry, RemoveFails, Tick, ReclaimPage, sweeps,
           DisturbOpen, Awaits, TypeOK
  <2> QED
    BY <2>1, <2>2
<1>2. 0 \notin up' => head' = NoHead
  <2>1. CASE \E n \in Name : Create(n) \/ Unlink(n) \/ RemoteChange(n) \/ Lookup(n) \/ ReclaimDentry(n)
    BY <2>1, ShapeCache DEF Create, Unlink, RemoteChange, Lookup, ReclaimDentry, Shape
  <2>2. CASE RemoveFails \/ Tick
    BY <2>2, ShapeCache DEF RemoveFails, Tick, Shape
  <2>3. CASE \E P \in Page : ReclaimPage(P)
    BY <2>3, ShapeCache DEF ReclaimPage
  <2>4. CASE \E a, b \in Name : Rename(a, b) \/ RenameFails(b)
    BY <2>4, ShapeCache DEF Rename, RenameFails
  <2> QED
    BY <2>1, <2>2, <2>3, <2>4
<1>3. \A n \in Name : dent'[n] = "none" => fsdata'[n] = 0
  <2>1. ASSUME NEW n \in Name, Create(n) \/ Unlink(n) \/ Lookup(n)
        PROVE  fsdata' = fsdata /\ \A m \in Name : dent'[m] = "none" => dent[m] = "none"
    BY <2>1 DEF Create, Unlink, Lookup, Alloc, TypeOK
  <2>2. ASSUME NEW n \in Name, ReclaimDentry(n)
        PROVE  \A m \in Name : dent'[m] = "none" => fsdata'[m] = 0
    BY <2>2 DEF ReclaimDentry, TypeOK, Shape
  <2>3. CASE RemoveFails \/ Tick \/ (\E P \in Page : ReclaimPage(P)) \/ \E n \in Name : RemoteChange(n)
    BY <2>3 DEF RemoveFails, Tick, ReclaimPage, RemoteChange, dentries, Shape
  <2>4. ASSUME NEW a \in Name, NEW b \in Name, Rename(a, b) \/ RenameFails(b)
        PROVE  \A m \in Name : dent'[m] = "none" => fsdata'[m] = 0
    BY <2>4 DEF Rename, RenameFails, TypeOK, Shape
  <2> QED
    BY <2>1, <2>2, <2>3, <2>4 DEF Shape
<1>4. ASSUME NEW q \in Sweep
      PROVE  /\ moved'[q] => got'[q] = <<>>
             /\ phase'[q] = "closed" => fpos'[q] = 0 /\ got'[q] = <<>> /\ ~moved'[q] /\ ~disturbed'[q]
             /\ phase'[q] = "read" => fpos'[q] >= 2
             /\ phase'[q] \in {"open", "read"} /\ ~moved'[q]
                  => Len(got'[q]) = IF fpos'[q] = 0 THEN 0 ELSE fpos'[q] - 2
  BY <1>1 DEF Shape, Under
<1> QED
  BY <1>2, <1>3, <1>4 DEF Shape, Under

\* Every step keeps them.
LEMMA ShapeStep ==
  ASSUME TypeOK, Shape, [Next]_vars
  PROVE  Shape'
<1>1. ASSUME NEW r \in Sweep, ServeCache(r)
      PROVE  Shape'
  <2>1. fpos[r] >= 2
    BY <1>1 DEF ServeCache, Shape
  <2>2. PICK names : Served(r, names)
    BY <1>1, <2>1, ServeIs
  <2> QED
    BY <2>2, ShapeServe
<1>2. ASSUME NEW r \in Sweep, Refill(r)
      PROVE  Shape'
  <2>1. fpos[r] >= 2
    BY <1>2 DEF Refill, Shape
  <2>2. PICK served, names, L, W, P, failed, partial : Refilled(r, served, names, L, W, P, failed, partial)
    BY <1>2, <2>1, RefillIs
  <2> QED
    BY <2>1, <2>2, ShapeRefill
<1>3. CASE UNCHANGED vars
  BY <1>3 DEF vars, cache, dentries, sweeps, Shape, Under
<1> QED
  BY <1>1, <1>2, <1>3, ShapeOpenClose, ShapeBegin, ShapeOthers DEF Next

\* They hold at the start.
LEMMA ShapeInit ==
  ASSUME Init
  PROVE  Shape
<1>1. up = {} /\ head = NoHead /\ \A n \in Name : fsdata[n] = 0
  BY DEF Init
<1>2. \A r \in Sweep : phase[r] = "closed" /\ fpos[r] = 0 /\ got[r] = <<>> /\ ~moved[r] /\ ~disturbed[r]
  BY DEF Init
<1> QED
  BY <1>1, <1>2 DEF Shape, Under

-----------------------------------------------------------------------------
(* The listing the cache was filled from *)

\* What follows a listing that is true of the directory is right.
LEMMA RightFollows ==
  ASSUME NEW L \in Seq(Name), NEW B \in Seq(Name), NEW R, NEW E, NEW T, Follows(B, L, E, T), R \ E = ToSet(L) \ E
  PROVE  Apart(B, B, T) /\ ToSet(B) \subseteq R \cup E
<1>1. Len(B) \in Nat /\ Len(L) \in Nat /\ Len(B) <= Len(L) /\ Apart(B, B, T)
  BY LenProperties DEF Follows
<1>2. ASSUME NEW x \in ToSet(B), x \notin E
      PROVE  x \in ToSet(L)
  <2>1. PICK i \in 1..Len(B) : B[i] = x
    BY MembersOf
  <2>2. i \in 1..Len(L) /\ L[i] = x
    BY <1>1, <1>2, <2>1 DEF Follows
  <2> QED
    BY <2>2, MembersOf
<1> QED
  BY <1>1, <1>2

\* A sweep that was given all of the listing was given what it promises.
LEMMA AllGiven ==
  ASSUME NEW L \in Seq(Name), NEW B \in Seq(Name), NEW R, NEW E, NEW T, Follows(B, L, E, T),
         Len(L) <= Len(B), R \ E = ToSet(L) \ E
  PROVE  /\ \A i, j \in DOMAIN B : B[i] = B[j] => i = j \/ B[i] \in T
         /\ R \ E \subseteq ToSet(B)
         /\ ToSet(B) \subseteq R \cup E
<1>1. /\ Len(L) \in Nat /\ Len(B) \in Nat /\ DOMAIN B = 1..Len(B)
      /\ \A x : x \in ToSet(L) <=> \E i \in 1..Len(L) : L[i] = x
      /\ \A x : x \in ToSet(B) <=> \E i \in 1..Len(B) : B[i] = x
  BY MembersOf
<1>2. Len(B) = Len(L)
  BY <1>1 DEF Follows
<1>3. \A i \in 1..Len(L) : L[i] \notin E => B[i] = L[i]
  BY <1>2, Zenon DEF Follows
<1>4. ASSUME NEW x \in ToSet(L), x \notin E
      PROVE  x \in ToSet(B)
  BY <1>1, <1>2, <1>3, <1>4, Zenon
<1>5. Apart(B, B, T) /\ ToSet(B) \subseteq R \cup E
  BY RightFollows
<1>6. \A i, j \in DOMAIN B : B[i] = B[j] => i = j \/ B[i] \in T
  BY <1>1, <1>5, Zenon DEF Apart
<1> QED
  BY <1>4, <1>5, <1>6

\* What keeps the listing, and what was given of it: positions are only lost,
\* the head ages or goes, and each name that comes or goes is noted.
LEMMA LaidSteady ==
  ASSUME TypeOK, SweepExact, NEW L \in Seq(Name), Laid(L),
         \A n \in Name : fsdata'[n] # 0 => fsdata'[n] = fsdata[n],
         head'.eof => head.eof /\ head'.end = head.end,
         head'.age < TTL => /\ head.age < TTL
                            /\ \A x : x \notin unlisted' => x \notin unlisted /\ (x \in remote' <=> x \in remote),
         \A q \in Sweep : ~moved'[q] /\ ((phase'[q] \in {"open", "read"} /\ fpos'[q] > 2) \/ phase'[q] = "end") =>
           /\ (phase'[q] = "end" <=> phase[q] = "end") /\ (Under(q) \/ phase[q] = "end") /\ ~moved[q]
           /\ fpos'[q] = fpos[q] /\ got'[q] = got[q] /\ taken'[q] = taken[q]
           /\ \A x : x \notin excuse'[q] => x \notin excuse[q] /\ (x \in remote' <=> x \in remote)
  PROVE  Laid(L)' /\ SweepExact'
<1>1. ASSUME NEW n \in Name, fsdata'[n] # 0
      PROVE  fsdata'[n] - 1 \in 1..Len(L) /\ L[fsdata'[n] - 1] = n
  <2>1. fsdata'[n] = fsdata[n]
    BY <1>1, Zenon
  <2>2. \A x \in Name : fsdata[x] # 0 => fsdata[x] - 1 \in 1..Len(L) /\ L[fsdata[x] - 1] = x
    BY Zenon DEF Laid
  <2>3. fsdata[n] - 1 \in 1..Len(L) /\ L[fsdata[n] - 1] = n
    BY <1>1, <2>1, <2>2, Zenon
  <2> QED
    BY <2>1, <2>3, Zenon
<1>2. head'.eof => head'.end = Len(L) + 1
  BY Zenon DEF Laid
<1>3. ASSUME head'.age < TTL
      PROVE  Once(L) /\ remote' \ unlisted' = ToSet(L) \ unlisted'
  <2>1. Once(L) /\ remote \ unlisted = ToSet(L) \ unlisted
    BY <1>3 DEF Laid
  <2>2. \A x : x \notin unlisted' => x \notin unlisted /\ (x \in remote' <=> x \in remote)
    BY <1>3
  <2> QED
    BY <2>1, <2>2
<1>4. ASSUME NEW q \in Sweep, phase'[q] \in {"open", "read"}, ~moved'[q], fpos'[q] > 2
      PROVE  /\ fpos'[q] - 2 <= Len(L) /\ Follows(got'[q], L, excuse'[q], taken'[q])
             /\ remote' \ excuse'[q] = ToSet(L) \ excuse'[q]
  <2>1. /\ Under(q) /\ ~moved[q] /\ fpos'[q] = fpos[q] /\ got'[q] = got[q] /\ taken'[q] = taken[q]
        /\ \A x : x \notin excuse'[q] => x \notin excuse[q] /\ (x \in remote' <=> x \in remote)
    BY <1>4
  <2>2. fpos[q] > 2
    BY <1>4, <2>1
  <2>3. /\ fpos[q] - 2 <= Len(L) /\ Follows(got[q], L, excuse[q], taken[q])
        /\ remote \ excuse[q] = ToSet(L) \ excuse[q]
    BY <2>1, <2>2, Zenon DEF Laid
  <2>4. remote' \ excuse'[q] = ToSet(L) \ excuse'[q]
    BY <2>1, <2>3
  <2>5. excuse[q] \subseteq excuse'[q]
    BY <2>1
  <2>6. Follows(got'[q], L, excuse'[q], taken'[q])
    BY <2>1, <2>3, <2>5, Zenon DEF Follows
  <2> QED
    BY <2>1, <2>3, <2>4, <2>6
<1>6. ASSUME NEW q \in Sweep, phase'[q] = "end", ~moved'[q]
      PROVE  /\ \A i, j \in DOMAIN got'[q] : got'[q][i] = got'[q][j] => i = j \/ got'[q][i] \in taken'[q]
             /\ remote' \ excuse'[q] \subseteq ToSet(got'[q])
             /\ ToSet(got'[q]) \subseteq remote' \cup excuse'[q]
  <2>1. /\ phase[q] = "end" /\ ~moved[q] /\ got'[q] = got[q] /\ taken'[q] = taken[q]
        /\ \A x : x \notin excuse'[q] => x \notin excuse[q] /\ (x \in remote' <=> x \in remote)
    BY <1>6
  <2>2. /\ \A i, j \in DOMAIN got[q] : got[q][i] = got[q][j] => i = j \/ got[q][i] \in taken[q]
        /\ remote \ excuse[q] \subseteq ToSet(got[q])
        /\ ToSet(got[q]) \subseteq remote \cup excuse[q]
    BY <2>1, Zenon DEF SweepExact
  <2>3. remote' \ excuse'[q] \subseteq ToSet(got[q]) /\ ToSet(got[q]) \subseteq remote' \cup excuse'[q]
    BY <2>1, <2>2
  <2> QED
    BY <2>1, <2>2, <2>3
<1>7. Laid(L)'
  BY <1>1, <1>2, <1>3, <1>4 DEF Laid, Under, Once, Follows, Apart
<1>8. SweepExact'
  BY <1>6 DEF SweepExact, ToSet
<1> QED
  BY <1>7, <1>8

\* What the directory and the memory do.
LEMMA LaidOthers ==
  ASSUME TypeOK, Shape, SweepExact, NEW L \in Seq(Name), Laid(L),
         \/ \E n \in Name : Create(n) \/ Unlink(n) \/ RemoteChange(n) \/ Lookup(n) \/ ReclaimDentry(n) \/ RenameFails(n)
         \/ RemoveFails \/ Tick \/ \E P \in Page : ReclaimPage(P)
  PROVE  Laid(L)' /\ SweepExact'
<1>1. UNCHANGED <<phase, fpos, got, taken, moved>>
  BY DEF Create, Unlink, RemoteChange, Lookup, ReclaimDentry, RenameFails, RemoveFails, Tick, ReclaimPage, sweeps
<1>2. \A n \in Name : fsdata'[n] # 0 => fsdata'[n] = fsdata[n]
  BY DEF Create, Unlink, RemoteChange, Lookup, ReclaimDentry, RenameFails, RemoveFails, Tick, ReclaimPage, dentries,
         TypeOK
<1>3. TTL \in Nat /\ head \in CacheHead /\ head.age \in Nat /\ TTL >= 1
  BY Sizes DEF TypeOK
<1>4. InvalidDirCache => ~(head'.age < TTL) /\ (head'.eof => head.eof /\ head'.end = head.end)
  BY <1>3 DEF InvalidDirCache, Shape, NoHead, CacheHead
<1>5. \A S : DropPages(S) => /\ head'.age < TTL => head.age < TTL
                             /\ head'.eof => head.eof /\ head'.end = head.end
                             /\ unlisted' = unlisted
  BY <1>3 DEF DropPages, NoHead
<1>6. Tick => /\ head'.age < TTL => head.age < TTL
              /\ head'.eof => head.eof /\ head'.end = head.end
              /\ unlisted' = unlisted
  BY <1>3 DEF Tick, CacheHead, Least, Age
<1>7. head'.eof => head.eof /\ head'.end = head.end
  <2>1. ASSUME NEW n \in Name, Create(n) \/ Unlink(n) \/ RemoteChange(n) \/ Lookup(n) \/ ReclaimDentry(n)
        PROVE  InvalidDirCache \/ head' = head
    BY <2>1 DEF Create, Unlink, RemoteChange, Lookup, ReclaimDentry
  <2>2. RemoveFails \/ (\E n \in Name : RenameFails(n)) => InvalidDirCache
    BY DEF RemoveFails, RenameFails
  <2>3. ASSUME NEW P \in Page, ReclaimPage(P)
        PROVE  DropPages({P})
    BY <2>3 DEF ReclaimPage
  <2> QED
    BY <1>4, <1>5, <1>6, <2>1, <2>2, <2>3
<1>8. ASSUME head'.age < TTL
      PROVE  /\ head.age < TTL
             /\ \A x : x \notin unlisted' => x \notin unlisted /\ (x \in remote' <=> x \in remote)
  <2>1. ASSUME NEW n \in Name, Create(n) \/ Unlink(n)
        PROVE  FALSE
    BY <1>4, <1>8, <2>1 DEF Create, Unlink
  <2>2. ASSUME NEW n \in Name, RemoteChange(n)
        PROVE  /\ head' = head /\ unlisted' = unlisted \cup {n}
               /\ \A x : x # n => (x \in remote' <=> x \in remote)
    BY <2>2 DEF RemoteChange
  <2>3. ASSUME NEW n \in Name, Lookup(n) \/ ReclaimDentry(n)
        PROVE  UNCHANGED <<remote, head, unlisted>>
    BY <2>3 DEF Lookup, ReclaimDentry
  <2>4. ~RemoveFails /\ ~(\E n \in Name : RenameFails(n))
    BY <1>4, <1>8 DEF RemoveFails, RenameFails
  <2>5. ASSUME NEW P \in Page, ReclaimPage(P)
        PROVE  DropPages({P}) /\ remote' = remote
    BY <2>5 DEF ReclaimPage
  <2>6. Tick => remote' = remote
    BY DEF Tick
  <2>7. CASE \E n \in Name : RemoteChange(n)
    <3>1. PICK n \in Name : RemoteChange(n)
      BY <2>7
    <3> QED
      BY <1>8, <2>2, <3>1
  <2>8. CASE (\E n \in Name : Lookup(n) \/ ReclaimDentry(n)) \/ Tick \/ \E P \in Page : ReclaimPage(P)
    BY <1>5, <1>6, <1>8, <2>3, <2>5, <2>6, <2>8
  <2> QED
    BY <2>1, <2>4, <2>7, <2>8
<1>9. ASSUME NEW q \in Sweep, phase'[q] # "closed"
      PROVE  \A x : x \notin excuse'[q] => x \notin excuse[q] /\ (x \in remote' <=> x \in remote)
  <2>1. ASSUME NEW n \in Name, Create(n) \/ Unlink(n) \/ RemoteChange(n)
        PROVE  excuse'[q] = excuse[q] \cup {n} /\ \A x : x # n => (x \in remote' <=> x \in remote)
    BY <1>1, <1>9, <2>1 DEF Create, Unlink, RemoteChange, Touch
  <2>2. CASE \E n \in Name : Create(n) \/ Unlink(n) \/ RemoteChange(n)
    BY <2>1, <2>2
  <2>3. ASSUME NEW n \in Name, Lookup(n) \/ ReclaimDentry(n) \/ RenameFails(n)
        PROVE  UNCHANGED <<remote, excuse>>
    BY <2>3 DEF Lookup, ReclaimDentry, RenameFails, sweeps
  <2>4. CASE RemoveFails \/ Tick \/ \E P \in Page : ReclaimPage(P)
    BY <2>4 DEF RemoveFails, Tick, ReclaimPage, sweeps
  <2> QED
    BY <2>2, <2>3, <2>4
<1>10. \A q \in Sweep : ~moved'[q] /\ ((phase'[q] \in {"open", "read"} /\ fpos'[q] > 2) \/ phase'[q] = "end") =>
           /\ (phase'[q] = "end" <=> phase[q] = "end") /\ (Under(q) \/ phase[q] = "end") /\ ~moved[q]
           /\ fpos'[q] = fpos[q] /\ got'[q] = got[q] /\ taken'[q] = taken[q]
           /\ \A x : x \notin excuse'[q] => x \notin excuse[q] /\ (x \in remote' <=> x \in remote)
  BY <1>1, <1>9 DEF Under
<1> QED
  BY <1>2, <1>7, <1>8, <1>10, LaidSteady, Zenon

\* Where the listing had a name that is changed it has the new one, which may
\* be there twice.
LEMMA Renamed ==
  ASSUME NEW L \in Seq(Name), NEW M \in Seq(Name), Len(M) = Len(L), NEW a, NEW b,
         \A i \in 1..Len(L) : M[i] = L[i] \/ (L[i] = a /\ M[i] = b),
         NEW R, NEW E, R \ E = ToSet(L) \ E
  PROVE  /\ ((R \ {a}) \cup {b}) \ (E \cup {a, b}) = ToSet(M) \ (E \cup {a, b})
         /\ \A B, T : Follows(B, L, E, T) => Follows(B, M, E \cup {a, b}, T \cup {b})
<1>1. ASSUME NEW x, x # a, x # b
      PROVE  x \in ToSet(M) <=> x \in ToSet(L)
  <2>1. \A i \in 1..Len(L) : M[i] = x <=> L[i] = x
    BY <1>1, Zenon
  <2>2. /\ x \in ToSet(L) <=> \E i \in 1..Len(L) : L[i] = x
        /\ x \in ToSet(M) <=> \E i \in 1..Len(L) : M[i] = x
    BY MembersOf
  <2> QED
    BY <2>1, <2>2, Zenon
<1>2. ((R \ {a}) \cup {b}) \ (E \cup {a, b}) = ToSet(M) \ (E \cup {a, b})
  BY <1>1
<1>3. ASSUME NEW B, NEW T, Follows(B, L, E, T)
      PROVE  Follows(B, M, E \cup {a, b}, T \cup {b})
  <2>1. Apart(L, L, T) /\ Apart(B, L, T) /\ Apart(B, B, T) /\ Len(B) <= Len(M)
    BY <1>3, Zenon DEF Follows
  <2>2. Apart(M, M, T \cup {b})
    <3> SUFFICES ASSUME NEW i \in 1..Len(L), NEW j \in 1..Len(L), M[i] = M[j], M[i] # b
                 PROVE  i = j \/ M[i] \in T
      BY DEF Apart
    <3>1. M[i] = L[i] /\ M[j] = L[j]
      BY Zenon
    <3> QED
      BY <2>1, <3>1, Zenon DEF Apart
  <2>3. Apart(B, M, T \cup {b})
    <3> SUFFICES ASSUME NEW i \in 1..Len(B), NEW j \in 1..Len(L), B[i] = M[j], B[i] # b
                 PROVE  i = j \/ B[i] \in T
      BY DEF Apart
    <3>1. M[j] = L[j]
      BY Zenon
    <3> QED
      BY <2>1, <3>1, Zenon DEF Apart
  <2>4. Apart(B, B, T \cup {b})
    BY <2>1 DEF Apart
  <2>5. ASSUME NEW i \in 1..Len(B)
        PROVE  B[i] = M[i] \/ (B[i] \in E \cup {a, b} /\ M[i] \in E \cup {a, b})
    <3>1. i \in 1..Len(L)
      BY <1>3, LenProperties DEF Follows
    <3>2. B[i] = L[i] \/ (B[i] \in E /\ L[i] \in E)
      BY <1>3 DEF Follows
    <3> QED
      BY <3>1, <3>2
  <2> QED
    BY <2>1, <2>2, <2>3, <2>4, <2>5 DEF Follows
<1> QED
  BY <1>2, <1>3

\* A rename: the dentry keeps its position, under the new name.
LEMMA LaidRename ==
  ASSUME TypeOK, Shape, SweepExact, NEW L \in Seq(Name), Laid(L), NEW a \in Name, NEW b \in Name, Rename(a, b)
  PROVE  Kept' /\ SweepExact'
<1>1. /\ a # b /\ remote' = (remote \ {a}) \cup {b} /\ InvalidDirCache
      /\ \A n \in Name : fsdata'[n] = IF n = a THEN 0 ELSE IF n = b THEN fsdata[a] ELSE fsdata[n]
      /\ UNCHANGED <<phase, fpos, got, moved, up>>
      /\ \A q \in Sweep : phase[q] # "closed" => excuse'[q] = excuse[q] \cup {a, b}
      /\ \A q \in Sweep : taken'[q] = IF Under(q) /\ got[q] # <<>> THEN taken[q] \cup {b} ELSE taken[q]
  BY DEF Rename, Touch, TypeOK
<1>2. Len(L) \in Nat /\ DOMAIN L = 1..Len(L) /\ \A i \in 1..Len(L) : L[i] \in Name
  BY MembersOf
<1>3. \A n \in Name : fsdata[n] # 0 => fsdata[n] - 1 \in 1..Len(L) /\ L[fsdata[n] - 1] = n
  BY DEF Laid
<1>4. PICK M : M = [i \in 1..Len(L) |-> IF fsdata[a] # 0 /\ i = fsdata[a] - 1 THEN b ELSE L[i]]
  OBVIOUS
<1>5. /\ M \in Seq(Name) /\ Len(M) = Len(L)
      /\ \A i \in 1..Len(L) : M[i] = IF fsdata[a] # 0 /\ i = fsdata[a] - 1 THEN b ELSE L[i]
  <2>1. M \in [1..Len(L) -> Name]
    BY <1>2, <1>4
  <2> QED
    BY <1>2, <1>4, <2>1
<1>6. \A i \in 1..Len(L) : M[i] = L[i] \/ (L[i] = a /\ M[i] = b)
  BY <1>3, <1>5
<1>7. ASSUME NEW n \in Name, fsdata'[n] # 0
      PROVE  fsdata'[n] - 1 \in 1..Len(M) /\ M[fsdata'[n] - 1] = n
  <2>1. CASE n = b
    <3>1. fsdata'[n] = fsdata[a] /\ fsdata[a] # 0
      BY <1>1, <1>7, <2>1
    <3>2. fsdata[a] - 1 \in 1..Len(L) /\ M[fsdata[a] - 1] = b
      BY <1>3, <1>5, <3>1
    <3> QED
      BY <1>5, <2>1, <3>1, <3>2
  <2>2. CASE n # b
    <3>1. n # a /\ fsdata'[n] = fsdata[n] /\ fsdata[n] # 0
      BY <1>1, <1>7, <2>2
    <3>2. fsdata[n] - 1 \in 1..Len(L) /\ L[fsdata[n] - 1] = n
      BY <1>3, <3>1
    <3>3. M[fsdata[n] - 1] = n
      BY <1>6, <3>1, <3>2
    <3> QED
      BY <1>5, <3>1, <3>2, <3>3
  <2> QED
    BY <2>1, <2>2
<1>8. ~(head'.age < TTL) /\ (head'.eof => head'.end = Len(M) + 1)
  <2>1. TTL \in Nat /\ head \in CacheHead
    BY Sizes DEF TypeOK
  <2>2. ~(head'.age < TTL) /\ (head'.eof => head.eof /\ head'.end = head.end)
    BY <1>1, <2>1 DEF InvalidDirCache, Shape, NoHead, CacheHead
  <2> QED
    BY <1>5, <2>2 DEF Laid
<1>9. ASSUME NEW q \in Sweep, phase'[q] \in {"open", "read"}, ~moved'[q], fpos'[q] > 2
      PROVE  /\ fpos'[q] - 2 <= Len(M) /\ Follows(got'[q], M, excuse'[q], taken'[q])
             /\ remote' \ excuse'[q] = ToSet(M) \ excuse'[q]
  <2>1. Under(q) /\ ~moved[q] /\ fpos[q] > 2 /\ fpos[q] \in Nat
    BY <1>1, <1>9, Sizes DEF Under
  <2>2. /\ fpos[q] - 2 <= Len(L) /\ Follows(got[q], L, excuse[q], taken[q])
        /\ remote \ excuse[q] = ToSet(L) \ excuse[q]
    BY <2>1 DEF Laid
  <2>3. got[q] # <<>>
    <3>1. Len(got[q]) = fpos[q] - 2 /\ fpos[q] - 2 # 0
      BY <2>1 DEF Shape
    <3> QED
      BY <3>1, EmptySeq
  <2>4. taken'[q] = taken[q] \cup {b} /\ excuse'[q] = excuse[q] \cup {a, b}
    BY <1>1, <2>1, <2>3 DEF Under
  <2>5. /\ ((remote \ {a}) \cup {b}) \ (excuse[q] \cup {a, b}) = ToSet(M) \ (excuse[q] \cup {a, b})
        /\ Follows(got[q], M, excuse[q] \cup {a, b}, taken[q] \cup {b})
    <3>1. PICK E : E = excuse[q]
      OBVIOUS
    <3>2. remote \ E = ToSet(L) \ E
      BY <2>2, <3>1
    <3>3. /\ ((remote \ {a}) \cup {b}) \ (E \cup {a, b}) = ToSet(M) \ (E \cup {a, b})
          /\ \A B, T : Follows(B, L, E, T) => Follows(B, M, E \cup {a, b}, T \cup {b})
      BY <1>5, <1>6, <3>2, Renamed
    <3> QED
      BY <2>2, <3>1, <3>3, Zenon
  <2> QED
    BY <1>1, <1>5, <2>2, <2>4, <2>5
<1>10. ASSUME NEW q \in Sweep, phase'[q] = "end", ~moved'[q]
       PROVE  /\ \A i, j \in DOMAIN got'[q] : got'[q][i] = got'[q][j] => i = j \/ got'[q][i] \in taken'[q]
              /\ remote' \ excuse'[q] \subseteq ToSet(got'[q])
              /\ ToSet(got'[q]) \subseteq remote' \cup excuse'[q]
  <2>1. /\ phase[q] = "end" /\ ~moved[q] /\ got'[q] = got[q] /\ taken'[q] = taken[q]
        /\ excuse'[q] = excuse[q] \cup {a, b}
    BY <1>1, <1>10 DEF Under
  <2>2. /\ \A i, j \in DOMAIN got[q] : got[q][i] = got[q][j] => i = j \/ got[q][i] \in taken[q]
        /\ remote \ excuse[q] \subseteq ToSet(got[q])
        /\ ToSet(got[q]) \subseteq remote \cup excuse[q]
    BY <2>1, Zenon DEF SweepExact
  <2>3. remote' \ excuse'[q] \subseteq ToSet(got[q]) /\ ToSet(got[q]) \subseteq remote' \cup excuse'[q]
    BY <1>1, <2>1, <2>2
  <2> QED
    BY <2>1, <2>2, <2>3
<1>11. Laid(M)'
  BY <1>7, <1>8, <1>9 DEF Laid, Under, Once, Follows, Apart
<1>12. SweepExact'
  BY <1>10 DEF SweepExact, ToSet
<1> QED
  BY <1>5, <1>11, <1>12 DEF Kept

\* What a reader does that reads nothing.
LEMMA LaidReader ==
  ASSUME TypeOK, Shape, SweepExact, NEW L \in Seq(Name), Laid(L),
         NEW r \in Sweep, Open(r) \/ Close(r) \/ Begin(r)
  PROVE  Laid(L)' /\ SweepExact'
<1>1. /\ UNCHANGED <<remote, fsdata, unlisted>>
      /\ head' = head \/ head' = NoHead
  BY DEF Open, Close, Begin, cache, dentries, DropPages
<1>2. head'.eof => head.eof /\ head'.end = head.end
  BY <1>1 DEF NoHead
<1>3. head'.age < TTL => head.age < TTL
  BY <1>1, Sizes DEF NoHead
<1>4. /\ \A q \in Sweep : q # r => /\ phase'[q] = phase[q] /\ fpos'[q] = fpos[q] /\ got'[q] = got[q]
                                   /\ moved'[q] = moved[q] /\ excuse'[q] = excuse[q] /\ taken'[q] = taken[q]
      /\ Open(r) \/ Close(r) => phase'[r] \in {"open", "closed"} /\ fpos'[r] = 0
  BY DEF Open, Close, Begin, TypeOK
<1>5. Begin(r) => /\ phase[r] = "open" /\ phase'[r] \in {"open", "read", "failed"}
                  /\ fpos'[r] = IF fpos[r] = 0 THEN 2 ELSE fpos[r]
                  /\ UNCHANGED <<got, moved, excuse, taken>>
  BY DEF Begin, TypeOK
<1>6. \A q \in Sweep : ~moved'[q] /\ ((phase'[q] \in {"open", "read"} /\ fpos'[q] > 2) \/ phase'[q] = "end") =>
           /\ (phase'[q] = "end" <=> phase[q] = "end") /\ (Under(q) \/ phase[q] = "end") /\ ~moved[q]
           /\ fpos'[q] = fpos[q] /\ got'[q] = got[q] /\ taken'[q] = taken[q]
           /\ \A x : x \notin excuse'[q] => x \notin excuse[q] /\ (x \in remote' <=> x \in remote)
  <2> SUFFICES ASSUME NEW q \in Sweep, ~moved'[q],
                      (phase'[q] \in {"open", "read"} /\ fpos'[q] > 2) \/ phase'[q] = "end"
               PROVE  /\ (phase'[q] = "end" <=> phase[q] = "end") /\ (Under(q) \/ phase[q] = "end") /\ ~moved[q]
                      /\ fpos'[q] = fpos[q] /\ got'[q] = got[q] /\ excuse'[q] = excuse[q]
                      /\ taken'[q] = taken[q] /\ remote' = remote
    OBVIOUS
  <2>1. CASE q # r
    BY <1>1, <1>4, <2>1 DEF Under
  <2>2. CASE q = r /\ Begin(r)
    BY <1>1, <1>5, <2>2 DEF Under
  <2>3. CASE q = r /\ (Open(r) \/ Close(r))
    BY <1>4, <2>3
  <2> QED
    BY <2>1, <2>2, <2>3
<1>7. \A n \in Name : fsdata'[n] # 0 => fsdata'[n] = fsdata[n]
  BY <1>1
<1>8. head'.age < TTL => /\ head.age < TTL
                         /\ \A x : x \notin unlisted' => x \notin unlisted /\ (x \in remote' <=> x \in remote)
  BY <1>1, <1>3
<1> QED
  BY <1>2, <1>6, <1>7, <1>8, LaidSteady, Zenon

\* Names that are next in a listing go on with what follows it.
LEMMA Onward ==
  ASSUME NEW L \in Seq(Name), NEW B \in Seq(Name), NEW names \in Seq(Name), NEW f \in Nat, f >= 2,
         NEW E, NEW T, Len(B) = f - 2, Follows(B, L, E, T), f - 2 + Len(names) <= Len(L),
         \A i \in 1..Len(names) : names[i] = L[f - 2 + i]
  PROVE  /\ B \o names \in Seq(Name) /\ Len(B \o names) = f - 2 + Len(names)
         /\ Follows(B \o names, L, E, T)
<1>1. Len(B) \in Nat /\ Len(names) \in Nat /\ Len(L) \in Nat
  BY LenProperties
<1>2. /\ B \o names \in Seq(Name) /\ Len(B \o names) = Len(B) + Len(names)
      /\ \A i \in 1..(Len(B) + Len(names)) :
           (B \o names)[i] = IF i <= Len(B) THEN B[i] ELSE names[i - Len(B)]
  BY ConcatProperties
<1>3. PICK C : C = B \o names
  OBVIOUS
<1>4. ASSUME NEW i \in 1..Len(C)
      PROVE  i \in 1..Len(L) /\ ((i \in 1..Len(B) /\ C[i] = B[i]) \/ C[i] = L[i])
  <2>0. i \in 1..(Len(B) + Len(names)) /\ i \in 1..Len(L)
    BY <1>1, <1>2, <1>3
  <2>1. CASE i <= Len(B)
    <3>1. i \in 1..Len(B)
      BY <1>1, <2>0, <2>1
    <3> QED
      BY <1>2, <1>3, <2>0, <2>1, <3>1, Zenon
  <2>2. CASE ~(i <= Len(B))
    <3>1. \A a, b \in Nat : \A c \in 1..(a + b) : ~(c <= a) => c - a \in 1..b /\ a + (c - a) = c
      OBVIOUS
    <3>2. i - Len(B) \in 1..Len(names) /\ Len(B) + (i - Len(B)) = i
      BY <1>1, <2>0, <2>2, <3>1, Zenon
    <3>3. names[i - Len(B)] = L[Len(B) + (i - Len(B))]
      BY <3>2, Zenon
    <3> QED
      BY <1>2, <1>3, <2>0, <2>2, <3>2, <3>3, Zenon
  <2> QED
    BY <2>1, <2>2
<1>5. /\ \A i \in 1..Len(B) : B[i] = L[i] \/ (B[i] \in E /\ L[i] \in E)
      /\ Apart(L, L, T) /\ Apart(B, L, T) /\ Apart(B, B, T)
  BY Zenon DEF Follows
<1>6. \A i \in 1..Len(C) : C[i] = L[i] \/ (C[i] \in E /\ L[i] \in E)
  BY <1>4, <1>5, Zenon
<1>7. Apart(C, L, T) /\ Apart(C, C, T)
  <2>1. Apart(C, L, T)
    BY <1>4, <1>5, Zenon DEF Apart
  <2>2. ASSUME NEW i \in 1..Len(C), NEW j \in 1..Len(C), C[i] = C[j]
        PROVE  i = j \/ C[i] \in T
    <3>1. CASE C[j] = L[j]
      BY <1>4, <2>1, <2>2, <3>1, Zenon DEF Apart
    <3>2. CASE C[i] = L[i]
      BY <1>4, <2>1, <2>2, <3>2, Zenon DEF Apart
    <3>3. CASE i \in 1..Len(B) /\ C[i] = B[i] /\ j \in 1..Len(B) /\ C[j] = B[j]
      BY <1>5, <2>2, <3>3, Zenon DEF Apart
    <3> QED
      BY <1>4, <3>1, <3>2, <3>3, Zenon
  <2> QED
    BY <2>1, <2>2, Zenon DEF Apart
<1>8. Len(C) <= Len(L)
  BY <1>1, <1>2, <1>3
<1>9. Follows(C, L, E, T)
  BY <1>5, <1>6, <1>7, <1>8, Zenon DEF Follows
<1> QED
  BY <1>2, <1>3, <1>9, Zenon

\* What is served from the cache goes on with the listing it was filled from,
\* and is all that was left of it if the call finds nothing to give.
LEMMA ServedOn ==
  ASSUME TypeOK, Shape, NEW L \in Seq(Name), Laid(L), NEW r \in Sweep, NEW names, Served(r, names), ~moved[r]
  PROVE  /\ got[r] \o names \in Seq(Name) /\ Len(got[r] \o names) = fpos[r] - 2 + Len(names)
         /\ fpos[r] - 2 + Len(names) <= Len(L) /\ Follows(got[r] \o names, L, excuse'[r], taken'[r])
         /\ Len(names) = 0 => Len(L) <= fpos[r] - 2
         /\ remote \ excuse'[r] = ToSet(L) \ excuse'[r]
<1>1. /\ phase[r] = "read" /\ fpos[r] >= 2 /\ fpos[r] \in Nat /\ names \in Seq(Name) /\ got[r] \in Seq(Name)
      /\ Len(names) \in Nat /\ Len(L) \in Nat /\ head.end \in Nat
  BY Sizes, LenProperties DEF Served, Shape, TypeOK
<1>2. head.eof /\ (fpos[r] = 2 => head.age < TTL)
  BY <1>1, Sizes DEF Served, NoCache
<1>3. Len(got[r]) = fpos[r] - 2
  BY <1>1 DEF Shape, Under
<1>4. fpos[r] - 2 <= Len(L) /\ Follows(got[r], L, excuse'[r], taken'[r])
  <2>1. CASE fpos[r] = 2
    <3>1. Len(got[r]) = 0 /\ Once(L)
      BY <1>2, <1>3, <2>1 DEF Laid
    <3>2. Begins(got[r], L)
      BY <1>1, <3>1 DEF Begins
    <3> QED
      BY <1>1, <2>1, <3>1, <3>2, BeginsFollows
  <2>2. CASE fpos[r] > 2
    <3>1. excuse'[r] = excuse[r] /\ taken'[r] = taken[r]
      BY <2>2 DEF Served, TypeOK
    <3> QED
      BY <1>1, <2>2, <3>1 DEF Laid, Under
  <2> QED
    BY <1>1, <2>1, <2>2
<1>5. ASSUME NEW i \in 1..Len(names)
      PROVE  fpos[r] - 2 + i \in 1..Len(L) /\ names[i] = L[fpos[r] - 2 + i]
  <2>1. /\ fpos[r] + i - 1 \in Position /\ names[i] = slot[fpos[r] + i - 1] /\ Valid(fpos[r] + i - 1)
    BY <1>5 DEF Served
  <2>2. slot[fpos[r] + i - 1] \in Name
    BY <2>1 DEF Valid, TypeOK
  <2>3. fsdata[names[i]] = fpos[r] + i - 1 /\ names[i] \in Name
    BY <2>1, <2>2 DEF Valid
  <2>4. \A a \in Nat, b \in 1..Len(names) : a >= 2 => a + b - 1 # 0 /\ (a + b - 1) - 1 = a - 2 + b
    BY <1>1
  <2>5. fpos[r] + i - 1 # 0 /\ (fpos[r] + i - 1) - 1 = fpos[r] - 2 + i
    BY <1>1, <2>4, Zenon
  <2>6. fsdata[names[i]] - 1 \in 1..Len(L) /\ L[fsdata[names[i]] - 1] = names[i]
    BY <2>3, <2>5, Zenon DEF Laid
  <2> QED
    BY <2>3, <2>5, <2>6, Zenon
<1>6. fpos[r] - 2 + Len(names) <= Len(L)
  <2>1. CASE Len(names) = 0
    BY <1>1, <1>4, <2>1
  <2>2. CASE Len(names) # 0
    <3>1. Len(names) \in 1..Len(names)
      BY <1>1, <2>2
    <3>2. fpos[r] - 2 + Len(names) \in 1..Len(L)
      BY <1>5, <3>1
    <3> QED
      BY <1>1, <3>2
  <2> QED
    BY <2>1, <2>2
<1>7. Len(names) = 0 => Len(L) <= fpos[r] - 2
  <2>1. head.end = Len(L) + 1
    BY <1>2 DEF Laid
  <2>2. Len(names) = 0 => fpos[r] > head.end
    BY DEF Served
  <2> QED
    BY <1>1, <2>1, <2>2
<1>8. remote \ excuse'[r] = ToSet(L) \ excuse'[r]
  <2>1. excuse'[r] = IF fpos[r] = 2 THEN unlisted ELSE excuse[r]
    BY DEF Served, TypeOK
  <2>2. CASE fpos[r] = 2
    BY <1>2, <2>1, <2>2 DEF Laid
  <2>3. CASE fpos[r] # 2
    <3>1. fpos[r] > 2
      BY <1>1, <2>3
    <3> QED
      BY <1>1, <2>1, <2>3, <3>1 DEF Laid, Under
  <2> QED
    BY <2>2, <2>3
<1>9. \A i \in 1..Len(names) : names[i] = L[fpos[r] - 2 + i]
  BY <1>5
<1>10. /\ got[r] \o names \in Seq(Name) /\ Len(got[r] \o names) = fpos[r] - 2 + Len(names)
       /\ Follows(got[r] \o names, L, excuse'[r], taken'[r])
  BY <1>1, <1>3, <1>4, <1>6, <1>9, Onward
<1> QED
  BY <1>6, <1>7, <1>8, <1>10

\* A call that is served from the cache
LEMMA LaidServe ==
  ASSUME TypeOK, Shape, SweepExact, NEW L \in Seq(Name), Laid(L), NEW r \in Sweep, NEW names, Served(r, names)
  PROVE  Laid(L)' /\ SweepExact'
<1>1. /\ UNCHANGED <<remote, unlisted, head, fsdata, moved>> /\ phase[r] = "read" /\ fpos[r] >= 2 /\ fpos[r] \in Nat
      /\ names \in Seq(Name) /\ Len(names) \in Nat /\ Len(L) \in Nat
  BY Sizes, LenProperties DEF Served, cache, dentries, Shape, TypeOK
<1>2. /\ \A q \in Sweep : q # r => phase'[q] = phase[q] /\ fpos'[q] = fpos[q] /\ got'[q] = got[q]
                                    /\ excuse'[q] = excuse[q] /\ taken'[q] = taken[q]
      /\ phase'[r] \in {"open", "end"} /\ fpos'[r] = fpos[r] + Len(names)
      /\ phase'[r] = "end" => names = <<>>
      /\ ~moved[r] => got'[r] = got[r] \o names
  BY DEF Served, Give, TypeOK
<1>3. ASSUME ~moved[r]
      PROVE  /\ got'[r] \in Seq(Name) /\ Len(got'[r]) = fpos'[r] - 2
             /\ fpos'[r] - 2 <= Len(L) /\ Follows(got'[r], L, excuse'[r], taken'[r])
             /\ Len(names) = 0 => Len(L) <= Len(got'[r])
             /\ remote' \ excuse'[r] = ToSet(L) \ excuse'[r]
  <2>1. \A a, b \in Nat : a - 2 + b = (a + b) - 2 /\ (b = 0 => a - 2 + b = a - 2)
    OBVIOUS
  <2>2. /\ fpos[r] - 2 + Len(names) = (fpos[r] + Len(names)) - 2
        /\ Len(names) = 0 => fpos[r] - 2 + Len(names) = fpos[r] - 2
    BY <1>1, <2>1, Zenon
  <2>3. /\ got[r] \o names \in Seq(Name) /\ Len(got[r] \o names) = fpos[r] - 2 + Len(names)
        /\ fpos[r] - 2 + Len(names) <= Len(L) /\ Follows(got[r] \o names, L, excuse'[r], taken'[r])
        /\ Len(names) = 0 => Len(L) <= fpos[r] - 2
        /\ remote \ excuse'[r] = ToSet(L) \ excuse'[r]
    BY <1>3, ServedOn
  <2> QED
    BY <1>1, <1>2, <1>3, <2>2, <2>3, Zenon
<1>5. ASSUME NEW q \in Sweep, phase'[q] \in {"open", "read"}, ~moved'[q], fpos'[q] > 2
      PROVE  /\ fpos'[q] - 2 <= Len(L) /\ Follows(got'[q], L, excuse'[q], taken'[q])
             /\ remote' \ excuse'[q] = ToSet(L) \ excuse'[q]
  <2>1. CASE q # r
    <3>1. /\ Under(q) /\ ~moved[q] /\ fpos[q] > 2 /\ fpos'[q] = fpos[q] /\ got'[q] = got[q]
          /\ excuse'[q] = excuse[q] /\ taken'[q] = taken[q] /\ remote' = remote
      BY <1>1, <1>2, <1>5, <2>1 DEF Under
    <3>2. /\ fpos[q] - 2 <= Len(L) /\ Follows(got[q], L, excuse[q], taken[q])
          /\ remote \ excuse[q] = ToSet(L) \ excuse[q]
      BY <3>1 DEF Laid
    <3> QED
      BY <3>1, <3>2
  <2>2. CASE q = r
    BY <1>1, <1>3, <1>5, <2>2
  <2> QED
    BY <2>1, <2>2
<1>6. ASSUME NEW q \in Sweep, phase'[q] = "end", ~moved'[q]
      PROVE  /\ \A i, j \in DOMAIN got'[q] : got'[q][i] = got'[q][j] => i = j \/ got'[q][i] \in taken'[q]
             /\ remote' \ excuse'[q] \subseteq ToSet(got'[q])
             /\ ToSet(got'[q]) \subseteq remote' \cup excuse'[q]
  <2>1. CASE q # r
    <3>1. /\ phase[q] = "end" /\ ~moved[q] /\ got'[q] = got[q] /\ excuse'[q] = excuse[q] /\ remote' = remote
          /\ taken'[q] = taken[q]
      BY <1>1, <1>2, <1>6, <2>1
    <3> QED
      BY <3>1, Zenon DEF SweepExact
  <2>2. CASE q = r
    <3>1. names = <<>> /\ ~moved[r]
      BY <1>1, <1>2, <1>6, <2>2
    <3>2. Len(names) = 0
      BY <3>1, EmptySeq
    <3>3. /\ got'[r] \in Seq(Name) /\ Follows(got'[r], L, excuse'[r], taken'[r]) /\ Len(L) <= Len(got'[r])
          /\ remote' \ excuse'[r] = ToSet(L) \ excuse'[r]
      BY <1>3, <3>1, <3>2
    <3>4. /\ \A i, j \in DOMAIN got'[r] : got'[r][i] = got'[r][j] => i = j \/ got'[r][i] \in taken'[r]
          /\ remote' \ excuse'[r] \subseteq ToSet(got'[r])
          /\ ToSet(got'[r]) \subseteq remote' \cup excuse'[r]
      BY <3>3, AllGiven
    <3> QED
      BY <2>2, <3>4
  <2> QED
    BY <2>1, <2>2
<1>7. /\ \A n \in Name : fsdata'[n] # 0 => fsdata'[n] - 1 \in 1..Len(L) /\ L[fsdata'[n] - 1] = n
      /\ head'.eof => head'.end = Len(L) + 1
      /\ head'.age < TTL => Once(L) /\ remote' \ unlisted' = ToSet(L) \ unlisted'
  BY <1>1, Zenon DEF Laid
<1>8. Laid(L)'
  BY <1>5, <1>7 DEF Laid, Under, Once, Follows, Apart
<1>9. SweepExact'
  BY <1>6 DEF SweepExact, ToSet
<1> QED
  BY <1>8, <1>9

\* A listing that is read again
LEMMA LaidRefill ==
  ASSUME TypeOK, Shape, SweepExact, NEW r \in Sweep, fpos[r] >= 2, NEW served, NEW names, NEW L, NEW W, NEW P,
         NEW failed, NEW partial, Refilled(r, served, names, L, W, P, failed, partial)
  PROVE  W \in Seq(Name) /\ Laid(W)' /\ SweepExact'
<1>1. /\ names \in Seq(Name) /\ L \in Seq(Name) /\ W \in Seq(Name) /\ Once(W) /\ Begins(L, W)
      /\ ToSet(W) \subseteq remote /\ FillCache(L, P) /\ Give(r, names, failed) /\ phase[r] = "read"
      /\ unlisted' = remote \ ToSet(W) /\ remote' = remote
      /\ (\A i \in 1..Len(L) : PageOf(i + 1) \in P) => L = W
      /\ Len(names) = 0 => Len(W) <= fpos[r] - 2
  BY Zenon DEF Refilled
<1>2. /\ \A q \in Sweep : /\ ~moved'[q] => ~moved[q]
                          /\ ~moved'[q] /\ Under(q) =>
                               IF q = r THEN got[r] \o names = Before(W, fpos[r] + Len(names))
                                        ELSE got[q] = Before(W, fpos[q])
                          /\ ~moved'[q] => got'[q] = IF q = r THEN got[r] \o names ELSE got[q]
                          /\ ~moved'[q] /\ Under(q) => remote \ ToSet(W) \subseteq excuse'[q]
                          /\ ~moved'[q] /\ ~Under(q) /\ q # r => excuse'[q] = excuse[q]
                          /\ ~Under(q) => taken'[q] = taken[q]
  BY DEF Refilled
<1>3. /\ Len(names) \in Nat /\ fpos[r] \in Nat /\ Len(W) \in Nat /\ Len(L) \in Nat /\ DOMAIN L = 1..Len(L)
      /\ \A q \in Sweep : got[q] \in Seq(Name) /\ Len(got[q]) \in Nat /\ fpos[q] \in Nat
  BY <1>1, Sizes, LenProperties DEF TypeOK
<1>4. /\ \A q \in Sweep : q # r => phase'[q] = phase[q] /\ fpos'[q] = fpos[q]
      /\ phase'[r] \in {"open", "end", "failed"} /\ fpos'[r] = fpos[r] + Len(names)
      /\ phase'[r] = "end" => names = <<>>
  BY <1>1 DEF Give, TypeOK
<1>5. ASSUME NEW q \in Sweep, Under(q), ~moved'[q], fpos[q] >= 2
      PROVE  /\ got'[q] \in Seq(Name) /\ Len(got'[q]) = fpos'[q] - 2
             /\ fpos'[q] - 2 <= Len(W) /\ Follows(got'[q], W, excuse'[q], taken'[q])
             /\ remote' \ excuse'[q] = ToSet(W) \ excuse'[q]
  <2>1. remote' \ excuse'[q] = ToSet(W) \ excuse'[q]
    BY <1>1, <1>2, <1>5
  <2>2. fpos'[q] \in Nat /\ fpos'[q] >= 2
    BY <1>3, <1>4, <1>5
  <2>3. got'[q] = Before(W, fpos'[q])
    <3>1. CASE q = r
      BY <1>2, <1>4, <1>5, <3>1, Zenon
    <3>2. CASE q # r
      BY <1>2, <1>4, <1>5, <3>2, Zenon
    <3> QED
      BY <3>1, <3>2
  <2>4. got'[q] \in Seq(Name) /\ Begins(got'[q], W)
    BY <1>1, <2>2, <2>3, BeforeIs
  <2>5. Len(got[q]) = fpos[q] - 2
    BY <1>2, <1>3, <1>5 DEF Shape
  <2>6. Len(got'[q]) = fpos'[q] - 2
    <3>1. CASE q # r
      BY <1>2, <1>4, <1>5, <2>5, <3>1, Zenon
    <3>2. CASE q = r
      <4>1. Len(got[r] \o names) = Len(got[r]) + Len(names)
        BY <1>1, <1>3, ConcatProperties
      <4>2. \A a, b \in Nat : (a - 2) + b = (a + b) - 2
        OBVIOUS
      <4>3. (fpos[r] - 2) + Len(names) = (fpos[r] + Len(names)) - 2
        BY <1>3, <4>2, Zenon
      <4> QED
        BY <1>2, <1>4, <1>5, <2>5, <3>2, <4>1, <4>3, Zenon
    <3> QED
      BY <3>1, <3>2
  <2>7. fpos'[q] - 2 <= Len(W)
    BY <2>4, <2>6, Zenon DEF Begins
  <2>8. Follows(got'[q], W, excuse'[q], taken'[q])
    BY <1>1, <2>4, BeginsFollows
  <2> QED
    BY <2>1, <2>4, <2>6, <2>7, <2>8
<1>6. ASSUME NEW n \in Name, fsdata'[n] # 0
      PROVE  fsdata'[n] - 1 \in 1..Len(W) /\ W[fsdata'[n] - 1] = n
  <2>1. n \in ToSet(L) /\ fsdata'[n] = At(L, n) + 1
    BY <1>1, <1>6 DEF FillCache
  <2>2. At(L, n) \in 1..Len(L) /\ L[At(L, n)] = n
    BY <1>1, <2>1, AtIs
  <2>3. \A a \in 1..Len(L) : (a + 1) - 1 = a
    BY <1>3
  <2>4. fsdata'[n] - 1 = At(L, n)
    BY <2>1, <2>2, <2>3, Zenon
  <2>5. \A a \in 1..Len(L) : Len(L) <= Len(W) => a \in 1..Len(W)
    BY <1>3
  <2>6. At(L, n) \in 1..Len(W) /\ W[At(L, n)] = n
    BY <1>1, <2>2, <2>5, Zenon DEF Begins
  <2> QED
    BY <2>4, <2>6, Zenon
<1>7. head'.eof => head'.end = Len(W) + 1
  <2>1. head' = [age |-> 0, end |-> Len(L) + 1, eof |-> \A i \in 1..Len(L) : PageOf(i + 1) \in P]
    BY <1>1, <1>3 DEF FillCache
  <2>2. head'.end = Len(L) + 1 /\ (head'.eof <=> \A i \in 1..Len(L) : PageOf(i + 1) \in P)
    BY <2>1
  <2> QED
    BY <1>1, <2>2, Zenon
<1>8. remote' \ unlisted' = ToSet(W) \ unlisted'
  BY <1>1
<1>9. ASSUME NEW q \in Sweep, phase'[q] \in {"open", "read"}, ~moved'[q], fpos'[q] > 2
      PROVE  /\ fpos'[q] - 2 <= Len(W) /\ Follows(got'[q], W, excuse'[q], taken'[q])
             /\ remote' \ excuse'[q] = ToSet(W) \ excuse'[q]
  <2>1. Under(q) /\ fpos[q] >= 2
    BY <1>1, <1>3, <1>4, <1>9 DEF Under
  <2> QED
    BY <1>5, <1>9, <2>1
<1>10. ASSUME NEW q \in Sweep, phase'[q] = "end", ~moved'[q]
      PROVE  /\ \A i, j \in DOMAIN got'[q] : got'[q][i] = got'[q][j] => i = j \/ got'[q][i] \in taken'[q]
             /\ remote' \ excuse'[q] \subseteq ToSet(got'[q])
             /\ ToSet(got'[q]) \subseteq remote' \cup excuse'[q]
  <2>1. CASE q # r
    <3>1. phase[q] = "end" /\ ~Under(q)
      BY <1>4, <1>10, <2>1 DEF Under
    <3>2. ~moved[q] /\ got'[q] = got[q] /\ excuse'[q] = excuse[q] /\ taken'[q] = taken[q] /\ remote' = remote
      BY <1>1, <1>2, <1>10, <2>1, <3>1
    <3> QED
      BY <3>1, <3>2, Zenon DEF SweepExact
  <2>2. CASE q = r
    <3>1. names = <<>> /\ ~moved'[r] /\ Under(r)
      BY <1>1, <1>4, <1>10, <2>2 DEF Under
    <3>2. Len(names) = 0 /\ fpos[r] + 0 = fpos[r]
      BY <1>3, <3>1, EmptySeq
    <3>3. /\ got'[r] \in Seq(Name) /\ Len(got'[r]) = fpos'[r] - 2 /\ Follows(got'[r], W, excuse'[r], taken'[r])
          /\ remote' \ excuse'[r] = ToSet(W) \ excuse'[r]
      BY <1>5, <3>1
    <3>4. Len(W) <= Len(got'[r])
      BY <1>1, <1>4, <3>2, <3>3, Zenon
    <3>5. /\ \A i, j \in DOMAIN got'[r] : got'[r][i] = got'[r][j] => i = j \/ got'[r][i] \in taken'[r]
          /\ remote' \ excuse'[r] \subseteq ToSet(got'[r])
          /\ ToSet(got'[r]) \subseteq remote' \cup excuse'[r]
      <4>1. PICK B, E, T : B = got'[r] /\ E = excuse'[r] /\ T = taken'[r]
        OBVIOUS
      <4>2. /\ W \in Seq(Name) /\ B \in Seq(Name) /\ Follows(B, W, E, T) /\ Len(W) <= Len(B)
            /\ remote' \ E = ToSet(W) \ E
        BY <1>1, <3>3, <3>4, <4>1, Zenon
      <4>3. /\ \A i, j \in DOMAIN B : B[i] = B[j] => i = j \/ B[i] \in T
            /\ remote' \ E \subseteq ToSet(B)
            /\ ToSet(B) \subseteq remote' \cup E
        BY <4>2, AllGiven
      <4> QED
        BY <4>1, <4>3, Zenon
    <3> QED
      BY <2>2, <3>5
  <2> QED
    BY <2>1, <2>2
<1>11. Laid(W)'
  BY <1>1, <1>6, <1>7, <1>8, <1>9 DEF Laid, Under, Once, Follows, Apart
<1>12. SweepExact'
  BY <1>10 DEF SweepExact, ToSet
<1> QED
  BY <1>1, <1>11, <1>12

\* Every step keeps a listing, and the promise to the sweeps that have ended.
LEMMA KeptStep ==
  ASSUME TypeOK, Shape, Kept, SweepExact, [Next]_vars
  PROVE  Kept' /\ SweepExact'
<1>1. PICK L \in Seq(Name) : Laid(L)
  BY DEF Kept
<1>2. (\E M \in Seq(Name) : Laid(M)') => Kept'
  BY DEF Kept
<1>3. ASSUME NEW r \in Sweep, ServeCache(r)
      PROVE  Kept' /\ SweepExact'
  <2>1. fpos[r] >= 2
    BY <1>3 DEF ServeCache, Shape
  <2>2. PICK names : Served(r, names)
    BY <1>3, <2>1, ServeIs
  <2> QED
    BY <1>1, <1>2, <2>2, LaidServe
<1>4. ASSUME NEW r \in Sweep, Refill(r)
      PROVE  Kept' /\ SweepExact'
  <2>1. fpos[r] >= 2
    BY <1>4 DEF Refill, Shape
  <2>2. PICK served, names, K, W, P, failed, partial : Refilled(r, served, names, K, W, P, failed, partial)
    BY <1>4, <2>1, RefillIs
  <2>3. W \in Seq(Name) /\ Laid(W)' /\ SweepExact'
    BY <2>1, <2>2, LaidRefill
  <2> QED
    BY <1>2, <2>3
<1>5. CASE UNCHANGED vars
  BY <1>5 DEF vars, cache, dentries, sweeps, Kept, Laid, Under, Once, Follows, Apart, SweepExact, ToSet
<1>6. CASE \/ \E n \in Name : Create(n) \/ Unlink(n) \/ RemoteChange(n) \/ Lookup(n) \/ ReclaimDentry(n) \/ RenameFails(n)
           \/ RemoveFails \/ Tick \/ \E P \in Page : ReclaimPage(P)
  BY <1>1, <1>2, <1>6, LaidOthers
<1>7. ASSUME NEW r \in Sweep, Open(r) \/ Close(r) \/ Begin(r)
      PROVE  Kept' /\ SweepExact'
  BY <1>1, <1>2, <1>7, LaidReader
<1>8. ASSUME NEW a \in Name, NEW b \in Name, Rename(a, b)
      PROVE  Kept' /\ SweepExact'
  BY <1>1, <1>8, LaidRename
<1> QED
  BY <1>3, <1>4, <1>5, <1>6, <1>7, <1>8 DEF Next

\* At the start nothing is kept and no sweep has ended.
LEMMA KeptInit ==
  ASSUME Init
  PROVE  Kept /\ SweepExact
<1>1. <<>> \in Seq(Name) /\ Len(<<>>) = 0
  BY EmptySeq
<1>2. /\ \A n \in Name : fsdata[n] = 0
      /\ \A q \in Sweep : phase[q] = "closed"
      /\ head.age = TTL /\ ~head.eof
  BY DEF Init, NoHead
<1>3. TTL \in Nat
  BY SizeAssumption
<1>4. ~(head.age < TTL)
  BY <1>2, <1>3
<1>6. Laid(<<>>)
  BY <1>2, <1>4 DEF Laid, Under
<1> QED
  BY <1>1, <1>2, <1>6 DEF Kept, SweepExact

-----------------------------------------------------------------------------
(* What lies ahead *)

\* In front of the first position nothing is given.
LEMMA NothingBefore ==
  ASSUME NEW L \in Seq(Name), NEW p \in {0, 2}
  PROVE  Before(L, p) = <<>>
<1>1. Len(L) \in Nat
  BY LenProperties
<1>2. PICK m : m = Least(p - 2, Len(L))
  OBVIOUS
<1>3. m \in Int /\ m < 1
  BY <1>1, <1>2 DEF Least
<1>4. SubSeq(L, 1, m) = <<>>
  BY <1>3, SubSeqEmpty
<1> QED
  BY <1>2, <1>4 DEF Before

\* What leaves undisturbed sweeps what lies ahead of them.
LEMMA AheadSteady ==
  ASSUME TypeOK, Ahead, RemovalSafe, Further,
         \A q \in Sweep : moved'[q] => moved[q] /\ (disturbed[q] => disturbed'[q]) /\ (fpos[q] > 2 => fpos'[q] > 2),
         \A q \in Sweep : phase'[q] \in {"open", "read"} /\ fpos'[q] > 2 /\ ~disturbed'[q] =>
           /\ Under(q) /\ fpos'[q] = fpos[q] /\ got'[q] = got[q] /\ ~disturbed[q]
           /\ head'.eof = head.eof /\ head'.end = head.end /\ up' = up
           /\ \A p \in Position : Valid(p) /\ slot[p] \notin ToSet(got[q]) =>
                slot'[p] = slot[p] /\ dent'[slot[p]] = "positive" /\ fsdata'[slot[p]] = fsdata[slot[p]]
  PROVE  Ahead' /\ RemovalSafe' /\ Further'
<1>1. RemovalSafe' /\ Further'
  BY Zenon DEF RemovalSafe, Further
<1>2. ASSUME NEW q \in Sweep, phase'[q] \in {"open", "read"}, fpos'[q] > 2, ~disturbed'[q]
      PROVE  /\ head'.eof
             /\ \A p \in fpos'[q]..head'.end :
                  /\ PageOf(p) \in up' /\ slot'[p] # None /\ fsdata'[slot'[p]] = p /\ dent'[slot'[p]] = "positive"
                  /\ slot'[p] \notin ToSet(got'[q])
  <2>1. /\ Under(q) /\ fpos'[q] = fpos[q] /\ got'[q] = got[q] /\ ~disturbed[q]
        /\ head'.eof = head.eof /\ head'.end = head.end /\ up' = up
        /\ \A p \in Position : Valid(p) /\ slot[p] \notin ToSet(got[q]) =>
             slot'[p] = slot[p] /\ dent'[slot[p]] = "positive" /\ fsdata'[slot[p]] = fsdata[slot[p]]
    BY <1>2
  <2>2. fpos[q] > 2
    BY <1>2, <2>1
  <2>3. head.eof /\ \A p \in fpos[q]..head.end : Valid(p) /\ slot[p] \notin ToSet(got[q])
    BY <2>1, <2>2 DEF Ahead
  <2>4. \A p \in fpos[q]..head.end : p \in Position
    BY <2>2, Sizes
  <2>5. ASSUME NEW p \in fpos[q]..head.end
        PROVE  /\ PageOf(p) \in up' /\ slot'[p] # None /\ fsdata'[slot'[p]] = p /\ dent'[slot'[p]] = "positive"
               /\ slot'[p] \notin ToSet(got'[q])
    <3>1. /\ Valid(p) /\ slot[p] \notin ToSet(got[q]) /\ slot'[p] = slot[p] /\ dent'[slot[p]] = "positive"
          /\ fsdata'[slot[p]] = fsdata[slot[p]]
      BY <2>1, <2>3, <2>4
    <3> QED
      BY <2>1, <3>1, Zenon DEF Valid
  <2> QED
    BY <2>1, <2>3, <2>5, Zenon
<1>3. Ahead'
  BY <1>2 DEF Ahead, Under, Valid, ToSet, PageOf
<1> QED
  BY <1>1, <1>3

\* What the directory and the memory do: a pointer that is right is not
\* overwritten, and what takes one away disturbs the sweeps.
LEMMA AheadOthers ==
  ASSUME TypeOK, Shape, Ahead, RemovalSafe, Further,
         \/ \E n \in Name : Create(n) \/ Unlink(n) \/ RemoteChange(n) \/ Lookup(n) \/ ReclaimDentry(n) \/ RenameFails(n)
         \/ RemoveFails \/ Tick \/ \E P \in Page : ReclaimPage(P)
  PROVE  Ahead' /\ RemovalSafe' /\ Further'
<1>1. /\ UNCHANGED <<phase, fpos, got, moved>>
      /\ \A q \in Sweep : disturbed[q] => disturbed'[q]
  BY DEF Create, Unlink, RemoteChange, Lookup, ReclaimDentry, RenameFails, RemoveFails, Tick, ReclaimPage, sweeps,
         DisturbOpen, TypeOK
<1>2. \A q \in Sweep : moved'[q] => moved[q] /\ (disturbed[q] => disturbed'[q]) /\ (fpos[q] > 2 => fpos'[q] > 2)
  BY <1>1
<1>3. head \in CacheHead
  BY DEF TypeOK
<1>4. InvalidDirCache => head'.eof = head.eof /\ head'.end = head.end
  BY <1>3 DEF InvalidDirCache, CacheHead
<1>5. \A n \in Name, state \in {"negative", "positive"} : Alloc(n, state) =>
        /\ \A p \in Position : slot[p] # None => slot'[p] = slot[p]
        /\ \A m \in Name : dent'[m] = IF m = n THEN state ELSE dent[m]
  BY DEF Alloc, TypeOK
<1>6. \A p \in Position : Valid(p) => slot[p] # None /\ slot[p] \in Name /\ dent[slot[p]] = "positive"
  BY DEF Valid, TypeOK
<1>7. ASSUME NEW q \in Sweep, phase'[q] \in {"open", "read"}, fpos'[q] > 2, ~disturbed'[q]
      PROVE  /\ Under(q) /\ fpos'[q] = fpos[q] /\ got'[q] = got[q] /\ ~disturbed[q]
             /\ head'.eof = head.eof /\ head'.end = head.end /\ up' = up /\ fsdata' = fsdata
             /\ \A p \in Position : Valid(p) /\ slot[p] \notin ToSet(got[q]) =>
                  slot'[p] = slot[p] /\ dent'[slot[p]] = "positive"
  <2>1. Under(q) /\ fpos'[q] = fpos[q] /\ got'[q] = got[q] /\ ~disturbed[q]
    BY <1>1, <1>7 DEF Under
  <2>2. ~DisturbOpen
    BY <1>7, <2>1 DEF DisturbOpen
  <2>3. ASSUME NEW n \in Name, Create(n)
        PROVE  /\ head'.eof = head.eof /\ head'.end = head.end /\ up' = up /\ fsdata' = fsdata
               /\ \A p \in Position : Valid(p) => slot'[p] = slot[p] /\ dent'[slot[p]] = "positive"
    BY <1>4, <1>5, <1>6, <2>3 DEF Create
  <2>4. ASSUME NEW n \in Name, Unlink(n)
        PROVE  /\ head'.eof = head.eof /\ head'.end = head.end /\ up' = up /\ fsdata' = fsdata
               /\ \A p \in Position : Valid(p) /\ slot[p] \notin ToSet(got[q]) =>
                    slot'[p] = slot[p] /\ dent'[slot[p]] = "positive"
    <3>1. InvalidDirCache /\ Alloc(n, "negative") /\ up' = up /\ fsdata' = fsdata
      BY <2>4 DEF Unlink
    <3>2. n \in ToSet(got[q])
      BY <1>7, <2>1, <2>4 DEF Unlink, Awaits
    <3>3. ASSUME NEW p \in Position, Valid(p), slot[p] \notin ToSet(got[q])
          PROVE  slot'[p] = slot[p] /\ dent'[slot[p]] = "positive"
      <4>1. slot[p] # n /\ slot[p] \in Name /\ slot[p] # None /\ dent[slot[p]] = "positive"
        BY <1>6, <3>2, <3>3
      <4> QED
        BY <1>5, <3>1, <4>1
    <3> QED
      BY <1>4, <3>1, <3>3
  <2>5. ASSUME NEW n \in Name, Lookup(n)
        PROVE  /\ head' = head /\ up' = up /\ fsdata' = fsdata
               /\ \A p \in Position : Valid(p) => slot'[p] = slot[p] /\ dent'[slot[p]] = "positive"
    <3>1. /\ head' = head /\ up' = up /\ fsdata' = fsdata /\ dent[n] = "none"
          /\ Alloc(n, "positive") \/ Alloc(n, "negative")
      BY <2>5 DEF Lookup
    <3> QED
      BY <1>5, <1>6, <3>1
  <2>6. ASSUME NEW n \in Name, RemoteChange(n)
        PROVE  UNCHANGED <<head, up, slot, dent, fsdata>>
    BY <2>6 DEF RemoteChange, dentries
  <2>7. ~(\E n \in Name : ReclaimDentry(n)) /\ ~(\E P \in Page : ReclaimPage(P))
    BY <2>2 DEF ReclaimDentry, ReclaimPage
  <2>8. RemoveFails \/ Tick => /\ head'.eof = head.eof /\ head'.end = head.end
                               /\ UNCHANGED <<up, slot, dent, fsdata>>
    BY <1>3, <1>4 DEF RemoveFails, Tick, dentries, CacheHead
  <2>a. ASSUME NEW n \in Name, RenameFails(n)
        PROVE  /\ head'.eof = head.eof /\ head'.end = head.end /\ up' = up /\ fsdata' = fsdata
               /\ \A p \in Position : Valid(p) /\ slot[p] \notin ToSet(got[q]) =>
                    slot'[p] = slot[p] /\ dent'[slot[p]] = "positive"
    <3>1. /\ InvalidDirCache /\ UNCHANGED <<up, slot, fsdata>>
          /\ \A m \in Name : m # n => dent'[m] = dent[m]
      BY <2>a DEF RenameFails, TypeOK
    <3>2. n \in ToSet(got[q])
      BY <1>7, <2>1, <2>a DEF RenameFails, Awaits
    <3> QED
      BY <1>4, <1>6, <3>1, <3>2
  <2>9. CASE \E n \in Name : Create(n)
    BY <2>1, <2>3, <2>9
  <2>10. CASE \E n \in Name : Unlink(n)
    BY <2>1, <2>4, <2>10
  <2>11. CASE \E n \in Name : Lookup(n)
    BY <2>1, <2>5, <2>11
  <2>12. CASE (\E n \in Name : RemoteChange(n)) \/ RemoveFails \/ Tick
    BY <1>6, <2>1, <2>6, <2>8, <2>12
  <2>13. CASE \E n \in Name : RenameFails(n)
    BY <2>1, <2>a, <2>13
  <2> QED
    BY <2>7, <2>9, <2>10, <2>11, <2>12, <2>13
<1>8. \A q \in Sweep : phase'[q] \in {"open", "read"} /\ fpos'[q] > 2 /\ ~disturbed'[q] =>
        /\ Under(q) /\ fpos'[q] = fpos[q] /\ got'[q] = got[q] /\ ~disturbed[q]
        /\ head'.eof = head.eof /\ head'.end = head.end /\ up' = up
        /\ \A p \in Position : Valid(p) /\ slot[p] \notin ToSet(got[q]) =>
             slot'[p] = slot[p] /\ dent'[slot[p]] = "positive" /\ fsdata'[slot[p]] = fsdata[slot[p]]
  BY <1>7
<1> QED
  BY <1>2, <1>8, AheadSteady

\* A rename: an undisturbed sweep was given the name that is changed, and the
\* one in the way.
LEMMA AheadRename ==
  ASSUME TypeOK, Shape, Ahead, RemovalSafe, Further, NEW a \in Name, NEW b \in Name, Rename(a, b)
  PROVE  Ahead' /\ RemovalSafe' /\ Further'
<1>1. /\ UNCHANGED <<phase, fpos, got, moved, up>> /\ InvalidDirCache
      /\ \A q \in Sweep : disturbed'[q] <=>
           disturbed[q] \/ Awaits(q, a) \/ (dent[b] = "positive" /\ Awaits(q, b))
      /\ \A n \in Name : n # a /\ n # b => dent'[n] = dent[n] /\ fsdata'[n] = fsdata[n]
      /\ \A p \in Position : slot[p] # a /\ slot[p] # b => slot'[p] = slot[p]
  BY DEF Rename, TypeOK
<1>2. head'.eof = head.eof /\ head'.end = head.end
  BY <1>1 DEF InvalidDirCache, CacheHead, TypeOK
<1>3. \A p \in Position : Valid(p) => slot[p] \in Name /\ dent[slot[p]] = "positive"
  BY DEF Valid, TypeOK
<1>4. ASSUME NEW q \in Sweep, phase'[q] \in {"open", "read"}, fpos'[q] > 2, ~disturbed'[q]
      PROVE  /\ Under(q) /\ fpos'[q] = fpos[q] /\ got'[q] = got[q] /\ ~disturbed[q]
             /\ head'.eof = head.eof /\ head'.end = head.end /\ up' = up
             /\ \A p \in Position : Valid(p) /\ slot[p] \notin ToSet(got[q]) =>
                  slot'[p] = slot[p] /\ dent'[slot[p]] = "positive" /\ fsdata'[slot[p]] = fsdata[slot[p]]
  <2>1. Under(q) /\ fpos'[q] = fpos[q] /\ got'[q] = got[q] /\ ~disturbed[q]
    BY <1>1, <1>4 DEF Under
  <2>2. a \in ToSet(got[q]) /\ (dent[b] = "positive" => b \in ToSet(got[q]))
    BY <1>1, <1>4, <2>1 DEF Awaits
  <2>3. ASSUME NEW p \in Position, Valid(p), slot[p] \notin ToSet(got[q])
        PROVE  slot'[p] = slot[p] /\ dent'[slot[p]] = "positive" /\ fsdata'[slot[p]] = fsdata[slot[p]]
    <3>1. slot[p] \in Name /\ dent[slot[p]] = "positive" /\ slot[p] # a /\ slot[p] # b
      BY <1>3, <2>2, <2>3
    <3> QED
      BY <1>1, <3>1
  <2> QED
    BY <1>1, <1>2, <2>1, <2>3
<1>5. \A q \in Sweep : moved'[q] => moved[q] /\ (disturbed[q] => disturbed'[q]) /\ (fpos[q] > 2 => fpos'[q] > 2)
  BY <1>1
<1> QED
  BY <1>4, <1>5, AheadSteady

\* What a reader does that reads nothing: the pages are only dropped under
\* sweeps that this disturbs.
LEMMA AheadReader ==
  ASSUME TypeOK, Shape, Ahead, RemovalSafe, Further, NEW r \in Sweep, Open(r) \/ Close(r) \/ Begin(r)
  PROVE  Ahead' /\ RemovalSafe' /\ Further'
<1>1. \A q \in Sweep : fpos[q] \in Nat
  BY Sizes
<1>2. ASSUME Begin(r)
      PROVE  /\ UNCHANGED <<dent, fsdata, got, moved>>
             /\ \A q \in Sweep : /\ phase'[q] \in {"open", "read"} => Under(q)
                                 /\ fpos[q] # 0 => fpos'[q] = fpos[q]
                                 /\ fpos[q] = 0 => fpos'[q] \in {0, 2}
                                 /\ disturbed[q] => disturbed'[q]
             /\ UNCHANGED <<cache, disturbed>> \/ DisturbOpen
  BY <1>2 DEF Begin, Under, dentries, DisturbOpen, TypeOK
<1>3. ASSUME Open(r) \/ Close(r)
      PROVE  /\ UNCHANGED <<head, up, slot, dent, fsdata>>
             /\ \A q \in Sweep : q # r => /\ phase'[q] = phase[q] /\ fpos'[q] = fpos[q] /\ got'[q] = got[q]
                                          /\ moved'[q] = moved[q] /\ disturbed'[q] = disturbed[q]
             /\ fpos'[r] = 0 /\ ~moved'[r]
  BY <1>3 DEF Open, Close, cache, dentries, TypeOK, Shape
<1>4. ASSUME NEW q \in Sweep, moved'[q]
      PROVE  moved[q] /\ (disturbed[q] => disturbed'[q]) /\ (fpos[q] > 2 => fpos'[q] > 2)
  <2>1. CASE Begin(r)
    BY <1>1, <1>2, <1>4, <2>1
  <2>2. CASE Open(r) \/ Close(r)
    BY <1>3, <1>4, <2>2
  <2> QED
    BY <2>1, <2>2
<1>5. ASSUME NEW q \in Sweep, phase'[q] \in {"open", "read"}, fpos'[q] > 2, ~disturbed'[q]
      PROVE  /\ Under(q) /\ fpos'[q] = fpos[q] /\ got'[q] = got[q] /\ ~disturbed[q]
             /\ UNCHANGED <<head, up, slot, dent, fsdata>>
  <2>1. CASE Begin(r)
    <3>1. Under(q) /\ fpos'[q] = fpos[q] /\ got'[q] = got[q] /\ ~disturbed[q] /\ UNCHANGED <<dent, fsdata>>
      BY <1>1, <1>2, <1>5, <2>1
    <3>2. ~DisturbOpen
      BY <1>5, <3>1 DEF DisturbOpen
    <3> QED
      BY <1>2, <2>1, <3>1, <3>2 DEF cache
  <2>2. CASE Open(r) \/ Close(r)
    BY <1>3, <1>5, <2>2 DEF Under
  <2> QED
    BY <2>1, <2>2
<1>6. \A p \in Position : Valid(p) => dent[slot[p]] = "positive"
  BY DEF Valid
<1>7. \A q \in Sweep : phase'[q] \in {"open", "read"} /\ fpos'[q] > 2 /\ ~disturbed'[q] =>
           /\ Under(q) /\ fpos'[q] = fpos[q] /\ got'[q] = got[q] /\ ~disturbed[q]
           /\ head'.eof = head.eof /\ head'.end = head.end /\ up' = up
           /\ \A p \in Position : Valid(p) /\ slot[p] \notin ToSet(got[q]) =>
                slot'[p] = slot[p] /\ dent'[slot[p]] = "positive" /\ fsdata'[slot[p]] = fsdata[slot[p]]
  BY <1>5, <1>6
<1> QED
  BY <1>4, <1>7, AheadSteady

\* A call that is served from the cache leaves behind what it gives.
LEMMA AheadServe ==
  ASSUME TypeOK, Shape, Ahead, RemovalSafe, Further, NEW r \in Sweep, NEW names, Served(r, names)
  PROVE  Ahead' /\ RemovalSafe' /\ Further'
<1>1. /\ UNCHANGED <<up, head, slot, dent, fsdata, moved>> /\ phase[r] = "read" /\ fpos[r] >= 2 /\ fpos[r] \in Nat
      /\ names \in Seq(Name) /\ Len(names) \in Nat /\ got[r] \in Seq(Name) /\ Len(got[r]) \in Nat /\ head.end \in Nat
  BY Sizes, LenProperties DEF Served, cache, dentries, Shape, TypeOK
<1>2. /\ \A q \in Sweep : q # r => phase'[q] = phase[q] /\ fpos'[q] = fpos[q] /\ got'[q] = got[q]
                                    /\ disturbed'[q] = disturbed[q]
      /\ fpos'[r] = fpos[r] + Len(names)
      /\ got'[r] = IF moved[r] THEN <<>> ELSE got[r] \o names
      /\ disturbed'[r] = IF fpos[r] = 2 THEN \E p \in 2..head.end : ~Valid(p) ELSE disturbed[r]
  BY DEF Served, Give, TypeOK
<1>3. Further'
  BY <1>1, <1>2 DEF Further
<1>4. RemovalSafe'
  <2>1. \A q \in Sweep : moved[q] => disturbed[q] /\ fpos[q] # 2
    BY DEF RemovalSafe, Further
  <2> QED
    BY <1>1, <1>2, <2>1 DEF RemovalSafe
<1>5. head.eof
  BY <1>1 DEF Served, NoCache
<1>6. ASSUME ~disturbed'[r]
      PROVE  /\ ~moved[r]
             /\ \A p \in fpos[r]..head.end : Valid(p) /\ slot[p] \notin ToSet(got[r])
  <2>1. CASE fpos[r] = 2
    <3>1. ~moved[r] /\ \A p \in 2..head.end : Valid(p)
      BY <1>2, <1>6, <2>1 DEF Further
    <3>2. Len(got[r]) = 0
      BY <1>1, <2>1, <3>1 DEF Shape, Under
    <3>3. \A x : x \notin ToSet(got[r])
      BY <1>1, <3>2, MembersOf
    <3> QED
      BY <2>1, <3>1, <3>3
  <2>2. CASE fpos[r] # 2
    <3>1. fpos[r] > 2 /\ ~disturbed[r] /\ Under(r)
      BY <1>1, <1>2, <1>6, <2>2 DEF Under
    <3> QED
      BY <3>1 DEF Ahead, RemovalSafe
  <2> QED
    BY <2>1, <2>2
<1>7. ASSUME ~disturbed'[r], NEW p \in (fpos[r] + Len(names))..head.end
      PROVE  Valid(p) /\ slot[p] \notin ToSet(got'[r])
  <2>1. p \in fpos[r]..head.end
    BY <1>1, <1>7
  <2>2. Valid(p) /\ slot[p] \notin ToSet(got[r]) /\ got'[r] = got[r] \o names
    BY <1>2, <1>6, <1>7, <2>1
  <2>3. ASSUME NEW i \in 1..Len(names)
        PROVE  slot[p] # names[i]
    <3>1. names[i] = slot[fpos[r] + i - 1] /\ fsdata[slot[fpos[r] + i - 1]] = fpos[r] + i - 1
      BY <2>3 DEF Served, Valid
    <3>2. fsdata[slot[p]] = p
      BY <2>2 DEF Valid
    <3>3. p # fpos[r] + i - 1
      BY <1>1, <1>7
    <3> QED
      BY <3>1, <3>2, <3>3, Zenon
  <2>4. ASSUME slot[p] \in ToSet(got[r] \o names)
        PROVE  FALSE
    <3>1. /\ got[r] \o names \in Seq(Name) /\ Len(got[r] \o names) = Len(got[r]) + Len(names)
          /\ \A i \in 1..(Len(got[r]) + Len(names)) :
               (got[r] \o names)[i] = IF i <= Len(got[r]) THEN got[r][i] ELSE names[i - Len(got[r])]
      BY <1>1, ConcatProperties
    <3>2. \E i \in 1..Len(got[r] \o names) : (got[r] \o names)[i] = slot[p]
      BY <2>4, <3>1, MembersOf
    <3>3. PICK i \in 1..(Len(got[r]) + Len(names)) : (got[r] \o names)[i] = slot[p]
      BY <3>1, <3>2, Zenon
    <3>4. CASE i <= Len(got[r])
      <4>1. i \in 1..Len(got[r])
        BY <1>1, <3>4
      <4>2. got[r][i] \in ToSet(got[r])
        BY <1>1, <4>1, MembersOf
      <4> QED
        BY <2>2, <3>1, <3>3, <3>4, <4>2, Zenon
    <3>5. CASE ~(i <= Len(got[r]))
      <4>1. \A a, b \in Nat : \A c \in 1..(a + b) : ~(c <= a) => c - a \in 1..b
        OBVIOUS
      <4>2. i - Len(got[r]) \in 1..Len(names)
        BY <1>1, <3>5, <4>1, Zenon
      <4> QED
        BY <2>3, <3>1, <3>3, <3>5, <4>2, Zenon
    <3> QED
      BY <3>4, <3>5
  <2> QED
    BY <2>2, <2>4
<1>8. ASSUME NEW q \in Sweep, phase'[q] \in {"open", "read"}, fpos'[q] > 2, ~disturbed'[q]
      PROVE  head.eof /\ \A p \in fpos'[q]..head.end : Valid(p) /\ slot[p] \notin ToSet(got'[q])
  <2>1. CASE q # r
    BY <1>2, <1>8, <2>1 DEF Ahead, Under
  <2>2. CASE q = r
    BY <1>2, <1>5, <1>7, <1>8, <2>2
  <2> QED
    BY <2>1, <2>2
<1>9. Ahead'
  BY <1>1, <1>8 DEF Ahead, Under, Valid, ToSet, PageOf
<1> QED
  BY <1>3, <1>4, <1>9

\* A listing that is read again disturbs every other sweep.  The one that
\* reads it is undisturbed only at its start, if it finds the cache of no use
\* and can keep all of the listing.
LEMMA AheadRefill ==
  ASSUME TypeOK, Shape, Ahead, RemovalSafe, Further, NEW r \in Sweep, fpos[r] >= 2,
         NEW served, NEW names, NEW L, NEW W, NEW P,
         NEW failed, NEW partial, Refilled(r, served, names, L, W, P, failed, partial)
  PROVE  Ahead' /\ RemovalSafe' /\ Further'
<1>1. /\ names \in Seq(Name) /\ L \in Seq(Name) /\ W \in Seq(Name) /\ Once(W) /\ Len(W) <= Cardinality(Name)
      /\ ~partial => L = W /\ \A i \in 1..Len(L) : PageOf(i + 1) \in P
      /\ served = <<>> /\ fpos[r] = 2 => Begins(names, L)
      /\ NoCache(r) \/ \E p \in fpos[r]..head.end : ~Valid(p)
      /\ phase[r] = "read" /\ FillCache(L, P) /\ Give(r, names, failed)
  BY Zenon DEF Refilled
<1>2. \A q \in Sweep :
        /\ moved'[q] <=> moved[q] \/ (/\ Under(q)
                                      /\ IF q = r THEN got[r] \o names # Before(W, fpos[r] + Len(names))
                                                  ELSE got[q] # Before(W, fpos[q]))
        /\ got'[q] = IF moved'[q] THEN <<>> ELSE IF q = r THEN got[r] \o names ELSE got[q]
        /\ disturbed'[q] <=> IF q = r /\ fpos[r] = 2 THEN served # <<>> \/ partial
                             ELSE disturbed[q] \/ (Under(q) /\ (q # r \/ partial))
  BY DEF Refilled, TypeOK
<1>3. /\ Len(names) \in Nat /\ Len(W) \in Nat /\ Len(L) \in Nat /\ DOMAIN L = 1..Len(L)
      /\ Cardinality(Name) \in Nat /\ Position = 2..(Cardinality(Name) + 1)
      /\ \A q \in Sweep : got[q] \in Seq(Name) /\ Len(got[q]) \in Nat /\ fpos[q] \in Nat
                          /\ (fpos[q] = 0 \/ fpos[q] >= 2)
  BY <1>1, Sizes, LenProperties DEF TypeOK
<1>4. /\ \A q \in Sweep : q # r => phase'[q] = phase[q] /\ fpos'[q] = fpos[q]
      /\ fpos'[r] = fpos[r] + Len(names)
  BY <1>1 DEF Give, TypeOK
<1>5. \A q \in Sweep : moved[q] => fpos[q] > 2 /\ disturbed[q]
  BY DEF Further, RemovalSafe
<1>6. \A q \in Sweep : Under(q) /\ ~moved[q] /\ ~(fpos[q] > 2) => got[q] = <<>>
  <2> SUFFICES ASSUME NEW q \in Sweep, Under(q), ~moved[q], ~(fpos[q] > 2)
               PROVE  got[q] = <<>>
    OBVIOUS
  <2>1. fpos[q] = 0 \/ fpos[q] = 2
    BY <1>3
  <2>2. Len(got[q]) = 0
    BY <2>1 DEF Shape
  <2> QED
    BY <1>3, <2>2, EmptySeq
<1>7. Under(r)
  BY <1>1 DEF Under
<1>8. ASSUME fpos[r] > 2
      PROVE  disturbed'[r]
  <2> SUFFICES ASSUME ~disturbed'[r]
               PROVE  FALSE
    OBVIOUS
  <2>1. ~disturbed[r] /\ fpos[r] # 2
    BY <1>2, <1>8
  <2>2. head.eof /\ \A p \in fpos[r]..head.end : Valid(p)
    BY <1>7, <1>8, <2>1 DEF Ahead
  <2>3. 0 \in up
    BY <2>2 DEF Shape, NoHead
  <2> QED
    BY <1>1, <2>1, <2>2, <2>3 DEF NoCache
<1>9. ASSUME ~(fpos[r] > 2)
      PROVE  fpos[r] = 2 /\ ~moved[r] /\ got[r] = <<>> /\ got[r] \o names = names
  <2>1. fpos[r] = 2 /\ ~moved[r]
    BY <1>3, <1>5, <1>9
  <2>2. got[r] = <<>>
    BY <1>6, <1>7, <1>9, <2>1
  <2> QED
    BY <1>1, <2>1, <2>2, ConcatEmptySeq
<1>10. ASSUME ~(fpos[r] > 2), ~disturbed'[r]
       PROVE  /\ fpos[r] = 2 /\ L = W /\ (\A i \in 1..Len(L) : PageOf(i + 1) \in P) /\ Begins(names, L)
              /\ ~moved'[r] /\ got'[r] = names
  <2>1. fpos[r] = 2 /\ got[r] \o names = names /\ ~moved[r]
    BY <1>9, <1>10
  <2>2. served = <<>> /\ ~partial
    BY <1>2, <1>10, <2>1
  <2>3. L = W /\ (\A i \in 1..Len(L) : PageOf(i + 1) \in P) /\ Begins(names, L)
    BY <1>1, <2>1, <2>2
  <2>4. PICK p \in Nat : p = fpos[r] + Len(names) /\ p >= 2 /\ p - 2 = Len(names)
    BY <1>3, <2>1
  <2>5. /\ Before(W, p) \in Seq(Name) /\ Begins(Before(W, p), W)
        /\ p - 2 <= Len(W) => Len(Before(W, p)) = p - 2
    BY <1>1, <2>4, BeforeIs
  <2>6. Len(Before(W, p)) = Len(names)
    BY <2>3, <2>4, <2>5, Zenon DEF Begins
  <2>7. \A i \in 1..Len(names) : names[i] = Before(W, p)[i]
    BY <2>3, <2>5, <2>6, Zenon DEF Begins
  <2>8. names = Before(W, p)
    BY <1>1, <2>5, <2>6, <2>7, SeqEqual
  <2>9. ~moved'[r]
    BY <1>2, <2>1, <2>4, <2>8, Zenon
  <2>10. got'[r] = names
    BY <1>2, <2>1, <2>9, Zenon
  <2> QED
    BY <2>1, <2>3, <2>9, <2>10
<1>11. RemovalSafe'
  <2>1. ASSUME NEW q \in Sweep, moved'[q]
        PROVE  disturbed'[q]
    <3>1. CASE q # r
      BY <1>2, <1>5, <2>1, <3>1
    <3>2. CASE q = r
      BY <1>8, <1>10, <2>1, <3>2
    <3> QED
      BY <3>1, <3>2
  <2> QED
    BY <2>1 DEF RemovalSafe
<1>12. Further'
  <2>1. ASSUME NEW q \in Sweep, moved'[q]
        PROVE  fpos'[q] > 2
    <3>1. CASE q # r
      <4>1. CASE moved[q]
        BY <1>4, <1>5, <3>1, <4>1
      <4>2. CASE ~moved[q]
        <5> SUFFICES ASSUME ~(fpos[q] > 2)
                     PROVE  FALSE
          BY <1>4, <3>1
        <5>1. Under(q) /\ got[q] # Before(W, fpos[q])
          BY <1>2, <2>1, <3>1, <4>2
        <5>2. fpos[q] \in {0, 2}
          BY <1>3
        <5>3. Before(W, fpos[q]) = <<>>
          BY <1>1, <5>2, NothingBefore
        <5> QED
          BY <1>6, <4>2, <5>1, <5>3
      <4> QED
        BY <4>1, <4>2
    <3>2. CASE q = r
      <4> SUFFICES ASSUME ~(fpos'[r] > 2)
                   PROVE  FALSE
        BY <3>2
      <4>1. fpos[r] = 2 /\ Len(names) = 0
        BY <1>3, <1>4
      <4>2. names = <<>> /\ fpos[r] + Len(names) = 2
        BY <1>1, <4>1, EmptySeq
      <4>3. Before(W, 2) = <<>>
        BY <1>1, NothingBefore
      <4>4. got[r] \o names = <<>> /\ ~moved[r]
        BY <1>9, <4>1, <4>2
      <4> QED
        BY <1>2, <2>1, <3>2, <4>2, <4>3, <4>4, Zenon
    <3> QED
      BY <3>1, <3>2
  <2> QED
    BY <2>1 DEF Further
<1>13. ASSUME ~(fpos[r] > 2), ~disturbed'[r]
       PROVE  /\ head'.eof
              /\ \A p \in fpos'[r]..head'.end :
                   /\ PageOf(p) \in up' /\ slot'[p] # None /\ fsdata'[slot'[p]] = p /\ dent'[slot'[p]] = "positive"
                   /\ slot'[p] \notin ToSet(got'[r])
  <2>1. /\ fpos[r] = 2 /\ L = W /\ (\A i \in 1..Len(L) : PageOf(i + 1) \in P) /\ Begins(names, L)
        /\ got'[r] = names
    BY <1>10, <1>13
  <2>2. head' = [age |-> 0, end |-> Len(L) + 1, eof |-> \A i \in 1..Len(L) : PageOf(i + 1) \in P]
    BY <1>1, <1>3 DEF FillCache
  <2>3. head'.end = Len(L) + 1 /\ head'.eof
    BY <2>1, <2>2
  <2>4. ASSUME NEW p \in fpos'[r]..head'.end
        PROVE  /\ PageOf(p) \in up' /\ slot'[p] # None /\ fsdata'[slot'[p]] = p /\ dent'[slot'[p]] = "positive"
               /\ slot'[p] \notin ToSet(got'[r])
    <3>1. /\ p \in Position /\ p - 1 \in 1..Len(L) /\ (p - 1) + 1 = p
          /\ p - 1 \notin 1..Len(names)
      BY <1>1, <1>3, <1>4, <2>1, <2>3, <2>4
    <3>2. PageOf(p) \in P
      BY <2>1, <3>1, Zenon
    <3>3. up' = P /\ slot'[p] = L[p - 1]
      BY <1>1, <1>3, <3>1, <3>2, Zenon DEF FillCache
    <3>4. L[p - 1] \in Name /\ L[p - 1] \in ToSet(L)
      BY <1>1, <3>1, MembersOf
    <3>5. dent'[L[p - 1]] = "positive" /\ fsdata'[L[p - 1]] = At(L, L[p - 1]) + 1
      BY <1>1, <3>4 DEF FillCache
    <3>6. At(L, L[p - 1]) \in 1..Len(L) /\ L[At(L, L[p - 1])] = L[p - 1]
      BY <1>1, <3>4, AtIs
    <3>7. At(L, L[p - 1]) = p - 1
      BY <1>1, <2>1, <3>1, <3>6, Zenon DEF Once
    <3>8. fsdata'[L[p - 1]] = p
      BY <3>1, <3>5, <3>7, Zenon
    <3>9. L[p - 1] \notin ToSet(names)
      <4> SUFFICES ASSUME L[p - 1] \in ToSet(names)
                   PROVE  FALSE
        OBVIOUS
      <4>1. PICK i \in 1..Len(names) : names[i] = L[p - 1]
        BY <1>1, MembersOf
      <4>2. L[i] = L[p - 1] /\ Len(names) <= Len(L)
        BY <2>1, <4>1, Zenon DEF Begins
      <4>3. i \in 1..Len(L)
        BY <1>3, <4>2
      <4>4. i = p - 1
        BY <1>1, <2>1, <3>1, <4>2, <4>3, Zenon DEF Once
      <4> QED
        BY <3>1, <4>4
    <3>10. L[p - 1] # None
      BY <3>4, NameAssumption
    <3> QED
      BY <2>1, <3>2, <3>3, <3>5, <3>8, <3>9, <3>10, Zenon
  <2> QED
    BY <2>3, <2>4
<1>14. ASSUME NEW q \in Sweep, phase'[q] \in {"open", "read"}, fpos'[q] > 2, ~disturbed'[q]
       PROVE  /\ head'.eof
              /\ \A p \in fpos'[q]..head'.end :
                   /\ PageOf(p) \in up' /\ slot'[p] # None /\ fsdata'[slot'[p]] = p /\ dent'[slot'[p]] = "positive"
                   /\ slot'[p] \notin ToSet(got'[q])
  <2>1. q = r
    BY <1>2, <1>4, <1>14 DEF Under
  <2>2. ~(fpos[r] > 2)
    BY <1>8, <1>14, <2>1
  <2> QED
    BY <1>13, <1>14, <2>1, <2>2
<1>15. Ahead'
  BY <1>14 DEF Ahead, Under, Valid, ToSet, PageOf
<1> QED
  BY <1>11, <1>12, <1>15

\* Every step keeps what lies ahead, and lets names move only for a sweep that
\* was disturbed.
LEMMA AheadStep ==
  ASSUME TypeOK, Shape, Ahead, RemovalSafe, Further, [Next]_vars
  PROVE  Ahead' /\ RemovalSafe' /\ Further'
<1>1. ASSUME NEW r \in Sweep, ServeCache(r)
      PROVE  Ahead' /\ RemovalSafe' /\ Further'
  <2>1. fpos[r] >= 2
    BY <1>1 DEF ServeCache, Shape
  <2>2. PICK names : Served(r, names)
    BY <1>1, <2>1, ServeIs
  <2> QED
    BY <2>2, AheadServe
<1>2. ASSUME NEW r \in Sweep, Refill(r)
      PROVE  Ahead' /\ RemovalSafe' /\ Further'
  <2>1. fpos[r] >= 2
    BY <1>2 DEF Refill, Shape
  <2>2. PICK served, names, L, W, P, failed, partial : Refilled(r, served, names, L, W, P, failed, partial)
    BY <1>2, <2>1, RefillIs
  <2> QED
    BY <2>1, <2>2, AheadRefill
<1>3. CASE UNCHANGED vars
  BY <1>3 DEF vars, cache, dentries, sweeps, Ahead, RemovalSafe, Further, Under, Valid, ToSet, PageOf
<1> QED
  BY <1>1, <1>2, <1>3, AheadOthers, AheadRename, AheadReader DEF Next

\* At the start no sweep is under way.
LEMMA AheadInit ==
  ASSUME Init
  PROVE  Ahead /\ RemovalSafe /\ Further
BY DEF Init, Ahead, RemovalSafe, Further, Under

-----------------------------------------------------------------------------
(* The theorems *)

\* The inductive invariant
Invariant == TypeOK /\ Shape /\ Kept /\ SweepExact /\ Ahead /\ RemovalSafe /\ Further

\* It holds in every state of the specification.
LEMMA InvariantHolds == Spec => []Invariant
<1>1. Init => Invariant
  BY TypeInit, ShapeInit, KeptInit, AheadInit DEF Invariant
<1>2. Invariant /\ [Next]_vars => Invariant'
  BY TypeStep, ShapeStep, KeptStep, AheadStep DEF Invariant
<1> QED
  BY <1>1, <1>2, PTL DEF Spec

\* Every variable keeps its type: each position that is given to a dentry or
\* to a sweep is one of the directory's, however often the pages of the cache
\* are dropped and filled again (dcache.c, shfs_readdir in dir.c).
THEOREM TypeCorrect == Spec => []TypeOK
BY InvariantHolds, PTL DEF Invariant

\* A sweep that has come to its end has given every name that was there all
\* the time, once, and none that was not, whether its calls were served from
\* the cache or by a listing read again (shfs_readdir); a name is given twice
\* only if another was renamed to it on the way, and keeps its position in the
\* cache (shfs_rename).
THEOREM SweepsExact == Spec => []SweepExact
BY InvariantHolds, PTL DEF Invariant

\* Names only move under a sweep if something has disturbed it; to remove
\* what it has given does not (docs/html/internals.html:91, for rm -rf).
THEOREM RemovalsSafe == Spec => []RemovalSafe
BY InvariantHolds, PTL DEF Invariant

-----------------------------------------------------------------------------
(* The sweeps are those of one directory *)

\* What is shown of a sweep: the halves of a call are not told apart.
LEMMA ShownIs ==
  /\ \A q \in Sweep : /\ Shown[q] = "open" <=> Under(q)
                      /\ \A l \in {"closed", "end", "failed"} : Shown[q] = l <=> phase[q] = l
  /\ UNCHANGED phase => UNCHANGED Shown
<1>1. \A q \in Sweep : /\ Shown[q] = "open" <=> Under(q)
                       /\ \A l \in {"closed", "end", "failed"} : Shown[q] = l <=> phase[q] = l
  BY DEF Shown, Under
<1>2. UNCHANGED phase => UNCHANGED Shown
  BY DEF Shown
<1> QED
  BY <1>1, <1>2

\* A step of one sweep shows as one of that sweep.
LEMMA ShownNext ==
  ASSUME TypeOK, NEW r \in Sweep, NEW l \in {"closed", "open", "read", "end", "failed"},
         phase' = [phase EXCEPT ![r] = l]
  PROVE  Shown' = [Shown EXCEPT ![r] = IF l = "read" THEN "open" ELSE l]
<1>1. \A q \in Sweep : phase'[q] = IF q = r THEN l ELSE phase[q]
  BY DEF TypeOK
<1>2. Shown' = [q \in Sweep |-> IF phase'[q] = "read" THEN "open" ELSE phase'[q]]
  BY DEF Shown
<1>3. Shown = [q \in Sweep |-> IF phase[q] = "read" THEN "open" ELSE phase[q]]
  BY DEF Shown
<1> QED
  BY <1>1, <1>2, <1>3

\* A sweep is opened, or closed.
LEMMA OpenCloseMaps ==
  ASSUME Invariant, NEW r \in Sweep
  PROVE  /\ Open(r) => Directory!Open(r)
         /\ Close(r) => Directory!Close(r)
<1>1. ASSUME Open(r)
      PROVE  Directory!Open(r)
  <2>1. Shown[r] = "closed"
    BY <1>1, ShownIs DEF Open
  <2>2. Shown' = [Shown EXCEPT ![r] = "open"]
    BY <1>1, ShownNext DEF Open, Invariant
  <2> QED
    BY <1>1, <2>1, <2>2 DEF Open, cache, Directory!Open
<1>2. ASSUME Close(r)
      PROVE  Directory!Close(r)
  <2>1. Shown[r] \in {"end", "failed"}
    BY <1>2, ShownIs DEF Close
  <2>2. Shown' = [Shown EXCEPT ![r] = "closed"]
    BY <1>2, ShownNext DEF Close, Invariant
  <2> QED
    BY <1>2, <2>1, <2>2 DEF Close, cache, Directory!Close
<1> QED
  BY <1>1, <1>2

\* A call begins, which nobody sees; or it fails, before it gave anything.
LEMMA BeginMaps ==
  ASSUME Invariant, NEW r \in Sweep, Begin(r)
  PROVE  Directory!Elsewhere \/ Directory!Fail(r)
<1>1. /\ phase[r] = "open" /\ Shown[r] = "open" /\ phase \in [Sweep -> {"closed", "open", "read", "end", "failed"}]
      /\ UNCHANGED <<remote, got, excuse, taken, moved, events, unlisted>>
  BY ShownIs DEF Invariant, TypeOK, Begin, cache, DropPages, Under
<1>2. UNCHANGED disturbed \/ DisturbOpen
  BY DEF Begin
<1>3. \A q \in Sweep : /\ disturbed[q] => disturbed'[q]
                       /\ disturbed'[q] => disturbed[q] \/ Shown[q] = "open"
  BY <1>2, ShownIs DEF DisturbOpen
<1>4. CASE phase' = [phase EXCEPT ![r] = "read"]
  <2>1. Shown' = [Shown EXCEPT ![r] = "open"]
    BY <1>4, ShownNext DEF Invariant
  <2>2. Shown' = Shown
    BY <1>1, <2>1 DEF Shown
  <2> QED
    BY <1>1, <1>3, <2>2, Zenon DEF Directory!Elsewhere
<1>5. CASE UNCHANGED phase
  BY <1>1, <1>3, <1>5, ShownIs, Zenon DEF Directory!Elsewhere
<1>6. CASE phase' = [phase EXCEPT ![r] = "failed"] /\ UNCHANGED disturbed
  <2>1. Shown' = [Shown EXCEPT ![r] = "failed"]
    BY <1>6, ShownNext DEF Invariant
  <2> QED
    BY <1>1, <1>6, <2>1, Zenon DEF Directory!Fail
<1>7. \/ phase' = [phase EXCEPT ![r] = "read"]
      \/ UNCHANGED phase
      \/ phase' = [phase EXCEPT ![r] = "failed"] /\ UNCHANGED disturbed
  <2>1. [phase EXCEPT ![r] = "open"] = phase
    BY <1>1
  <2> QED
    BY <2>1 DEF Begin
<1> QED
  BY <1>4, <1>5, <1>6, <1>7

\* A call that gives its sweep names goes on as it should, by the listing
\* that the cache has then.
LEMMA GoesOn ==
  ASSUME Invariant, Invariant', NEW r \in Sweep, NEW names \in Seq(Name), phase[r] = "read",
         ~moved[r], ~moved'[r], got'[r] = got[r] \o names, UNCHANGED remote,
         phase'[r] \in {"open", "end", "failed"}, phase'[r] # "open" => names = <<>>,
         fpos[r] = 2 \/ excuse[r] \subseteq excuse'[r],
         fpos[r] = 2 \/ taken'[r] = taken[r] \/ Apart(got'[r], got'[r], taken'[r])
  PROVE  Directory!Right(r) /\ (phase'[r] = "end" => Directory!Complete(r))
<1>1. /\ got[r] \in Seq(Name) /\ Len(got[r]) \in Nat /\ Len(names) \in Nat
      /\ got'[r] \in Seq(Name) /\ Len(got'[r]) \in Nat
  <2>1. got[r] \in Seq(Name) /\ got'[r] \in Seq(Name)
    BY DEF Invariant, TypeOK
  <2> QED
    BY <2>1, LenProperties
<1>2. /\ Len(got'[r]) = Len(got[r]) + Len(names)
      /\ \A i \in 1..(Len(got[r]) + Len(names)) :
           got'[r][i] = IF i <= Len(got[r]) THEN got[r][i] ELSE names[i - Len(got[r])]
  BY <1>1, ConcatProperties
<1>3. Len(got[r]) <= Len(got'[r]) /\ \A i \in 1..Len(got[r]) : got'[r][i] = got[r][i]
  <2>1. \A a, b \in Nat : a <= a + b /\ \A i \in 1..a : i \in 1..(a + b) /\ i <= a
    OBVIOUS
  <2>2. /\ Len(got[r]) <= Len(got[r]) + Len(names)
        /\ \A i \in 1..Len(got[r]) : i \in 1..(Len(got[r]) + Len(names)) /\ i <= Len(got[r])
    BY <1>1, <2>1, Zenon
  <2> QED
    BY <1>2, <2>2, Zenon
<1>4. phase'[r] # "open" => got'[r] = got[r]
  BY <1>1, ConcatEmptySeq
<1>5. Apart(got'[r], got'[r], taken'[r]) /\ ToSet(got'[r]) \subseteq remote \cup excuse'[r]
  <2>1. CASE Len(got'[r]) = 0
    <3>1. \A i \in 1..Len(got'[r]) : FALSE
      BY <2>1
    <3>2. \A x : x \notin ToSet(got'[r])
      BY <1>1, <3>1, MembersOf, Zenon
    <3> QED
      BY <3>1, <3>2 DEF Apart
  <2>2. CASE phase'[r] = "open" /\ Len(got'[r]) # 0
    <3>1. fpos'[r] > 2
      <4>1. phase'[r] \in {"open", "read"} /\ ~moved'[r] => Len(got'[r]) = IF fpos'[r] = 0 THEN 0 ELSE fpos'[r] - 2
        BY DEF Invariant, Shape, Under
      <4>2. fpos'[r] = 0 \/ (fpos'[r] \in Nat /\ fpos'[r] >= 2)
        <5>1. Cardinality(Name) \in Nat /\ Position = 2..(Cardinality(Name) + 1)
          BY Sizes DEF Invariant
        <5>2. fpos'[r] \in {0} \cup (2..(Cardinality(Name) + 1)) \cup {Cardinality(Name) + 2}
          BY <5>1 DEF Invariant, TypeOK, Position
        <5> QED
          BY <5>1, <5>2
      <4> QED
        BY <2>2, <4>1, <4>2
    <3>2. PICK L \in Seq(Name) : Laid(L)'
      BY DEF Invariant, Kept
    <3>3. Follows(got'[r], L, excuse'[r], taken'[r]) /\ remote' \ excuse'[r] = ToSet(L) \ excuse'[r]
      <4>1. \A q \in Sweep : phase'[q] \in {"open", "read"} /\ ~moved'[q] /\ fpos'[q] > 2 =>
              Follows(got'[q], L, excuse'[q], taken'[q]) /\ remote' \ excuse'[q] = ToSet(L) \ excuse'[q]
        BY <3>2, Zenon DEF Laid, Under, Follows, Apart, ToSet
      <4>2. phase'[r] \in {"open", "read"}
        BY <2>2
      <4> QED
        BY <3>1, <4>1, <4>2, Zenon
    <3>4. remote \ excuse'[r] = ToSet(L) \ excuse'[r]
      BY <3>3
    <3>5. PICK B, E, T : B = got'[r] /\ E = excuse'[r] /\ T = taken'[r]
      OBVIOUS
    <3>6. B \in Seq(Name) /\ Follows(B, L, E, T) /\ remote \ E = ToSet(L) \ E
      BY <1>1, <3>3, <3>4, <3>5, Zenon
    <3>7. Apart(B, B, T) /\ ToSet(B) \subseteq remote \cup E
      BY <3>6, RightFollows
    <3> QED
      BY <3>5, <3>7, Zenon
  <2>3. CASE phase'[r] = "end"
    <3>1. /\ \A i, j \in DOMAIN got'[r] : got'[r][i] = got'[r][j] => i = j \/ got'[r][i] \in taken'[r]
          /\ ToSet(got'[r]) \subseteq remote' \cup excuse'[r]
      BY <2>3, Zenon DEF Invariant, SweepExact, ToSet
    <3> QED
      BY <1>1, <3>1, LenProperties DEF Apart
  <2>4. CASE phase'[r] = "failed" /\ Len(got'[r]) # 0
    <3>1. got'[r] = got[r]
      BY <1>4, <2>4
    <3>2. fpos[r] > 2
      <4>1. Len(got[r]) = IF fpos[r] = 0 THEN 0 ELSE fpos[r] - 2
        BY DEF Invariant, Shape, Under
      <4>2. fpos[r] = 0 \/ (fpos[r] \in Nat /\ fpos[r] >= 2)
        BY Sizes DEF Invariant
      <4> QED
        BY <2>4, <3>1, <4>1, <4>2
    <3>3. PICK L \in Seq(Name) : Laid(L)
      BY DEF Invariant, Kept
    <3>4. Follows(got[r], L, excuse[r], taken[r]) /\ remote \ excuse[r] = ToSet(L) \ excuse[r]
      BY <3>2, <3>3 DEF Laid, Under
    <3>5. Apart(got[r], got[r], taken[r]) /\ ToSet(got[r]) \subseteq remote \cup excuse[r]
      BY <1>1, <3>4, RightFollows
    <3>6. excuse[r] \subseteq excuse'[r] /\ (taken'[r] = taken[r] \/ Apart(got'[r], got'[r], taken'[r]))
      BY <3>2
    <3> QED
      BY <3>1, <3>5, <3>6
  <2> QED
    BY <2>1, <2>2, <2>3, <2>4
<1>6. Directory!Right(r)
  BY <1>3, <1>5, Zenon DEF Directory!Right, Directory!ToSet, ToSet, Apart
<1>7. ASSUME phase'[r] = "end"
      PROVE  Directory!Complete(r)
  <2>1. remote' \ excuse'[r] \subseteq ToSet(got'[r])
    BY <1>7, Zenon DEF Invariant, SweepExact, ToSet
  <2>2. got'[r] = got[r]
    BY <1>4, <1>7
  <2> QED
    BY <2>1, <2>2 DEF Directory!Complete, Directory!ToSet, ToSet
<1> QED
  BY <1>6, <1>7

\* A sweep at the first position was given nothing, one further on was.
LEMMA FirstGiven ==
  ASSUME Invariant, NEW r \in Sweep, phase[r] = "read"
  PROVE  /\ fpos[r] = 2 => got[r] = <<>>
         /\ ~moved[r] /\ fpos[r] # 2 => got[r] # <<>>
<1>1. got[r] \in Seq(Name) /\ fpos[r] \in Nat /\ fpos[r] >= 2
  BY Sizes DEF Invariant, TypeOK, Shape
<1>2. moved[r] => got[r] = <<>>
  BY DEF Invariant, Shape
<1>3. ~moved[r] => Len(got[r]) = fpos[r] - 2
  BY <1>1 DEF Invariant, Shape, Under
<1>4. Len(got[r]) = 0 <=> got[r] = <<>>
  BY <1>1, EmptySeq
<1> QED
  BY <1>1, <1>2, <1>3, <1>4

\* A call shows as the names it gives, or as the end of its sweep.
LEMMA CallShows ==
  ASSUME Invariant, NEW r \in Sweep, phase[r] = "read", NEW names, NEW failed \in BOOLEAN, Give(r, names, failed)
  PROVE  /\ Shown[r] = "open" /\ \E l \in {"open", "end", "failed"} : Shown' = [Shown EXCEPT ![r] = l]
         /\ Shown'[r] = "end" <=> phase'[r] = "end"
         /\ phase'[r] \in {"open", "end", "failed"} /\ (phase'[r] # "open" => names = <<>>)
<1>1. PICK l \in {"open", "end", "failed"} :
        phase' = [phase EXCEPT ![r] = l] /\ (l # "open" => names = <<>>)
  BY DEF Give
<1>2. Shown' = [Shown EXCEPT ![r] = l]
  <2>1. l \in {"closed", "open", "read", "end", "failed"}
    OBVIOUS
  <2>2. Shown' = [Shown EXCEPT ![r] = IF l = "read" THEN "open" ELSE l]
    BY <1>1, <2>1, ShownNext DEF Invariant
  <2> QED
    BY <2>2
<1>3. Shown[r] = "open"
  BY ShownIs DEF Under
<1>4. phase'[r] = l
  BY <1>1 DEF Invariant, TypeOK
<1>5. Shown'[r] = l
  BY <1>2 DEF Shown
<1> QED
  BY <1>1, <1>2, <1>3, <1>4, <1>5

\* A call that the cache serves
LEMMA ServeMaps ==
  ASSUME Invariant, Invariant', NEW r \in Sweep, ServeCache(r)
  PROVE  Directory!Give(r)
<1>1. TypeOK /\ fpos[r] >= 2 /\ phase[r] = "read"
  BY DEF Invariant, ServeCache, Shape
<1>2. PICK names : Served(r, names)
  BY <1>1, ServeIs
<1>3. /\ names \in Seq(Name) /\ Give(r, names, FALSE)
      /\ UNCHANGED <<remote, unlisted, moved, events>>
      /\ \A q \in Sweep : q # r => got'[q] = got[q] /\ excuse'[q] = excuse[q] /\ disturbed'[q] = disturbed[q]
      /\ got'[r] = IF moved[r] THEN <<>> ELSE got[r] \o names
      /\ excuse'[r] = IF fpos[r] = 2 THEN unlisted ELSE excuse[r]
      /\ fpos[r] # 2 => disturbed'[r] = disturbed[r] /\ taken'[r] = taken[r]
      /\ \A q \in Sweep : taken'[q] \subseteq taken[q]
  BY <1>1, <1>2 DEF Served, cache, TypeOK
<1>4. /\ Shown[r] = "open" /\ \E l \in {"open", "end", "failed"} : Shown' = [Shown EXCEPT ![r] = l]
      /\ Shown'[r] = "end" <=> phase'[r] = "end"
      /\ phase'[r] \in {"open", "end", "failed"} /\ (phase'[r] # "open" => names = <<>>)
  BY <1>1, <1>3, CallShows
<1>5. fpos[r] = 2 => got[r] = <<>>
  BY <1>1, FirstGiven
<1>6. ASSUME NEW q \in Sweep
      PROVE  /\ moved[q] => moved'[q]
             /\ moved'[q] => moved[q] \/ disturbed'[q]
             /\ disturbed[q] => disturbed'[q] \/ (q = r /\ got[r] = <<>>)
             /\ ~moved'[q] => Directory!Undisturbed(r, q)
  <2>1. q # r => Directory!Undisturbed(r, q)
    BY <1>3 DEF Directory!Undisturbed
  <2>2. q = r => Directory!Undisturbed(r, q)
    BY DEF Directory!Undisturbed
  <2> QED
    BY <1>3, <1>5, <2>1, <2>2
<1>7. ASSUME ~moved'[r]
      PROVE  /\ Directory!Right(r)
             /\ excuse'[r] \subseteq unlisted' \cup (IF got[r] = <<>> THEN {} ELSE excuse[r])
             /\ Shown'[r] = "end" => Directory!Complete(r)
  <2>1. ~moved[r] /\ got'[r] = got[r] \o names
    BY <1>3, <1>7
  <2>2. fpos[r] = 2 \/ excuse[r] \subseteq excuse'[r]
    BY <1>3
  <2>3. Directory!Right(r) /\ (phase'[r] = "end" => Directory!Complete(r))
    BY <1>1, <1>3, <1>4, <1>7, <2>1, <2>2, GoesOn
  <2>4. excuse'[r] \subseteq unlisted' \cup (IF got[r] = <<>> THEN {} ELSE excuse[r])
    <3>1. fpos[r] # 2 => got[r] # <<>>
      BY <1>1, <2>1, FirstGiven
    <3> QED
      BY <1>3, <3>1
  <2> QED
    BY <1>4, <2>3, <2>4
<1>8. unlisted' \subseteq unlisted
  BY <1>3
<1> QED
  BY <1>3, <1>4, <1>6, <1>7, <1>8, Zenon DEF Directory!Give

\* and one that reads the directory
LEMMA RefillMaps ==
  ASSUME Invariant, Invariant', NEW r \in Sweep, Refill(r)
  PROVE  Directory!Give(r)
<1>1. TypeOK /\ fpos[r] >= 2 /\ phase[r] = "read"
  BY DEF Invariant, Refill, Shape
<1>2. PICK served, names, L, W, P, failed, partial : Refilled(r, served, names, L, W, P, failed, partial)
  BY <1>1, RefillIs
<1>3. /\ names \in Seq(Name) /\ failed \in BOOLEAN /\ Give(r, names, failed)
      /\ UNCHANGED remote /\ unlisted' = remote \ ToSet(W)
      /\ ToSet(W) = remote \/ events' # events
  BY <1>2 DEF Refilled
<1>4. /\ \A q \in Sweep : moved[q] => moved'[q]
      /\ \A q \in Sweep : ~moved'[q] => got'[q] = IF q = r THEN got[r] \o names ELSE got[q]
  BY <1>2 DEF Refilled
<1>5. \A q \in Sweep : ~moved'[q] =>
        excuse'[q] = IF q = r /\ fpos[r] = 2 THEN unlisted'
                     ELSE IF Under(q) THEN excuse[q] \cup unlisted' ELSE excuse[q]
  BY <1>2 DEF Refilled
<1>6. \A q \in Sweep : /\ disturbed[q] => disturbed'[q] \/ (q = r /\ fpos[r] = 2)
                       /\ taken'[q] \subseteq taken[q]
  BY <1>2 DEF Refilled
<1>7. /\ Shown[r] = "open" /\ \E l \in {"open", "end", "failed"} : Shown' = [Shown EXCEPT ![r] = l]
      /\ Shown'[r] = "end" <=> phase'[r] = "end"
      /\ phase'[r] \in {"open", "end", "failed"} /\ (phase'[r] # "open" => names = <<>>)
  BY <1>1, <1>3, CallShows
<1>8. fpos[r] = 2 => got[r] = <<>>
  BY <1>1, FirstGiven
<1>9. ASSUME NEW q \in Sweep
      PROVE  /\ moved[q] => moved'[q]
             /\ moved'[q] => moved[q] \/ disturbed'[q]
             /\ disturbed[q] => disturbed'[q] \/ (q = r /\ got[r] = <<>>)
             /\ ~moved'[q] => Directory!Undisturbed(r, q)
  <2>1. moved'[q] => disturbed'[q]
    BY DEF Invariant, RemovalSafe
  <2>2. ~moved'[q] /\ q # r => Directory!Undisturbed(r, q)
    BY <1>4, <1>5 DEF Directory!Undisturbed
  <2>3. q = r => Directory!Undisturbed(r, q)
    BY DEF Directory!Undisturbed
  <2> QED
    BY <1>4, <1>6, <1>8, <2>1, <2>2, <2>3
<1>10. ASSUME ~moved'[r]
       PROVE  /\ Directory!Right(r)
              /\ excuse'[r] \subseteq unlisted' \cup (IF got[r] = <<>> THEN {} ELSE excuse[r])
              /\ Shown'[r] = "end" => Directory!Complete(r)
  <2>1. ~moved[r] /\ got'[r] = got[r] \o names /\ Under(r)
    BY <1>1, <1>4, <1>10 DEF Under
  <2>2. excuse'[r] = IF fpos[r] = 2 THEN unlisted' ELSE excuse[r] \cup unlisted'
    BY <1>5, <1>10, <2>1
  <2>3. fpos[r] = 2 \/ excuse[r] \subseteq excuse'[r]
    BY <2>2
  <2>6. Apart(got'[r], got'[r], taken'[r])
    <3>1. PICK p : p = fpos[r] + Len(names)
      OBVIOUS
    <3>2. p \in Nat /\ p >= 2
      <4>1. fpos[r] \in Nat /\ Len(names) \in Nat
        BY <1>1, <1>3, Sizes, LenProperties
      <4> QED
        BY <1>1, <3>1, <4>1
    <3>3. got'[r] = Before(W, p) /\ W \in Seq(Name) /\ Once(W)
      BY <1>2, <1>10, <2>1, <3>1 DEF Refilled
    <3>4. Once(got'[r])
      BY <3>2, <3>3, BeforeIs, BeginsOnce
    <3> QED
      BY <3>4, Zenon DEF Once, Apart
  <2>4. Directory!Right(r) /\ (phase'[r] = "end" => Directory!Complete(r))
    BY <1>1, <1>3, <1>7, <1>10, <2>1, <2>3, <2>6, GoesOn
  <2>5. excuse'[r] \subseteq unlisted' \cup (IF got[r] = <<>> THEN {} ELSE excuse[r])
    <3>1. fpos[r] # 2 => got[r] # <<>>
      BY <1>1, <2>1, FirstGiven
    <3> QED
      BY <2>2, <3>1
  <2> QED
    BY <1>7, <2>4, <2>5
<1>11. unlisted' \subseteq unlisted \/ events' # events
  BY <1>3
<1> QED
  BY <1>3, <1>6, <1>7, <1>9, <1>10, <1>11, Zenon DEF Directory!Give

\* Changes of the directory, from this side and from the other
LEMMA ChangeMaps ==
  ASSUME Invariant, NEW n \in Name
  PROVE  /\ Create(n) \/ Unlink(n) => Directory!ChangeHere(n)
         /\ RemoteChange(n) => Directory!ChangeThere(n)
<1>1. ASSUME Touch({n}), UNCHANGED <<phase, got, taken, moved>>,
             remote' = IF n \in remote THEN remote \ {n} ELSE remote \cup {n}
      PROVE  Directory!Change(n)
  <2>1. \A q \in Sweep : Shown[q] = "closed" <=> phase[q] = "closed"
    BY ShownIs
  <2>2. excuse' = [q \in Sweep |-> IF Shown[q] = "closed" THEN {} ELSE excuse[q] \cup {n}]
    BY <1>1, <2>1 DEF Touch
  <2>3. UNCHANGED Shown
    BY <1>1, ShownIs
  <2> QED
    BY <1>1, <2>2, <2>3, Zenon DEF Directory!Change
<1>2. ASSUME Create(n)
      PROVE  Directory!ChangeHere(n)
  <2>1. Directory!Change(n)
    BY <1>1, <1>2 DEF Create
  <2> QED
    BY <1>2, <2>1 DEF Create, Directory!ChangeHere
<1>3. ASSUME Unlink(n)
      PROVE  Directory!ChangeHere(n)
  <2>1. Directory!Change(n)
    BY <1>1, <1>3 DEF Unlink
  <2>2. \A q \in Sweep : /\ disturbed[q] => disturbed'[q]
                         /\ disturbed'[q] => disturbed[q] \/ (Under(q) /\ n \notin ToSet(got[q]))
    BY <1>3 DEF Unlink, Awaits
  <2>3. \A q \in Sweep : Shown[q] = "open" <=> Under(q)
    BY ShownIs
  <2>4. unlisted' = unlisted \ {n}
    BY <1>3 DEF Unlink
  <2> QED
    BY <2>1, <2>2, <2>3, <2>4 DEF Directory!ChangeHere, Directory!ToSet, ToSet
<1>4. ASSUME RemoteChange(n)
      PROVE  Directory!ChangeThere(n)
  <2>1. Directory!Change(n)
    BY <1>1, <1>4 DEF RemoteChange
  <2> QED
    BY <1>4, <2>1 DEF RemoteChange, Directory!ChangeThere
<1> QED
  BY <1>2, <1>3, <1>4

LEMMA RenameMaps ==
  ASSUME Invariant, NEW a \in Name, NEW b \in Name, Rename(a, b)
  PROVE  Directory!Rename(a, b)
<1>1. /\ remote' = (remote \ {a}) \cup {b} /\ unlisted' = unlisted \ {a, b}
      /\ UNCHANGED <<phase, got, moved>> /\ Touch({a, b})
      /\ \A q \in Sweep : taken'[q] = IF Under(q) /\ got[q] # <<>> THEN taken[q] \cup {b} ELSE taken[q]
      /\ \A q \in Sweep : disturbed'[q] <=>
           disturbed[q] \/ Awaits(q, a) \/ (dent[b] = "positive" /\ Awaits(q, b))
  BY DEF Rename, Invariant, TypeOK
<1>2. /\ \A q \in Sweep : Shown[q] = "closed" <=> phase[q] = "closed"
      /\ \A q \in Sweep : Shown[q] = "open" <=> Under(q)
      /\ UNCHANGED Shown
  BY <1>1, ShownIs
<1>3. excuse' = [q \in Sweep |-> IF Shown[q] = "closed" THEN {} ELSE excuse[q] \cup {a, b}]
  BY <1>1, <1>2 DEF Touch
<1>4. ASSUME NEW q \in Sweep
      PROVE  /\ taken[q] \subseteq taken'[q]
             /\ taken'[q] \subseteq taken[q] \cup (IF Shown[q] = "open" THEN {b} ELSE {})
             /\ disturbed[q] => disturbed'[q]
             /\ disturbed'[q] => disturbed[q] \/ (Shown[q] = "open" /\ ~({a, b} \subseteq ToSet(got[q])))
  BY <1>1, <1>2 DEF Awaits
<1> QED
  BY <1>1, <1>2, <1>3, <1>4, Zenon DEF Directory!Rename, Directory!ToSet, ToSet

\* What happens to memory, to ages and to dentries does not show.
LEMMA OthersMap ==
  ASSUME Invariant,
         \/ \E n \in Name : Lookup(n) \/ ReclaimDentry(n) \/ RenameFails(n)
         \/ RemoveFails \/ Tick \/ \E P \in Page : ReclaimPage(P)
  PROVE  Directory!Elsewhere
<1>1. UNCHANGED <<remote, unlisted, got, excuse, taken, moved, phase>>
  BY DEF Lookup, ReclaimDentry, RenameFails, RemoveFails, Tick, ReclaimPage, DropPages, sweeps
<1>2. \A q \in Sweep : /\ disturbed[q] => disturbed'[q]
                       /\ disturbed'[q] => disturbed[q] \/ Under(q)
  BY DEF Lookup, ReclaimDentry, RenameFails, RemoveFails, Tick, ReclaimPage, sweeps, DisturbOpen, Awaits
<1>3. \A q \in Sweep : /\ disturbed[q] => disturbed'[q]
                       /\ disturbed'[q] => disturbed[q] \/ Shown[q] = "open"
  BY <1>2, ShownIs
<1>4. UNCHANGED Shown
  BY <1>1, ShownIs
<1> QED
  BY <1>1, <1>3, <1>4, Zenon DEF Directory!Elsewhere

\* At the start no sweep shows anything.
LEMMA InitMaps == Init => Directory!Init
BY DEF Init, Directory!Init, Shown

\* Every step shows as one of the directory.
LEMMA StepMaps == Invariant /\ Invariant' /\ [Next]_vars => [Directory!Next]_Directory!vars
<1> SUFFICES ASSUME Invariant, Invariant', [Next]_vars
             PROVE  [Directory!Next]_Directory!vars
  OBVIOUS
<1>1. ASSUME NEW r \in Sweep, Open(r) \/ Close(r) \/ Begin(r) \/ ServeCache(r) \/ Refill(r)
      PROVE  Directory!Next
  BY <1>1, OpenCloseMaps, BeginMaps, ServeMaps, RefillMaps, Zenon DEF Directory!Next
<1>2. ASSUME NEW n \in Name, Create(n) \/ Unlink(n) \/ RemoteChange(n)
      PROVE  Directory!Next
  BY <1>2, ChangeMaps, Zenon DEF Directory!Next
<1>3. CASE \/ \E n \in Name : Lookup(n) \/ ReclaimDentry(n) \/ RenameFails(n)
           \/ RemoveFails \/ Tick \/ \E P \in Page : ReclaimPage(P)
  BY <1>3, OthersMap, Zenon DEF Directory!Next
<1>4. CASE UNCHANGED vars
  <2>1. UNCHANGED <<remote, unlisted, phase, got, excuse, taken, moved, disturbed, events>>
    BY <1>4 DEF vars, cache, sweeps
  <2>2. UNCHANGED Shown
    BY <2>1, ShownIs
  <2> QED
    BY <2>1, <2>2 DEF Directory!vars
<1>5. ASSUME NEW a \in Name, NEW b \in Name, Rename(a, b)
      PROVE  Directory!Next
  BY <1>5, RenameMaps, Zenon DEF Directory!Next
<1> QED
  BY <1>1, <1>2, <1>3, <1>4, <1>5, Zenon DEF Next

\* The sweeps are those of one directory: what a call of shfs_readdir gives,
\* from pages that come and go or from a listing read again, goes on with
\* what its sweep was given and is there; the operations that change the
\* directory from this side, renames too, are seen by every sweep that begins
\* after them.
THEOREM Implements == Spec => ListsOneDirectory
<1>1. Init => Directory!Init
  BY InitMaps
<1>2. Invariant /\ Invariant' /\ [Next]_vars => [Directory!Next]_Directory!vars
  BY StepMaps
<1> QED
  BY <1>1, <1>2, InvariantHolds, PTL DEF Spec, ListsOneDirectory, Directory!Spec

=============================================================================
