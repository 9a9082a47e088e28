--------------------------- MODULE ReadAheadProof ---------------------------
(***************************************************************************)
(* Lemmas about the read-ahead rule of module FCache, for pages and caches *)
(* of any size: it reads whole pages, at least the one that is asked for   *)
(* and no more than fit into the cache, and the position is a multiple of  *)
(* the length (ReadAheadRight).                                            *)
(*                                                                         *)
(* The rule ends with the greatest common divisor of position and length.  *)
(* That this is still a whole number of pages rests on the fact that every *)
(* common divisor divides the greatest one (DividesGcd), which is shown    *)
(* with the least common multiple of the two.                              *)
(***************************************************************************)
EXTENDS FCache, Integers, TLAPS, WellFoundedInduction

\* Every set of naturals that is not empty has a least element.
LEMMA LeastElement ==
  ASSUME NEW T \in SUBSET Nat, T # {}
  PROVE  \E x \in T : \A y \in T : x <= y
<1> DEFINE R == OpToRel(<, Nat)
<1>1. IsWellFoundedOn(R, Nat)
  BY NatLessThanWellFounded
<1>2. \A x, y \in Nat : y < x => <<y, x>> \in R
  BY DEF OpToRel
<1> HIDE DEF R
<1>3. PICK x \in T : \A y \in T : ~(<<y, x>> \in R)
  BY <1>1, WFMin, Zenon
<1>4. ASSUME NEW y \in T
      PROVE  x <= y
  <2>1. ~(y < x)
    BY <1>2, <1>3
  <2> QED
    BY <2>1
<1> QED
  BY <1>4

\* The multiples of a number, in both notations.
LEMMA Multiples ==
  ASSUME NEW d \in Nat \ {0}
  PROVE  /\ \A k \in Int : (k * d) % d = 0
         /\ \A k \in Nat, m \in 0..(d - 1) : ((k * d) + m) % d = m
         /\ \A x \in Nat : x % d = 0 => x \div d \in Nat /\ x = (x \div d) * d
         /\ \A x \in Nat : x % d \in 0..(d - 1)
         /\ \A x \in Nat : x - (x % d) \in Nat /\ (x - (x % d)) % d = 0
OBVIOUS

\* Sums and differences of multiples are multiples.
LEMMA SumOfMultiples ==
  ASSUME NEW d \in Nat \ {0}, NEW x \in Nat, NEW y \in Nat, x % d = 0
  PROVE  /\ (x + y) % d = y % d
         /\ y <= x /\ y % d = 0 => (x - y) % d = 0
<1>1. PICK j \in Nat : x = j * d
  BY Multiples
<1>2. PICK q \in Nat, r \in 0..(d - 1) : y = (q * d) + r /\ r = y % d
  <2>1. y = ((y \div d) * d) + (y % d) /\ y \div d \in Nat /\ y % d \in 0..(d - 1)
    OBVIOUS
  <2> QED
    BY <2>1
<1>3. PICK s \in Nat, t \in Int : s = j + q /\ t = j - q
  OBVIOUS
<1>4. (x + y) % d = y % d
  <2>1. x + y = (s * d) + r
    BY <1>1, <1>2, <1>3
  <2>2. ((s * d) + r) % d = r
    BY Multiples
  <2> QED
    BY <1>2, <2>1, <2>2
<1>5. ASSUME y <= x, y % d = 0
      PROVE  (x - y) % d = 0
  <2>1. x - y = t * d
    BY <1>1, <1>2, <1>3, <1>5
  <2>2. (t * d) % d = 0
    BY Multiples
  <2> QED
    BY <2>1, <2>2
<1> QED
  BY <1>4, <1>5

\* Divisibility is transitive.
LEMMA DividesTransitively ==
  ASSUME NEW c \in Nat \ {0}, NEW d \in Nat \ {0}, NEW x \in Nat, d % c = 0, x % d = 0
  PROVE  x % c = 0
<1>1. PICK j \in Nat : d = j * c
  <2>1. d \div c \in Nat /\ d = (d \div c) * c
    BY Multiples
  <2> QED
    BY <2>1, Zenon
<1>2. PICK k \in Nat : x = k * d
  <2>1. x \div d \in Nat /\ x = (x \div d) * d
    BY Multiples
  <2> QED
    BY <2>1, Zenon
<1>3. x = (k * j) * c
  BY <1>1, <1>2
<1>4. k * j \in Nat
  OBVIOUS
<1> QED
  BY <1>3, <1>4, Multiples

\* Gcd is what its name says.
LEMMA GcdIsGreatest ==
  ASSUME NEW y \in Nat, NEW z \in Nat \ {0}
  PROVE  /\ Gcd(y, z) \in 1..z
         /\ y % Gcd(y, z) = 0 /\ z % Gcd(y, z) = 0
         /\ \A e \in 1..z : y % e = 0 /\ z % e = 0 => e <= Gcd(y, z)
<1> DEFINE Common == {d \in 1..z : y % d = 0 /\ z % d = 0}
           T == {z - d : d \in Common}
<1>1. 1 \in Common
  OBVIOUS
<1>2. T \in SUBSET Nat /\ T # {}
  BY <1>1
<1>3. PICK t \in T : \A u \in T : t <= u
  BY <1>2, LeastElement
<1>4. PICK g \in Common : t = z - g
  OBVIOUS
<1>5. ASSUME NEW e \in Common
      PROVE  e <= g
  <2>1. z - e \in T
    OBVIOUS
  <2>2. z - g <= z - e
    BY <1>3, <1>4, <2>1
  <2> QED
    BY <2>2
<1> DEFINE IsGcd(d) == y % d = 0 /\ z % d = 0 /\ \A e \in (d + 1)..z : y % e # 0 \/ z % e # 0
<1>6. g \in 1..z /\ IsGcd(g)
  <2>1. g \in 1..z /\ y % g = 0 /\ z % g = 0
    OBVIOUS
  <2>2. ASSUME NEW e \in (g + 1)..z
        PROVE  y % e # 0 \/ z % e # 0
    <3>1. e \in 1..z /\ ~(e <= g)
      BY <2>1
    <3> QED
      BY <1>5, <3>1
  <2> QED
    BY <2>1, <2>2
<1>7. Gcd(y, z) \in 1..z /\ IsGcd(Gcd(y, z))
  <2> HIDE DEF IsGcd
  <2>1. Gcd(y, z) = CHOOSE d \in 1..z : IsGcd(d)
    BY DEF Gcd, IsGcd
  <2> QED
    BY <1>6, <2>1
<1> QED
  BY <1>7

\* A divisor is not greater than what it divides.
LEMMA DivisorBound ==
  ASSUME NEW d \in Nat \ {0}, NEW x \in Nat \ {0}, x % d = 0
  PROVE  d <= x
OBVIOUS

\* The least common multiple of c and d divides every common multiple.
LEMMA LeastCommonMultiple ==
  ASSUME NEW c \in Nat \ {0}, NEW d \in Nat \ {0}
  PROVE  \E m \in Nat \ {0} :
           /\ m % c = 0 /\ m % d = 0
           /\ \A x \in Nat : x % c = 0 /\ x % d = 0 => x % m = 0
<1> DEFINE T == {m \in Nat \ {0} : m % c = 0 /\ m % d = 0}
<1>1. T # {}
  <2>1. PICK p \in Nat \ {0} : p = c * d
    OBVIOUS
  <2>2. p % c = 0 /\ p % d = 0
    BY <2>1, Multiples
  <2> QED
    BY <2>2
<1>2. PICK m \in T : \A n \in T : m <= n
  BY <1>1, LeastElement
<1>3. ASSUME NEW x \in Nat, x % c = 0, x % d = 0
      PROVE  x % m = 0
  <2>1. PICK r \in 0..(m - 1), k \in Nat : r = x % m /\ k = x - r /\ k % m = 0
    <3>1. x % m \in 0..(m - 1) /\ x - (x % m) \in Nat /\ (x - (x % m)) % m = 0
      BY Multiples
    <3> QED
      BY <3>1
  <2>2. k % c = 0 /\ k % d = 0
    <3>1. m \in Nat \ {0} /\ m % c = 0 /\ m % d = 0 /\ k \in Nat /\ k % m = 0
      BY <2>1
    <3> QED
      BY <3>1, DividesTransitively, Zenon
  <2>3. x - k = r /\ k <= x
    BY <2>1
  <2>4. r % c = 0 /\ r % d = 0
    BY <1>3, <2>2, <2>3, SumOfMultiples
  <2>5. r \notin T
    BY <1>2, <2>1
  <2> QED
    BY <2>1, <2>4, <2>5
<1> QED
  BY <1>2, <1>3

\* Every common divisor divides the greatest one.
LEMMA DividesGcd ==
  ASSUME NEW y \in Nat, NEW z \in Nat \ {0}, NEW c \in Nat \ {0}, y % c = 0, z % c = 0
  PROVE  Gcd(y, z) % c = 0
<1> DEFINE g == Gcd(y, z)
<1> HIDE DEF g
<1>1. /\ g \in 1..z /\ y % g = 0 /\ z % g = 0
      /\ \A e \in 1..z : y % e = 0 /\ z % e = 0 => e <= g
  BY GcdIsGreatest, Zenon DEF g
<1>2. g \in Nat \ {0}
  BY <1>1
<1>3. PICK m \in Nat \ {0} :
        /\ m % c = 0 /\ m % g = 0
        /\ \A x \in Nat : x % c = 0 /\ x % g = 0 => x % m = 0
  BY <1>2, LeastCommonMultiple
<1>4. y % m = 0 /\ z % m = 0
  BY <1>1, <1>3
<1>5. m <= z
  BY <1>4, DivisorBound
<1>6. m <= g
  <2>1. m \in 1..z
    BY <1>5
  <2> QED
    BY <1>1, <1>4, <2>1, Zenon
<1>7. g <= m
  BY <1>2, <1>3, DivisorBound
<1>8. m = g
  BY <1>2, <1>6, <1>7
<1> QED
  BY <1>3, <1>8 DEF g

\* PageUp gives whole pages, enough of them.
LEMMA PageUpIsUp ==
  ASSUME NEW n \in Nat
  PROVE  PageUp(n) \in Nat /\ PageUp(n) % PageSize = 0 /\ n <= PageUp(n)
<1>1. PageSize \in Nat \ {0}
  BY SizesAssumption
<1> DEFINE x == n + PageSize - 1
<1>2. x \in Nat
  BY <1>1
<1>3. x = ((x \div PageSize) * PageSize) + (x % PageSize)
      /\ x \div PageSize \in Nat /\ x % PageSize \in 0..(PageSize - 1)
  BY <1>1, <1>2
<1>4. PICK q \in Nat : q = x \div PageSize
  BY <1>3
<1>5. PageUp(n) = q * PageSize
  BY <1>4 DEF PageUp
<1>6. (q * PageSize) % PageSize = 0 /\ q * PageSize \in Nat
  BY <1>1, Multiples
<1>7. n <= q * PageSize
  BY <1>1, <1>3, <1>4
<1> QED
  BY <1>5, <1>6, <1>7

\* The whole rule, for the read of a page at offset o after have bytes in a
\* row were read.
LEMMA ReadAheadRight ==
  ASSUME NEW o \in Nat, NEW have \in Nat, o % PageSize = 0
  PROVE  LET n == ReadAhead(o, PageSize, have) IN
         n \in PageSize..FSize /\ n % PageSize = 0 /\ o % n = 0
<1>1. PageSize \in Nat \ {0} /\ FSize \in Nat /\ FSize % PageSize = 0 /\ PageSize <= FSize
  <2>1. PageSize \in Nat \ {0}
    BY SizesAssumption
  <2>2. PICK k \in 1..FSize : FSize = k * PageSize
    BY SizesAssumption
  <2>3. k \in Nat /\ k >= 1 /\ FSize \in Nat
    BY <2>1, <2>2
  <2>4. (k * PageSize) % PageSize = 0
    BY <2>1, <2>3, Multiples
  <2>5. PageSize <= k * PageSize
    BY <2>1, <2>3
  <2> QED
    BY <2>1, <2>2, <2>3, <2>4, <2>5
<1> DEFINE want == IF have < PageSize THEN PageSize ELSE have
           r == Smaller(PageUp(want), FSize)
<1>2. want \in Nat /\ PageSize <= want
  BY <1>1
<1>3. PageUp(want) \in Nat /\ PageUp(want) % PageSize = 0 /\ want <= PageUp(want)
  BY <1>2, PageUpIsUp
<1>4. r \in PageSize..FSize /\ r % PageSize = 0
  BY <1>1, <1>2, <1>3 DEF Smaller
<1>5. ReadAhead(o, PageSize, have) = IF o % r # 0 THEN Gcd(o, r) ELSE r
  BY DEF ReadAhead
<1> HIDE DEF r
<1>6. Gcd(o, r) \in 1..r /\ o % Gcd(o, r) = 0 /\ Gcd(o, r) % PageSize = 0
  <2>1. r \in Nat \ {0}
    BY <1>1, <1>4
  <2> QED
    BY <1>1, <1>4, <2>1, GcdIsGreatest, DividesGcd, Zenon
<1>7. PageSize <= Gcd(o, r)
  BY <1>1, <1>4, <1>6, DivisorBound
<1> QED
  BY <1>1, <1>4, <1>5, <1>6, <1>7

=============================================================================
