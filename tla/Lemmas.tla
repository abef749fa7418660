------------------------------- MODULE Lemmas -------------------------------
(***************************************************************************)
(* Facts about numbers and about walks that the proofs share.              *)
(***************************************************************************)
EXTENDS Walks, WellFoundedInduction, FunctionTheorems, FiniteSetTheorems, TLAPS

\* A non-empty set of naturals has a least element: what the proofs use in the
\* place of induction along a walk.
LEMMA LeastElement ==
    ASSUME NEW T \in SUBSET Nat, T # {}
    PROVE  \E m \in T : \A n \in T : m <= n
<1> DEFINE R == OpToRel(<, Nat)
<1>1. IsWellFoundedOn(R, Nat)
  BY NatLessThanWellFounded
<1>2. \A x, y \in Nat : x < y => <<x, y>> \in R
  BY DEF OpToRel
<1> HIDE DEF R
<1>3. PICK m \in T : \A n \in T : ~(<<n, m>> \in R)
  BY <1>1, WFMin
<1>4. \A n \in T : ~(n < m)
  BY <1>2, <1>3
<1> QED
  BY <1>4

\* The same from above, for the indices of a walk of k edges.
LEMMA GreatestElement ==
    ASSUME NEW k \in Nat, NEW T \in SUBSET (0 .. k), T # {}
    PROVE  \E m \in T : \A n \in T : n <= m
<1> DEFINE Back == {j \in 0 .. k : k - j \in T}
<1>1. Back \in SUBSET Nat /\ Back # {}
  <2>1. PICK i \in T : TRUE
    OBVIOUS
  <2>2. k - i \in Back
    <3>1. i \in 0 .. k /\ k - i \in 0 .. k /\ k - (k - i) = i
      BY <2>1
    <3> QED
      BY <2>1, <3>1
  <2>3. \A j \in 0 .. k : j \in Nat
    OBVIOUS
  <2> QED
    BY <2>2, <2>3
<1> HIDE DEF Back
<1>2. PICK j \in Back : \A n \in Back : j <= n
  BY <1>1, LeastElement
<1> USE DEF Back
<1>3. k - j \in T /\ j \in 0 .. k
  BY <1>2
<1>4. ASSUME NEW n \in T PROVE n <= k - j
  <2>1. n \in 0 .. k /\ k - n \in 0 .. k /\ k - (k - n) = n
    BY <1>4
  <2>2. k - n \in Back
    BY <1>4, <2>1
  <2>3. j <= k - n
    BY <1>2, <2>2
  <2> QED
    BY <1>3, <2>1, <2>3
<1> QED
  BY <1>3, <1>4

LEMMA ThreeElements ==
    ASSUME NEW a, NEW b, NEW c, a # b, a # c, b # c
    PROVE  IsFiniteSet({a, b, c}) /\ Cardinality({a, b, c}) = 3
<1> DEFINE C == {c}
           B == C \cup {b}
           A == B \cup {a}
<1>1. IsFiniteSet(C) /\ Cardinality(C) = 1
  BY FS_Singleton
<1>2. b \notin C /\ a \notin B /\ A = {a, b, c}
  OBVIOUS
<1> HIDE DEF C
<1>3. IsFiniteSet(B) /\ Cardinality(B) = 1 + 1
  BY <1>1, <1>2, FS_AddElement
<1> HIDE DEF B
<1>4. IsFiniteSet(A) /\ Cardinality(A) = (1 + 1) + 1
  BY <1>2, <1>3, FS_AddElement
<1> QED
  BY <1>2, <1>4

----------------------------------------------------------------------------
(* Shortest times.  The recursive function behind LinkTimes is built step  *)
(* by step to show that it exists, and all inductions are by a least       *)
(* counterexample.                                                         *)

\* The function f is what WalkTimes defines, up to k links.
Builds(N, links, start, k, f) ==
    /\ f[0] = [n \in N |-> IF n = start THEN {0} ELSE {}]
    /\ \A j \in 1 .. k : f[j] = Longer(N, links, f[j - 1])

LEMMA BuildsExists ==
    ASSUME NEW N, NEW links, NEW start, NEW k \in Nat
    PROVE  \E f : Builds(N, links, start, k, f)
<1> DEFINE T == {j \in Nat : ~\E f : Builds(N, links, start, j, f)}
<1>1. SUFFICES ASSUME T # {} PROVE FALSE
  OBVIOUS
<1> HIDE DEF T
<1>2. PICK m \in T : \A j \in T : m <= j
  <2>1. T \in SUBSET Nat
    BY DEF T
  <2> QED
    BY <1>1, <2>1, LeastElement
<1>3. m \in Nat /\ ~\E f : Builds(N, links, start, m, f)
  BY DEF T
<1>4. CASE m = 0
  <2> DEFINE f == [j \in {0} |-> [n \in N |-> IF n = start THEN {0} ELSE {}]]
  <2>1. Builds(N, links, start, 0, f)
    BY DEF Builds
  <2> QED
    BY <1>3, <1>4, <2>1
<1>5. CASE m # 0
  <2>1. m - 1 \in Nat /\ ~(m <= m - 1) /\ (m - 1) + 1 = m
    BY <1>3, <1>5
  <2>2. PICK g : Builds(N, links, start, m - 1, g)
    BY <1>2, <2>1 DEF T
  <2> DEFINE f == [j \in 0 .. m |-> IF j = m THEN Longer(N, links, g[m - 1]) ELSE g[j]]
  <2>3. f[0] = g[0]
    BY <1>3, <1>5
  <2>4. ASSUME NEW j \in 1 .. m PROVE f[j] = Longer(N, links, f[j - 1])
    <3>1. j - 1 \in 0 .. m /\ j - 1 # m /\ f[j - 1] = g[j - 1]
      BY <1>3
    <3>2. CASE j = m
      BY <3>1, <3>2
    <3>3. CASE j # m
      <4>1. j \in 1 .. m - 1 /\ j \in 0 .. m
        BY <1>3, <3>3
      <4>2. g[j] = Longer(N, links, g[j - 1])
        BY <2>2, <4>1 DEF Builds
      <4> QED
        BY <3>1, <3>3, <4>1, <4>2
    <3> QED
      BY <3>2, <3>3
  <2> HIDE DEF f
  <2>5. Builds(N, links, start, m, f)
    BY <2>2, <2>3, <2>4 DEF Builds
  <2> QED
    BY <1>3, <2>5
<1> QED
  BY <1>4, <1>5

\* WalkTimes is the function its recursive definition describes.
LEMMA WalkTimesBuilds ==
    ASSUME NEW N, IsFiniteSet(N), NEW links, NEW start
    PROVE  Builds(N, links, start, Cardinality(N), WalkTimes(N, links, start))
<1> DEFINE K == Cardinality(N)
           Base == [n \in N |-> IF n = start THEN {0} ELSE {}]
           Body(f) == [k \in 0 .. K |-> IF k = 0 THEN Base ELSE Longer(N, links, f[k - 1])]
           W == WalkTimes(N, links, start)
<1>1. K \in Nat
  BY FS_CardinalityType
<1>2. \E f : f = Body(f)
  <2>1. PICK g : Builds(N, links, start, K, g)
    BY <1>1, BuildsExists
  <2> DEFINE f == [k \in 0 .. K |-> g[k]]
  <2>2. ASSUME NEW k \in 0 .. K
        PROVE  f[k] = IF k = 0 THEN Base ELSE Longer(N, links, f[k - 1])
    <3>1. CASE k = 0
      BY <1>1, <2>1, <3>1 DEF Builds
    <3>2. CASE k # 0
      <4>1. k \in 1 .. K /\ k - 1 \in 0 .. K
        BY <1>1, <3>2
      <4> QED
        BY <2>1, <3>2, <4>1 DEF Builds
    <3> QED
      BY <3>1, <3>2
  <2>3. f = Body(f)
    BY <2>2
  <2> QED
    BY <2>3
<1>3. W = CHOOSE f : f = Body(f)
  BY DEF WalkTimes
<1>4. W = Body(W)
  BY <1>2, <1>3
<1> HIDE DEF W
<1>5. \A k \in 0 .. K : W[k] = IF k = 0 THEN Base ELSE Longer(N, links, W[k - 1])
  BY <1>4
<1> QED
  BY <1>1, <1>5 DEF Builds, W

AreLinks(N, links) == \A l \in links : l.from \in N /\ l.to \in N /\ l.time \in Nat

\* A walk and a link from its end make a longer walk.
LEMMA ExtendWalk ==
    ASSUME NEW N, NEW links, AreLinks(N, links), NEW start, NEW k, NEW at, NEW c,
           LinkWalk(N, links, start, k, at, c), NEW l \in links, l.from = at[k]
    PROVE  \E at2, c2 : /\ LinkWalk(N, links, start, k + 1, at2, c2)
                        /\ at2[k + 1] = l.to /\ c2[k + 1] = c[k] + l.time
<1> DEFINE at2 == [i \in 0 .. k + 1 |-> IF i = k + 1 THEN l.to ELSE at[i]]
           c2 == [i \in 0 .. k + 1 |-> IF i = k + 1 THEN c[k] + l.time ELSE c[i]]
<1>0. k \in Nat /\ l.to \in N /\ l.time \in Nat /\ c[k] \in Nat
  BY DEF LinkWalk, AreLinks
<1>1. \A i \in 0 .. k + 1 : i # k + 1 => i \in 0 .. k
  BY <1>0
<1>2. at2 \in [0 .. k + 1 -> N] /\ c2 \in [0 .. k + 1 -> Nat]
  BY <1>0, <1>1 DEF LinkWalk
<1>3. /\ k + 1 \in 0 .. k + 1 /\ at2[k + 1] = l.to /\ c2[k + 1] = c[k] + l.time
      /\ \A i \in 0 .. k : i # k + 1 /\ at2[i] = at[i] /\ c2[i] = c[i]
  BY <1>0
<1> HIDE DEF at2, c2
<1>4. at2[0] = start /\ c2[0] = 0
  BY <1>0, <1>3 DEF LinkWalk
<1>5. ASSUME NEW i \in 0 .. (k + 1) - 1
      PROVE  \E m \in links : m.from = at2[i] /\ m.to = at2[i + 1] /\ c2[i + 1] = c2[i] + m.time
  <2>1. CASE i = k
    <3>1. k \in 0 .. k
      BY <1>0
    <3> QED
      BY <1>3, <2>1, <3>1
  <2>2. CASE i # k
    <3>1. i \in 0 .. k - 1 /\ i \in 0 .. k /\ i + 1 \in 0 .. k
      BY <1>0, <2>2
    <3>2. PICK m \in links : m.from = at[i] /\ m.to = at[i + 1] /\ c[i + 1] = c[i] + m.time
      BY <3>1 DEF LinkWalk
    <3> QED
      BY <1>3, <3>1, <3>2
  <2> QED
    BY <2>1, <2>2
<1>6. LinkWalk(N, links, start, k + 1, at2, c2)
  BY <1>0, <1>2, <1>4, <1>5 DEF LinkWalk
<1> QED
  BY <1>3, <1>6

\* The time of a walk does not shrink along it.
LEMMA WalkIsMonotone ==
    ASSUME NEW N, NEW links, AreLinks(N, links), NEW start, NEW k, NEW at, NEW c,
           LinkWalk(N, links, start, k, at, c), NEW x \in 0 .. k, NEW y \in 0 .. k, x <= y
    PROVE  c[x] <= c[y]
<1> DEFINE T == {j \in 0 .. k : x <= j /\ ~(c[x] <= c[j])}
<1>0. k \in Nat /\ \A j \in 0 .. k : c[j] \in Nat
  BY DEF LinkWalk
<1>1. SUFFICES ASSUME T # {} PROVE FALSE
  OBVIOUS
<1>2. T \in SUBSET Nat
  BY <1>0
<1> HIDE DEF T
<1>3. PICK m \in T : \A j \in T : m <= j
  BY <1>1, <1>2, LeastElement
<1> USE DEF T
<1>4. m \in 0 .. k /\ x <= m /\ ~(c[x] <= c[m]) /\ m # x
  BY <1>0, <1>3
<1>5. m - 1 \in 0 .. k - 1 /\ m - 1 \in 0 .. k /\ x <= m - 1 /\ (m - 1) + 1 = m /\ ~(m <= m - 1)
  BY <1>0, <1>4
<1>6. c[x] <= c[m - 1]
  BY <1>3, <1>5
<1>7. PICK l \in links : c[m] = c[m - 1] + l.time
  BY <1>5 DEF LinkWalk
<1>8. l.time \in Nat
  BY DEF AreLinks
<1> QED
  BY <1>0, <1>4, <1>5, <1>6, <1>7, <1>8

\* A walk that comes back to a node has a shorter one to the same end that
\* takes no longer.
LEMMA CutWalk ==
    ASSUME NEW N, NEW links, AreLinks(N, links), NEW start, NEW k, NEW at, NEW c,
           LinkWalk(N, links, start, k, at, c),
           NEW x \in 0 .. k, NEW y \in 0 .. k, x < y, at[x] = at[y]
    PROVE  \E j, at2, c2 : /\ j \in Nat /\ j < k /\ LinkWalk(N, links, start, j, at2, c2)
                                   /\ at2[j] = at[k] /\ c2[j] <= c[k]
<1> DEFINE d == y - x
           j == k - d
           lost == c[y] - c[x]
           at2 == [i \in 0 .. j |-> IF i <= x THEN at[i] ELSE at[i + d]]
           c2 == [i \in 0 .. j |-> IF i <= x THEN c[i] ELSE c[i + d] - lost]
<1>0. /\ k \in Nat /\ x \in Nat /\ y \in Nat /\ d \in Nat /\ d > 0 /\ j \in Nat /\ j < k
      /\ x <= j /\ x + d = y /\ j + d = k
      /\ \A i \in 0 .. k : c[i] \in Nat /\ at[i] \in N
  BY DEF LinkWalk
<1>1. lost \in Nat /\ c[y] = c[x] + lost
  BY <1>0, WalkIsMonotone
<1>2. \A i \in 0 .. k : y <= i => c[i] - lost \in Nat
  <2> SUFFICES ASSUME NEW i \in 0 .. k, y <= i PROVE c[i] - lost \in Nat
    OBVIOUS
  <2>1. c[y] <= c[i]
    BY WalkIsMonotone
  <2> QED
    BY <1>0, <1>1, <2>1
<1>3. \A i \in 0 .. j : /\ i \in 0 .. k /\ i + d \in 0 .. k
                        /\ i > x => y <= i + d
  BY <1>0
<1>4. /\ \A i \in 0 .. j : i <= x => at2[i] = at[i] /\ c2[i] = c[i]
      /\ \A i \in 0 .. j : i >= x => at2[i] = at[i + d] /\ c2[i] = c[i + d] - lost
  <2>1. at2[x] = at[x] /\ c2[x] = c[x] /\ x + d = y /\ c[y] - lost = c[x]
    BY <1>0, <1>1
  <2> QED
    BY <1>0, <2>1
<1>5. at2 \in [0 .. j -> N] /\ c2 \in [0 .. j -> Nat]
  BY <1>0, <1>2, <1>3
<1> HIDE DEF d, j, lost, at2, c2
<1>6. at2[0] = start /\ c2[0] = 0
  BY <1>0, <1>4 DEF LinkWalk
<1>7. ASSUME NEW i \in 0 .. j - 1
      PROVE  \E l \in links : l.from = at2[i] /\ l.to = at2[i + 1] /\ c2[i + 1] = c2[i] + l.time
  <2>1. i \in 0 .. j /\ i + 1 \in 0 .. j
    BY <1>0
  <2>2. CASE i < x
    <3>1. i \in 0 .. k - 1 /\ i <= x /\ i + 1 <= x
      BY <1>0, <2>2
    <3>2. PICK l \in links : l.from = at[i] /\ l.to = at[i + 1] /\ c[i + 1] = c[i] + l.time
      BY <3>1 DEF LinkWalk
    <3> QED
      BY <1>4, <2>1, <3>1, <3>2
  <2>3. CASE i >= x
    <3>1. i + d \in 0 .. k - 1 /\ i >= x /\ i + 1 >= x /\ (i + d) + 1 = (i + 1) + d
          /\ (i + d) + 1 \in 0 .. k /\ i + d \in 0 .. k
      BY <1>0, <2>1, <2>3
    <3>2. PICK l \in links : /\ l.from = at[i + d] /\ l.to = at[(i + d) + 1]
                             /\ c[(i + d) + 1] = c[i + d] + l.time
      BY <3>1 DEF LinkWalk
    <3>3. l.from = at2[i] /\ l.to = at2[i + 1]
      BY <1>4, <2>1, <3>1, <3>2
    <3>4. c2[i] = c[i + d] - lost /\ c2[i + 1] = c[(i + 1) + d] - lost
      BY <1>4, <2>1, <3>1
    <3>5. c[(i + 1) + d] = c[i + d] + l.time
      BY <3>1, <3>2
    <3>6. l.time \in Nat
      BY DEF AreLinks
    <3>7. c2[i + 1] = c2[i] + l.time
      BY <1>0, <1>1, <3>1, <3>4, <3>5, <3>6
    <3> QED
      BY <3>3, <3>7
  <2> QED
    BY <1>0, <2>1, <2>2, <2>3
<1>8. LinkWalk(N, links, start, j, at2, c2)
  BY <1>0, <1>5, <1>6, <1>7 DEF LinkWalk
<1>9. j \in 0 .. j /\ j >= x /\ k \in 0 .. k
  BY <1>0
<1>10. at2[j] = at[k] /\ c2[j] = c[k] - lost
  BY <1>0, <1>4, <1>9
<1> QED
  BY <1>0, <1>1, <1>8, <1>9, <1>10

\* Walks that come to no node twice are enough.
LEMMA SimpleWalk ==
    ASSUME NEW N, NEW links, AreLinks(N, links), NEW start,
           NEW k, NEW at, NEW c, LinkWalk(N, links, start, k, at, c)
    PROVE  \E j, at2, c2 : /\ LinkWalk(N, links, start, j, at2, c2)
                           /\ at2[j] = at[k] /\ c2[j] <= c[k]
                           /\ \A x, y \in 0 .. j : at2[x] = at2[y] => x = y
<1> DEFINE T == {j \in Nat : \E at2, c2 : /\ LinkWalk(N, links, start, j, at2, c2)
                                          /\ at2[j] = at[k] /\ c2[j] <= c[k]}
<1>0. k \in Nat /\ c[k] \in Nat
  BY DEF LinkWalk
<1>1. k \in T /\ T \in SUBSET Nat
  BY <1>0
<1> HIDE DEF T
<1>2. PICK m \in T : \A j \in T : m <= j
  BY <1>1, LeastElement
<1> USE DEF T
<1>3. PICK at1, c1 : /\ m \in Nat /\ LinkWalk(N, links, start, m, at1, c1)
                     /\ at1[m] = at[k] /\ c1[m] <= c[k]
  BY <1>2
<1>4. ASSUME NEW u \in 0 .. m, NEW v \in 0 .. m, at1[u] = at1[v], u # v PROVE FALSE
  <2>1. c1[m] \in Nat
    BY <1>3 DEF LinkWalk
  <2>2. PICK x, y \in 0 .. m : x < y /\ at1[x] = at1[y]
    <3>1. u < v \/ v < u
      BY <1>3, <1>4
    <3> QED
      BY <1>4, <3>1
  <2>3. PICK j, at2, c2 : /\ j \in Nat /\ j < m /\ LinkWalk(N, links, start, j, at2, c2)
                                  /\ at2[j] = at1[m] /\ c2[j] <= c1[m]
    BY <1>3, <2>2, CutWalk
  <2>4. c2[j] \in Nat
    BY <2>3 DEF LinkWalk
  <2>5. c2[j] <= c[k] /\ at2[j] = at[k]
    BY <1>0, <1>3, <2>1, <2>3, <2>4
  <2>6. j \in T
    BY <2>3, <2>5
  <2> QED
    BY <1>2, <1>3, <2>3, <2>6
<1> QED
  BY <1>3, <1>4

\* Walks with fewer links than there are nodes are enough.
LEMMA ShortWalk ==
    ASSUME NEW N, IsFiniteSet(N), NEW links, AreLinks(N, links), NEW start,
           NEW k, NEW at, NEW c, LinkWalk(N, links, start, k, at, c)
    PROVE  \E j, at2, c2 : /\ j \in Nat /\ j < Cardinality(N) /\ LinkWalk(N, links, start, j, at2, c2)
                                   /\ at2[j] = at[k] /\ c2[j] <= c[k]
<1> DEFINE K == Cardinality(N)
<1>1. PICK j, at2, c2 : /\ LinkWalk(N, links, start, j, at2, c2)
                        /\ at2[j] = at[k] /\ c2[j] <= c[k]
                        /\ \A x, y \in 0 .. j : at2[x] = at2[y] => x = y
  BY SimpleWalk
<1>2. j \in Nat /\ at2 \in [0 .. j -> N] /\ K \in Nat
  BY <1>1, FS_CardinalityType DEF LinkWalk
<1>3. ASSUME K <= j PROVE FALSE
  <2>1. IsFiniteSet(0 .. j) /\ Cardinality(0 .. j) = j + 1
    <3>1. 0 \in Int /\ j \in Int /\ ~(0 > j) /\ j - 0 + 1 = j + 1
      BY <1>2
    <3> QED
      BY <3>1, FS_Interval
  <2>2. Cardinality(N) < Cardinality(0 .. j)
    BY <1>2, <1>3, <2>1
  <2>3. PICK u, v \in 0 .. j : u # v /\ at2[u] = at2[v]
    BY <1>2, <2>1, <2>2, FS_PigeonHole
  <2> QED
    BY <1>1, <2>3
<1>4. j < K
  BY <1>2, <1>3
<1> QED
  BY <1>1, <1>2, <1>4

\* What WalkTimes holds are times of walks.
LEMMA WalkTimesAreWalks ==
    ASSUME NEW N, IsFiniteSet(N), NEW links, AreLinks(N, links), NEW start \in N,
           NEW k \in 0 .. Cardinality(N), NEW n \in N,
           NEW t \in WalkTimes(N, links, start)[k][n]
    PROVE  \E j, at, c : LinkWalk(N, links, start, j, at, c) /\ at[j] = n /\ c[j] = t
<1> DEFINE K == Cardinality(N)
           W == WalkTimes(N, links, start)
           Walked(m, u) == \E j, at, c : /\ LinkWalk(N, links, start, j, at, c)
                                         /\ at[j] = m /\ c[j] = u
           T == {j \in 0 .. K : \E m \in N : \E u \in W[j][m] : ~Walked(m, u)}
<1>0. K \in Nat
  BY FS_CardinalityType
<1>1. SUFFICES ASSUME T # {} PROVE FALSE
  OBVIOUS
<1>2. T \in SUBSET Nat
  BY <1>0
<1>3. Builds(N, links, start, K, W)
  BY WalkTimesBuilds
<1> HIDE DEF T, W, Walked
<1>4. PICK i \in T : \A j \in T : i <= j
  BY <1>1, <1>2, LeastElement
<1>5. i \in 0 .. K
  BY DEF T
<1>6. PICK m \in N : \E u \in W[i][m] : ~Walked(m, u)
  BY DEF T
<1>7. PICK u \in W[i][m] : ~Walked(m, u)
  BY <1>6
<1>8. CASE i = 0
  <2>1. m = start /\ u = 0
    BY <1>3, <1>7, <1>8 DEF Builds
  <2> DEFINE at == [j \in 0 .. 0 |-> start]
             c == [j \in 0 .. 0 |-> 0]
  <2>2. LinkWalk(N, links, start, 0, at, c)
    BY DEF LinkWalk
  <2>3. at[0] = m /\ c[0] = u
    BY <2>1
  <2> QED
    BY <1>7, <2>2, <2>3 DEF Walked
<1>9. CASE i # 0
  <2>1. i \in 1 .. K /\ i - 1 \in 0 .. K /\ ~(i <= i - 1)
    BY <1>0, <1>5, <1>9
  <2>2. W[i] = Longer(N, links, W[i - 1])
    BY <1>3, <2>1 DEF Builds
  <2>3. \A v \in N : \A w \in W[i - 1][v] : Walked(v, w)
    BY <1>4, <2>1 DEF T
  <2>4. \/ u \in W[i - 1][m]
        \/ \E l \in links : l.to = m /\ \E w \in W[i - 1][l.from] : u = w + l.time
    BY <1>7, <2>2 DEF Longer
  <2>5. PICK l \in links : l.to = m /\ \E w \in W[i - 1][l.from] : u = w + l.time
    BY <1>7, <2>3, <2>4
  <2>6. PICK w \in W[i - 1][l.from] : u = w + l.time
    BY <2>5
  <2>7. l.from \in N
    BY DEF AreLinks
  <2>8. PICK j, at, c : LinkWalk(N, links, start, j, at, c) /\ at[j] = l.from /\ c[j] = w
    BY <2>3, <2>7 DEF Walked
  <2>9. \E at2, c2 : /\ LinkWalk(N, links, start, j + 1, at2, c2)
                     /\ at2[j + 1] = l.to /\ c2[j + 1] = c[j] + l.time
    BY <2>8, ExtendWalk
  <2> QED
    BY <1>7, <2>5, <2>6, <2>8, <2>9 DEF Walked
<1> QED
  BY <1>8, <1>9

\* The time of a walk of at most k links is in WalkTimes.
LEMMA WalksAreTimed ==
    ASSUME NEW N, IsFiniteSet(N), NEW links, AreLinks(N, links), NEW start \in N,
           NEW k \in 0 .. Cardinality(N), NEW j \in 0 .. k, NEW at, NEW c,
           LinkWalk(N, links, start, j, at, c)
    PROVE  c[j] \in WalkTimes(N, links, start)[k][at[j]]
<1> DEFINE K == Cardinality(N)
           W == WalkTimes(N, links, start)
           end == at[j]
           T == {i \in 0 .. j : c[i] \notin W[i][at[i]]}
           U == {i \in j .. k : c[j] \notin W[i][end]}
<1>0. K \in Nat /\ j \in Nat /\ k \in Nat /\ j <= k /\ k <= K /\ end \in N
  BY FS_CardinalityType DEF LinkWalk
<1>1. Builds(N, links, start, K, W)
  BY WalkTimesBuilds
<1> HIDE DEF W
<1>2. T \in SUBSET Nat /\ U \in SUBSET Nat
  BY <1>0
<1>3. \A i \in 1 .. K : \A m \in N :
        /\ W[i - 1][m] \subseteq W[i][m]
        /\ \A l \in links : l.to = m => \A w \in W[i - 1][l.from] : w + l.time \in W[i][m]
  <2> SUFFICES ASSUME NEW i \in 1 .. K, NEW m \in N
               PROVE  /\ W[i - 1][m] \subseteq W[i][m]
                      /\ \A l \in links : l.to = m =>
                           \A w \in W[i - 1][l.from] : w + l.time \in W[i][m]
    OBVIOUS
  <2>1. W[i] = Longer(N, links, W[i - 1])
    BY <1>1 DEF Builds
  <2> QED
    BY <2>1 DEF Longer
<1>4. T = {}
  <2>1. SUFFICES ASSUME T # {} PROVE FALSE
    OBVIOUS
  <2> HIDE DEF T
  <2>2. PICK i \in T : \A x \in T : i <= x
    BY <1>2, <2>1, LeastElement
  <2> USE DEF T
  <2>3. i \in 0 .. j /\ c[i] \notin W[i][at[i]] /\ at[i] \in N
    BY <2>2 DEF LinkWalk
  <2>4. i # 0
    BY <1>1, <2>3 DEF Builds, LinkWalk
  <2>5. i \in 1 .. K /\ i - 1 \in 0 .. j /\ i - 1 \in 0 .. j - 1 /\ ~(i <= i - 1) /\ (i - 1) + 1 = i
    BY <1>0, <2>3, <2>4
  <2>6. c[i - 1] \in W[i - 1][at[i - 1]]
    BY <2>2, <2>5
  <2>7. PICK l \in links : l.from = at[i - 1] /\ l.to = at[i] /\ c[i] = c[i - 1] + l.time
    BY <2>5 DEF LinkWalk
  <2> QED
    BY <1>3, <2>3, <2>5, <2>6, <2>7
<1>5. U = {}
  <2>1. SUFFICES ASSUME U # {} PROVE FALSE
    OBVIOUS
  <2> HIDE DEF U
  <2>2. PICK i \in U : \A x \in U : i <= x
    BY <1>2, <2>1, LeastElement
  <2> USE DEF U
  <2>3. i \in j .. k /\ c[j] \notin W[i][end]
    BY <2>2
  <2>4. i # j
    <3>1. j \in 0 .. j
      BY <1>0
    <3> QED
      BY <1>4, <2>3, <3>1
  <2>5. i \in 1 .. K /\ i - 1 \in j .. k /\ ~(i <= i - 1)
    BY <1>0, <2>3, <2>4
  <2>6. c[j] \in W[i - 1][end]
    BY <2>2, <2>5
  <2> QED
    BY <1>0, <1>3, <2>3, <2>5, <2>6
<1>6. k \in j .. k
  BY <1>0
<1> QED
  BY <1>5, <1>6 DEF W

\* LinkTimes is the table of the shortest times: each is the time of a walk, and
\* no walk, of whatever length, is faster or leads to a node without one.
LEMMA LinkTimesAreShortest ==
    ASSUME NEW N, IsFiniteSet(N), NEW links, AreLinks(N, links), NEW start \in N
    PROVE  /\ DOMAIN LinkTimes(N, links, start) \subseteq N
           /\ \A n \in DOMAIN LinkTimes(N, links, start) :
                /\ LinkTimes(N, links, start)[n] \in Nat
                /\ \E k, at, c : /\ LinkWalk(N, links, start, k, at, c) /\ at[k] = n
                                 /\ c[k] = LinkTimes(N, links, start)[n]
           /\ \A k, at, c : LinkWalk(N, links, start, k, at, c) =>
                /\ at[k] \in DOMAIN LinkTimes(N, links, start)
                /\ LinkTimes(N, links, start)[at[k]] <= c[k]
<1> DEFINE K == Cardinality(N)
           W == WalkTimes(N, links, start)
           times == W[K - 1]
           T == LinkTimes(N, links, start)
<1>0. K \in Nat /\ K > 0 /\ K - 1 \in 0 .. K
  <2>1. K \in Nat /\ K # 0
    BY FS_CardinalityType, FS_EmptySet
  <2> QED
    BY <2>1
<1>1. T = [n \in {m \in N : times[m] # {}} |-> Min(times[n])]
  BY DEF LinkTimes
<1>2. \A n \in N : \A t \in times[n] :
        \E j, at, c : LinkWalk(N, links, start, j, at, c) /\ at[j] = n /\ c[j] = t
  BY <1>0, WalkTimesAreWalks
<1> HIDE DEF W, T
<1>3. \A n \in N : times[n] \in SUBSET Nat
  BY <1>2 DEF LinkWalk
<1>4. DOMAIN T \subseteq N /\ \A n \in DOMAIN T : n \in N /\ times[n] # {} /\ T[n] = Min(times[n])
  BY <1>1
<1>5. ASSUME NEW n \in DOMAIN T
      PROVE  T[n] \in times[n] /\ \A t \in times[n] : T[n] <= t
  <2>1. \E m \in times[n] : \A t \in times[n] : m <= t
    BY <1>3, <1>4, LeastElement
  <2> QED
    BY <1>4, <2>1 DEF Min
<1>6. ASSUME NEW k, NEW at, NEW c, LinkWalk(N, links, start, k, at, c)
      PROVE  at[k] \in DOMAIN T /\ T[at[k]] <= c[k]
  <2>1. PICK j, at2, c2 : /\ j \in Nat /\ j < K /\ LinkWalk(N, links, start, j, at2, c2)
                                  /\ at2[j] = at[k] /\ c2[j] <= c[k]
    BY <1>6, ShortWalk
  <2>2. j \in 0 .. K - 1
    BY <1>0, <2>1
  <2>3. c2[j] \in times[at[k]]
    BY <1>0, <2>1, <2>2, WalksAreTimed DEF W
  <2>4. at[k] \in N /\ c[k] \in Nat /\ c2[j] \in Nat
    BY <1>6, <2>1 DEF LinkWalk
  <2>5. at[k] \in DOMAIN T
    BY <1>1, <2>3, <2>4
  <2>6. T[at[k]] <= c2[j] /\ T[at[k]] \in Nat
    BY <1>3, <1>4, <1>5, <2>3, <2>5
  <2> QED
    BY <2>1, <2>4, <2>5, <2>6
<1> QED
  BY <1>2, <1>3, <1>4, <1>5, <1>6 DEF T

\* The first links of a walk are a walk.
LEMMA WalkPrefix ==
    ASSUME NEW N, NEW links, NEW start, NEW k, NEW at, NEW c,
           LinkWalk(N, links, start, k, at, c), NEW j \in 0 .. k
    PROVE  \E at2, c2 : LinkWalk(N, links, start, j, at2, c2) /\ at2[j] = at[j] /\ c2[j] = c[j]
<1> DEFINE at2 == [i \in 0 .. j |-> at[i]]
           c2 == [i \in 0 .. j |-> c[i]]
<1>0. /\ k \in Nat /\ j \in Nat /\ j <= k /\ j \in 0 .. j /\ 0 \in 0 .. j
      /\ \A i \in 0 .. j : i \in 0 .. k
      /\ \A i \in 0 .. j - 1 : i \in 0 .. k - 1 /\ i \in 0 .. j /\ i + 1 \in 0 .. j
  BY DEF LinkWalk
<1>1. at2 \in [0 .. j -> N] /\ c2 \in [0 .. j -> Nat] /\ at2[0] = start /\ c2[0] = 0
  BY <1>0 DEF LinkWalk
<1>2. \A i \in 0 .. j - 1 : \E l \in links :
        l.from = at2[i] /\ l.to = at2[i + 1] /\ c2[i + 1] = c2[i] + l.time
  BY <1>0 DEF LinkWalk
<1>3. LinkWalk(N, links, start, j, at2, c2)
  BY <1>0, <1>1, <1>2 DEF LinkWalk
<1>4. at2[j] = at[j] /\ c2[j] = c[j]
  BY <1>0
<1> QED
  BY <1>3, <1>4

\* The table of shortest times starts with zero, no link improves it, and each
\* other time is that of a node before and of a link from there.
LEMMA LinkTimesTable ==
    ASSUME NEW N, IsFiniteSet(N), NEW links, AreLinks(N, links), NEW start \in N,
           NEW T, T = LinkTimes(N, links, start)
    PROVE  /\ start \in DOMAIN T /\ T[start] = 0
           /\ DOMAIN T \subseteq N /\ \A n \in DOMAIN T : T[n] \in Nat
           /\ \A l \in links : l.from \in DOMAIN T =>
                /\ l.to \in DOMAIN T
                /\ T[l.to] <= T[l.from] + l.time
           /\ \A n \in DOMAIN T : n # start =>
                \E l \in links : l.to = n /\ l.from \in DOMAIN T /\ T[n] = T[l.from] + l.time
<1>1. /\ DOMAIN T \subseteq N /\ \A n \in DOMAIN T : T[n] \in Nat
      /\ \A n \in DOMAIN T : \E k, at, c :
            LinkWalk(N, links, start, k, at, c) /\ at[k] = n /\ c[k] = T[n]
  BY LinkTimesAreShortest
<1>2. \A k, at, c : LinkWalk(N, links, start, k, at, c) => at[k] \in DOMAIN T /\ T[at[k]] <= c[k]
  BY LinkTimesAreShortest
<1>3. start \in DOMAIN T /\ T[start] = 0
  <2> DEFINE at == [j \in 0 .. 0 |-> start]
             c == [j \in 0 .. 0 |-> 0]
  <2>1. LinkWalk(N, links, start, 0, at, c) /\ at[0] = start /\ c[0] = 0
    BY DEF LinkWalk
  <2> HIDE DEF at, c
  <2>2. start \in DOMAIN T /\ T[start] <= 0
    BY <1>2, <2>1
  <2> QED
    BY <1>1, <2>2
<1>4. ASSUME NEW l \in links, l.from \in DOMAIN T
      PROVE  l.to \in DOMAIN T /\ T[l.to] <= T[l.from] + l.time
  <2>1. PICK k, at, c : LinkWalk(N, links, start, k, at, c) /\ at[k] = l.from /\ c[k] = T[l.from]
    BY <1>1, <1>4
  <2>2. PICK at2, c2 : /\ LinkWalk(N, links, start, k + 1, at2, c2)
                       /\ at2[k + 1] = l.to /\ c2[k + 1] = c[k] + l.time
    BY <2>1, ExtendWalk
  <2> QED
    BY <1>2, <2>1, <2>2
<1>5. ASSUME NEW n \in DOMAIN T, n # start
      PROVE  \E l \in links : l.to = n /\ l.from \in DOMAIN T /\ T[n] = T[l.from] + l.time
  <2>1. PICK k, at, c : LinkWalk(N, links, start, k, at, c) /\ at[k] = n /\ c[k] = T[n]
    BY <1>1
  <2>2. k \in Nat /\ k # 0
    BY <1>5, <2>1 DEF LinkWalk
  <2>3. k - 1 \in 0 .. k /\ k - 1 \in 0 .. k - 1 /\ (k - 1) + 1 = k
    BY <2>2
  <2>4. PICK l \in links : l.from = at[k - 1] /\ l.to = at[k] /\ c[k] = c[k - 1] + l.time
    BY <2>1, <2>3 DEF LinkWalk
  <2>5. PICK at2, c2 : /\ LinkWalk(N, links, start, k - 1, at2, c2)
                       /\ at2[k - 1] = at[k - 1] /\ c2[k - 1] = c[k - 1]
    BY <2>1, <2>3, WalkPrefix
  <2>6. l.from \in DOMAIN T /\ T[l.from] <= c[k - 1]
    BY <1>2, <2>4, <2>5
  <2>7. T[n] <= T[l.from] + l.time
    BY <1>4, <2>1, <2>4, <2>6
  <2>8. /\ l.time \in Nat /\ c[k - 1] \in Nat /\ T[l.from] \in Nat /\ T[n] \in Nat
        /\ T[n] = c[k - 1] + l.time
    BY <1>1, <2>1, <2>3, <2>4, <2>6 DEF LinkWalk, AreLinks
  <2>9. T[n] = T[l.from] + l.time
    BY <2>6, <2>7, <2>8
  <2> QED
    BY <2>1, <2>4, <2>6, <2>9
<1> QED
  BY <1>1, <1>3, <1>4, <1>5

\* A walk on from a node that has a time leads to nodes that have one, no
\* longer than through that node.
LEMMA LinkTimesTriangle ==
    ASSUME NEW N, IsFiniteSet(N), NEW links, AreLinks(N, links), NEW start \in N,
           NEW T, T = LinkTimes(N, links, start), NEW v \in DOMAIN T,
           NEW k, NEW at, NEW c, LinkWalk(N, links, v, k, at, c)
    PROVE  at[k] \in DOMAIN T /\ T[at[k]] <= T[v] + c[k]
<1> DEFINE Good(i) == at[i] \in DOMAIN T /\ T[at[i]] <= T[v] + c[i]
           Missed == {i \in 0 .. k : ~Good(i)}
<1>0. /\ k \in Nat /\ k \in 0 .. k /\ at[0] = v /\ c[0] = 0
      /\ \A i \in 0 .. k : c[i] \in Nat
      /\ \A n \in DOMAIN T : T[n] \in Nat
  BY LinkTimesTable DEF LinkWalk
<1>1. \A l \in links : l.from \in DOMAIN T => l.to \in DOMAIN T /\ T[l.to] <= T[l.from] + l.time
  BY LinkTimesTable
<1>2. SUFFICES ASSUME Missed # {} PROVE FALSE
  BY <1>0
<1>3. Missed \in SUBSET Nat
  BY <1>0
<1> HIDE DEF Missed
<1>4. PICK i \in Missed : \A j \in Missed : i <= j
  BY <1>2, <1>3, LeastElement
<1>5. i \in 0 .. k /\ ~Good(i)
  BY <1>4 DEF Missed
<1>6. i # 0
  BY <1>0, <1>5
<1>7. i - 1 \in 0 .. k /\ i - 1 \in 0 .. k - 1 /\ (i - 1) + 1 = i /\ ~(i <= i - 1)
  BY <1>0, <1>5, <1>6
<1>8. Good(i - 1)
  BY <1>4, <1>7 DEF Missed
<1>9. PICK l \in links : l.from = at[i - 1] /\ l.to = at[i] /\ c[i] = c[i - 1] + l.time
  BY <1>7 DEF LinkWalk
<1>10. l.time \in Nat /\ c[i - 1] \in Nat /\ T[at[i - 1]] \in Nat /\ T[v] \in Nat
  BY <1>0, <1>7, <1>8 DEF AreLinks
<1>11. at[i] \in DOMAIN T /\ T[at[i]] <= T[at[i - 1]] + l.time /\ T[at[i]] \in Nat
  BY <1>0, <1>1, <1>8, <1>9
<1>12. T[at[i]] <= T[v] + c[i]
  BY <1>8, <1>9, <1>10, <1>11
<1> QED
  BY <1>5, <1>11, <1>12

\* Nodes that the links do not lead out of contain the nodes with a time.
LEMMA LinkTimesStay ==
    ASSUME NEW N, IsFiniteSet(N), NEW links, AreLinks(N, links), NEW start \in N,
           NEW D, start \in D, \A l \in links : l.from \in D => l.to \in D
    PROVE  DOMAIN LinkTimes(N, links, start) \subseteq D
<1> SUFFICES ASSUME NEW n \in DOMAIN LinkTimes(N, links, start), n \notin D PROVE FALSE
  OBVIOUS
<1>1. PICK k, at, c : LinkWalk(N, links, start, k, at, c) /\ at[k] = n
  BY LinkTimesAreShortest
<1> DEFINE Out == {i \in 0 .. k : at[i] \notin D}
<1>2. k \in Nat /\ k \in 0 .. k /\ at[0] = start
  BY <1>1 DEF LinkWalk
<1>3. Out \in SUBSET Nat /\ Out # {}
  BY <1>1, <1>2
<1> HIDE DEF Out
<1>4. PICK i \in Out : \A j \in Out : i <= j
  BY <1>3, LeastElement
<1>5. i \in 0 .. k /\ at[i] \notin D /\ i # 0
  BY <1>2, <1>4 DEF Out
<1>6. i - 1 \in 0 .. k /\ i - 1 \in 0 .. k - 1 /\ (i - 1) + 1 = i /\ ~(i <= i - 1)
  BY <1>2, <1>5
<1>7. at[i - 1] \in D
  BY <1>4, <1>6 DEF Out
<1>8. PICK l \in links : l.from = at[i - 1] /\ l.to = at[(i - 1) + 1]
  BY <1>1, <1>6 DEF LinkWalk
<1> QED
  BY <1>5, <1>6, <1>7, <1>8

\* A table that no link improves is nowhere above the shortest times.
LEMMA LinkTimesFloor ==
    ASSUME NEW N, IsFiniteSet(N), NEW links, AreLinks(N, links), NEW start \in N,
           NEW B, start \in DOMAIN B, B[start] = 0, \A n \in DOMAIN B : B[n] \in Nat,
           \A l \in links : l.from \in DOMAIN B =>
             l.to \in DOMAIN B /\ B[l.to] <= B[l.from] + l.time
    PROVE  \A n \in DOMAIN LinkTimes(N, links, start) :
             n \in DOMAIN B /\ B[n] <= LinkTimes(N, links, start)[n]
<1> DEFINE T == LinkTimes(N, links, start)
<1> SUFFICES ASSUME NEW n \in DOMAIN T PROVE n \in DOMAIN B /\ B[n] <= T[n]
  OBVIOUS
<1>1. PICK k, at, c : LinkWalk(N, links, start, k, at, c) /\ at[k] = n /\ c[k] = T[n]
  BY LinkTimesAreShortest
<1> HIDE DEF T
<1> DEFINE Good(i) == at[i] \in DOMAIN B /\ B[at[i]] <= c[i]
           Missed == {i \in 0 .. k : ~Good(i)}
<1>2. /\ k \in Nat /\ k \in 0 .. k /\ at[0] = start /\ c[0] = 0
      /\ \A i \in 0 .. k : c[i] \in Nat
  BY <1>1 DEF LinkWalk
<1>3. SUFFICES ASSUME Missed # {} PROVE FALSE
  BY <1>1, <1>2
<1>4. Missed \in SUBSET Nat
  BY <1>2
<1> HIDE DEF Missed
<1>5. PICK i \in Missed : \A j \in Missed : i <= j
  BY <1>3, <1>4, LeastElement
<1>6. i \in 0 .. k /\ ~Good(i)
  BY <1>5 DEF Missed
<1>7. i # 0
  BY <1>2, <1>6
<1>8. i - 1 \in 0 .. k /\ i - 1 \in 0 .. k - 1 /\ (i - 1) + 1 = i /\ ~(i <= i - 1)
  BY <1>2, <1>6, <1>7
<1>9. Good(i - 1)
  BY <1>5, <1>8 DEF Missed
<1>10. PICK l \in links : l.from = at[i - 1] /\ l.to = at[i] /\ c[i] = c[i - 1] + l.time
  <2>1. PICK l \in links : /\ l.from = at[i - 1] /\ l.to = at[(i - 1) + 1]
                           /\ c[(i - 1) + 1] = c[i - 1] + l.time
    BY <1>1, <1>8 DEF LinkWalk
  <2> QED
    BY <1>8, <2>1
<1>11. l.time \in Nat /\ c[i - 1] \in Nat /\ B[at[i - 1]] \in Nat
  BY <1>2, <1>8, <1>9 DEF AreLinks
<1>12. at[i] \in DOMAIN B /\ B[at[i]] <= B[at[i - 1]] + l.time
  BY <1>9, <1>10
<1>13. B[at[i]] \in Nat
  BY <1>12
<1>14. B[at[i]] <= c[i]
  BY <1>9, <1>10, <1>11, <1>12, <1>13
<1> QED
  BY <1>6, <1>12, <1>14

\* What changes along each link by no more than the link's time allows, changes
\* along a shortest way by no more than its time allows.
LEMMA LinkTimesSpread ==
    ASSUME NEW N, IsFiniteSet(N), NEW links, AreLinks(N, links), NEW start \in N,
           NEW f \in [N -> Int], NEW speed \in Nat,
           \A l \in links : /\ -(l.time * speed) <= f[l.to] - f[l.from]
                            /\ f[l.to] - f[l.from] <= l.time * speed,
           NEW n \in DOMAIN LinkTimes(N, links, start)
    PROVE  /\ -(LinkTimes(N, links, start)[n] * speed) <= f[n] - f[start]
           /\ f[n] - f[start] <= LinkTimes(N, links, start)[n] * speed
<1>1. PICK k, at, c : /\ LinkWalk(N, links, start, k, at, c) /\ at[k] = n
                      /\ c[k] = LinkTimes(N, links, start)[n]
  BY LinkTimesAreShortest
<1>2. /\ k \in Nat /\ k \in 0 .. k /\ at[0] = start /\ c[0] = 0
      /\ \A i \in 0 .. k : c[i] \in Nat /\ at[i] \in N /\ f[at[i]] \in Int
  BY <1>1 DEF LinkWalk
<1> DEFINE Near(i) == /\ -(c[i] * speed) <= f[at[i]] - f[start]
                      /\ f[at[i]] - f[start] <= c[i] * speed
           Far == {i \in 0 .. k : ~Near(i)}
<1>3. ASSUME Far # {} PROVE FALSE
  <2>1. Far \in SUBSET Nat
    BY <1>2
  <2> HIDE DEF Far
  <2>2. PICK i \in Far : \A j \in Far : i <= j
    BY <1>3, <2>1, LeastElement
  <2>3. i \in 0 .. k /\ ~Near(i)
    BY <2>2 DEF Far
  <2>4. i # 0
    <3>1. c[0] * speed = 0 /\ f[at[0]] - f[start] = 0
      BY <1>2
    <3> QED
      BY <2>3, <3>1
  <2>5. i - 1 \in 0 .. k /\ i - 1 \in 0 .. k - 1 /\ (i - 1) + 1 = i /\ ~(i <= i - 1)
    BY <1>2, <2>3, <2>4
  <2>6. Near(i - 1)
    BY <2>2, <2>5 DEF Far
  <2>7. PICK l \in links : l.from = at[i - 1] /\ l.to = at[i] /\ c[i] = c[i - 1] + l.time
    <3>1. PICK l \in links : /\ l.from = at[i - 1] /\ l.to = at[(i - 1) + 1]
                             /\ c[(i - 1) + 1] = c[i - 1] + l.time
      BY <1>1, <2>5 DEF LinkWalk
    <3> QED
      BY <2>5, <3>1
  <2>8. l.time \in Nat /\ c[i - 1] \in Nat
    BY <1>2, <2>5 DEF AreLinks
  <2>9. c[i] * speed = c[i - 1] * speed + l.time * speed
    BY <2>7, <2>8
  <2>10. PICK u \in Nat, v \in Nat : u = c[i - 1] * speed /\ v = l.time * speed
    BY <2>8
  <2>11. PICK a \in Int, b \in Int, s \in Int : a = f[at[i - 1]] /\ b = f[at[i]] /\ s = f[start]
    BY <1>2, <2>3, <2>5
  <2>12. -v <= b - a /\ b - a <= v
    BY <2>7, <2>10, <2>11
  <2>13. -u <= a - s /\ a - s <= u
    BY <2>6, <2>10, <2>11
  <2>14. -(u + v) <= b - s /\ b - s <= u + v
    BY <2>12, <2>13
  <2> QED
    BY <2>3, <2>9, <2>10, <2>11, <2>14
<1>4. Near(k)
  BY <1>2, <1>3
<1> QED
  BY <1>1, <1>4

----------------------------------------------------------------------------
\* The links walked the other way.
Turned(links) == {[from |-> l.to, to |-> l.from, time |-> l.time] : l \in links}

\* A walk taken backwards is a walk over the turned links.
LEMMA TurnWalk ==
    ASSUME NEW N, NEW links, AreLinks(N, links), NEW start, NEW k, NEW at, NEW c,
           LinkWalk(N, links, start, k, at, c)
    PROVE  \E at2, c2 : /\ LinkWalk(N, Turned(links), at[k], k, at2, c2)
                        /\ at2[k] = start /\ c2[k] = c[k]
<1> DEFINE at2 == [i \in 0 .. k |-> at[k - i]]
           c2 == [i \in 0 .. k |-> c[k] - c[k - i]]
<1>0. /\ k \in Nat /\ 0 \in 0 .. k /\ k \in 0 .. k /\ k - 0 = k /\ k - k = 0
      /\ at[0] = start /\ c[0] = 0
      /\ \A i \in 0 .. k : k - i \in 0 .. k /\ at[i] \in N /\ c[i] \in Nat
  BY DEF LinkWalk
<1>1. \A i \in 0 .. k : c[k] - c[i] \in Nat
  <2> SUFFICES ASSUME NEW i \in 0 .. k PROVE c[k] - c[i] \in Nat
    OBVIOUS
  <2>1. i <= k
    BY <1>0
  <2>2. c[i] <= c[k]
    BY <1>0, <2>1, WalkIsMonotone
  <2> QED
    BY <1>0, <2>2
<1>2. at2 \in [0 .. k -> N] /\ c2 \in [0 .. k -> Nat]
  BY <1>0, <1>1
<1>3. at2[0] = at[k] /\ c2[0] = 0 /\ at2[k] = start /\ c2[k] = c[k]
  BY <1>0
<1>4. ASSUME NEW i \in 0 .. k - 1
      PROVE  \E l \in Turned(links) :
               l.from = at2[i] /\ l.to = at2[i + 1] /\ c2[i + 1] = c2[i] + l.time
  <2> DEFINE j == k - (i + 1)
  <2>1. /\ i \in 0 .. k /\ i + 1 \in 0 .. k /\ j \in 0 .. k - 1 /\ j + 1 = k - i
        /\ j \in 0 .. k /\ j + 1 \in 0 .. k
    BY <1>0
  <2>2. PICK m \in links : m.from = at[j] /\ m.to = at[j + 1] /\ c[j + 1] = c[j] + m.time
    BY <2>1 DEF LinkWalk
  <2> DEFINE l == [from |-> m.to, to |-> m.from, time |-> m.time]
  <2>3. l \in Turned(links)
    BY DEF Turned
  <2>4. at2[i] = at[j + 1] /\ at2[i + 1] = at[j] /\ c2[i] = c[k] - c[j + 1] /\ c2[i + 1] = c[k] - c[j]
    BY <2>1
  <2>5. m.time \in Nat /\ c[k] \in Nat /\ c[j] \in Nat /\ c[j + 1] \in Nat
    BY <1>0, <2>1 DEF AreLinks
  <2> HIDE DEF at2, c2, j
  <2>6. c2[i + 1] = c2[i] + m.time
    BY <2>2, <2>4, <2>5
  <2>7. l.from = at2[i] /\ l.to = at2[i + 1] /\ l.time = m.time
    BY <2>2, <2>4
  <2> QED
    BY <2>3, <2>6, <2>7
<1> HIDE DEF at2, c2
<1>5. LinkWalk(N, Turned(links), at[k], k, at2, c2)
  BY <1>0, <1>2, <1>3, <1>4 DEF LinkWalk
<1> QED
  BY <1>3, <1>5

LEMMA TurnedAreLinks ==
    ASSUME NEW N, NEW links, AreLinks(N, links)
    PROVE  AreLinks(N, Turned(links))
BY DEF AreLinks, Turned

LEMMA TurnedTwice ==
    ASSUME NEW N, NEW links, NEW start, NEW k, NEW at, NEW c,
           LinkWalk(N, Turned(Turned(links)), start, k, at, c)
    PROVE  LinkWalk(N, links, start, k, at, c)
<1>1. ASSUME NEW l \in Turned(Turned(links))
      PROVE  \E q \in links : l.from = q.from /\ l.to = q.to /\ l.time = q.time
  <2>1. PICK m \in Turned(links) : l = [from |-> m.to, to |-> m.from, time |-> m.time]
    BY DEF Turned
  <2>2. PICK q \in links : m = [from |-> q.to, to |-> q.from, time |-> q.time]
    BY DEF Turned
  <2> QED
    BY <2>1, <2>2
<1>2. ASSUME NEW i \in 0 .. k - 1
      PROVE  \E q \in links : q.from = at[i] /\ q.to = at[i + 1] /\ c[i + 1] = c[i] + q.time
  <2>1. PICK l \in Turned(Turned(links)) :
          l.from = at[i] /\ l.to = at[i + 1] /\ c[i + 1] = c[i] + l.time
    BY DEF LinkWalk
  <2> QED
    BY <1>1, <2>1
<1> QED
  BY <1>2 DEF LinkWalk

\* A search over the turned links finds the times to its start.
LEMMA TurnedTimes ==
    ASSUME NEW N, IsFiniteSet(N), NEW links, AreLinks(N, links), NEW a \in N, NEW b \in N
    PROVE  /\ b \in DOMAIN LinkTimes(N, links, a) <=> a \in DOMAIN LinkTimes(N, Turned(links), b)
           /\ b \in DOMAIN LinkTimes(N, links, a) =>
                LinkTimes(N, links, a)[b] = LinkTimes(N, Turned(links), b)[a]
<1> DEFINE T == LinkTimes(N, links, a)
           U == LinkTimes(N, Turned(links), b)
<1>1. AreLinks(N, Turned(links))
  BY TurnedAreLinks
<1>2. ASSUME b \in DOMAIN T PROVE a \in DOMAIN U /\ U[a] <= T[b]
  <2>1. PICK k, at, c : LinkWalk(N, links, a, k, at, c) /\ at[k] = b /\ c[k] = T[b]
    BY <1>2, LinkTimesAreShortest
  <2>2. PICK at2, c2 : /\ LinkWalk(N, Turned(links), b, k, at2, c2)
                       /\ at2[k] = a /\ c2[k] = c[k]
    BY <2>1, TurnWalk
  <2> QED
    BY <1>1, <2>1, <2>2, LinkTimesAreShortest
<1>3. ASSUME a \in DOMAIN U PROVE b \in DOMAIN T /\ T[b] <= U[a]
  <2>1. PICK k, at, c : LinkWalk(N, Turned(links), b, k, at, c) /\ at[k] = a /\ c[k] = U[a]
    BY <1>1, <1>3, LinkTimesAreShortest
  <2>2. PICK at2, c2 : /\ LinkWalk(N, Turned(Turned(links)), a, k, at2, c2)
                       /\ at2[k] = b /\ c2[k] = c[k]
    BY <1>1, <2>1, TurnWalk
  <2>3. LinkWalk(N, links, a, k, at2, c2)
    BY <2>2, TurnedTwice
  <2> QED
    BY <2>1, <2>2, <2>3, LinkTimesAreShortest
<1>4. b \in DOMAIN T => T[b] \in Nat
  BY LinkTimesTable
<1>5. a \in DOMAIN U => U[a] \in Nat
  BY <1>1, LinkTimesTable
<1> HIDE DEF T, U
<1>6. /\ b \in DOMAIN T <=> a \in DOMAIN U
      /\ b \in DOMAIN T => T[b] = U[a]
  BY <1>2, <1>3, <1>4, <1>5
<1> QED
  BY <1>6 DEF T, U

\* A node with a shortest time is reached at no cost when there is a link at no
\* cost beside each link.
LEMMA FreeTimes ==
    ASSUME NEW N, IsFiniteSet(N), NEW links, AreLinks(N, links), NEW start \in N,
           NEW free, AreLinks(N, free),
           \A l \in links : \E m \in free : m.from = l.from /\ m.to = l.to /\ m.time = 0
    PROVE  DOMAIN LinkTimes(N, links, start) \subseteq DOMAIN LinkTimes(N, free, start)
<1> SUFFICES ASSUME NEW n \in DOMAIN LinkTimes(N, links, start)
             PROVE  n \in DOMAIN LinkTimes(N, free, start)
  OBVIOUS
<1>1. PICK k, at, c : LinkWalk(N, links, start, k, at, c) /\ at[k] = n
  BY LinkTimesAreShortest
<1> DEFINE zero == [i \in 0 .. k |-> 0]
<1>2. k \in Nat /\ \A i \in 0 .. k - 1 : i \in 0 .. k /\ i + 1 \in 0 .. k
  BY <1>1 DEF LinkWalk
<1>3. zero \in [0 .. k -> Nat] /\ zero[0] = 0
  BY <1>2
<1>4. ASSUME NEW i \in 0 .. k - 1
      PROVE  \E m \in free : m.from = at[i] /\ m.to = at[i + 1] /\ zero[i + 1] = zero[i] + m.time
  <2>1. PICK l \in links : l.from = at[i] /\ l.to = at[i + 1]
    BY <1>1 DEF LinkWalk
  <2>2. PICK m \in free : m.from = l.from /\ m.to = l.to /\ m.time = 0
    OBVIOUS
  <2>3. zero[i + 1] = 0 /\ zero[i] = 0
    BY <1>2
  <2> QED
    BY <2>1, <2>2, <2>3
<1> HIDE DEF zero
<1>5. LinkWalk(N, free, start, k, at, zero)
  BY <1>1, <1>2, <1>3, <1>4 DEF LinkWalk
<1> QED
  BY <1>1, <1>5, LinkTimesAreShortest

----------------------------------------------------------------------------
\* The links with both ends in D.
LinksWithin(links, D) == {l \in links : l.from \in D /\ l.to \in D}

\* A cut is closed if a link on a shortest way to a node of it starts in it.
ClosedCut(links, T, D) ==
    \A l \in links :
        /\ l.from \in DOMAIN T /\ l.to \in D /\ T[l.to] = T[l.from] + l.time
        => l.from \in D

\* No way gets shorter by cutting nodes out.
LEMMA CutIsNoFaster ==
    ASSUME NEW N, IsFiniteSet(N), NEW links, AreLinks(N, links),
           NEW D, D \subseteq N, NEW start \in D
    PROVE  /\ AreLinks(D, LinksWithin(links, D)) /\ IsFiniteSet(D)
           /\ \A n \in DOMAIN LinkTimes(D, LinksWithin(links, D), start) :
                /\ n \in DOMAIN LinkTimes(N, links, start)
                /\ LinkTimes(N, links, start)[n] <= LinkTimes(D, LinksWithin(links, D), start)[n]
<1>1. AreLinks(D, LinksWithin(links, D)) /\ IsFiniteSet(D)
  BY FS_Subset DEF AreLinks, LinksWithin
<1> DEFINE T == LinkTimes(N, links, start)
<1>2. /\ start \in DOMAIN T /\ T[start] = 0 /\ \A n \in DOMAIN T : T[n] \in Nat
      /\ \A l \in links : l.from \in DOMAIN T => l.to \in DOMAIN T /\ T[l.to] <= T[l.from] + l.time
  BY LinkTimesTable
<1>3. \A l \in LinksWithin(links, D) : l \in links
  BY DEF LinksWithin
<1> HIDE DEF T
<1>4. \A n \in DOMAIN LinkTimes(D, LinksWithin(links, D), start) :
        n \in DOMAIN T /\ T[n] <= LinkTimes(D, LinksWithin(links, D), start)[n]
  BY <1>1, <1>2, <1>3, LinkTimesFloor
<1> QED
  BY <1>1, <1>4 DEF T

\* A closed cut keeps the shortest times of its nodes, on its own links alone.
LEMMA CutTimes ==
    ASSUME NEW N, IsFiniteSet(N), NEW links, AreLinks(N, links),
           NEW start, NEW T, T = LinkTimes(N, links, start),
           NEW D, D \subseteq N, D \subseteq DOMAIN T, start \in D, ClosedCut(links, T, D)
    PROVE  LinkTimes(D, LinksWithin(links, D), start) = [n \in D |-> T[n]]
<1> DEFINE sub == LinksWithin(links, D)
           U == LinkTimes(D, sub, start)
<1>0. start \in N
  OBVIOUS
<1>1. /\ AreLinks(D, sub) /\ IsFiniteSet(D)
      /\ \A n \in DOMAIN U : n \in DOMAIN T /\ T[n] <= U[n]
  BY CutIsNoFaster
<1>2. /\ DOMAIN U \subseteq D /\ \A n \in DOMAIN U : U[n] \in Nat
      /\ \A k, at, c : LinkWalk(D, sub, start, k, at, c) =>
                         at[k] \in DOMAIN U /\ U[at[k]] <= c[k]
  BY <1>1, LinkTimesAreShortest
<1>3. /\ \A n \in DOMAIN T : T[n] \in Nat
      /\ \A l \in links : l.from \in DOMAIN T => l.to \in DOMAIN T /\ T[l.to] <= T[l.from] + l.time
  BY <1>0, LinkTimesTable
<1>4. /\ \A k, at, c : LinkWalk(N, links, start, k, at, c) =>
                         at[k] \in DOMAIN T /\ T[at[k]] <= c[k]
      /\ \A n \in DOMAIN T : \E k, at, c :
            LinkWalk(N, links, start, k, at, c) /\ at[k] = n /\ c[k] = T[n]
  BY <1>0, LinkTimesAreShortest
<1> HIDE DEF U
<1>5. ASSUME NEW n \in D PROVE n \in DOMAIN U /\ U[n] <= T[n]
  <2>1. PICK k, at, c : LinkWalk(N, links, start, k, at, c) /\ at[k] = n /\ c[k] = T[n]
    BY <1>4
  <2>2. /\ k \in Nat /\ k \in 0 .. k /\ at \in [0 .. k -> N] /\ c \in [0 .. k -> Nat]
        /\ at[0] = start /\ c[0] = 0
    BY <2>1 DEF LinkWalk
  <2> DEFINE Tight(i) == at[i] \in D /\ T[at[i]] = c[i]
             Off == {i \in 0 .. k : ~Tight(i)}
  <2>3. ASSUME Off # {} PROVE FALSE
    <3>1. Off \in SUBSET (0 .. k)
      OBVIOUS
    <3> HIDE DEF Off
    <3>2. PICK i \in Off : \A j \in Off : j <= i
      BY <2>2, <2>3, <3>1, GreatestElement
    <3>3. i \in 0 .. k /\ ~Tight(i)
      BY <3>2 DEF Off
    <3>4. i # k
      BY <2>1, <3>3
    <3>5. i \in 0 .. k - 1 /\ i + 1 \in 0 .. k /\ ~(i + 1 <= i)
      BY <2>2, <3>3, <3>4
    <3>6. Tight(i + 1)
      BY <3>2, <3>5 DEF Off
    <3>7. PICK l \in links : l.from = at[i] /\ l.to = at[i + 1] /\ c[i + 1] = c[i] + l.time
      BY <2>1, <3>5 DEF LinkWalk
    <3>8. PICK at2, c2 : LinkWalk(N, links, start, i, at2, c2) /\ at2[i] = at[i] /\ c2[i] = c[i]
      BY <2>1, <3>3, WalkPrefix
    <3>9. at[i] \in DOMAIN T /\ T[at[i]] <= c[i]
      BY <1>4, <3>8
    <3>10. T[at[i + 1]] <= T[at[i]] + l.time
      BY <1>3, <3>7, <3>9
    <3>11. T[at[i]] \in Nat /\ l.time \in Nat /\ c[i] \in Nat /\ c[i + 1] \in Nat
      BY <1>3, <2>2, <3>3, <3>5, <3>9 DEF AreLinks
    <3>12. T[at[i]] = c[i]
      BY <3>6, <3>7, <3>9, <3>10, <3>11
    <3>13. T[l.to] = T[l.from] + l.time /\ l.to \in D /\ l.from \in DOMAIN T
      BY <3>6, <3>7, <3>9, <3>12
    <3>14. at[i] \in D
      BY <3>7, <3>13 DEF ClosedCut
    <3> QED
      BY <3>3, <3>12, <3>14
  <2>4. \A i \in 0 .. k : at[i] \in D
    BY <2>3
  <2>5. at \in [0 .. k -> D]
    BY <2>2, <2>4
  <2>6. ASSUME NEW i \in 0 .. k - 1
        PROVE  \E l \in sub : l.from = at[i] /\ l.to = at[i + 1] /\ c[i + 1] = c[i] + l.time
    <3>1. PICK l \in links : l.from = at[i] /\ l.to = at[i + 1] /\ c[i + 1] = c[i] + l.time
      BY <2>1 DEF LinkWalk
    <3>2. i \in 0 .. k /\ i + 1 \in 0 .. k
      BY <2>2
    <3> QED
      BY <2>4, <3>1, <3>2 DEF LinksWithin
  <2>7. LinkWalk(D, sub, start, k, at, c)
    BY <2>2, <2>5, <2>6 DEF LinkWalk
  <2> QED
    BY <1>2, <2>1, <2>7
<1>6. DOMAIN U = D
  BY <1>2, <1>5
<1>7. ASSUME NEW n \in D PROVE U[n] = T[n]
  <2>1. n \in DOMAIN U /\ U[n] \in Nat /\ T[n] \in Nat
    BY <1>2, <1>3, <1>6
  <2> QED
    BY <1>1, <1>5, <2>1
<1>8. U = [n \in DOMAIN U |-> U[n]]
  BY DEF U, LinkTimes
<1> QED
  BY <1>6, <1>7, <1>8 DEF U

=============================================================================
