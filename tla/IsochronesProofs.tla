-------------------------- MODULE IsochronesProofs --------------------------
(***************************************************************************)
(* Proofs about module Isochrones: its types, and that of a contour        *)
(* without branches a largest ring is kept, whatever segment each trace    *)
(* starts with.                                                            *)
(***************************************************************************)
EXTENDS Isochrones, Lemmas, SequenceTheorems

Point == Int \X Int

----------------------------------------------------------------------------
(* The area of a ring is a recursive sum.  It is built term by term to     *)
(* show that it exists; then what a turn of the ring does to it is         *)
(* arithmetic.                                                             *)

\* A term of the sum.
Term(r, i) == r[i][1] * r[i + 1][2] - r[i + 1][1] * r[i][2]

\* The function f holds the sums of the first terms of r.
Sums(r, f) ==
    /\ f \in [0 .. Len(r) - 1 -> Int]
    /\ f[0] = 0
    /\ \A i \in 1 .. Len(r) - 1 : f[i] = f[i - 1] + Term(r, i)

SumsUpTo(r, k, f) ==
    /\ \A i \in 0 .. k : f[i] \in Int
    /\ f[0] = 0
    /\ \A i \in 1 .. k : f[i] = f[i - 1] + Term(r, i)

LEMMA TermType ==
    ASSUME NEW r \in Seq(Point), NEW i \in 1 .. Len(r) - 1
    PROVE  Term(r, i) \in Int
<1>1. i \in 1 .. Len(r) /\ i + 1 \in 1 .. Len(r)
  OBVIOUS
<1>2. r[i] \in Point /\ r[i + 1] \in Point
  BY <1>1
<1>3. r[i][1] \in Int /\ r[i][2] \in Int /\ r[i + 1][1] \in Int /\ r[i + 1][2] \in Int
  BY <1>2 DEF Point
<1>4. \A a, b, c, d \in Int : a * b - c * d \in Int
  OBVIOUS
<1> QED
  BY <1>3, <1>4 DEF Term

LEMMA SumsExist ==
    ASSUME NEW r \in Seq(Point), Len(r) >= 4
    PROVE  \E f : Sums(r, f)
<1> DEFINE n == Len(r) - 1
           T == {k \in Nat : k <= n /\ ~\E f : SumsUpTo(r, k, f)}
<1>0. n \in Nat
  OBVIOUS
<1>1. T = {}
  <2>1. SUFFICES ASSUME T # {} PROVE FALSE
    OBVIOUS
  <2> HIDE DEF T
  <2>2. PICK m \in T : \A j \in T : m <= j
    <3>1. T \in SUBSET Nat
      BY DEF T
    <3> QED
      BY <2>1, <3>1, LeastElement
  <2>3. m \in Nat /\ m <= n /\ ~\E f : SumsUpTo(r, m, f)
    BY DEF T
  <2>4. CASE m = 0
    <3> DEFINE f == [j \in {0} |-> 0]
    <3>1. SumsUpTo(r, 0, f)
      BY DEF SumsUpTo
    <3> QED
      BY <2>3, <2>4, <3>1
  <2>5. CASE m # 0
    <3>1. m - 1 \in Nat /\ ~(m <= m - 1) /\ m - 1 <= n /\ m \in 1 .. Len(r) - 1
      BY <2>3, <2>5, <1>0
    <3>2. PICK g : SumsUpTo(r, m - 1, g)
      BY <2>2, <3>1 DEF T
    <3> DEFINE f == [j \in 0 .. m |-> IF j = m THEN g[m - 1] + Term(r, m) ELSE g[j]]
    <3>3. ASSUME NEW j \in 0 .. m, j # m PROVE f[j] = g[j] /\ g[j] \in Int
      BY <2>3, <3>1, <3>2, <3>3 DEF SumsUpTo
    <3>4. f[m] = g[m - 1] + Term(r, m) /\ f[m] \in Int
      <4>1. m \in 0 .. m /\ m - 1 \in 0 .. m - 1
        BY <2>3, <3>1
      <4>2. g[m - 1] \in Int /\ Term(r, m) \in Int
        BY <3>1, <3>2, <4>1, TermType DEF SumsUpTo
      <4> QED
        BY <4>1, <4>2
    <3>5. ASSUME NEW j \in 1 .. m PROVE f[j] = f[j - 1] + Term(r, j)
      <4>1. j - 1 \in 0 .. m /\ j - 1 # m
        BY <2>3
      <4>2. f[j - 1] = g[j - 1]
        BY <3>3, <4>1
      <4>3. CASE j = m
        BY <3>4, <4>2, <4>3
      <4>4. CASE j # m
        <5>1. j \in 1 .. m - 1 /\ j \in 0 .. m
          BY <2>3, <4>4
        <5>2. g[j] = g[j - 1] + Term(r, j)
          BY <3>2, <5>1 DEF SumsUpTo
        <5> QED
          BY <3>3, <4>2, <4>4, <5>1, <5>2
      <4> QED
        BY <4>3, <4>4
    <3>6. f[0] = 0
      <4>1. 0 \in 0 .. m /\ 0 # m
        BY <2>3, <2>5
      <4> QED
        BY <3>2, <3>3, <4>1 DEF SumsUpTo
    <3>7. \A j \in 0 .. m : f[j] \in Int
      BY <3>3, <3>4
    <3> HIDE DEF f
    <3>8. SumsUpTo(r, m, f)
      BY <3>5, <3>6, <3>7 DEF SumsUpTo
    <3> QED
      BY <2>3, <3>8
  <2> QED
    BY <2>4, <2>5
<1>2. PICK g : SumsUpTo(r, n, g)
  <2>1. n <= n
    BY <1>0
  <2>2. n \notin T
    <3> HIDE DEF T, n
    <3> QED
      BY <1>1
  <2> QED
    BY <1>0, <2>1, <2>2
<1> DEFINE f == [i \in 0 .. Len(r) - 1 |-> g[i]]
<1>3. Sums(r, f)
  <2>1. \A i \in 0 .. Len(r) - 1 : f[i] = g[i] /\ g[i] \in Int
    BY <1>2 DEF SumsUpTo
  <2>2. 0 \in 0 .. Len(r) - 1
    BY <1>0
  <2>3. f[0] = 0
    BY <1>2, <2>2 DEF SumsUpTo
  <2>4. ASSUME NEW i \in 1 .. Len(r) - 1 PROVE f[i] = f[i - 1] + Term(r, i)
    <3>1. i - 1 \in 0 .. Len(r) - 1 /\ i \in 0 .. Len(r) - 1
      OBVIOUS
    <3>2. g[i] = g[i - 1] + Term(r, i)
      BY <1>2 DEF SumsUpTo
    <3> QED
      BY <3>1, <3>2
  <2> QED
    BY <2>1, <2>3, <2>4 DEF Sums
<1> QED
  BY <1>3

\* Two functions that hold the sums are one.
LEMMA SumsUnique ==
    ASSUME NEW r \in Seq(Point), Len(r) >= 4, NEW f, NEW g, Sums(r, f), Sums(r, g)
    PROVE  f[Len(r) - 1] = g[Len(r) - 1]
<1> DEFINE n == Len(r) - 1
           T == {k \in Nat : k <= n /\ f[k] # g[k]}
<1>0. n \in Nat
  OBVIOUS
<1> SUFFICES ASSUME T # {} PROVE FALSE
  BY <1>0
<1> HIDE DEF T
<1>1. PICK m \in T : \A j \in T : m <= j
  <2>1. T \in SUBSET Nat
    BY DEF T
  <2> QED
    BY <2>1, LeastElement
<1>2. m \in Nat /\ m <= n /\ f[m] # g[m]
  BY DEF T
<1>3. m # 0
  BY <1>2 DEF Sums
<1>4. m - 1 \in Nat /\ m - 1 <= n /\ ~(m <= m - 1) /\ m \in 1 .. Len(r) - 1
  BY <1>0, <1>2, <1>3
<1>5. f[m - 1] = g[m - 1]
  BY <1>1, <1>4 DEF T
<1> QED
  BY <1>2, <1>4, <1>5 DEF Sums

Absolute(a) == IF a < 0 THEN -a ELSE a

\* The area of a ring is the absolute value of the sum of its terms.
LEMMA AreaIsSum ==
    ASSUME NEW r \in Seq(Point), Len(r) >= 4, NEW f, Sums(r, f)
    PROVE  RingArea(r) = Absolute(f[Len(r) - 1])
<1> DEFINE Body(h) == [i \in 0 .. Len(r) - 1 |->
                         IF i = 0 THEN 0
                         ELSE h[i - 1] + r[i][1] * r[i + 1][2] - r[i + 1][1] * r[i][2]]
           S == CHOOSE h : h = Body(h)
<1>1. ASSUME NEW i \in 1 .. Len(r) - 1, NEW a \in Int
      PROVE  a + r[i][1] * r[i + 1][2] - r[i + 1][1] * r[i][2] = a + Term(r, i)
  <2>1. i \in 1 .. Len(r) /\ i + 1 \in 1 .. Len(r)
    OBVIOUS
  <2>2. r[i] \in Point /\ r[i + 1] \in Point
    BY <2>1
  <2>3. r[i][1] \in Int /\ r[i][2] \in Int /\ r[i + 1][1] \in Int /\ r[i + 1][2] \in Int
    BY <2>2 DEF Point
  <2> HIDE <2>1, <2>2
  <2>4. \A b, c, d, e \in Int : a + b * c - d * e = a + (b * c - d * e)
    OBVIOUS
  <2> QED
    BY <2>3, <2>4 DEF Term
<1>2. f = Body(f)
  <2>1. ASSUME NEW i \in 0 .. Len(r) - 1 PROVE f[i] = Body(f)[i]
    <3>1. CASE i = 0
      BY <3>1 DEF Sums
    <3>2. CASE i # 0
      <4>1. i \in 1 .. Len(r) - 1 /\ i - 1 \in 0 .. Len(r) - 1
        BY <3>2
      <4>2. f[i] = f[i - 1] + Term(r, i) /\ f[i - 1] \in Int
        BY <4>1 DEF Sums
      <4>3. f[i] = f[i - 1] + r[i][1] * r[i + 1][2] - r[i + 1][1] * r[i][2]
        BY <1>1, <4>1, <4>2
      <4> QED
        BY <3>2, <4>3
    <3> QED
      BY <3>1, <3>2
  <2> QED
    BY <2>1 DEF Sums
<1>3. S = Body(S)
  BY <1>2
<1>4. Sums(r, S)
  <2> DEFINE T == {k \in Nat : k <= Len(r) - 1 /\ S[k] \notin Int}
  <2>1. DOMAIN S = 0 .. Len(r) - 1
    BY <1>3
  <2>2. \A i \in 0 .. Len(r) - 1 :
          S[i] = IF i = 0 THEN 0
                 ELSE S[i - 1] + r[i][1] * r[i + 1][2] - r[i + 1][1] * r[i][2]
    BY <1>3
  <2> HIDE DEF S
  <2>3. S[0] = 0
    BY <2>2
  <2>4. T = {}
    <3> SUFFICES ASSUME T # {} PROVE FALSE
      OBVIOUS
    <3> HIDE DEF T
    <3>1. PICK m \in T : \A j \in T : m <= j
      <4>1. T \in SUBSET Nat
        BY DEF T
      <4> QED
        BY <4>1, LeastElement
    <3>2. m \in Nat /\ m <= Len(r) - 1 /\ S[m] \notin Int
      BY DEF T
    <3>3. m # 0
      BY <2>3, <3>2
    <3>4. m - 1 \in Nat /\ m - 1 <= Len(r) - 1 /\ ~(m <= m - 1) /\ m \in 1 .. Len(r) - 1 /\ m \in 0 .. Len(r) - 1
      BY <3>2, <3>3
    <3>5. S[m - 1] \in Int
      BY <3>1, <3>4 DEF T
    <3>6. S[m] = S[m - 1] + r[m][1] * r[m + 1][2] - r[m + 1][1] * r[m][2]
      BY <2>2, <3>3, <3>4
    <3>7. S[m] = S[m - 1] + Term(r, m)
      BY <1>1, <3>4, <3>5, <3>6
    <3>8. Term(r, m) \in Int
      BY <3>4, TermType
    <3> QED
      BY <3>2, <3>5, <3>7, <3>8
  <2>5. \A i \in 0 .. Len(r) - 1 : S[i] \in Int
    BY <2>4
  <2>6. ASSUME NEW i \in 1 .. Len(r) - 1 PROVE S[i] = S[i - 1] + Term(r, i)
    <3>1. i \in 0 .. Len(r) - 1 /\ i # 0 /\ i - 1 \in 0 .. Len(r) - 1
      OBVIOUS
    <3>2. S[i] = S[i - 1] + r[i][1] * r[i + 1][2] - r[i + 1][1] * r[i][2]
      BY <2>2, <3>1
    <3> QED
      BY <1>1, <2>5, <3>1, <3>2
  <2> QED
    <3>1. S = [i \in 0 .. Len(r) - 1 |-> S[i]]
      BY <1>3, <2>1 DEF S
    <3>2. S \in [0 .. Len(r) - 1 -> Int]
      BY <2>5, <3>1
    <3> QED
      BY <2>3, <2>6, <3>2 DEF Sums
<1>5. S[Len(r) - 1] = f[Len(r) - 1]
  BY <1>4, SumsUnique
<1>6. RingArea(r) = IF (IF Len(r) < 4 THEN 0 ELSE S[Len(r) - 1]) < 0
                      THEN -(IF Len(r) < 4 THEN 0 ELSE S[Len(r) - 1])
                      ELSE IF Len(r) < 4 THEN 0 ELSE S[Len(r) - 1]
  BY DEF RingArea
<1> HIDE DEF S
<1>7. ~(Len(r) < 4)
  OBVIOUS
<1> QED
  BY <1>5, <1>6, <1>7 DEF Absolute

----------------------------------------------------------------------------
(* A ring may be read from any of its points and both ways.                *)

SameRing(c, r) ==
    /\ IsRing(c)
    /\ RingArea(c) = RingArea(r)
    /\ \A i \in 1 .. Len(c) - 1 : \E j \in 1 .. Len(r) - 1 : {c[i], c[i + 1]} = {r[j], r[j + 1]}

Rotated(r) == [i \in 1 .. Len(r) |-> IF i < Len(r) THEN r[i + 1] ELSE r[2]]

Flipped(r) == [i \in 1 .. Len(r) |-> r[Len(r) + 1 - i]]

LEMMA RingType ==
    ASSUME UNION segments \subseteq Point, NEW r, IsRing(r)
    PROVE  /\ r \in Seq(Point) /\ Len(r) \in Nat /\ Len(r) >= 4
           /\ \A i \in 1 .. Len(r) : r[i] \in Point /\ r[i] \in UNION segments
<1>1. r \in Seq(UNION segments) /\ Len(r) >= 4
  BY DEF IsRing
<1>2. Len(r) \in Nat /\ \A i \in 1 .. Len(r) : r[i] \in UNION segments
  BY <1>1
<1> QED
  BY <1>1, <1>2

LEMMA RotatedRing ==
    ASSUME UNION segments \subseteq Point, NEW r, IsRing(r)
    PROVE  SameRing(Rotated(r), r)
<1> DEFINE m == Len(r)
<1>0. PICK c : c = Rotated(r)
  OBVIOUS
<1>1. r \in Seq(Point) /\ m \in Nat /\ m >= 4 /\ r[m] = r[1]
  BY RingType DEF IsRing
<1>2. \A i \in 1 .. m : r[i] \in UNION segments
  BY RingType
<1>3. c \in Seq(UNION segments) /\ Len(c) = m
  <2>1. c = [i \in 1 .. m |-> IF i < m THEN r[i + 1] ELSE r[2]]
    BY <1>0 DEF Rotated
  <2>2. \A i \in 1 .. m : (IF i < m THEN r[i + 1] ELSE r[2]) \in UNION segments
    BY <1>1, <1>2
  <2> QED
    BY <1>1, <2>1, <2>2
<1>4. /\ \A i \in 1 .. m - 1 : c[i] = r[i + 1]
      /\ c[m] = r[2]
  BY <1>0, <1>1 DEF Rotated
<1>5. c[m - 1] = r[1] /\ c[1] = r[2]
  BY <1>1, <1>4
<1>6. ASSUME NEW i \in 1 .. m - 1
      PROVE  \E j \in 1 .. m - 1 : c[i] = r[j] /\ c[i + 1] = r[j + 1]
  <2>1. CASE i = m - 1
    <3>1. 1 \in 1 .. m - 1 /\ (m - 1) + 1 = m
      BY <1>1
    <3> QED
      BY <1>4, <1>5, <2>1, <3>1
  <2>2. CASE i # m - 1
    <3>1. i + 1 \in 1 .. m - 1 /\ i \in 1 .. m - 1
      BY <1>1, <2>2
    <3> QED
      BY <1>4, <3>1
  <2> QED
    BY <2>1, <2>2
<1>7. ASSUME NEW i \in 1 .. m - 1, NEW j \in 1 .. m - 1, c[i] = c[j] PROVE i = j
  <2> DEFINE h(k) == IF k = m - 1 THEN 1 ELSE k + 1
  <2>1. \A a, b \in 1 .. m - 1 : r[a] = r[b] => a = b
    BY DEF IsRing
  <2>2. \A k \in 1 .. m - 1 : h(k) \in 1 .. m - 1
    <3>1. m \in Nat /\ m >= 4
      BY <1>1
    <3> HIDE DEF m
    <3> QED
      BY <3>1
  <2>3. \A k \in 1 .. m - 1 : c[k] = r[h(k)]
    BY <1>4, <1>5
  <2>4. h(i) = h(j) => i = j
    <3>1. m \in Nat /\ m >= 4
      BY <1>1
    <3> HIDE DEF m
    <3> QED
      BY <3>1
  <2> HIDE DEF h, m
  <2>5. r[h(i)] = r[h(j)]
    BY <1>7, <2>3
  <2>6. h(i) \in 1 .. m - 1 /\ h(j) \in 1 .. m - 1
    BY <2>2
  <2> QED
    BY <2>1, <2>4, <2>5, <2>6
<1>8. IsRing(c)
  <2>1. c[1] = c[m]
    BY <1>4, <1>5
  <2>2. ASSUME NEW i \in 1 .. m - 1 PROVE {c[i], c[i + 1]} \in segments
    BY <1>6 DEF IsRing
  <2> QED
    BY <1>1, <1>3, <1>7, <2>1, <2>2 DEF IsRing
<1>9. RingArea(c) = RingArea(r)
  <2>1. PICK f : Sums(r, f)
    BY <1>1, SumsExist
  <2>2. c \in Seq(Point)
    BY <1>8, RingType
  <2>3. f[0] = 0 /\ (\A i \in 0 .. m - 1 : f[i] \in Int)
            /\ (\A i \in 1 .. m - 1 : f[i] = f[i - 1] + Term(r, i) /\ Term(r, i) \in Int)
    BY <1>1, <2>1, TermType DEF Sums
  <2>4. ASSUME NEW i \in 1 .. m - 2 PROVE Term(c, i) = Term(r, i + 1)
    <3>1. c[i] = r[i + 1] /\ c[i + 1] = r[(i + 1) + 1]
      BY <1>1, <1>4
    <3> QED
      BY <3>1 DEF Term
  <2>5. Term(c, m - 1) = Term(r, 1)
    <3>1. c[m - 1] = r[1] /\ c[(m - 1) + 1] = r[1 + 1]
      BY <1>1, <1>4, <1>5
    <3> QED
      BY <3>1 DEF Term
  <2> DEFINE g == [i \in 0 .. m - 1 |-> IF i < m - 1 THEN f[i + 1] - f[1] ELSE f[m - 1]]
  <2>6. g \in [0 .. m - 1 -> Int]
    <3>1. 1 \in 0 .. m - 1 /\ m - 1 \in 0 .. m - 1
      BY <1>1
    <3>2. ASSUME NEW i \in 0 .. m - 1
          PROVE  (IF i < m - 1 THEN f[i + 1] - f[1] ELSE f[m - 1]) \in Int
      <4>1. CASE i < m - 1
        <5>1. i + 1 \in 0 .. m - 1
          BY <1>1, <4>1
        <5> QED
          BY <2>3, <3>1, <4>1, <5>1
      <4>2. CASE ~(i < m - 1)
        BY <2>3, <3>1, <4>2
      <4> QED
        BY <4>1, <4>2
    <3> QED
      BY <3>2
  <2>7. /\ \A i \in 0 .. m - 2 : g[i] = f[i + 1] - f[1]
        /\ g[m - 1] = f[m - 1]
    BY <1>1
  <2> HIDE DEF g
  <2>8. g[0] = 0
    BY <1>1, <2>3, <2>7
  <2>9. ASSUME NEW i \in 1 .. m - 1 PROVE g[i] = g[i - 1] + Term(c, i)
    <3>0. i - 1 \in 0 .. m - 2 /\ (i - 1) + 1 = i /\ i \in 0 .. m - 1 /\ 1 \in 0 .. m - 1 /\ 1 \in 1 .. m - 1
      BY <1>1
    <3>1. g[i - 1] = f[i] - f[1]
      BY <2>7, <3>0
    <3>2. CASE i = m - 1
      <4>1. f[1] = f[0] + Term(r, 1) /\ f[1 - 1] = f[0]
        BY <2>3, <3>0
      <4> QED
        BY <2>3, <2>5, <2>7, <3>0, <3>1, <3>2, <4>1
    <3>3. CASE i # m - 1
      <4>1. i \in 1 .. m - 2 /\ i \in 0 .. m - 2 /\ i + 1 \in 1 .. m - 1 /\ (i + 1) - 1 = i
        BY <1>1, <3>3
      <4>2. g[i] = f[i + 1] - f[1]
        BY <2>7, <4>1
      <4>3. f[i + 1] = f[i] + Term(r, i + 1)
        BY <2>3, <4>1
      <4> QED
        BY <2>3, <2>4, <3>0, <3>1, <4>1, <4>2, <4>3
    <3> QED
      BY <3>2, <3>3
  <2>10. Sums(c, g)
    BY <1>3, <2>6, <2>8, <2>9 DEF Sums
  <2>11. RingArea(c) = Absolute(g[m - 1]) /\ RingArea(r) = Absolute(f[m - 1])
    BY <1>1, <1>3, <2>1, <2>2, <2>10, AreaIsSum
  <2> QED
    BY <2>7, <2>11
<1> QED
  BY <1>0, <1>3, <1>6, <1>8, <1>9 DEF SameRing

LEMMA FlippedRing ==
    ASSUME UNION segments \subseteq Point, NEW r, IsRing(r)
    PROVE  SameRing(Flipped(r), r)
<1> DEFINE m == Len(r)
<1>0. PICK c : c = Flipped(r)
  OBVIOUS
<1>1. r \in Seq(Point) /\ m \in Nat /\ m >= 4 /\ r[m] = r[1]
  BY RingType DEF IsRing
<1>2. \A i \in 1 .. m : r[i] \in UNION segments
  BY RingType
<1>3. c \in Seq(UNION segments) /\ Len(c) = m
  <2>1. c = [i \in 1 .. m |-> r[m + 1 - i]]
    BY <1>0 DEF Flipped
  <2>2. \A i \in 1 .. m : r[m + 1 - i] \in UNION segments
    BY <1>1, <1>2
  <2> QED
    BY <1>1, <2>1, <2>2
<1>4. \A i \in 1 .. m : c[i] = r[m + 1 - i]
  BY <1>0 DEF Flipped
<1>5. c[1] = r[m] /\ c[m] = r[1]
  BY <1>1, <1>4
<1>6. ASSUME NEW i \in 1 .. m - 1
      PROVE  m - i \in 1 .. m - 1 /\ c[i] = r[(m - i) + 1] /\ c[i + 1] = r[m - i]
  BY <1>1, <1>4
<1>7. ASSUME NEW i \in 1 .. m - 1, NEW j \in 1 .. m - 1, c[i] = c[j] PROVE i = j
  <2> DEFINE h(k) == IF k = 1 THEN 1 ELSE m + 1 - k
  <2>1. \A a, b \in 1 .. m - 1 : r[a] = r[b] => a = b
    BY DEF IsRing
  <2>2. \A k \in 1 .. m - 1 : h(k) \in 1 .. m - 1
    <3>1. m \in Nat /\ m >= 4
      BY <1>1
    <3> HIDE DEF m
    <3> QED
      BY <3>1
  <2>3. \A k \in 1 .. m - 1 : c[k] = r[h(k)]
    <3>1. m \in Nat /\ m >= 4 /\ c[1] = r[1]
      BY <1>1, <1>5
    <3> HIDE DEF m
    <3>2. \A k \in 1 .. m - 1 : k \in 1 .. m
      BY <3>1
    <3> QED
      BY <1>4, <3>1, <3>2
  <2>4. h(i) = h(j) => i = j
    <3>1. m \in Nat /\ m >= 4
      BY <1>1
    <3> HIDE DEF m
    <3> QED
      BY <3>1
  <2> HIDE DEF h, m
  <2>5. r[h(i)] = r[h(j)]
    BY <1>7, <2>3
  <2>6. h(i) \in 1 .. m - 1 /\ h(j) \in 1 .. m - 1
    BY <2>2
  <2> QED
    BY <2>1, <2>4, <2>5, <2>6
<1>8. IsRing(c)
  <2>1. c[1] = c[m]
    BY <1>1, <1>5
  <2>2. ASSUME NEW i \in 1 .. m - 1 PROVE {c[i], c[i + 1]} \in segments
    <3>1. {r[m - i], r[(m - i) + 1]} \in segments
      BY <1>6 DEF IsRing
    <3>2. {r[m - i], r[(m - i) + 1]} = {c[i], c[i + 1]}
      BY <1>6
    <3> QED
      BY <3>1, <3>2
  <2> QED
    BY <1>1, <1>3, <1>7, <2>1, <2>2 DEF IsRing
<1>9. RingArea(c) = RingArea(r)
  <2>1. PICK f : Sums(r, f)
    BY <1>1, SumsExist
  <2>2. c \in Seq(Point)
    BY <1>8, RingType
  <2>3. f[0] = 0 /\ (\A i \in 0 .. m - 1 : f[i] \in Int)
            /\ (\A i \in 1 .. m - 1 : f[i] = f[i - 1] + Term(r, i) /\ Term(r, i) \in Int)
    BY <1>1, <2>1, TermType DEF Sums
  <2>4. ASSUME NEW i \in 1 .. m - 1 PROVE Term(c, i) = -Term(r, m - i)
    <3>1. m - i \in 1 .. m - 1 /\ c[i] = r[(m - i) + 1] /\ c[i + 1] = r[m - i]
      BY <1>6
    <3>2. m - i \in 1 .. m /\ (m - i) + 1 \in 1 .. m
      <4> HIDE DEF m
      <4>1. m \in Nat /\ \A k \in 1 .. m - 1 : k \in 1 .. m /\ k + 1 \in 1 .. m
        BY <1>1
      <4> QED
        BY <3>1, <4>1
    <3>3. r[m - i] \in Point /\ r[(m - i) + 1] \in Point
      BY <1>1, <3>2
    <3>4. PICK a \in Point, b \in Point : a = r[m - i] /\ b = r[(m - i) + 1]
      BY <3>3
    <3>5. Term(c, i) = b[1] * a[2] - a[1] * b[2] /\ Term(r, m - i) = a[1] * b[2] - b[1] * a[2]
      BY <3>1, <3>4 DEF Term
    <3>6. b[1] * a[2] \in Int /\ a[1] * b[2] \in Int
      BY <3>4 DEF Point
    <3>7. \A x, y \in Int : x - y = -(y - x)
      OBVIOUS
    <3> QED
      BY <3>5, <3>6, <3>7
  <2> DEFINE g == [i \in 0 .. m - 1 |-> f[m - 1 - i] - f[m - 1]]
  <2>5. /\ g \in [0 .. m - 1 -> Int]
        /\ \A i \in 0 .. m - 1 : g[i] = f[m - 1 - i] - f[m - 1]
    <3>1. \A i \in 0 .. m - 1 : m - 1 - i \in 0 .. m - 1
      BY <1>1
    <3>2. m - 1 \in 0 .. m - 1
      BY <1>1
    <3> QED
      BY <2>3, <3>1, <3>2
  <2> HIDE DEF g
  <2>6. g[0] = 0 /\ g[m - 1] = -f[m - 1] /\ f[m - 1] \in Int
    <3>1. 0 \in 0 .. m - 1 /\ m - 1 \in 0 .. m - 1 /\ m - 1 - 0 = m - 1 /\ m - 1 - (m - 1) = 0
      BY <1>1
    <3> QED
      BY <2>3, <2>5, <3>1
  <2>7. ASSUME NEW i \in 1 .. m - 1 PROVE g[i] = g[i - 1] + Term(c, i)
    <3>1. /\ i \in 0 .. m - 1 /\ i - 1 \in 0 .. m - 1 /\ m - 1 - (i - 1) = m - i
          /\ m - i \in 1 .. m - 1 /\ m - 1 - i = (m - i) - 1 /\ (m - i) - 1 \in 0 .. m - 1
          /\ m - i \in 0 .. m - 1
      BY <1>1
    <3>2. g[i] = f[(m - i) - 1] - f[m - 1] /\ g[i - 1] = f[m - i] - f[m - 1]
      BY <2>5, <3>1
    <3>3. f[m - i] = f[(m - i) - 1] + Term(r, m - i) /\ Term(r, m - i) \in Int
      BY <2>3, <3>1
    <3>4. f[(m - i) - 1] \in Int /\ f[m - i] \in Int
      BY <2>3, <3>1
    <3> QED
      BY <2>4, <2>6, <3>2, <3>3, <3>4
  <2>8. Sums(c, g)
    BY <1>3, <2>5, <2>6, <2>7 DEF Sums
  <2>9. RingArea(c) = Absolute(g[m - 1]) /\ RingArea(r) = Absolute(f[m - 1])
    BY <1>1, <1>3, <2>1, <2>2, <2>8, AreaIsSum
  <2> QED
    BY <2>6, <2>9 DEF Absolute
<1>10. ASSUME NEW i \in 1 .. m - 1
       PROVE  \E j \in 1 .. m - 1 : {c[i], c[i + 1]} = {r[j], r[j + 1]}
  <2>1. {c[i], c[i + 1]} = {r[m - i], r[(m - i) + 1]}
    BY <1>6
  <2> QED
    BY <1>6, <2>1
<1> QED
  BY <1>0, <1>3, <1>8, <1>9, <1>10 DEF SameRing

LEMMA SameRingReflexive ==
    ASSUME NEW r, IsRing(r)
    PROVE  SameRing(r, r)
BY DEF SameRing

LEMMA SameRingTransitive ==
    ASSUME NEW r, NEW c, NEW d, SameRing(c, r), SameRing(d, c)
    PROVE  SameRing(d, r)
<1>1. ASSUME NEW i \in 1 .. Len(d) - 1
      PROVE  \E j \in 1 .. Len(r) - 1 : {d[i], d[i + 1]} = {r[j], r[j + 1]}
  <2>1. PICK k \in 1 .. Len(c) - 1 : {d[i], d[i + 1]} = {c[k], c[k + 1]}
    BY DEF SameRing
  <2>2. PICK j \in 1 .. Len(r) - 1 : {c[k], c[k + 1]} = {r[j], r[j + 1]}
    BY DEF SameRing
  <2> QED
    BY <2>1, <2>2
<1> QED
  BY <1>1 DEF SameRing

\* A ring may be read from any of its points.
LEMMA RingFromPoint ==
    ASSUME UNION segments \subseteq Point, NEW r, IsRing(r), NEW k \in 1 .. Len(r) - 1
    PROVE  \E c : SameRing(c, r) /\ c[1] = r[k] /\ c[2] = r[k + 1]
<1> DEFINE At(c, j) == /\ SameRing(c, r) /\ j <= Len(c) - 1
                       /\ c[j] = r[k] /\ c[j + 1] = r[k + 1]
           T == {j \in Nat : j >= 1 /\ \E c : At(c, j)}
<1>0. Len(r) \in Nat
  BY RingType
<1>1. k \in T
  <2>1. At(r, k)
    BY <1>0, SameRingReflexive
  <2> QED
    BY <1>0, <2>1
<1>2. PICK m \in T : \A j \in T : m <= j
  <2>1. T \in SUBSET Nat
    OBVIOUS
  <2> HIDE DEF T
  <2> QED
    BY <1>1, <2>1, LeastElement
<1>3. PICK c : At(c, m)
  OBVIOUS
<1>4. m \in Nat /\ m >= 1
  OBVIOUS
<1>5. CASE m = 1
  BY <1>3, <1>5
<1>6. CASE m # 1
  <2>1. IsRing(c) /\ Len(c) \in Nat /\ Len(c) >= 4
    BY <1>3, RingType DEF SameRing
  <2>2. PICK d : d = Rotated(c)
    OBVIOUS
  <2>3. SameRing(d, c)
    BY <2>1, <2>2, RotatedRing
  <2>4. SameRing(d, r)
    BY <1>3, <2>3, SameRingTransitive
  <2>5. Len(d) = Len(c)
    <3>1. d = [i \in 1 .. Len(c) |-> IF i < Len(c) THEN c[i + 1] ELSE c[2]]
      BY <2>2 DEF Rotated
    <3>2. IsRing(d) /\ Len(d) \in Nat
      BY <2>3, RingType DEF SameRing
    <3>3. DOMAIN d = 1 .. Len(c)
      BY <3>1
    <3>4. DOMAIN d = 1 .. Len(d)
      BY <3>2 DEF IsRing
    <3> QED
      BY <2>1, <3>2, <3>3, <3>4
  <2>6. /\ m - 1 \in 1 .. Len(c) /\ m \in 1 .. Len(c) /\ m < Len(c) /\ m - 1 < Len(c)
        /\ (m - 1) + 1 = m
    BY <1>3, <1>4, <1>6, <2>1
  <2>7. d[m - 1] = c[m] /\ d[(m - 1) + 1] = c[m + 1]
    BY <2>2, <2>6 DEF Rotated
  <2>8. At(d, m - 1)
    BY <1>3, <2>1, <2>4, <2>5, <2>6, <2>7
  <2>9. m - 1 \in T
    BY <1>4, <1>6, <2>8
  <2> QED
    BY <1>2, <1>4, <2>9
<1> QED
  BY <1>5, <1>6

\* The ring r is one that goes from p to q first.
StartsAlong(r, p, q) == \E c : SameRing(c, r) /\ c[1] = p /\ c[2] = q

\* And along any of its segments, in either direction.
LEMMA RingFromSegment ==
    ASSUME UNION segments \subseteq Point, NEW r, IsRing(r), NEW k \in 1 .. Len(r) - 1,
           NEW p, NEW q, (p = r[k] /\ q = r[k + 1]) \/ (p = r[k + 1] /\ q = r[k])
    PROVE  StartsAlong(r, p, q)
<1>1. CASE p = r[k] /\ q = r[k + 1]
  BY <1>1, RingFromPoint DEF StartsAlong
<1>2. CASE p = r[k + 1] /\ q = r[k]
  <2>0. Len(r) \in Nat /\ Len(r) >= 4
    BY RingType
  <2>1. PICK f : f = Flipped(r)
    OBVIOUS
  <2>2. SameRing(f, r)
    BY <2>1, FlippedRing
  <2>3. IsRing(f) /\ Len(f) = Len(r)
    <3>1. f = [i \in 1 .. Len(r) |-> r[Len(r) + 1 - i]]
      BY <2>1 DEF Flipped
    <3>2. IsRing(f) /\ Len(f) \in Nat
      BY <2>2, RingType DEF SameRing
    <3>3. DOMAIN f = 1 .. Len(r)
      BY <3>1
    <3>4. DOMAIN f = 1 .. Len(f)
      BY <3>2 DEF IsRing
    <3> QED
      BY <2>0, <3>2, <3>3, <3>4
  <2>4. /\ Len(r) - k \in 1 .. Len(r) - 1
        /\ Len(r) - k \in 1 .. Len(r) /\ (Len(r) - k) + 1 \in 1 .. Len(r)
        /\ Len(r) + 1 - (Len(r) - k) = k + 1
        /\ Len(r) + 1 - ((Len(r) - k) + 1) = k
    BY <2>0
  <2>5. f[Len(r) - k] = p /\ f[(Len(r) - k) + 1] = q
    BY <1>2, <2>1, <2>4 DEF Flipped
  <2>6. PICK c : SameRing(c, f) /\ c[1] = f[Len(r) - k] /\ c[2] = f[(Len(r) - k) + 1]
    BY <2>3, <2>4, RingFromPoint
  <2> QED
    BY <2>2, <2>5, <2>6, SameRingTransitive DEF StartsAlong
<1> QED
  BY <1>1, <1>2

\* The segments of a ring differ.
LEMMA RingSegmentsDiffer ==
    ASSUME UNION segments \subseteq Point, NEW r, IsRing(r),
           NEW i \in 1 .. Len(r) - 1, NEW j \in 1 .. Len(r) - 1,
           {r[i], r[i + 1]} = {r[j], r[j + 1]}
    PROVE  i = j
<1> DEFINE n == Len(r) - 1
<1>1. n \in Nat /\ n >= 3 /\ r[n + 1] = r[1]
  BY RingType DEF IsRing
<1>2. \A a, b \in 1 .. n : r[a] = r[b] => a = b
  BY DEF IsRing
<1>3. SUFFICES ASSUME r[i] = r[j + 1], r[i + 1] = r[j] PROVE FALSE
  BY <1>2
<1>4. 1 \in 1 .. n
  BY <1>1
<1>5. CASE j = n
  <2>1. r[i] = r[1]
    BY <1>1, <1>3, <1>5
  <2>2. i = 1
    BY <1>2, <1>4, <2>1
  <2>3. 2 \in 1 .. n /\ r[2] = r[n] /\ n \in 1 .. n
    BY <1>1, <1>3, <1>5, <2>2
  <2> QED
    BY <1>1, <1>2, <2>3
<1>6. CASE j # n
  <2>1. j + 1 \in 1 .. n
    BY <1>1, <1>6
  <2>2. i = j + 1
    BY <1>2, <1>3, <2>1
  <2>3. CASE i = n
    <3>1. r[1] = r[j]
      BY <1>1, <1>3, <2>3
    <3> QED
      BY <1>1, <1>2, <1>4, <2>2, <2>3, <3>1
  <2>4. CASE i # n
    <3>1. i + 1 \in 1 .. n
      BY <1>1, <2>4
    <3> QED
      BY <1>1, <1>2, <1>3, <2>2, <3>1
  <2> QED
    BY <2>3, <2>4
<1> QED
  BY <1>5, <1>6

\* Two segments of r meet in x.
MeetsIn(r, x) ==
    \E i, j \in 1 .. Len(r) - 1 :
      {r[i], r[i + 1]} # {r[j], r[j + 1]} /\ x \in {r[i], r[i + 1]} /\ x \in {r[j], r[j + 1]}

\* They do in each of the points of a ring.
LEMMA RingMeets ==
    ASSUME UNION segments \subseteq Point, NEW r, IsRing(r), NEW k \in 1 .. Len(r) - 1,
           NEW x, x = r[k] \/ x = r[k + 1]
    PROVE  MeetsIn(r, x)
<1> DEFINE n == Len(r) - 1
<1>1. n \in Nat /\ n >= 3 /\ r[n + 1] = r[1]
  BY RingType DEF IsRing
<1>2. ASSUME NEW i \in 1 .. n, NEW j \in 1 .. n, i # j
      PROVE  {r[i], r[i + 1]} # {r[j], r[j + 1]}
  BY <1>2, RingSegmentsDiffer
<1>3. CASE x = r[k]
  <2>1. CASE k = 1
    <3>1. 1 \in 1 .. n /\ n \in 1 .. n /\ 1 # n
      BY <1>1
    <3> QED
      BY <1>1, <1>2, <1>3, <2>1, <3>1 DEF MeetsIn
  <2>2. CASE k # 1
    <3>1. k - 1 \in 1 .. n /\ k \in 1 .. n /\ k - 1 # k /\ (k - 1) + 1 = k
      BY <1>1, <2>2
    <3> QED
      BY <1>2, <1>3, <3>1 DEF MeetsIn
  <2> QED
    BY <2>1, <2>2
<1>4. CASE x = r[k + 1]
  <2>1. CASE k = n
    <3>1. 1 \in 1 .. n /\ n \in 1 .. n /\ 1 # n
      BY <1>1
    <3> QED
      BY <1>1, <1>2, <1>4, <2>1, <3>1 DEF MeetsIn
  <2>2. CASE k # n
    <3>1. k + 1 \in 1 .. n /\ k \in 1 .. n /\ k + 1 # k
      BY <1>1, <2>2
    <3> QED
      BY <1>2, <1>4, <3>1 DEF MeetsIn
  <2> QED
    BY <2>1, <2>2
<1> QED
  BY <1>3, <1>4

\* A contour without branches has no three segments in a point.
LEMMA TwoSegmentsAtMost ==
    ASSUME Manifold, IsFiniteSet(segments), NEW x,
           NEW s \in segments, NEW t \in segments, NEW u \in segments,
           x \in s, x \in t, x \in u
    PROVE  s = t \/ s = u \/ t = u
<1> DEFINE S == {v \in segments : x \in v}
<1>1. x \in UNION segments
  OBVIOUS
<1>2. Cardinality(S) <= 2
  BY <1>1 DEF Manifold, Degree
<1>3. IsFiniteSet(S) /\ {s, t, u} \subseteq S
  BY FS_Subset
<1> HIDE DEF S
<1>4. SUFFICES ASSUME s # t, s # u, t # u PROVE FALSE
  OBVIOUS
<1>5. Cardinality({s, t, u}) = 3
  BY <1>4, ThreeElements
<1>6. Cardinality({s, t, u}) <= Cardinality(S) /\ Cardinality(S) \in Nat
  BY <1>3, FS_Subset, FS_CardinalityType
<1> QED
  BY <1>2, <1>5, <1>6

----------------------------------------------------------------------------
(* The surface and its contours.                                           *)

LEMMA FiniteImage ==
    ASSUME NEW S, IsFiniteSet(S), NEW f
    PROVE  IsFiniteSet({f[x] : x \in S})
<1> DEFINE g == [x \in S |-> f[x]]
           T == {f[x] : x \in S}
<1>1. g \in Surjection(S, T)
  BY DEF Surjection
<1> QED
  BY <1>1, FS_Surjection

LEMMA PairOf ==
    ASSUME NEW S, IsFiniteSet(S), Cardinality(S) = 2
    PROVE  \E p, q \in S : p # q /\ S = {p, q}
<1>1. S # {}
  BY FS_EmptySet
<1>2. PICK p \in S : TRUE
  BY <1>1
<1>3. IsFiniteSet(S \ {p}) /\ Cardinality(S \ {p}) = 1
  BY FS_RemoveElement
<1>4. PICK q : S \ {p} = {q}
  BY <1>3, FS_Singleton
<1> QED
  BY <1>2, <1>4

\* Every face has three corners.
IsFace(f, P) ==
    \E a, b, c \in P : a # b /\ a # c /\ b # c /\ f = {a, b, c}

LEMMA DelaunayFaces ==
    ASSUME NEW P \in SUBSET Point, IsFiniteSet(P)
    PROVE  IsFiniteSet(Delaunay(P)) /\ \A f \in Delaunay(P) : IsFace(f, P)
<1>1. ASSUME NEW f \in Delaunay(P) PROVE IsFace(f, P)
  <2>1. PICK u \in P \X P \X P : Turn(u[1], u[2], u[3]) > 0 /\ f = {u[1], u[2], u[3]}
    BY DEF Delaunay
  <2>2. PICK a \in P, b \in P, c \in P : u[1] = a /\ u[2] = b /\ u[3] = c
    BY <2>1
  <2>3. /\ a[1] \in Int /\ a[2] \in Int /\ b[1] \in Int /\ b[2] \in Int
        /\ c[1] \in Int /\ c[2] \in Int
    BY DEF Point
  <2>4. (b[1] - a[1]) * (c[2] - a[2]) - (c[1] - a[1]) * (b[2] - a[2]) > 0
    BY <2>1, <2>2 DEF Turn
  <2>5. \A x, y, z \in Int : (x - x) * y - z * 0 = 0
    OBVIOUS
  <2>6. \A x \in Int : x - x = 0
    OBVIOUS
  <2>7. \A x, y \in Int : 0 * x - y * 0 = 0 /\ x * y - x * y = 0 /\ x * y = y * x
    OBVIOUS
  <2>8. a # b
    <3>1. SUFFICES ASSUME a = b PROVE FALSE
      OBVIOUS
    <3>2. 0 * (c[2] - a[2]) - (c[1] - a[1]) * 0 > 0
      BY <2>3, <2>4, <2>6, <3>1
    <3> QED
      BY <2>3, <2>7, <3>2
  <2>9. a # c
    <3>1. SUFFICES ASSUME a = c PROVE FALSE
      OBVIOUS
    <3>2. (b[1] - a[1]) * 0 - 0 * (b[2] - a[2]) > 0
      BY <2>3, <2>4, <2>6, <3>1
    <3> QED
      BY <2>3, <2>7, <3>2
  <2>10. b # c
    <3>1. SUFFICES ASSUME b = c PROVE FALSE
      OBVIOUS
    <3>2. (b[1] - a[1]) * (b[2] - a[2]) - (b[1] - a[1]) * (b[2] - a[2]) > 0
      BY <2>4, <3>1
    <3>3. b[1] - a[1] \in Int /\ b[2] - a[2] \in Int
      BY <2>3
    <3> QED
      BY <2>7, <3>2, <3>3
  <2> QED
    BY <2>1, <2>2, <2>8, <2>9, <2>10 DEF IsFace
<1>2. Delaunay(P) \in SUBSET (SUBSET P)
  BY <1>1 DEF IsFace
<1>3. IsFiniteSet(SUBSET P)
  BY FS_SUBSET
<1> QED
  BY <1>1, <1>2, <1>3, FS_Subset

LEMMA InterpolatedPoint ==
    ASSUME NEW p \in Point, NEW q \in Point, NEW l \in Int,
           times[p] \in Int, times[q] \in Int, ~(times[q] <= l), times[p] <= l
    PROVE  interpolate_contour_point(p, q, l) \in Point
<1>1. times[q] - times[p] \in Int /\ times[q] - times[p] > 0
  OBVIOUS
<1>2. \A a, b \in Int : b > 0 => a \div b \in Int
  OBVIOUS
<1>3. \A a, b, c, d \in Int : (b - a) * (c - d) \in Int
  OBVIOUS
<1>4. p[1] \in Int /\ p[2] \in Int /\ q[1] \in Int /\ q[2] \in Int
  BY DEF Point
<1>5. PICK d : d = times[q] - times[p]
  OBVIOUS
<1>6. PICK x \in Int : x = (q[1] - p[1]) * (l - times[p])
  BY <1>3, <1>4
<1>7. PICK y \in Int : y = (q[2] - p[2]) * (l - times[p])
  BY <1>3, <1>4
<1>8. interpolate_contour_point(p, q, l) = <<p[1] + x \div d, p[2] + y \div d>>
  BY <1>5, <1>6, <1>7 DEF interpolate_contour_point
<1>9. x \div d \in Int /\ y \div d \in Int
  BY <1>1, <1>2, <1>5
<1> QED
  BY <1>4, <1>8, <1>9 DEF Point

\* A segment joins two points.
IsSegment(s) == \E p, q \in Point : p # q /\ s = {p, q}

LEMMA ContourSegments ==
    ASSUME NEW l \in Int \cup {NaN}, DOMAIN times \subseteq Point,
           \A p \in DOMAIN times : times[p] \in Int,
           IsFiniteSet(faces), \A f \in faces : IsFace(f, DOMAIN times)
    PROVE  /\ IsFiniteSet(contour_segments(l))
           /\ \A s \in contour_segments(l) : IsSegment(s)
<1> DEFINE Ends(f) == {e \in f \X f : Crosses(e[1], e[2], l)}
           Crossings(f) == {interpolate_contour_point(e[1], e[2], l) : e \in Ends(f)}
<1>1. \A s \in contour_segments(l) : Cardinality(s) = 2 /\ \E f \in faces : s = Crossings(f)
  BY DEF contour_segments
<1>2. ASSUME NEW s \in contour_segments(l) PROVE IsSegment(s)
  <2>1. PICK f \in faces : s = Crossings(f)
    BY <1>1
  <2>2. PICK a \in DOMAIN times, b \in DOMAIN times, c \in DOMAIN times : f = {a, b, c}
    BY DEF IsFace
  <2>3. IsFiniteSet(f)
    <3>1. IsFiniteSet({a})
      BY FS_Singleton
    <3>2. IsFiniteSet({a} \cup {b})
      BY <3>1, FS_AddElement
    <3>3. IsFiniteSet(({a} \cup {b}) \cup {c})
      BY <3>2, FS_AddElement
    <3>4. ({a} \cup {b}) \cup {c} = f
      BY <2>2
    <3> QED
      BY <3>3, <3>4
  <2>4. IsFiniteSet(Ends(f))
    <3>1. IsFiniteSet(f \X f)
      BY <2>3, FS_Product
    <3> QED
      BY <3>1, FS_Subset
  <2>5. ASSUME NEW e \in Ends(f) PROVE interpolate_contour_point(e[1], e[2], l) \in Point
    <3>1. e[1] \in f /\ e[2] \in f /\ Crosses(e[1], e[2], l)
      OBVIOUS
    <3>2. e[1] \in DOMAIN times /\ e[2] \in DOMAIN times
      BY <2>2, <3>1
    <3>3. l # NaN /\ times[e[1]] <= l /\ ~(times[e[2]] <= l)
      BY <3>1 DEF Crosses, AtMost
    <3>4. l \in Int
      BY <3>3
    <3>5. PICK p, q : p = e[1] /\ q = e[2]
      OBVIOUS
    <3>6. p \in Point /\ q \in Point /\ times[p] \in Int /\ times[q] \in Int
      BY <3>2, <3>5
    <3>7. ~(times[q] <= l) /\ times[p] <= l
      BY <3>3, <3>5
    <3> HIDE <3>1, <3>2, <3>3
    <3>8. interpolate_contour_point(p, q, l) \in Point
      BY <3>4, <3>6, <3>7, InterpolatedPoint
    <3> QED
      BY <3>5, <3>8
  <2>6. IsFiniteSet(s) /\ s \subseteq Point
    <3> DEFINE g == [e \in Ends(f) |-> interpolate_contour_point(e[1], e[2], l)]
    <3>1. IsFiniteSet({g[e] : e \in Ends(f)})
      <4> HIDE DEF g, Ends
      <4> QED
        BY <2>4, FiniteImage
    <3>2. {g[e] : e \in Ends(f)} = Crossings(f)
      OBVIOUS
    <3> QED
      BY <2>1, <2>5, <3>1, <3>2
  <2>7. PICK p, q \in s : p # q /\ s = {p, q}
    BY <1>1, <2>6, PairOf
  <2> QED
    BY <2>6, <2>7 DEF IsSegment
<1>3. IsFiniteSet(contour_segments(l))
  <2> DEFINE g == [f \in faces |-> Crossings(f)]
  <2>1. IsFiniteSet({g[f] : f \in faces})
    BY FiniteImage
  <2>2. contour_segments(l) \in SUBSET {g[f] : f \in faces}
    BY <1>1
  <2> QED
    BY <2>1, <2>2, FS_Subset
<1> QED
  BY <1>2, <1>3

----------------------------------------------------------------------------
(* Types.                                                                  *)

Polygon == [kind : {"empty", "hull", "ring"}, points : (SUBSET Point) \cup Seq(Point)]

SurfaceType ==
    /\ travel \in [Node -> Nat] /\ request \in Requests
    /\ labels \in [DOMAIN labels -> Nat] /\ DOMAIN labels \subseteq Node
    /\ times \in [DOMAIN times -> Nat] /\ DOMAIN times \subseteq AllPoints
    /\ IsFiniteSet(faces) /\ \A f \in faces : IsFace(f, DOMAIN times)
    /\ pc \in {"search", "surface"} => DOMAIN times = {} /\ faces = {}

ContourType ==
    /\ IsFiniteSet(segments) /\ \A s \in segments : IsSegment(s)
    /\ unused \subseteq segments
    /\ ring \in Seq(Point) /\ (pc = "trace" => Len(ring) >= 2)
    /\ \A i \in 1 .. Len(ring) - 1 : {ring[i], ring[i + 1]} \in segments \ unused
    /\ best \in Seq(Point)
    /\ best # << >> => Len(best) >= 4 /\ best[1] = best[Len(best)]

ResultType ==
    /\ polygons \in Seq(Polygon) /\ Len(polygons) <= Len(request.limits)
    /\ pc \in {"ring", "trace"} => Len(polygons) < Len(request.limits)
    /\ pc \in {"search", "surface", "limit", "ring", "trace", "done"}

Types == SurfaceType /\ ContourType /\ ResultType

LEMMA PointsType ==
    ASSUME SurfaceType
    PROVE  AllPoints \in SUBSET Point /\ IsFiniteSet(AllPoints)
<1>1. DOMAIN labels \subseteq Node
  BY DEF SurfaceType
<1>2. AllPoints \in SUBSET Point
  BY <1>1, NodeAssumption DEF AllPoints, Point
<1>3. IsFiniteSet(DOMAIN labels)
  BY <1>1, NodeAssumption, FS_Subset
<1>4. IsFiniteSet(AllPoints)
  BY <1>3, FiniteImage DEF AllPoints
<1> QED
  BY <1>2, <1>4

LEMMA HullType ==
    ASSUME NEW P \in SUBSET Point, NEW n
    PROVE  convex_hull(P, n) \in Polygon /\ empty_polygon \in Polygon
<1>1. empty_polygon \in Polygon
  BY DEF empty_polygon, Polygon
<1>2. [kind |-> "hull", points |-> P] \in Polygon
  BY DEF Polygon
<1> QED
  BY <1>1, <1>2 DEF convex_hull

LEMMA LimitsType ==
    ASSUME request \in Requests
    PROVE  /\ Len(request.limits) \in Nat /\ DOMAIN request.limits = 1 .. Len(request.limits)
           /\ \A i \in 1 .. Len(request.limits) : request.limits[i] \in Int \cup {NaN}
BY RequestAssumption

\* The time kept for a cell is that of one of its nodes.
LEMMA KeptType ==
    ASSUME SurfaceType, NEW p \in AllPoints
    PROVE  Kept(p) \in Nat
<1> DEFINE T == {labels[n] : n \in {m \in DOMAIN labels : Position[m] = p}}
<1>1. T \in SUBSET Nat /\ T # {}
  BY DEF SurfaceType, AllPoints
<1>2. PICK t \in T : \A u \in T : t <= u
  <2> HIDE DEF T
  <2> QED
    BY <1>1, LeastElement
<1>3. t \in {labels[n] : n \in DOMAIN labels}
  OBVIOUS
<1>4. \E n \in DOMAIN labels : Position[n] = p /\ labels[n] = t
  OBVIOUS
<1>5. \A n \in DOMAIN labels : Position[n] = p => t <= labels[n]
  BY <1>2
<1>6. Kept(p) \in {labels[n] : n \in DOMAIN labels}
  BY <1>3, <1>4, <1>5 DEF Kept
<1> QED
  BY <1>6 DEF SurfaceType

LEMMA InitTypes == Init => Types
<1> SUFFICES ASSUME Init PROVE Types
  OBVIOUS
<1>1. travel \in [Node -> Nat]
  BY NodeAssumption DEF Init
<1>2. DOMAIN << >> = {} /\ << >> \in [DOMAIN << >> -> Nat]
  OBVIOUS
<1>3. SurfaceType
  BY <1>1, <1>2, FS_EmptySet DEF Init, SurfaceType
<1>4. ContourType
  BY FS_EmptySet DEF Init, ContourType
<1>5. Len(request.limits) \in Nat
  BY LimitsType DEF Init
<1>6. ResultType
  BY <1>5 DEF Init, ResultType
<1> QED
  BY <1>3, <1>4, <1>6 DEF Types

LEMMA SearchTypes ==
    ASSUME Types, Search
    PROVE  Types'
<1>1. labels' \in [DOMAIN labels' -> Nat] /\ DOMAIN labels' \subseteq Node
  BY DEF Types, SurfaceType, Search
<1>2. SurfaceType'
  BY <1>1 DEF Types, SurfaceType, Search, input
<1>3. ContourType'
  BY DEF Types, ContourType, Search, contour
<1>4. /\ Len(request.limits) \in Nat /\ DOMAIN request.limits = 1 .. Len(request.limits)
      /\ request' = request
  BY LimitsType DEF Types, SurfaceType, Search, input
<1>5. CASE labels' = << >>
  <2>1. polygons' = [i \in 1 .. Len(request.limits) |-> empty_polygon] /\ pc' = "done"
    BY <1>4, <1>5 DEF Search
  <2>2. empty_polygon \in Polygon
    BY HullType
  <2>3. polygons' \in Seq(Polygon) /\ Len(polygons') = Len(request.limits)
    BY <1>4, <2>1, <2>2
  <2>4. ResultType'
    BY <1>4, <2>1, <2>3 DEF ResultType
  <2> QED
    BY <1>2, <1>3, <2>4 DEF Types
<1>6. CASE labels' # << >>
  <2>1. pc' = "surface" /\ polygons' = polygons
    BY <1>6 DEF Search
  <2>2. ResultType'
    BY <1>4, <2>1 DEF Types, ResultType
  <2> QED
    BY <1>2, <1>3, <2>2 DEF Types
<1> QED
  BY <1>5, <1>6

LEMMA TriangulateTypes ==
    ASSUME Types, Triangulate
    PROVE  Types'
<1>1. /\ travel' = travel /\ request' = request /\ labels' = labels
      /\ segments' = segments /\ unused' = unused /\ ring' = ring /\ best' = best
      /\ pc = "surface" /\ pc' \in {"done", "limit"}
  BY DEF Triangulate, input, contour
<1>2. AllPoints' = AllPoints
  BY <1>1 DEF AllPoints
<1>3. ContourType'
  BY <1>1 DEF Types, ContourType
<1>4. /\ Len(request.limits) \in Nat /\ DOMAIN request.limits = 1 .. Len(request.limits)
  BY LimitsType DEF Types, SurfaceType
<1>5. AllPoints \in SUBSET Point /\ IsFiniteSet(AllPoints)
  BY PointsType DEF Types
<1>6. CASE Cardinality(AllPoints) < 3
  <2>1. /\ polygons' = [i \in 1 .. Len(request.limits) |-> HullOfAll] /\ pc' = "done"
        /\ times' = times /\ faces' = faces
    BY <1>4, <1>6 DEF Triangulate
  <2>2. HullOfAll \in Polygon
    BY <1>5, HullType DEF HullOfAll
  <2>3. polygons' \in Seq(Polygon) /\ Len(polygons') = Len(request.limits)
    BY <1>4, <2>1, <2>2
  <2>4. ResultType'
    BY <1>1, <1>4, <2>1, <2>3 DEF ResultType
  <2>5. SurfaceType'
    BY <1>1, <1>2, <2>1 DEF Types, SurfaceType
  <2> QED
    BY <1>3, <2>4, <2>5 DEF Types
<1>7. CASE ~(Cardinality(AllPoints) < 3)
  <2>1. /\ times' = [p \in AllPoints |-> Kept(p)] /\ faces' = Delaunay(AllPoints)
        /\ pc' = "limit" /\ polygons' = polygons
    BY <1>7 DEF Triangulate
  <2>2. \A p \in AllPoints : Kept(p) \in Nat
    BY KeptType DEF Types
  <2>3. times' \in [DOMAIN times' -> Nat] /\ DOMAIN times' = AllPoints
    BY <2>1, <2>2
  <2>4. IsFiniteSet(faces') /\ \A f \in faces' : IsFace(f, DOMAIN times')
    BY <1>5, <2>1, <2>3, DelaunayFaces
  <2>5. SurfaceType'
    BY <1>1, <1>2, <2>1, <2>3, <2>4 DEF Types, SurfaceType
  <2>6. ResultType'
    BY <1>1, <2>1 DEF Types, ResultType
  <2> QED
    BY <1>3, <2>5, <2>6 DEF Types
<1> QED
  BY <1>6, <1>7

LEMMA CutTypes ==
    ASSUME Types, Cut
    PROVE  Types'
<1>1. /\ travel' = travel /\ request' = request
      /\ labels' = labels /\ times' = times /\ faces' = faces /\ pc = "limit"
      /\ pc' \in {"limit", "ring"}
  BY DEF Cut, input, surface
<1>2. AllPoints' = AllPoints
  BY <1>1 DEF AllPoints
<1>3. SurfaceType'
  BY <1>1, <1>2 DEF Types, SurfaceType
<1>4. /\ Len(request.limits) \in Nat /\ polygons \in Seq(Polygon) /\ Len(polygons) \in Nat
      /\ Len(polygons) < Len(request.limits)
  BY LimitsType DEF Types, SurfaceType, ResultType, Cut
<1>5. Limit \in Int \cup {NaN}
  <2>1. Len(polygons) + 1 \in 1 .. Len(request.limits)
    BY <1>4
  <2> QED
    BY <2>1, LimitsType DEF Types, SurfaceType, Limit
<1>6. AllPoints \in SUBSET Point
  BY PointsType DEF Types
<1>7. ASSUME NEW g \in Polygon, polygons' = Append(polygons, g), UNCHANGED <<contour, pc>>
      PROVE  Types'
  <2>1. polygons' \in Seq(Polygon) /\ Len(polygons') = Len(polygons) + 1
    BY <1>4, <1>7
  <2>2. ResultType'
    BY <1>1, <1>4, <1>7, <2>1 DEF ResultType
  <2>3. ContourType'
    BY <1>7 DEF Types, ContourType, contour
  <2> QED
    BY <1>3, <2>2, <2>3 DEF Types
<1>8. HullOfAll \in Polygon /\ empty_polygon \in Polygon
  BY <1>6, HullType DEF HullOfAll
<1>9. ASSUME segments' = contour_segments(Limit), unused' = segments', ring' = << >>,
             best' = << >>, pc' = "ring", polygons' = polygons
      PROVE  Types'
  <2>1. IsFiniteSet(contour_segments(Limit)) /\ \A s \in contour_segments(Limit) : IsSegment(s)
    <3>1. /\ DOMAIN times \subseteq Point /\ \A p \in DOMAIN times : times[p] \in Int
          /\ IsFiniteSet(faces) /\ \A f \in faces : IsFace(f, DOMAIN times)
      BY <1>6 DEF Types, SurfaceType
    <3>2. PICK l \in Int \cup {NaN} : l = Limit
      BY <1>5
    <3>3. IsFiniteSet(contour_segments(l)) /\ \A s \in contour_segments(l) : IsSegment(s)
      BY <3>1, ContourSegments
    <3> QED
      BY <3>2, <3>3
  <2>2. ContourType'
    BY <1>9, <2>1 DEF ContourType
  <2>3. ResultType'
    BY <1>1, <1>4, <1>9 DEF Types, ResultType
  <2> QED
    BY <1>3, <2>2, <2>3 DEF Types
<1> QED
  BY <1>7, <1>8, <1>9 DEF Cut

\* The segment of a trace that starts is the one it takes.
LEMMA StartRingTakes ==
    ASSUME Types, StartRing
    PROVE  \E p, q \in Point :
             /\ p # q /\ {p, q} \in unused /\ ring' = <<p, q>> /\ unused' = unused \ {{p, q}}
<1>1. PICK s \in unused : \E p, q \in s :
         /\ p # q /\ Before(p, q) /\ ring' = <<p, q>> /\ unused' = Unused(p, q)
  BY DEF StartRing
<1>2. PICK p \in s, q \in s : p # q /\ ring' = <<p, q>> /\ unused' = Unused(p, q)
  BY <1>1
<1>3. IsSegment(s)
  BY <1>1 DEF Types, ContourType
<1>4. PICK a \in Point, b \in Point : a # b /\ s = {a, b}
  BY <1>3 DEF IsSegment
<1>5. p \in Point /\ q \in Point /\ s = {p, q}
  BY <1>2, <1>4
<1> QED
  BY <1>1, <1>2, <1>5 DEF Unused

LEMMA StartRingTypes ==
    ASSUME Types, StartRing
    PROVE  Types'
<1>1. PICK p \in Point, q \in Point :
         /\ p # q /\ {p, q} \in unused /\ ring' = <<p, q>> /\ unused' = unused \ {{p, q}}
  BY StartRingTakes
<1>2. /\ travel' = travel /\ request' = request
      /\ labels' = labels /\ times' = times /\ faces' = faces
      /\ segments' = segments /\ best' = best /\ polygons' = polygons
      /\ pc = "ring" /\ pc' = "trace"
  BY DEF StartRing, input, surface
<1>3. AllPoints' = AllPoints
  BY <1>2 DEF AllPoints
<1>4. SurfaceType'
  BY <1>2, <1>3 DEF Types, SurfaceType
<1>5. ring' \in Seq(Point) /\ Len(ring') = 2 /\ ring'[1] = p /\ ring'[2] = q
  BY <1>1
<1>6. ASSUME NEW i \in 1 .. Len(ring') - 1
      PROVE  {ring'[i], ring'[i + 1]} \in segments' \ unused'
  <2>1. i = 1 /\ ring'[i] = p /\ ring'[i + 1] = q
    BY <1>5
  <2>2. {p, q} \in segments
    BY <1>1 DEF Types, ContourType
  <2> QED
    BY <1>1, <1>2, <2>1, <2>2
<1>7. ContourType'
  BY <1>1, <1>2, <1>5, <1>6 DEF Types, ContourType
<1>8. ResultType'
  BY <1>2 DEF Types, ResultType
<1> QED
  BY <1>4, <1>7, <1>8 DEF Types

\* A trace goes on along an unused segment, and not back.
LEMMA ExtendTakes ==
    ASSUME Types, Extend
    PROVE  /\ Len(ring) \in Nat /\ Len(ring) >= 2 /\ ring \in Seq(Point)
           /\ \E p \in Point :
                /\ {ring[Len(ring)], p} \in unused /\ p # ring[Len(ring) - 1]
                /\ ring' = Append(ring, p)
                /\ unused' = unused \ {{ring[Len(ring)], p}}
<1>1. ring \in Seq(Point) /\ Len(ring) >= 2 /\ Len(ring) \in Nat
  BY DEF Types, ContourType, Extend
<1>2. PICK p \in Candidates : ring' = Append(ring, p) /\ unused' = Unused(p, current)
  BY DEF Extend
<1>3. {p, current} \in unused /\ p # ring[Len(ring) - 1]
  BY DEF Candidates
<1>4. {p, current} = {ring[Len(ring)], p}
  BY DEF current
<1>5. IsSegment({p, current})
  BY <1>3 DEF Types, ContourType
<1>6. p \in Point
  BY <1>5 DEF IsSegment
<1>7. Unused(p, current) = unused \ {{p, current}}
  BY DEF Unused
<1> QED
  BY <1>1, <1>2, <1>3, <1>4, <1>6, <1>7

LEMMA ExtendTypes ==
    ASSUME Types, Extend
    PROVE  Types'
<1> DEFINE L == Len(ring)
<1>1. L \in Nat /\ L >= 2 /\ ring \in Seq(Point)
  BY ExtendTakes
<1>2. PICK p \in Point :
         /\ {ring[L], p} \in unused /\ p # ring[L - 1]
         /\ ring' = Append(ring, p) /\ unused' = unused \ {{ring[L], p}}
  BY ExtendTakes
<1>3. /\ travel' = travel /\ request' = request
      /\ labels' = labels /\ times' = times /\ faces' = faces
      /\ segments' = segments /\ best' = best /\ polygons' = polygons
      /\ pc = "trace" /\ pc' = "trace"
  BY DEF Extend, input, surface
<1>4. AllPoints' = AllPoints
  BY <1>3 DEF AllPoints
<1>5. SurfaceType'
  BY <1>3, <1>4 DEF Types, SurfaceType
<1>6. /\ ring' \in Seq(Point) /\ Len(ring') = L + 1 /\ ring'[L + 1] = p
      /\ \A i \in 1 .. L : ring'[i] = ring[i]
  BY <1>1, <1>2
<1>7. ASSUME NEW i \in 1 .. Len(ring') - 1
      PROVE  {ring'[i], ring'[i + 1]} \in segments' \ unused'
  <2>1. CASE i = L
    <3>1. {ring'[i], ring'[i + 1]} = {ring[L], p}
      BY <1>1, <1>6, <2>1
    <3>2. {ring[L], p} \in segments
      BY <1>2 DEF Types, ContourType
    <3> QED
      BY <1>2, <1>3, <3>1, <3>2
  <2>2. CASE i # L
    <3>1. i \in 1 .. L - 1 /\ i \in 1 .. L /\ i + 1 \in 1 .. L
      BY <1>1, <1>6, <2>2
    <3>2. {ring[i], ring[i + 1]} \in segments \ unused
      BY <3>1 DEF Types, ContourType
    <3> QED
      BY <1>2, <1>3, <1>6, <3>1, <3>2
  <2> QED
    BY <2>1, <2>2
<1>8. ContourType'
  <2>1. unused' \subseteq segments'
    BY <1>2, <1>3 DEF Types, ContourType
  <2>2. Len(ring') >= 2
    BY <1>1, <1>6
  <2> QED
    BY <1>3, <1>6, <1>7, <2>1, <2>2 DEF Types, ContourType
<1>9. ResultType'
  BY <1>3 DEF Types, ResultType
<1> QED
  BY <1>5, <1>8, <1>9 DEF Types

LEMMA EndRingTypes ==
    ASSUME Types, EndRing
    PROVE  Types'
<1>1. /\ travel' = travel /\ request' = request
      /\ labels' = labels /\ times' = times /\ faces' = faces
      /\ segments' = segments /\ unused' = unused /\ ring' = ring /\ polygons' = polygons
      /\ pc = "trace" /\ pc' = "ring"
  BY DEF EndRing, input, surface
<1>2. AllPoints' = AllPoints
  BY <1>1 DEF AllPoints
<1>3. SurfaceType'
  BY <1>1, <1>2 DEF Types, SurfaceType
<1>4. best' = best \/ (best' = ring /\ Len(ring) >= 4 /\ ring[1] = ring[Len(ring)])
  BY DEF EndRing, Closed, current
<1>5. ContourType'
  BY <1>1, <1>4 DEF Types, ContourType
<1>6. ResultType'
  BY <1>1 DEF Types, ResultType
<1> QED
  BY <1>3, <1>5, <1>6 DEF Types

LEMMA ChooseTypes ==
    ASSUME Types, Choose
    PROVE  Types'
<1>1. /\ travel' = travel /\ request' = request
      /\ labels' = labels /\ times' = times /\ faces' = faces
      /\ segments' = segments /\ unused' = unused /\ ring' = ring /\ best' = best
      /\ pc = "ring" /\ pc' = "limit"
  BY DEF Choose, input, surface, contour
<1>2. AllPoints' = AllPoints
  BY <1>1 DEF AllPoints
<1>3. SurfaceType'
  BY <1>1, <1>2 DEF Types, SurfaceType
<1>4. ContourType'
  BY <1>1 DEF Types, ContourType
<1>5. UNION segments \in SUBSET Point
  BY DEF Types, ContourType, IsSegment
<1>6. PICK g : /\ polygons' = Append(polygons, g)
               /\ g = IF best # << >> THEN [kind |-> "ring", points |-> best]
                      ELSE convex_hull(UNION segments, 2 * Cardinality(segments))
  BY DEF Choose
<1>7. g \in Polygon
  <2>1. best \in Seq(Point)
    BY DEF Types, ContourType
  <2>2. [kind |-> "ring", points |-> best] \in Polygon
    BY <2>1 DEF Polygon
  <2>3. convex_hull(UNION segments, 2 * Cardinality(segments)) \in Polygon
    BY <1>5, HullType
  <2> QED
    BY <1>6, <2>2, <2>3
<1>8. /\ Len(request.limits) \in Nat /\ polygons \in Seq(Polygon) /\ Len(polygons) \in Nat
      /\ Len(polygons) < Len(request.limits)
  BY <1>1, LimitsType DEF Types, SurfaceType, ResultType
<1>9. polygons' \in Seq(Polygon) /\ Len(polygons') = Len(polygons) + 1
  BY <1>6, <1>7, <1>8
<1>10. ResultType'
  BY <1>1, <1>8, <1>9 DEF ResultType
<1> QED
  BY <1>3, <1>4, <1>10 DEF Types

LEMMA NextTypes ==
    ASSUME Types, [Next]_vars
    PROVE  Types'
<1>1. CASE Return
  <2>1. /\ travel' = travel /\ request' = request /\ polygons' = polygons
        /\ labels' = labels /\ times' = times /\ faces' = faces
        /\ segments' = segments /\ unused' = unused /\ ring' = ring /\ best' = best
        /\ pc' = "done"
    BY <1>1 DEF Return, input, surface, contour
  <2>2. AllPoints' = AllPoints
    BY <2>1 DEF AllPoints
  <2>3. SurfaceType'
    BY <2>1, <2>2 DEF Types, SurfaceType
  <2>4. ContourType'
    BY <2>1 DEF Types, ContourType
  <2>5. ResultType'
    BY <2>1 DEF Types, ResultType
  <2> QED
    BY <2>3, <2>4, <2>5 DEF Types
<1>2. CASE UNCHANGED vars
  <2>1. AllPoints' = AllPoints
    BY <1>2 DEF AllPoints, vars
  <2> QED
    BY <1>2, <2>1 DEF Types, SurfaceType, ContourType, ResultType, vars
<1> QED
  BY <1>1, <1>2, SearchTypes, TriangulateTypes, CutTypes, StartRingTypes, ExtendTypes,
     EndRingTypes, ChooseTypes DEF Next

LEMMA TypesImplyTypeOK == Types => TypeOK
<1> SUFFICES ASSUME Types PROVE TypeOK
  OBVIOUS
<1>1. ASSUME NEW f \in faces PROVE f \subseteq DOMAIN times /\ Cardinality(f) = 3
  <2>1. PICK a \in DOMAIN times, b \in DOMAIN times, c \in DOMAIN times :
           a # b /\ a # c /\ b # c /\ f = {a, b, c}
    BY DEF Types, SurfaceType, IsFace
  <2> QED
    BY <2>1, ThreeElements
<1>2. \A s \in segments : s \subseteq Int \X Int
  BY DEF Types, ContourType, IsSegment, Point
<1>3. \A i \in DOMAIN polygons : polygons[i].kind \in {"empty", "hull", "ring"}
  <2>1. \A i \in DOMAIN polygons : polygons[i] \in Polygon
    BY DEF Types, ResultType
  <2>2. \A g \in Polygon : g.kind \in {"empty", "hull", "ring"}
    BY DEF Polygon
  <2> QED
    BY <2>1, <2>2
<1>4. \A n \in DOMAIN labels : labels[n] \in Nat
  BY DEF Types, SurfaceType
<1> QED
  BY <1>1, <1>2, <1>3, <1>4 DEF TypeOK, Types, SurfaceType, ContourType, ResultType

\* The state has its type: every face of the surface has three corners among its
\* vertices, every contour segment joins points, each segment of the trace is one
\* that is used up, and a ring that is kept is closed.
THEOREM IsochronesTypes == FairSpec => []TypeOK
<1>1. Init => Types
  BY InitTypes
<1>2. Types /\ [Next]_vars => Types'
  BY NextTypes
<1>3. Types => TypeOK
  BY TypesImplyTypeOK
<1> QED
  BY <1>1, <1>2, <1>3, PTL DEF FairSpec

----------------------------------------------------------------------------
(* The ring that is kept.  Where no three segments meet, a trace cannot    *)
(* leave a ring once it is on it, nor come to one from outside.            *)

\* The trace has met nothing but its start, and that not at once.
TrailIsSimple ==
    pc = "trace" /\ Manifold =>
      /\ \A i, j \in 1 .. Len(ring) - 1 : ring[i] = ring[j] => i = j
      /\ \A i \in 2 .. Len(ring) - 1 : ring[i] # ring[Len(ring)]
      /\ Len(ring) <= 3 => ring[1] # ring[Len(ring)]

BestIsRing ==
    pc \in {"ring", "trace"} /\ Manifold /\ best # << >> => IsRing(best) /\ RingArea(best) > 0

\* No segment of r is used up.
Fresh(r) == \A i \in 1 .. Len(r) - 1 : {r[i], r[i + 1]} \in unused

\* The trace is the first part of c, and the rest of c is left for it.
Leads(c) ==
    /\ Len(ring) <= Len(c)
    /\ \A i \in 1 .. Len(ring) : ring[i] = c[i]
    /\ \A i \in Len(ring) .. Len(c) - 1 : {c[i], c[i + 1]} \in unused

Pursued(r) ==
    \/ Fresh(r)
    \/ RingArea(best) >= RingArea(r)
    \/ pc = "trace" /\ \E c : IsRing(c) /\ RingArea(c) = RingArea(r) /\ Leads(c)

\* A ring is untouched, being traced, or no larger than the best.
RingsPursued ==
    pc \in {"ring", "trace"} /\ Manifold => \A r : IsRing(r) => Pursued(r)

Inv == Types /\ TrailIsSimple /\ BestIsRing /\ RingsPursued

LEMMA EndsArePoints == Types => UNION segments \subseteq Point
BY DEF Types, ContourType, IsSegment

LEMMA AreaType ==
    ASSUME NEW r \in Seq(Point)
    PROVE  RingArea(r) \in Int /\ RingArea(r) >= 0 /\ (Len(r) < 4 => RingArea(r) = 0)
<1>1. CASE Len(r) < 4
  BY <1>1 DEF RingArea
<1>2. CASE ~(Len(r) < 4)
  <2>1. Len(r) >= 4 /\ Len(r) - 1 \in 0 .. Len(r) - 1
    BY <1>2
  <2>2. PICK f : Sums(r, f)
    BY <2>1, SumsExist
  <2>3. RingArea(r) = Absolute(f[Len(r) - 1]) /\ f[Len(r) - 1] \in Int
    BY <2>1, <2>2, AreaIsSum DEF Sums
  <2> QED
    BY <1>2, <2>3 DEF Absolute
<1> QED
  BY <1>1, <1>2

LEMMA SameContour ==
    ASSUME segments' = segments
    PROVE  (Manifold' <=> Manifold) /\ \A r : IsRing(r)' <=> IsRing(r)
<1>1. Manifold' <=> Manifold
  BY DEF Manifold, Degree
<1>2. ASSUME NEW r PROVE IsRing(r)' <=> IsRing(r)
  BY DEF IsRing
<1> QED
  BY <1>1, <1>2

\* A trace that has come back to its start is a ring.
LEMMA ClosedIsRing ==
    ASSUME Types, TrailIsSimple, Manifold, pc = "trace", Closed
    PROVE  IsRing(ring)
<1> DEFINE L == Len(ring)
<1>1. ring \in Seq(Point) /\ L \in Nat /\ L >= 2 /\ ring[1] = ring[L]
  BY DEF Types, ContourType, Closed, current
<1>2. L >= 4
  BY <1>1 DEF TrailIsSimple
<1>3. \A i \in 1 .. L - 1 : {ring[i], ring[i + 1]} \in segments
  BY DEF Types, ContourType
<1>4. ASSUME NEW i \in 1 .. L PROVE ring[i] \in UNION segments
  <2>1. CASE i = L
    <3>1. L - 1 \in 1 .. L - 1 /\ (L - 1) + 1 = L
      BY <1>1
    <3> QED
      BY <1>3, <2>1, <3>1
  <2>2. CASE i # L
    <3>1. i \in 1 .. L - 1
      BY <1>1, <2>2
    <3> QED
      BY <1>3, <3>1
  <2> QED
    BY <2>1, <2>2
<1>5. ring \in Seq(UNION segments)
  BY <1>1, <1>4
<1> QED
  BY <1>1, <1>2, <1>3, <1>5 DEF IsRing, TrailIsSimple

LEMMA StartRingPursues ==
    ASSUME Inv, StartRing
    PROVE  (TrailIsSimple /\ BestIsRing /\ RingsPursued)'
<1>1. PICK p \in Point, q \in Point :
         /\ p # q /\ {p, q} \in unused /\ ring' = <<p, q>> /\ unused' = unused \ {{p, q}}
  BY StartRingTakes DEF Inv
<1>2. segments' = segments /\ best' = best /\ pc = "ring" /\ pc' = "trace"
  BY DEF StartRing
<1>3. (Manifold' <=> Manifold) /\ \A r : IsRing(r)' <=> IsRing(r)
  BY <1>2, SameContour
<1>4. Len(ring') = 2 /\ ring'[1] = p /\ ring'[2] = q
  BY <1>1
<1>5. TrailIsSimple'
  BY <1>1, <1>4 DEF TrailIsSimple
<1>6. BestIsRing'
  BY <1>2, <1>3 DEF BestIsRing, Inv
<1>7. ASSUME Manifold, NEW r, IsRing(r) PROVE Pursued(r)'
  <2>1. UNION segments \subseteq Point
    BY EndsArePoints DEF Inv
  <2>2. Fresh(r) \/ RingArea(best) >= RingArea(r)
    BY <1>2, <1>7 DEF Inv, RingsPursued, Pursued
  <2>3. CASE RingArea(best) >= RingArea(r)
    BY <1>2, <2>3 DEF Pursued
  <2>4. CASE Fresh(r) /\ \A i \in 1 .. Len(r) - 1 : {r[i], r[i + 1]} # {p, q}
    <3>1. Fresh(r)'
      BY <1>1, <2>4 DEF Fresh
    <3> QED
      BY <3>1 DEF Pursued
  <2>5. CASE Fresh(r) /\ \E i \in 1 .. Len(r) - 1 : {r[i], r[i + 1]} = {p, q}
    <3>1. PICK i \in 1 .. Len(r) - 1 : {p, q} = {r[i], r[i + 1]}
      BY <2>5
    <3>2. PICK c : SameRing(c, r) /\ c[1] = p /\ c[2] = q
      <4>1. (p = r[i] /\ q = r[i + 1]) \/ (p = r[i + 1] /\ q = r[i])
        BY <3>1
      <4>2. StartsAlong(r, p, q)
        BY <1>7, <2>1, <4>1, RingFromSegment
      <4> QED
        BY <4>2 DEF StartsAlong
    <3>3. IsRing(c) /\ RingArea(c) = RingArea(r)
      BY <3>2 DEF SameRing
    <3>4. Len(c) \in Nat /\ Len(c) >= 4
      BY <2>1, <3>3, RingType
    <3>5. ASSUME NEW k \in 2 .. Len(c) - 1 PROVE {c[k], c[k + 1]} \in unused'
      <4>1. k \in 1 .. Len(c) - 1 /\ 1 \in 1 .. Len(c) - 1 /\ k # 1
        BY <3>4
      <4>2. PICK j \in 1 .. Len(r) - 1 : {c[k], c[k + 1]} = {r[j], r[j + 1]}
        BY <3>2, <4>1 DEF SameRing
      <4>3. {c[k], c[k + 1]} \in unused
        BY <2>5, <4>2 DEF Fresh
      <4>4. {c[k], c[k + 1]} # {c[1], c[1 + 1]}
        BY <2>1, <3>3, <4>1, RingSegmentsDiffer
      <4>5. {c[1], c[1 + 1]} = {p, q}
        BY <3>2
      <4> QED
        BY <1>1, <4>3, <4>4, <4>5
    <3>6. Leads(c)'
      BY <1>4, <3>2, <3>4, <3>5 DEF Leads
    <3> QED
      BY <1>2, <1>3, <3>3, <3>6 DEF Pursued
  <2> QED
    BY <2>2, <2>3, <2>4, <2>5
<1>8. RingsPursued'
  BY <1>3, <1>7 DEF RingsPursued
<1> QED
  BY <1>5, <1>6, <1>8

LEMMA ExtendPursues ==
    ASSUME Inv, Extend
    PROVE  (TrailIsSimple /\ BestIsRing /\ RingsPursued)'
<1> DEFINE L == Len(ring)
<1>0. Types
  BY DEF Inv
<1>1. L \in Nat /\ L >= 2 /\ ring \in Seq(Point)
  BY <1>0, ExtendTakes
<1>2. PICK p \in Point :
         /\ {ring[L], p} \in unused /\ p # ring[L - 1]
         /\ ring' = Append(ring, p) /\ unused' = unused \ {{ring[L], p}}
  BY <1>0, ExtendTakes
<1>3. segments' = segments /\ best' = best /\ pc = "trace" /\ pc' = "trace"
  BY DEF Extend
<1>4. (Manifold' <=> Manifold) /\ \A r : IsRing(r)' <=> IsRing(r)
  BY <1>3, SameContour
<1>5. ring[1] # ring[L]
  BY <1>1 DEF Extend, Closed, current
<1>6. /\ Len(ring') = L + 1 /\ ring'[L + 1] = p
      /\ \A i \in 1 .. L : ring'[i] = ring[i]
  BY <1>1, <1>2
<1>7. /\ UNION segments \subseteq Point /\ IsFiniteSet(segments) /\ unused \subseteq segments
      /\ \A s \in segments : IsSegment(s)
      /\ \A i \in 1 .. L - 1 : {ring[i], ring[i + 1]} \in segments \ unused
  BY <1>0, EndsArePoints DEF Types, ContourType
<1>8. ring[L] # p
  <2>1. IsSegment({ring[L], p})
    BY <1>2, <1>7
  <2>2. PICK a, b : a # b /\ {ring[L], p} = {a, b}
    BY <2>1 DEF IsSegment
  <2>3. a \in {ring[L], p} /\ b \in {ring[L], p}
    BY <2>2
  <2> QED
    BY <2>2, <2>3
<1>9. BestIsRing'
  BY <1>3, <1>4 DEF BestIsRing, Inv
<1>10. ASSUME Manifold
       PROVE  /\ \A i, j \in 1 .. L : ring[i] = ring[j] => i = j
              /\ \A i \in 2 .. L : ring[i] # p
  <2>1. /\ \A i, j \in 1 .. L - 1 : ring[i] = ring[j] => i = j
        /\ \A i \in 2 .. L - 1 : ring[i] # ring[L]
    BY <1>3, <1>10 DEF Inv, TrailIsSimple
  <2>2. \A i \in 1 .. L - 1 : ring[i] # ring[L]
    BY <1>1, <1>5, <2>1
  <2>3. ASSUME NEW i \in 1 .. L, NEW j \in 1 .. L, ring[i] = ring[j] PROVE i = j
    <3>1. CASE i = L \/ j = L
      BY <1>1, <2>2, <2>3, <3>1
    <3>2. CASE i # L /\ j # L
      <4>1. i \in 1 .. L - 1 /\ j \in 1 .. L - 1
        BY <1>1, <3>2
      <4> QED
        BY <2>1, <2>3, <4>1
    <3> QED
      BY <3>1, <3>2
  <2>4. ASSUME NEW i \in 2 .. L, ring[i] = p PROVE FALSE
    <3>1. i # L /\ i # L - 1
      BY <1>2, <1>8, <2>4
    <3>2. /\ i \in 1 .. L - 1 /\ i - 1 \in 1 .. L - 1 /\ i \in 1 .. L /\ i - 1 \in 1 .. L
          /\ i + 1 \in 1 .. L - 1 /\ i + 1 \in 1 .. L /\ (i - 1) + 1 = i /\ i - 1 # i + 1
          /\ L - 1 # i
      BY <1>1, <3>1
    <3>3. /\ {ring[i - 1], ring[i]} \in segments \ unused
          /\ {ring[i], ring[i + 1]} \in segments \ unused
      BY <1>7, <3>2
    <3>4. {ring[L], p} \in unused /\ {ring[L], p} \in segments
      BY <1>2, <1>7
    <3>5. {ring[i - 1], ring[i]} # {ring[i], ring[i + 1]}
      <4>1. ring[i - 1] # ring[i + 1] /\ ring[i - 1] # ring[i]
        BY <2>3, <3>2
      <4> QED
        BY <4>1
    <3>6. p \in {ring[i - 1], ring[i]} /\ p \in {ring[i], ring[i + 1]} /\ p \in {ring[L], p}
      BY <2>4
    <3>7. PICK s \in segments, t \in segments, u \in segments :
             s = {ring[i - 1], ring[i]} /\ t = {ring[i], ring[i + 1]} /\ u = {ring[L], p}
      BY <3>3, <3>4
    <3>8. s # t /\ s # u /\ t # u /\ p \in s /\ p \in t /\ p \in u
      BY <3>3, <3>4, <3>5, <3>6, <3>7
    <3> QED
      BY <1>7, <1>10, <3>8, TwoSegmentsAtMost
  <2> QED
    BY <2>3, <2>4
<1>11. TrailIsSimple'
  <2>1. SUFFICES ASSUME Manifold
                 PROVE  /\ \A i, j \in 1 .. Len(ring') - 1 : ring'[i] = ring'[j] => i = j
                        /\ \A i \in 2 .. Len(ring') - 1 : ring'[i] # ring'[Len(ring')]
                        /\ Len(ring') <= 3 => ring'[1] # ring'[Len(ring')]
    BY <1>4 DEF TrailIsSimple
  <2>2. \A i, j \in 1 .. Len(ring') - 1 : ring'[i] = ring'[j] => i = j
    BY <1>1, <1>6, <1>10, <2>1
  <2>3. ASSUME NEW i \in 2 .. Len(ring') - 1 PROVE ring'[i] # ring'[Len(ring')]
    <3>1. i \in 2 .. L /\ i \in 1 .. L
      BY <1>1, <1>6
    <3> QED
      BY <1>6, <1>10, <2>1, <3>1
  <2>4. ASSUME Len(ring') <= 3 PROVE ring'[1] # ring'[Len(ring')]
    <3>0. L + 1 <= 3 /\ L \in Nat /\ L >= 2
      BY <1>1, <1>6, <2>4
    <3> HIDE DEF L
    <3>1. L = 2 /\ L - 1 = 1 /\ 1 \in 1 .. L
      BY <3>0
    <3> USE DEF L
    <3> QED
      BY <1>2, <1>6, <3>1
  <2> QED
    BY <2>2, <2>3, <2>4
<1>12. ASSUME Manifold, NEW r, IsRing(r) PROVE Pursued(r)'
  <2>1. Pursued(r)
    BY <1>3, <1>12 DEF Inv, RingsPursued
  <2>2. CASE RingArea(best) >= RingArea(r)
    BY <1>3, <2>2 DEF Pursued
  <2>3. CASE Fresh(r)
    <3>1. ASSUME NEW k \in 1 .. Len(r) - 1, {r[k], r[k + 1]} = {ring[L], p} PROVE FALSE
      <4>1. ring[L] \in {r[k], r[k + 1]}
        BY <3>1
      <4>2. PICK i \in 1 .. Len(r) - 1, j \in 1 .. Len(r) - 1 :
               /\ {r[i], r[i + 1]} # {r[j], r[j + 1]}
               /\ ring[L] \in {r[i], r[i + 1]} /\ ring[L] \in {r[j], r[j + 1]}
        <5>1. ring[L] = r[k] \/ ring[L] = r[k + 1]
          BY <4>1
        <5>2. IsRing(r) /\ UNION segments \subseteq Point
          BY <1>7, <1>12
        <5>3. PICK x : x = ring[L]
          OBVIOUS
        <5>4. x = r[k] \/ x = r[k + 1]
          BY <5>1, <5>3
        <5>5. MeetsIn(r, x)
          BY <5>2, <5>4, RingMeets
        <5> QED
          BY <5>3, <5>5 DEF MeetsIn
      <4>3. {r[i], r[i + 1]} \in unused /\ {r[j], r[j + 1]} \in unused
        BY <2>3 DEF Fresh
      <4>4. {ring[L - 1], ring[L]} \in segments \ unused
        <5>1. L - 1 \in 1 .. L - 1 /\ (L - 1) + 1 = L
          BY <1>1
        <5> QED
          BY <1>7, <5>1
      <4>5. PICK s \in segments, t \in segments, u \in segments :
               s = {r[i], r[i + 1]} /\ t = {r[j], r[j + 1]} /\ u = {ring[L - 1], ring[L]}
        BY <1>7, <4>3, <4>4
      <4>6. s # t /\ s # u /\ t # u /\ ring[L] \in s /\ ring[L] \in t /\ ring[L] \in u
        BY <4>2, <4>3, <4>4, <4>5
      <4> QED
        BY <1>7, <1>12, <4>6, TwoSegmentsAtMost
    <3>2. Fresh(r)'
      BY <1>2, <2>3, <3>1 DEF Fresh
    <3> QED
      BY <3>2 DEF Pursued
  <2>4. CASE \E c : IsRing(c) /\ RingArea(c) = RingArea(r) /\ Leads(c)
    <3>1. PICK c : IsRing(c) /\ RingArea(c) = RingArea(r) /\ Leads(c)
      BY <2>4
    <3>2. Len(c) \in Nat /\ Len(c) >= 4 /\ c[1] = c[Len(c)]
      BY <1>7, <3>1, RingType DEF IsRing
    <3>3. /\ L <= Len(c) /\ \A i \in 1 .. L : ring[i] = c[i]
          /\ \A i \in L .. Len(c) - 1 : {c[i], c[i + 1]} \in unused
      BY <3>1 DEF Leads
    <3>4. L < Len(c)
      <4>1. 1 \in 1 .. L /\ L \in 1 .. L
        BY <1>1
      <4>2. L # Len(c)
        BY <1>5, <3>2, <3>3, <4>1
      <4> QED
        BY <1>1, <3>2, <3>3, <4>2
    <3>5. /\ L \in 1 .. Len(c) - 1 /\ L - 1 \in 1 .. Len(c) - 1 /\ L - 1 # L
          /\ (L - 1) + 1 = L /\ L \in 1 .. L /\ L - 1 \in 1 .. L /\ L \in L .. Len(c) - 1
          /\ L - 1 \in 1 .. L - 1
      BY <1>1, <3>2, <3>4
    <3>6. c[L] = ring[L] /\ c[L - 1] = ring[L - 1] /\ {c[L], c[L + 1]} \in unused
      BY <3>3, <3>5
    <3>7. p = c[L + 1]
      <4>1. SUFFICES ASSUME p # c[L + 1] PROVE FALSE
        OBVIOUS
      <4>2. {ring[L], p} # {c[L], c[L + 1]}
        BY <1>8, <3>6, <4>1
      <4>3. {ring[L - 1], ring[L]} \in segments \ unused
        BY <1>7, <3>5
      <4>4. PICK s \in segments, t \in segments, u \in segments :
               s = {ring[L], p} /\ t = {c[L], c[L + 1]} /\ u = {ring[L - 1], ring[L]}
        BY <1>2, <1>7, <3>6, <4>3
      <4>5. s # t /\ s # u /\ t # u /\ ring[L] \in s /\ ring[L] \in t /\ ring[L] \in u
        BY <1>2, <3>6, <4>2, <4>3, <4>4
      <4> QED
        BY <1>7, <1>12, <4>5, TwoSegmentsAtMost
    <3>8. \A i \in 1 .. L + 1 : ring'[i] = c[i]
      <4>1. \A i \in 1 .. L + 1 : i = L + 1 \/ i \in 1 .. L
        BY <1>1
      <4> QED
        BY <1>6, <3>3, <3>7, <4>1
    <3>9. ASSUME NEW i \in L + 1 .. Len(c) - 1 PROVE {c[i], c[i + 1]} \in unused'
      <4>1. i \in L .. Len(c) - 1 /\ i \in 1 .. Len(c) - 1 /\ i # L
        BY <1>1, <3>2
      <4>2. {c[i], c[i + 1]} \in unused
        BY <3>3, <4>1
      <4>3. {c[i], c[i + 1]} # {c[L], c[L + 1]}
        BY <1>7, <3>1, <3>5, <4>1, RingSegmentsDiffer
      <4>4. {c[L], c[L + 1]} = {ring[L], p}
        BY <3>6, <3>7
      <4> QED
        BY <1>2, <4>2, <4>3, <4>4
    <3>10. L + 1 <= Len(c)
      BY <1>1, <3>2, <3>4
    <3>11. Leads(c)'
      BY <1>6, <3>8, <3>9, <3>10 DEF Leads
    <3> QED
      BY <1>3, <1>4, <3>1, <3>11 DEF Pursued
  <2> QED
    BY <2>1, <2>2, <2>3, <2>4 DEF Pursued
<1>13. RingsPursued'
  BY <1>4, <1>12 DEF RingsPursued
<1> QED
  BY <1>9, <1>11, <1>13

LEMMA EndRingPursues ==
    ASSUME Inv, EndRing
    PROVE  (TrailIsSimple /\ BestIsRing /\ RingsPursued)'
<1> DEFINE L == Len(ring)
<1>0. Types
  BY DEF Inv
<1>1. L \in Nat /\ L >= 2 /\ ring \in Seq(Point) /\ best \in Seq(Point)
  BY <1>0 DEF Types, ContourType, EndRing
<1>2. /\ segments' = segments /\ unused' = unused /\ ring' = ring
      /\ pc = "trace" /\ pc' = "ring"
  BY DEF EndRing
<1>3. (Manifold' <=> Manifold) /\ \A r : IsRing(r)' <=> IsRing(r)
  BY <1>2, SameContour
<1>4. UNION segments \subseteq Point
  BY <1>0, EndsArePoints
<1>5. TrailIsSimple'
  BY <1>2 DEF TrailIsSimple
<1>6. /\ RingArea(ring) \in Int /\ RingArea(ring) >= 0
      /\ RingArea(best) \in Int /\ RingArea(best) >= 0
  BY <1>1, AreaType
<1>7. CASE ~(Closed /\ L >= 4 /\ Larger(ring, best))
  <2>1. best' = best
    BY <1>7 DEF EndRing
  <2>2. BestIsRing'
    BY <1>2, <1>3, <2>1 DEF BestIsRing, Inv
  <2>3. ASSUME Manifold, NEW r, IsRing(r) PROVE Pursued(r)'
    <3>1. Pursued(r)
      BY <1>2, <2>3 DEF Inv, RingsPursued
    <3>2. CASE RingArea(best) >= RingArea(r)
      BY <2>1, <3>2 DEF Pursued
    <3>3. CASE Fresh(r)
      BY <1>2, <3>3 DEF Pursued, Fresh
    <3>4. CASE \E c : IsRing(c) /\ RingArea(c) = RingArea(r) /\ Leads(c)
      <4>1. PICK c : IsRing(c) /\ RingArea(c) = RingArea(r) /\ Leads(c)
        BY <3>4
      <4>2. /\ c \in Seq(Point) /\ Len(c) \in Nat /\ Len(c) >= 4 /\ c[1] = c[Len(c)]
            /\ \A i, j \in 1 .. Len(c) - 1 : c[i] = c[j] => i = j
        BY <1>4, <4>1, RingType DEF IsRing
      <4>3. /\ L <= Len(c) /\ \A i \in 1 .. L : ring[i] = c[i]
            /\ \A i \in L .. Len(c) - 1 : {c[i], c[i + 1]} \in unused
        BY <4>1 DEF Leads
      <4>4. 1 \in 1 .. L /\ L \in 1 .. L /\ L - 1 \in 1 .. L
        BY <1>1
      <4>0. Len(c) \in Nat /\ Len(c) >= 4 /\ L \in Nat /\ L >= 2
        BY <1>1, <4>2
      <4>5. CASE L = Len(c)
        <5>1. ring = c
          BY <1>1, <4>2, <4>3, <4>5, SeqEqual
        <5>2. Closed /\ L >= 4
          BY <1>1, <4>2, <5>1 DEF Closed, current
        <5>3. ~(RingArea(ring) > RingArea(best))
          BY <1>7, <5>2 DEF Larger
        <5>4. RingArea(best) >= RingArea(r)
          BY <1>6, <4>1, <5>1, <5>3
        <5> QED
          BY <2>1, <5>4 DEF Pursued
      <4>6. CASE L < Len(c)
        <5>1. /\ L \in 1 .. Len(c) - 1 /\ L - 1 \in 1 .. Len(c) - 1 /\ 1 \in 1 .. Len(c) - 1
              /\ L # 1 /\ L \in L .. Len(c) - 1
          <6> HIDE DEF L
          <6> QED
            BY <4>0, <4>6
        <5>2. ~Closed
          <6>1. c[L] # c[1]
            BY <4>2, <5>1
          <6> QED
            BY <4>3, <4>4, <6>1 DEF Closed, current
        <5>3. c[L + 1] # c[L - 1]
          <6>1. CASE L + 1 = Len(c)
            <7>1. L - 1 # 1
              <8> HIDE DEF L
              <8> QED
                BY <4>0, <6>1
            <7>2. c[1] # c[L - 1]
              BY <4>2, <5>1, <7>1
            <7> QED
              BY <4>2, <6>1, <7>2
          <6>2. CASE L + 1 # Len(c)
            <7>1. L + 1 \in 1 .. Len(c) - 1 /\ L + 1 # L - 1
              BY <1>1, <4>2, <4>6, <6>2
            <7> QED
              BY <4>2, <5>1, <7>1
          <6> QED
            BY <6>1, <6>2
        <5>4. {c[L], c[L + 1]} \in unused
          BY <4>3, <5>1
        <5>5. {c[L + 1], current} \in unused
          <6>1. {c[L + 1], current} = {c[L], c[L + 1]}
            BY <4>3, <4>4 DEF current
          <6> QED
            BY <5>4, <6>1
        <5>6. c[L + 1] \in Candidates
          BY <4>3, <4>4, <5>3, <5>5 DEF Candidates
        <5> QED
          BY <5>2, <5>6 DEF EndRing
      <4> QED
        BY <1>1, <4>2, <4>3, <4>5, <4>6
    <3> QED
      BY <3>1, <3>2, <3>3, <3>4 DEF Pursued
  <2>4. RingsPursued'
    BY <1>3, <2>3 DEF RingsPursued
  <2> QED
    BY <1>5, <2>2, <2>4
<1>8. CASE Closed /\ L >= 4 /\ Larger(ring, best)
  <2>1. best' = ring /\ RingArea(ring) > RingArea(best)
    BY <1>8 DEF EndRing, Larger
  <2>2. ASSUME Manifold PROVE IsRing(ring)
    BY <1>0, <1>2, <1>8, <2>2, ClosedIsRing DEF Inv
  <2>3. BestIsRing'
    BY <1>2, <1>3, <1>6, <2>1, <2>2 DEF BestIsRing
  <2>4. ASSUME Manifold, NEW r, IsRing(r) PROVE Pursued(r)'
    <3>1. Pursued(r)
      BY <1>2, <2>4 DEF Inv, RingsPursued
    <3>2. r \in Seq(Point) /\ RingArea(r) \in Int
      BY <1>4, <2>4, RingType, AreaType
    <3>3. CASE RingArea(best) >= RingArea(r)
      BY <1>6, <2>1, <3>2, <3>3 DEF Pursued
    <3>4. CASE Fresh(r)
      BY <1>2, <3>4 DEF Pursued, Fresh
    <3>5. CASE \E c : IsRing(c) /\ RingArea(c) = RingArea(r) /\ Leads(c)
      <4>1. PICK c : IsRing(c) /\ RingArea(c) = RingArea(r) /\ Leads(c)
        BY <3>5
      <4>2. /\ c \in Seq(Point) /\ Len(c) \in Nat /\ Len(c) >= 4
            /\ \A i, j \in 1 .. Len(c) - 1 : c[i] = c[j] => i = j
        BY <1>4, <4>1, RingType DEF IsRing
      <4>3. L <= Len(c) /\ \A i \in 1 .. L : ring[i] = c[i]
        BY <4>1 DEF Leads
      <4>4. L = Len(c)
        <5>1. SUFFICES ASSUME L # Len(c) PROVE FALSE
          OBVIOUS
        <5>2. L \in 1 .. Len(c) - 1 /\ 1 \in 1 .. Len(c) - 1 /\ L # 1 /\ L \in 1 .. L /\ 1 \in 1 .. L
          BY <1>1, <4>2, <4>3, <5>1
        <5>3. c[L] # c[1]
          BY <4>2, <5>2
        <5>4. ring[L] = ring[1]
          BY <1>8 DEF Closed, current
        <5> QED
          BY <4>3, <5>2, <5>3, <5>4
      <4>5. ring = c
        BY <1>1, <4>2, <4>3, <4>4, SeqEqual
      <4> QED
        BY <1>6, <2>1, <4>1, <4>5 DEF Pursued
    <3> QED
      BY <3>1, <3>3, <3>4, <3>5 DEF Pursued
  <2>5. RingsPursued'
    BY <1>3, <2>4 DEF RingsPursued
  <2> QED
    BY <1>5, <2>3, <2>5
<1> QED
  BY <1>7, <1>8

LEMMA CutPursues ==
    ASSUME Inv, Cut
    PROVE  (TrailIsSimple /\ BestIsRing /\ RingsPursued)'
<1>1. CASE pc' = "limit"
  BY <1>1 DEF TrailIsSimple, BestIsRing, RingsPursued
<1>2. CASE pc' # "limit"
  <2>1. unused' = segments' /\ best' = << >> /\ pc' = "ring"
    BY <1>2 DEF Cut
  <2>2. ASSUME NEW r, IsRing(r)' PROVE Fresh(r)'
    BY <2>1, <2>2 DEF IsRing, Fresh
  <2>3. RingsPursued'
    BY <2>2 DEF RingsPursued, Pursued
  <2> QED
    BY <2>1, <2>3 DEF TrailIsSimple, BestIsRing
<1> QED
  BY <1>1, <1>2

LEMMA NextInv ==
    ASSUME Inv, [Next]_vars
    PROVE  Inv'
<1>1. Types'
  BY NextTypes DEF Inv
<1>2. CASE StartRing
  BY <1>1, <1>2, StartRingPursues DEF Inv
<1>3. CASE Extend
  BY <1>1, <1>3, ExtendPursues DEF Inv
<1>4. CASE EndRing
  BY <1>1, <1>4, EndRingPursues DEF Inv
<1>5. CASE Cut
  BY <1>1, <1>5, CutPursues DEF Inv
<1>6. CASE Search \/ Triangulate \/ Choose \/ Return
  <2>1. pc' \notin {"ring", "trace"}
    BY <1>6 DEF Search, Triangulate, Choose, Return
  <2>2. (TrailIsSimple /\ BestIsRing /\ RingsPursued)'
    BY <2>1 DEF TrailIsSimple, BestIsRing, RingsPursued
  <2> QED
    BY <1>1, <2>2 DEF Inv
<1>7. CASE UNCHANGED vars
  <2>1. /\ segments' = segments /\ unused' = unused /\ ring' = ring /\ best' = best /\ pc' = pc
    BY <1>7 DEF vars
  <2>2. (Manifold' <=> Manifold) /\ \A r : IsRing(r)' <=> IsRing(r)
    BY <2>1, SameContour
  <2>3. TrailIsSimple' /\ BestIsRing'
    BY <2>1, <2>2 DEF Inv, TrailIsSimple, BestIsRing
  <2>4. ASSUME NEW r, Pursued(r) PROVE Pursued(r)'
    BY <2>1, <2>2, <2>4 DEF Pursued, Fresh, Leads
  <2>5. RingsPursued'
    BY <2>1, <2>2, <2>4 DEF Inv, RingsPursued
  <2> QED
    BY <1>1, <2>3, <2>5 DEF Inv
<1> QED
  BY <1>2, <1>3, <1>4, <1>5, <1>6, <1>7 DEF Next

LEMMA InitInv == Init => Inv
BY InitTypes DEF Init, Inv, TrailIsSimple, BestIsRing, RingsPursued

\* Every ring of the contour there is, not only those of the set Rings.
LargestOfAll ==
    pc = "ring" /\ unused = {} /\ Manifold =>
      \A r : IsRing(r) => RingArea(best) >= RingArea(r)

LEMMA InvImpliesLargest == Inv => LargestOfAll /\ LargestRingIsKept
<1> SUFFICES ASSUME Inv PROVE LargestOfAll /\ LargestRingIsKept
  OBVIOUS
<1>1. ASSUME pc = "ring", unused = {}, Manifold, NEW r, IsRing(r)
      PROVE  RingArea(best) >= RingArea(r) /\ ~Larger(r, best)
  <2>1. Pursued(r)
    BY <1>1 DEF Inv, RingsPursued
  <2>2. r \in Seq(Point) /\ Len(r) \in Nat /\ Len(r) >= 4 /\ best \in Seq(Point)
    BY <1>1, EndsArePoints, RingType DEF Inv, Types, ContourType
  <2>3. ~Fresh(r)
    <3>1. 1 \in 1 .. Len(r) - 1
      BY <2>2
    <3> QED
      BY <1>1, <3>1 DEF Fresh
  <2>4. RingArea(best) >= RingArea(r)
    BY <1>1, <2>1, <2>3 DEF Pursued
  <2>5. RingArea(best) \in Int /\ RingArea(r) \in Int
    BY <2>2, AreaType
  <2> QED
    BY <2>4, <2>5 DEF Larger
<1>2. ASSUME pc = "ring", Manifold, best # << >> PROVE IsRing(best) /\ RingArea(best) > 0
  BY <1>2 DEF Inv, BestIsRing
<1>3. \A r \in Rings : IsRing(r)
  BY DEF Rings
<1> QED
  BY <1>1, <1>2, <1>3 DEF LargestOfAll, LargestRingIsKept

\* When a contour without branches is traced, the ring that is kept is one of
\* its rings with an area, if it has one, and none is larger, whichever segments
\* the traces start with and whichever way they go.
THEOREM LargestRing == FairSpec => []LargestRingIsKept
<1>1. Init => Inv
  BY InitInv
<1>2. Inv /\ [Next]_vars => Inv'
  BY NextInv
<1>3. Inv => LargestRingIsKept
  BY InvImpliesLargest
<1> QED
  BY <1>1, <1>2, <1>3, PTL DEF FairSpec

\* The same of every closed trail of contour segments that meets itself at its
\* ends only, not only of those that Rings enumerates: largest_closed_ring has no
\* larger ring to choose than the one it keeps.
THEOREM LargestOfAllRings == FairSpec => []LargestOfAll
<1>1. Init => Inv
  BY InitInv
<1>2. Inv /\ [Next]_vars => Inv'
  BY NextInv
<1>3. Inv => LargestOfAll
  BY InvImpliesLargest
<1> QED
  BY <1>1, <1>2, <1>3, PTL DEF FairSpec

----------------------------------------------------------------------------
(* What the rings kept mean for the polygons returned: each is made of the *)
(* contour of its own limit.                                               *)

RingOf(S, r) ==
    /\ r \in Seq(UNION S)
    /\ Len(r) >= 4 /\ r[1] = r[Len(r)]
    /\ \A i, j \in 1 .. Len(r) - 1 : r[i] = r[j] => i = j
    /\ \A i \in 1 .. Len(r) - 1 : {r[i], r[i + 1]} \in S

\* A limit that is not cut.
Covered(l) == AtMost(Latest(labels), l) \/ is_saturated_limit(l)

\* g is a largest ring of S, or their hull if no ring of S has an area.
Bounds(g, S) ==
    \/ /\ g.kind = "ring" /\ RingOf(S, g.points) /\ RingArea(g.points) > 0
       /\ \A r : RingOf(S, r) => RingArea(g.points) >= RingArea(r)
    \/ /\ g = convex_hull(UNION S, 2 * Cardinality(S))
       /\ \A r : RingOf(S, r) => RingArea(r) = 0

PolygonOf(g, l) ==
    /\ Covered(l) => g = HullOfAll
    /\ ~Covered(l) /\ contour_segments(l) = {} => g = empty_polygon
    /\ ~Covered(l) /\ contour_segments(l) # {} /\ Branchless(l) =>
         Bounds(g, contour_segments(l))

PolygonsFit ==
    times # << >> => \A i \in DOMAIN polygons : PolygonOf(polygons[i], request.limits[i])

\* While its contour is traced, the limit is the next one.
CutInv ==
    /\ pc \in {"search", "surface"} => times = << >> /\ polygons = << >>
    /\ pc \in {"ring", "trace"} =>
         ~Covered(Limit) /\ segments = contour_segments(Limit) /\ segments # {}

FitInv == Inv /\ CutInv /\ PolygonsFit

LEMMA InitFits == Init => CutInv /\ PolygonsFit
BY DEF Init, CutInv, PolygonsFit

LEMMA SameSurface ==
    ASSUME labels' = labels, times' = times, faces' = faces
    PROVE  /\ \A l : Covered(l)' <=> Covered(l)
           /\ \A l : contour_segments(l)' = contour_segments(l)
           /\ \A g, l : PolygonOf(g, l)' <=> PolygonOf(g, l)
<1>1. \A l : Covered(l)' <=> Covered(l)
  BY DEF Covered, is_saturated_limit
<1>2. \A l : contour_segments(l)' = contour_segments(l)
  BY DEF contour_segments, Crosses, interpolate_contour_point
<1>3. \A l : Branchless(l)' <=> Branchless(l)
  BY <1>2 DEF Branchless
<1>4. HullOfAll' = HullOfAll
  BY DEF HullOfAll, AllPoints
<1> QED
  BY <1>1, <1>2, <1>3, <1>4 DEF PolygonOf

\* A polygon is appended for the next limit, and the others stay.
LEMMA AppendFits ==
    ASSUME Types, PolygonsFit, NEW g,
           labels' = labels, times' = times, faces' = faces, request' = request,
           polygons' = Append(polygons, g), PolygonOf(g, Limit)
    PROVE  PolygonsFit'
<1>1. polygons \in Seq(Polygon) /\ Len(polygons) \in Nat
  BY DEF Types, ResultType
<1>2. SUFFICES ASSUME times # << >>, NEW i \in DOMAIN polygons'
               PROVE  PolygonOf(polygons'[i], request.limits[i])
  BY SameSurface DEF PolygonsFit
<1>3. i \in 1 .. Len(polygons) + 1
  BY <1>1
<1>4. CASE i = Len(polygons) + 1
  BY <1>1, <1>4 DEF Limit
<1>5. CASE i \in 1 .. Len(polygons)
  <2>1. polygons'[i] = polygons[i] /\ i \in DOMAIN polygons
    BY <1>1, <1>5
  <2> QED
    BY <1>2, <2>1 DEF PolygonsFit
<1> QED
  BY <1>1, <1>3, <1>4, <1>5

LEMMA CutFits ==
    ASSUME Types, CutInv, PolygonsFit, Cut
    PROVE  CutInv' /\ PolygonsFit'
<1>1. /\ labels' = labels /\ times' = times /\ faces' = faces /\ request' = request
      /\ pc = "limit"
  BY DEF Cut, input, surface
<1>2. CASE Covered(Limit)
  <2>1. polygons' = Append(polygons, HullOfAll) /\ pc' = pc
    BY <1>2 DEF Cut, Covered
  <2>2. PolygonOf(HullOfAll, Limit)
    BY <1>2 DEF PolygonOf
  <2>3. PolygonsFit'
    BY <1>1, <2>1, <2>2, AppendFits
  <2> QED
    BY <1>1, <2>1, <2>3 DEF CutInv
<1>3. CASE ~Covered(Limit) /\ contour_segments(Limit) = {}
  <2>1. polygons' = Append(polygons, empty_polygon) /\ pc' = pc
    BY <1>3 DEF Cut, Covered
  <2>2. PolygonOf(empty_polygon, Limit)
    BY <1>3 DEF PolygonOf
  <2>3. PolygonsFit'
    BY <1>1, <2>1, <2>2, AppendFits
  <2> QED
    BY <1>1, <2>1, <2>3 DEF CutInv
<1>4. CASE ~Covered(Limit) /\ contour_segments(Limit) # {}
  <2>1. segments' = contour_segments(Limit) /\ polygons' = polygons /\ pc' = "ring"
    BY <1>4 DEF Cut, Covered
  <2>2. Limit' = Limit
    BY <1>1, <2>1 DEF Limit
  <2>3. CutInv'
    BY <1>1, <1>4, <2>1, <2>2, SameSurface DEF CutInv
  <2>4. PolygonsFit'
    BY <1>1, <2>1, SameSurface DEF PolygonsFit
  <2> QED
    BY <2>3, <2>4
<1> QED
  BY <1>2, <1>3, <1>4

LEMMA ChooseFits ==
    ASSUME Inv, CutInv, PolygonsFit, Choose
    PROVE  CutInv' /\ PolygonsFit'
<1>1. /\ labels' = labels /\ times' = times /\ faces' = faces /\ request' = request
      /\ pc = "ring" /\ unused = {} /\ pc' = "limit"
  BY DEF Choose, input, surface
<1>2. /\ ~Covered(Limit) /\ segments = contour_segments(Limit) /\ segments # {}
  BY <1>1 DEF CutInv
<1> DEFINE g == IF best # << >> THEN [kind |-> "ring", points |-> best]
                ELSE convex_hull(UNION segments, 2 * Cardinality(segments))
<1>3. polygons' = Append(polygons, g)
  BY DEF Choose
<1>4. ASSUME Branchless(Limit) PROVE Bounds(g, segments)
  <2>1. Manifold
    BY <1>2, <1>4 DEF Branchless, Manifold, Degree
  <2>2. \A r : IsRing(r) <=> RingOf(segments, r)
    BY DEF IsRing, RingOf
  <2>3. \A r : RingOf(segments, r) => RingArea(best) >= RingArea(r)
    BY <1>1, <2>1, <2>2, InvImpliesLargest DEF LargestOfAll
  <2>4. CASE best # << >>
    <3>1. g.kind = "ring" /\ g.points = best
      BY <2>4
    <3>2. IsRing(best) /\ RingArea(best) > 0
      BY <1>1, <2>1, <2>4 DEF Inv, BestIsRing
    <3> HIDE DEF g
    <3> QED
      BY <2>2, <2>3, <3>1, <3>2 DEF Bounds
  <2>5. CASE best = << >>
    <3>1. g = convex_hull(UNION segments, 2 * Cardinality(segments))
      BY <2>5
    <3>2. RingArea(best) = 0
      BY <2>5 DEF RingArea
    <3>3. ASSUME NEW r, RingOf(segments, r) PROVE RingArea(r) = 0
      <4>1. r \in Seq(Point)
        BY <2>2, <3>3, EndsArePoints, RingType DEF Inv
      <4>2. RingArea(r) \in Int /\ RingArea(r) >= 0
        BY <4>1, AreaType
      <4> QED
        BY <2>3, <3>2, <3>3, <4>2
    <3> HIDE DEF g
    <3> QED
      BY <3>1, <3>3 DEF Bounds
  <2> QED
    BY <2>4, <2>5
<1> HIDE DEF g
<1>5. PolygonOf(g, Limit)
  BY <1>2, <1>4 DEF PolygonOf
<1>6. PolygonsFit'
  BY <1>1, <1>3, <1>5, AppendFits DEF Inv
<1> QED
  BY <1>1, <1>6 DEF CutInv

LEMMA NextFits ==
    ASSUME FitInv, [Next]_vars
    PROVE  CutInv' /\ PolygonsFit'
<1> USE DEF FitInv
<1>1. CASE Search
  <2>1. times' = times /\ pc = "search" /\ times = << >> /\ polygons = << >>
    BY <1>1 DEF Search, CutInv
  <2>2. pc' = "done" \/ (pc' = "surface" /\ polygons' = polygons)
    BY <1>1 DEF Search
  <2> QED
    BY <2>1, <2>2 DEF CutInv, PolygonsFit
<1>2. CASE Triangulate
  <2>1. pc = "surface" /\ times = << >> /\ polygons = << >>
    BY <1>2 DEF Triangulate, CutInv
  <2>2. \/ pc' = "done" /\ times' = times
        \/ pc' = "limit" /\ polygons' = polygons
    BY <1>2 DEF Triangulate
  <2>3. CutInv'
    BY <2>2 DEF CutInv
  <2> QED
    BY <2>1, <2>2, <2>3 DEF PolygonsFit
<1>3. CASE Cut
  BY <1>3, CutFits DEF Inv
<1>4. CASE StartRing \/ Extend \/ EndRing
  <2>1. /\ labels' = labels /\ times' = times /\ faces' = faces /\ request' = request
        /\ segments' = segments /\ polygons' = polygons
        /\ pc \in {"ring", "trace"} /\ pc' \in {"ring", "trace"}
    BY <1>4 DEF StartRing, Extend, EndRing, input, surface
  <2>2. Limit' = Limit
    BY <2>1 DEF Limit
  <2>3. CutInv'
    BY <2>1, <2>2, SameSurface DEF CutInv
  <2> QED
    BY <2>1, <2>3, SameSurface DEF PolygonsFit
<1>5. CASE Choose
  BY <1>5, ChooseFits
<1>6. CASE Return
  <2>1. /\ labels' = labels /\ times' = times /\ faces' = faces /\ request' = request
        /\ polygons' = polygons /\ pc' = "done"
    BY <1>6 DEF Return, input, surface, contour
  <2> QED
    BY <2>1, SameSurface DEF CutInv, PolygonsFit
<1>7. CASE UNCHANGED vars
  <2>1. /\ labels' = labels /\ times' = times /\ faces' = faces /\ request' = request
        /\ segments' = segments /\ polygons' = polygons /\ pc' = pc
    BY <1>7 DEF vars
  <2>2. Limit' = Limit
    BY <2>1 DEF Limit
  <2> QED
    BY <2>1, <2>2, SameSurface DEF CutInv, PolygonsFit
<1> QED
  BY <1>1, <1>2, <1>3, <1>4, <1>5, <1>6, <1>7 DEF Next

\* The polygons come in the order of the limits.  One that covers the labels
\* gets the hull of all nodes, one without a contour an empty polygon, and one
\* whose contour has no branches the largest ring of its contour, or the hull of
\* it if no ring has an area.
THEOREM PolygonsFitTheirLimits == FairSpec => []PolygonsFit
<1>1. Init => FitInv
  BY InitInv, InitFits DEF FitInv
<1>2. FitInv /\ [Next]_vars => FitInv'
  BY NextInv, NextFits DEF FitInv
<1>3. FitInv => PolygonsFit
  BY DEF FitInv
<1> QED
  BY <1>1, <1>2, <1>3, PTL DEF FairSpec

\* From three points on there is a surface.
Surfaced == pc \notin {"search", "surface"} /\ Cardinality(AllPoints) >= 3 => times # << >>

LEMMA NextSurfaced ==
    ASSUME Types, Surfaced, [Next]_vars
    PROVE  Surfaced'
<1>1. CASE Search
  <2>1. CASE labels' = << >>
    <3>1. AllPoints' = {}
      BY <2>1 DEF AllPoints
    <3>2. Cardinality(AllPoints)' = 0
      BY <3>1, FS_EmptySet
    <3> QED
      BY <3>2 DEF Surfaced
  <2>2. CASE labels' # << >>
    BY <1>1, <2>2 DEF Search, Surfaced
  <2> QED
    BY <2>1, <2>2
<1>2. CASE Triangulate
  <2>1. AllPoints' = AllPoints
    BY <1>2 DEF Triangulate, AllPoints
  <2>2. CASE Cardinality(AllPoints) < 3
    <3>1. Cardinality(AllPoints) \in Nat
      BY PointsType, FS_CardinalityType DEF Types
    <3> QED
      BY <2>1, <2>2, <3>1 DEF Surfaced
  <2>3. CASE ~(Cardinality(AllPoints) < 3)
    <3>1. DOMAIN times' = AllPoints
      BY <1>2, <2>3 DEF Triangulate
    <3>2. AllPoints # {}
      BY <2>3, FS_EmptySet
    <3>3. times' # << >>
      BY <3>1, <3>2
    <3> QED
      BY <3>3 DEF Surfaced
  <2> QED
    BY <2>2, <2>3
<1>3. CASE Cut \/ StartRing \/ Extend \/ EndRing \/ Choose \/ Return \/ UNCHANGED vars
  <2>1. labels' = labels /\ times' = times
    BY <1>3 DEF Cut, StartRing, Extend, EndRing, Choose, Return, vars, surface
  <2>2. pc' \notin {"search", "surface"} => pc \notin {"search", "surface"}
    BY <1>3 DEF Cut, StartRing, Extend, EndRing, Choose, Return, vars
  <2>3. AllPoints' = AllPoints
    BY <2>1 DEF AllPoints
  <2> QED
    BY <2>1, <2>2, <2>3 DEF Surfaced
<1> QED
  BY <1>1, <1>2, <1>3 DEF Next

CoveredEncloseAll ==
    Cardinality(AllPoints) >= 3 =>
      \A i \in DOMAIN polygons : Covered(request.limits[i]) => EnclosesAll(i)

LEMMA CoveredLimit ==
    ASSUME Types, CutInv, PolygonsFit, Surfaced
    PROVE  CoveredEncloseAll
<1>1. SUFFICES ASSUME Cardinality(AllPoints) >= 3, NEW i \in DOMAIN polygons,
                      Covered(request.limits[i])
               PROVE  EnclosesAll(i)
  BY DEF CoveredEncloseAll
<1>2. polygons # << >>
  BY DEF Types, ResultType
<1>3. times # << >>
  BY <1>1, <1>2 DEF CutInv, Surfaced
<1>4. polygons[i] = HullOfAll
  BY <1>1, <1>3 DEF PolygonsFit, PolygonOf
<1>5. IsFiniteSet(DOMAIN labels) /\ Cardinality(DOMAIN labels) \in Nat
  <2>1. DOMAIN labels \subseteq Node
    BY DEF Types, SurfaceType
  <2> QED
    BY <2>1, NodeAssumption, FS_Subset, FS_CardinalityType
<1>6. Cardinality(AllPoints) <= Cardinality(DOMAIN labels)
  <2> DEFINE f == [n \in DOMAIN labels |-> Position[n]]
  <2>1. f \in Surjection(DOMAIN labels, AllPoints)
    BY DEF Surjection, AllPoints
  <2> QED
    BY <1>5, <2>1, FS_Surjection
<1>7. Cardinality(AllPoints) \in Nat
  BY PointsType, FS_CardinalityType DEF Types
<1>8. HullOfAll.kind = "hull" /\ HullOfAll.points = AllPoints
  BY <1>1, <1>5, <1>6, <1>7 DEF HullOfAll, convex_hull
<1>9. ASSUME NEW n \in Within(request.limits[i]) PROVE Holds(polygons[i], Position[n])
  <2>1. Position[n] \in AllPoints
    BY DEF Within, AllPoints
  <2>2. InHull(Position[n], AllPoints)
    BY <2>1 DEF InHull
  <2> QED
    BY <1>4, <1>8, <2>2 DEF Holds
<1> QED
  BY <1>9 DEF EnclosesAll

\* A limit that is as late as every label, or than all but one in a hundred, gets
\* a polygon that encloses the nodes within it, wherever it stands in the list.
THEOREM CoveredLimitsEncloseAll == FairSpec => []CoveredEncloseAll
<1> DEFINE I == FitInv /\ Surfaced
<1>1. Init => I
  BY InitInv, InitFits DEF FitInv, Surfaced, Init
<1>2. I /\ [Next]_vars => I'
  BY NextInv, NextFits, NextSurfaced DEF FitInv, Inv
<1>3. I => CoveredEncloseAll
  BY CoveredLimit DEF FitInv, Inv
<1> QED
  BY <1>1, <1>2, <1>3, PTL DEF FairSpec

TracingShrinks ==
    [][pc' = "trace" => /\ IsFiniteSet(unused)
                        /\ unused' \subseteq unused /\ unused' # unused]_vars

\* Why largest_closed_ring ends: each turn of its two loops uses up a segment of
\* a finite set, also where contour lines meet and the trace may choose.
THEOREM TracingUsesUpSegments == FairSpec => TracingShrinks
<1>1. Init => Types
  BY InitTypes
<1>2. Types /\ [Next]_vars => Types'
  BY NextTypes
<1>3. ASSUME Types, [Next]_vars
      PROVE  [pc' = "trace" => /\ IsFiniteSet(unused)
                               /\ unused' \subseteq unused /\ unused' # unused]_vars
  <2>1. SUFFICES ASSUME ~UNCHANGED vars, pc' = "trace"
                 PROVE  IsFiniteSet(unused) /\ unused' \subseteq unused /\ unused' # unused
    OBVIOUS
  <2>2. IsFiniteSet(unused)
    BY <1>3, FS_Subset DEF Types, ContourType
  <2>3. StartRing \/ Extend
    <3>1. pc' # "trace" \/ StartRing \/ Extend
      <4>1. ASSUME Search \/ Triangulate \/ Cut \/ EndRing \/ Choose \/ Return
            PROVE  pc' # "trace"
        BY <4>1 DEF Search, Triangulate, Cut, EndRing, Choose, Return
      <4> QED
        BY <1>3, <2>1, <4>1 DEF Next
    <3> QED
      BY <2>1, <3>1
  <2>4. PICK s : s \in unused /\ unused' = unused \ {s}
    <3>1. CASE StartRing
      BY <1>3, <3>1, StartRingTakes
    <3>2. CASE Extend
      BY <1>3, <3>2, ExtendTakes
    <3> QED
      BY <2>3, <3>1, <3>2
  <2> QED
    BY <2>2, <2>4
<1> QED
  BY <1>1, <1>2, <1>3, PTL DEF FairSpec, TracingShrinks

=============================================================================
