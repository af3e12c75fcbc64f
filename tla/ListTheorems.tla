------------------------------ MODULE ListTheorems ------------------------------
(***************************************************************************)
(* Induction over lists, for the loops of the code that go through one from *)
(* the front (FoldLeft).  The induction theorems of the library take an     *)
(* operator, which the provers cannot instantiate; here a property is the   *)
(* set of the numbers that have it, and the step of a loop is a function.   *)
(***************************************************************************)
EXTENDS Findings, WellFoundedInduction, FiniteSetTheorems, TLAPS

\* Every set of natural numbers has a least one.
LEMMA LeastNumber ==
  ASSUME NEW T \in SUBSET Nat, T # {}
  PROVE  \E x \in T : \A y \in T : x <= y
  <1> DEFINE R == {r \in Nat \X Nat : r[1] < r[2]}
  <1>1. IsWellFoundedOn(R, Nat)
    BY NatLessThanWellFounded DEF OpToRel
  <1> HIDE DEF R
  <1>2. PICK x \in T : \A y \in T : ~ (<<y, x>> \in R)
    BY <1>1, WFMin
  <1>3. \A y \in T : ~(y < x)
    BY <1>2 DEF R
  <1> QED BY <1>3

\* Induction: a set that holds 0 and with each number the next, up to n, holds them all.
LEMMA UpTo ==
  ASSUME NEW n \in Nat, NEW S, 0 \in S, \A k \in 1..n : k - 1 \in S => k \in S
  PROVE  0..n \subseteq S
  <1> SUFFICES ASSUME NEW m \in 0..n, m \notin S PROVE FALSE
    OBVIOUS
  <1> DEFINE T == {k \in 0..n : k \notin S}
  <1>1. T \in SUBSET Nat /\ T # {}
    OBVIOUS
  <1>2. PICK x \in T : \A y \in T : x <= y
    <2> HIDE DEF T
    <2> QED BY <1>1, LeastNumber
  <1>3. x \in 1..n /\ x - 1 \in 0..n /\ x - 1 \notin T
    BY <1>2
  <1> QED BY <1>3

\* A set of numbers up to n + 1 has n + 1 as its greatest or is one up to n.
LEMMA LastOfInterval ==
  ASSUME NEW n \in Nat, NEW s \in SUBSET (1..n + 1)
  PROVE  /\ n + 1 \in s => Max(s) = n + 1
         /\ n + 1 \notin s => s \in SUBSET (1..n)
  <1>1. ASSUME n + 1 \in s PROVE Max(s) = n + 1
    <2>1. \A y \in s : n + 1 >= y
      OBVIOUS
    <2>2. \A x \in s : (\A y \in s : x >= y) => x = n + 1
      BY <1>1, <2>1
    <2> QED BY <1>1, <2>1, <2>2 DEF Max
  <1> QED BY <1>1

\* A step of a fold over the numbers 1 to n, with the result so far, is a function H.
\* f is the recursion MapThenFoldSet stands for, with the last number taken first.
FoldsBy(f, n, base, H) ==
    /\ DOMAIN f = SUBSET (1..n)
    /\ \A s \in SUBSET (1..n) : f[s] = IF s = {} THEN base ELSE H[<<Max(s), f[s \ {Max(s)}]>>]

\* The recursion has a solution, and its values stay in V.
LEMMA FoldExists ==
  ASSUME NEW n \in Nat, NEW V, NEW base \in V, NEW H \in [(1..n) \X V -> V]
  PROVE  \E f \in [SUBSET (1..n) -> V] : FoldsBy(f, n, base, H)
  <1> DEFINE S == {k \in 0..n : \E f \in [SUBSET (1..k) -> V] : FoldsBy(f, k, base, H)}
  <1>1. 0 \in S
    <2> DEFINE f == [s \in SUBSET (1..0) |-> base]
    <2>1. \A s \in SUBSET (1..0) : s = {}
      OBVIOUS
    <2>2. f \in [SUBSET (1..0) -> V] /\ FoldsBy(f, 0, base, H)
      BY <2>1 DEF FoldsBy
    <2> HIDE DEF f
    <2>3. \E g \in [SUBSET (1..0) -> V] : FoldsBy(g, 0, base, H)
      BY <2>2
    <2>4. 0 \in 0..n
      OBVIOUS
    <2> QED BY <2>3, <2>4
  <1>2. ASSUME NEW k \in 1..n, k - 1 \in S PROVE k \in S
    <2>0. k \in Nat /\ k - 1 \in Nat /\ k = (k - 1) + 1
      OBVIOUS
    <2>1. PICK f \in [SUBSET (1..k - 1) -> V] : FoldsBy(f, k - 1, base, H)
      BY <1>2
    <2> DEFINE g == [s \in SUBSET (1..k) |-> IF k \in s THEN H[<<k, f[s \ {k}]>>] ELSE f[s]]
    <2>2. \A s \in SUBSET (1..k) : s \ {k} \in SUBSET (1..k - 1)
      BY <2>0
    <2>3. \A s \in SUBSET (1..k) : k \notin s => s \in SUBSET (1..k - 1)
      BY <2>0
    <2>4. g \in [SUBSET (1..k) -> V]
      BY <2>1, <2>2, <2>3
    <2>5. ASSUME NEW s \in SUBSET (1..k)
          PROVE  g[s] = IF s = {} THEN base ELSE H[<<Max(s), g[s \ {Max(s)}]>>]
      <3>1. CASE k \in s
        <4>1. Max(s) = k
          BY <2>0, <3>1, LastOfInterval
        <4>2. g[s \ {k}] = f[s \ {k}]
          BY <2>2
        <4> QED BY <3>1, <4>1, <4>2
      <3>2. CASE k \notin s
        <4>1. s \in SUBSET (1..k - 1)
          BY <2>3, <3>2
        <4>2. f[s] = IF s = {} THEN base ELSE H[<<Max(s), f[s \ {Max(s)}]>>]
          BY <2>1, <4>1 DEF FoldsBy
        <4>3. g[s \ {Max(s)}] = f[s \ {Max(s)}]
          <5>1. s \ {Max(s)} \in SUBSET (1..k) /\ k \notin s \ {Max(s)}
            BY <3>2
          <5> QED BY <5>1
        <4> QED BY <3>2, <4>2, <4>3
      <3> QED BY <3>1, <3>2
    <2> HIDE DEF g
    <2>6. FoldsBy(g, k, base, H)
      BY <2>4, <2>5 DEF FoldsBy
    <2> QED BY <2>4, <2>6
  <1>3. 0..n \subseteq S
    <2> HIDE DEF S
    <2> QED BY <1>1, <1>2, UpTo
  <1>4. n \in S
    <2>1. n \in 0..n
      OBVIOUS
    <2> HIDE DEF S
    <2> QED BY <1>3, <2>1
  <1> QED BY <1>4

\* The greatest of a set of numbers is one of them, and that of 1..k is k.
LEMMA LastOf ==
  ASSUME NEW n \in Nat
  PROVE  /\ \A s \in SUBSET (1..n) : s # {} => Max(s) \in s
         /\ \A k \in 1..n : Max(1..k) = k /\ (1..k) \ {k} = 1..k - 1
  <1>1. ASSUME NEW s \in SUBSET (1..n), s # {} PROVE Max(s) \in s
    <2> DEFINE T == {n - k : k \in s}
    <2>1. T \in SUBSET Nat /\ T # {}
      <3>1. \A k \in s : n - k \in Nat
        OBVIOUS
      <3> QED BY <1>1, <3>1
    <2>2. PICK x \in T : \A y \in T : x <= y
      <3> HIDE DEF T
      <3> QED BY <2>1, LeastNumber
    <2>3. PICK k \in s : x = n - k
      BY <2>2
    <2>4. \A y \in s : k >= y
      <3> TAKE y \in s
      <3>1. n - k <= n - y
        BY <2>2, <2>3
      <3>2. y \in Nat /\ k \in Nat
        OBVIOUS
      <3> QED BY <3>1, <3>2
    <2> QED BY <2>4 DEF Max
  <1>2. ASSUME NEW k \in 1..n PROVE Max(1..k) = k /\ (1..k) \ {k} = 1..k - 1
    <2>1. k \in 1..k /\ \A y \in 1..k : k >= y
      OBVIOUS
    <2>2. \A x \in 1..k : (\A y \in 1..k : x >= y) => x = k
      BY <2>1
    <2>3. Max(1..k) = k
      BY <2>1, <2>2 DEF Max
    <2> QED BY <2>3
  <1> QED BY <1>1, <1>2

\* A function on the first n numbers is a list of n.
LEMMA FunctionsAreLists == ASSUME NEW n \in Nat, NEW S, NEW f \in [1..n -> S] PROVE f \in Seq(S) /\ Len(f) = n
  OBVIOUS

-----------------------------------------------------------------------------
(* Lists of findings.  Sorting and appending neither lose a finding nor      *)
(* change how many there are of a severity.                                  *)

Of(list, severity) == {i \in DOMAIN list : list[i].severity = severity}
Same(a, b) ==
    /\ Len(a) = Len(b) /\ Found(a) = Found(b)
    /\ \A severity : Cardinality(Of(a, severity)) = Cardinality(Of(b, severity))
InOrder(list) == \A i, j \in DOMAIN list : i < j => Rank(list[i].severity) <= Rank(list[j].severity)

\* The findings of one severity can be counted.
LEMMA CountsAreNumbers ==
    ASSUME NEW S, NEW list \in Seq(S), NEW severity
    PROVE  IsFiniteSet(Of(list, severity)) /\ Cardinality(Of(list, severity)) \in Nat
  <1>1. Of(list, severity) \subseteq 1..Len(list) /\ Len(list) \in Nat
    BY DEF Of
  <1>2. IsFiniteSet(1..Len(list))
    BY <1>1, FS_Interval
  <1>3. IsFiniteSet(Of(list, severity))
    BY <1>1, <1>2, FS_Subset
  <1> QED BY <1>3, FS_CardinalityType

\* A set of positions with all before them is an interval.
LEMMA FromTheStart ==
    ASSUME NEW n \in Nat, NEW S \in SUBSET (1..n), \A i \in S, j \in 1..n : j <= i => j \in S
    PROVE  Cardinality(S) \in 0..n /\ S = 1..Cardinality(S)
  <1>1. CASE S = {}
    <2>1. Cardinality(S) = 0 /\ 1..0 = {}
      BY <1>1, FS_EmptySet
    <2> QED BY <1>1, <2>1
  <1>2. CASE S # {}
    <2> DEFINE T == {n - k : k \in S}
    <2>1. T \in SUBSET Nat /\ T # {}
      <3>1. \A k \in S : n - k \in Nat
        OBVIOUS
      <3> QED BY <1>2, <3>1
    <2>2. PICK t \in T : \A y \in T : t <= y
      <3> HIDE DEF T
      <3> QED BY <2>1, LeastNumber
    <2>3. PICK m \in S : t = n - m
      BY <2>2
    <2>6. \A k \in S : k <= m
      <3> TAKE k \in S
      <3>1. n - m <= n - k
        BY <2>2, <2>3
      <3>2. k \in Nat /\ m \in Nat
        OBVIOUS
      <3> QED BY <3>1, <3>2
    <2>4. S = 1..m /\ m \in 1..n
      <3> HIDE DEF T
      <3>1. m \in 1..n
        OBVIOUS
      <3>2. \A k \in S : k \in 1..m
        BY <2>6, <3>1
      <3>3. \A j \in 1..m : j \in S
        BY <3>1
      <3> QED BY <3>1, <3>2, <3>3
    <2>5. Cardinality(1..m) = m
      BY <2>4, FS_Interval
    <2> QED BY <2>4, <2>5
  <1> QED BY <1>1, <1>2

\* One list behind another, place by place.
LEMMA Concatenated ==
    ASSUME NEW F, NEW a \in Seq(F), NEW b \in Seq(F)
    PROVE  /\ a \o b \in Seq(F) /\ Len(a \o b) = Len(a) + Len(b)
           /\ \A i \in 1..Len(a) + Len(b) : (a \o b)[i] = IF i <= Len(a) THEN a[i] ELSE b[i - Len(a)]
  OBVIOUS

\* One finding more, wherever it is put.
Placed(F, r, s, k, f) ==
    /\ r \in Seq(F) /\ Len(r) = Len(s) + 1
    /\ \A i \in 1..Len(s) + 1 : r[i] = IF i <= k THEN s[i] ELSE IF i = k + 1 THEN f ELSE s[i - 1]

\* InsertAt shifts what is behind the place.
LEMMA PutIn ==
    ASSUME NEW F, NEW s \in Seq(F), NEW f \in F, NEW k \in 0..Len(s), NEW r, r = InsertAt(s, k + 1, f)
    PROVE  Placed(F, r, s, k, f)
  <1> DEFINE a == SubSeq(s, 1, k)
             b == SubSeq(s, k + 1, Len(s))
  <1>1. Len(s) \in Nat /\ k \in Nat /\ k <= Len(s) /\ (k + 1) - 1 = k
    OBVIOUS
  <1>2. a \in Seq(F) /\ Len(a) = k /\ \A i \in 1..k : a[i] = s[i]
    BY <1>1
  <1>3. b \in Seq(F) /\ Len(b) = Len(s) - k /\ \A i \in 1..Len(s) - k : b[i] = s[k + i]
    BY <1>1
  <1>4. r = a \o <<f>> \o b
    BY <1>1 DEF InsertAt
  <1> HIDE DEF a, b
  <1>5. PICK c : c = a \o <<f>>
    OBVIOUS
  <1>6. c \in Seq(F) /\ Len(c) = k + 1 /\ \A i \in 1..k + 1 : c[i] = IF i <= k THEN s[i] ELSE f
    BY <1>1, <1>2, <1>5
  <1>7. r = c \o b
    BY <1>4, <1>5
  <1>11. /\ c \o b \in Seq(F) /\ Len(c \o b) = Len(c) + Len(b)
         /\ \A i \in 1..Len(c) + Len(b) : (c \o b)[i] = IF i <= Len(c) THEN c[i] ELSE b[i - Len(c)]
    BY <1>3, <1>6, Concatenated
  <1>12. Len(c) + Len(b) = Len(s) + 1
    BY <1>1, <1>3, <1>6
  <1>8. r \in Seq(F) /\ Len(r) = Len(s) + 1
    BY <1>7, <1>11, <1>12
  <1>9. \A i \in 1..Len(s) + 1 : r[i] = IF i <= k + 1 THEN c[i] ELSE b[i - (k + 1)]
    BY <1>6, <1>7, <1>11, <1>12
  <1>10. ASSUME NEW i \in 1..Len(s) + 1
         PROVE  r[i] = IF i <= k THEN s[i] ELSE IF i = k + 1 THEN f ELSE s[i - 1]
    <2>1. CASE i <= k + 1
      BY <1>1, <1>6, <1>9, <2>1
    <2>2. CASE i > k + 1
      <3>1. i - (k + 1) \in 1..Len(s) - k /\ k + (i - (k + 1)) = i - 1
        BY <1>1, <2>2
      <3>2. r[i] = b[i - (k + 1)]
        BY <1>1, <1>9, <2>2
      <3>3. r[i] = s[i - 1]
        BY <1>3, <3>1, <3>2
      <3> QED BY <1>1, <2>2, <3>3
    <2> QED BY <1>1, <2>1, <2>2
  <1> QED BY <1>8, <1>10 DEF Placed

OneMoreIn(r, s, f, severity) ==
    /\ Found(r) = Found(s) \cup {f}
    /\ f.severity = severity => Cardinality(Of(r, severity)) = Cardinality(Of(s, severity)) + 1
    /\ f.severity # severity => Cardinality(Of(r, severity)) = Cardinality(Of(s, severity))

\* InsertAt adds one to the count of one severity.
LEMMA CountPutIn ==
    ASSUME NEW F, NEW s \in Seq(F), NEW f \in F, NEW k \in 0..Len(s), NEW r, r = InsertAt(s, k + 1, f),
           NEW severity
    PROVE  OneMoreIn(r, s, f, severity)
  <1> PICK n \in Nat : n = Len(s)
    OBVIOUS
  <1>1. /\ DOMAIN s = 1..n /\ DOMAIN r = 1..n + 1 /\ k \in 0..n
        /\ \A i \in 1..n + 1 : r[i] = IF i <= k THEN s[i] ELSE IF i = k + 1 THEN f ELSE s[i - 1]
    <2>1. Placed(F, r, s, k, f)
      BY PutIn
    <2> QED BY <2>1 DEF Placed
  <1> DEFINE g == [i \in Of(s, severity) |-> IF i <= k THEN i ELSE i + 1]
             Image == Of(r, severity) \ {k + 1}
  <1>2. \A i \in 1..n : LET j == IF i <= k THEN i ELSE i + 1
                        IN  j \in 1..n + 1 /\ j # k + 1 /\ r[j] = s[i]
    BY <1>1
  <1>3. \A j \in 1..n + 1 : j # k + 1 =>
            \E i \in 1..n : j = (IF i <= k THEN i ELSE i + 1) /\ r[j] = s[i]
    <2> SUFFICES ASSUME NEW j \in 1..n + 1, j # k + 1
                 PROVE  \E i \in 1..n : j = (IF i <= k THEN i ELSE i + 1) /\ r[j] = s[i]
      OBVIOUS
    <2>1. CASE j <= k
      BY <1>1, <2>1
    <2>2. CASE j > k + 1
      <3>1. j - 1 \in 1..n /\ ~(j - 1 <= k) /\ (j - 1) + 1 = j
        BY <1>1, <2>2
      <3>2. r[j] = s[j - 1]
        BY <1>1, <2>2
      <3> QED BY <3>1, <3>2
    <2> QED BY <1>1, <2>1, <2>2
  <1>4. g \in Bijection(Of(s, severity), Image)
    <2>1. g \in [Of(s, severity) -> Image]
      BY <1>1, <1>2 DEF Of
    <2>2. \A i, j \in DOMAIN g : g[i] = g[j] => i = j
      BY <1>1 DEF Of
    <2>3. \A t \in Image : \E i \in Of(s, severity) : g[i] = t
      <3> SUFFICES ASSUME NEW t \in Image PROVE \E i \in Of(s, severity) : g[i] = t
        OBVIOUS
      <3>1. t \in 1..n + 1 /\ t # k + 1 /\ r[t].severity = severity
        BY <1>1 DEF Of
      <3>2. PICK i \in 1..n : t = (IF i <= k THEN i ELSE i + 1) /\ r[t] = s[i]
        BY <1>3, <3>1
      <3>3. i \in Of(s, severity)
        BY <1>1, <3>1, <3>2 DEF Of
      <3> QED BY <3>2, <3>3
    <2> HIDE DEF g, Image
    <2> QED BY <2>1, <2>2, <2>3 DEF Bijection, Injection, Surjection, IsInjective
  <1>5. IsFiniteSet(Of(s, severity)) /\ Cardinality(Of(s, severity)) \in Nat
    BY CountsAreNumbers
  <1>6. IsFiniteSet(Image) /\ Cardinality(Image) = Cardinality(Of(s, severity))
    <2>1. ExistsBijection(Of(s, severity), Image)
      BY <1>4 DEF ExistsBijection
    <2> HIDE DEF Image
    <2> QED BY <1>5, <2>1, FS_Bijection
  <1>7. k + 1 \in 1..n + 1 /\ r[k + 1] = f
    BY <1>1
  <1>8. ASSUME f.severity = severity PROVE Cardinality(Of(r, severity)) = Cardinality(Of(s, severity)) + 1
    <2>1. Of(r, severity) = Image \cup {k + 1} /\ k + 1 \notin Image
      BY <1>1, <1>7, <1>8 DEF Of
    <2> HIDE DEF Image
    <2>2. Cardinality(Of(r, severity)) = Cardinality(Of(s, severity)) + 1
      BY <1>6, <2>1, FS_AddElement
    <2> QED BY <2>2
  <1>9. ASSUME f.severity # severity PROVE Cardinality(Of(r, severity)) = Cardinality(Of(s, severity))
    <2>1. Of(r, severity) = Image
      BY <1>1, <1>7, <1>9 DEF Of
    <2> QED BY <1>6, <2>1
  <1>10. Found(r) = Found(s) \cup {f}
    <2>1. \A i \in DOMAIN s : \E j \in DOMAIN r : r[j] = s[i]
      BY <1>1, <1>2
    <2>2. \A j \in DOMAIN r : r[j] = f \/ \E i \in DOMAIN s : r[j] = s[i]
      BY <1>1, <1>3, <1>7
    <2> QED BY <1>1, <1>7, <2>1, <2>2 DEF Found
  <1> QED BY <1>8, <1>9, <1>10 DEF OneMoreIn

\* Lists of the same findings are so in turn.
LEMMA SameIsTransitive ==
    ASSUME NEW a, NEW b, NEW c, Same(a, b), Same(b, c)
    PROVE  Same(a, c) /\ Same(b, a)
  BY DEF Same

PointsLeft(critical, high, medium, low, info) ==
    LET left == 100 - (DefaultScoring["critical"] * critical + DefaultScoring["high"] * high
                        + DefaultScoring["medium"] * medium + DefaultScoring["low"] * low
                        + DefaultScoring["info"] * info)
    IN  IF left < 0 THEN 0 ELSE left

\* Lists of the same findings have one score.
LEMMA SameScore == ASSUME NEW a, NEW b, Same(a, b) PROVE Score(a) = Score(b)
  <1>1. /\ Cardinality(Of(a, "critical")) = Cardinality(Of(b, "critical"))
        /\ Cardinality(Of(a, "high")) = Cardinality(Of(b, "high"))
        /\ Cardinality(Of(a, "medium")) = Cardinality(Of(b, "medium"))
        /\ Cardinality(Of(a, "low")) = Cardinality(Of(b, "low"))
        /\ Cardinality(Of(a, "info")) = Cardinality(Of(b, "info"))
    BY DEF Same
  <1>2. \A list : Score(list) = PointsLeft(Cardinality(Of(list, "critical")), Cardinality(Of(list, "high")),
                         Cardinality(Of(list, "medium")), Cardinality(Of(list, "low")), Cardinality(Of(list, "info")))
    BY DEF Of, Score, ScoreBy, PointsLeft
  <1> QED BY <1>1, <1>2

\* Lists of the same findings stay so when both get one more, wherever.
LEMMA SameAfterPut ==
    ASSUME NEW F, NEW s \in Seq(F), NEW t \in Seq(F), NEW f \in F, NEW k \in 0..Len(s), NEW l \in 0..Len(t),
           Same(s, t)
    PROVE  Same(InsertAt(s, k + 1, f), InsertAt(t, l + 1, f))
  <1> PICK a : a = InsertAt(s, k + 1, f)
    OBVIOUS
  <1> PICK b : b = InsertAt(t, l + 1, f)
    OBVIOUS
  <1>1. Len(a) = Len(s) + 1 /\ Found(a) = Found(s) \cup {f}
    <2>1. Placed(F, a, s, k, f)
      BY PutIn
    <2>2. OneMoreIn(a, s, f, f.severity)
      BY CountPutIn
    <2> QED BY <2>1, <2>2 DEF Placed, OneMoreIn
  <1>4. Len(b) = Len(t) + 1 /\ Found(b) = Found(t) \cup {f}
    <2>1. Placed(F, b, t, l, f)
      BY PutIn
    <2>2. OneMoreIn(b, t, f, f.severity)
      BY CountPutIn
    <2> QED BY <2>1, <2>2 DEF Placed, OneMoreIn
  <1>2. ASSUME NEW severity PROVE Cardinality(Of(a, severity)) = Cardinality(Of(b, severity))
    <2>1. Cardinality(Of(s, severity)) = Cardinality(Of(t, severity))
      BY DEF Same
    <2>2. CASE f.severity = severity
      <3>1. Cardinality(Of(a, severity)) = Cardinality(Of(s, severity)) + 1
        <4>1. OneMoreIn(a, s, f, severity)
          BY CountPutIn
        <4> QED BY <2>2, <4>1 DEF OneMoreIn
      <3>2. Cardinality(Of(b, severity)) = Cardinality(Of(t, severity)) + 1
        <4>1. OneMoreIn(b, t, f, severity)
          BY CountPutIn
        <4> QED BY <2>2, <4>1 DEF OneMoreIn
      <3> QED BY <2>1, <3>1, <3>2
    <2>3. CASE f.severity # severity
      <3>1. Cardinality(Of(a, severity)) = Cardinality(Of(s, severity))
        <4>1. OneMoreIn(a, s, f, severity)
          BY CountPutIn
        <4> QED BY <2>3, <4>1 DEF OneMoreIn
      <3>2. Cardinality(Of(b, severity)) = Cardinality(Of(t, severity))
        <4>1. OneMoreIn(b, t, f, severity)
          BY CountPutIn
        <4> QED BY <2>3, <4>1 DEF OneMoreIn
      <3> QED BY <2>1, <3>1, <3>2
    <2> QED BY <2>2, <2>3
  <1>3. Len(s) = Len(t) /\ Found(s) = Found(t)
    BY DEF Same
  <1> QED BY <1>1, <1>2, <1>3, <1>4 DEF Same

\* At the end.
LEMMA PutLast ==
    ASSUME NEW F, NEW s \in Seq(F), NEW f \in F
    PROVE  InsertAt(s, Len(s) + 1, f) = Append(s, f)
  <1> PICK n \in Nat : n = Len(s)
    OBVIOUS
  <1> PICK r : r = InsertAt(s, n + 1, f)
    OBVIOUS
  <1>1. /\ r \in Seq(F) /\ Len(r) = n + 1
        /\ \A i \in 1..n + 1 : r[i] = IF i <= n THEN s[i] ELSE IF i = n + 1 THEN f ELSE s[i - 1]
    <2>1. n \in 0..Len(s)
      OBVIOUS
    <2>2. Placed(F, r, s, n, f)
      BY <2>1, PutIn
    <2> QED BY <2>2 DEF Placed
  <1>2. Append(s, f) \in Seq(F) /\ Len(Append(s, f)) = n + 1
        /\ \A i \in 1..n + 1 : Append(s, f)[i] = IF i <= n THEN s[i] ELSE f
    OBVIOUS
  <1>3. \A i \in 1..n + 1 : r[i] = Append(s, f)[i]
    BY <1>1, <1>2
  <1> QED BY <1>1, <1>2, <1>3

\* Findings of whatever form, with a severity of the scale.
Ranked(E) == \A f \in E : Rank(f.severity) \in 1..5

\* Inserted puts a finding behind all that are as severe, and keeps the order.
LEMMA InsertedInOrder ==
    ASSUME NEW E, Ranked(E), NEW s \in Seq(E), NEW f \in E, InOrder(s)
    PROVE  /\ \E k \in 0..Len(s) : /\ Inserted(s, f) = InsertAt(s, k + 1, f)
                                   /\ \A i \in k + 1..Len(s) : Rank(f.severity) < Rank(s[i].severity)
           /\ InOrder(Inserted(s, f))
           /\ Inserted(s, f) \in Seq(E)
  <1> PICK n \in Nat : n = Len(s)
    OBVIOUS
  <1> DEFINE S == {i \in DOMAIN s : Rank(s[i].severity) <= Rank(f.severity)}
  <1>0. DOMAIN s = 1..n /\ \A i \in 1..n : s[i] \in E
    OBVIOUS
  <1>1. \A i \in 1..n : Rank(s[i].severity) \in Nat
    BY <1>0 DEF Ranked
  <1>2. Rank(f.severity) \in Nat
    BY DEF Ranked
  <1>3. S \in SUBSET (1..n)
    BY <1>0
  <1>4. \A i \in S, j \in 1..n : j <= i => j \in S
    <2> SUFFICES ASSUME NEW i \in S, NEW j \in 1..n, j <= i PROVE j \in S
      OBVIOUS
    <2>1. i \in 1..n /\ Rank(s[i].severity) <= Rank(f.severity)
      BY <1>0
    <2>2. Rank(s[j].severity) <= Rank(s[i].severity)
      <3>1. CASE j = i
        BY <1>1, <3>1
      <3>2. CASE j < i
        BY <1>0, <2>1, <3>2 DEF InOrder
      <3> QED BY <2>1, <3>1, <3>2
    <2>3. Rank(s[j].severity) <= Rank(f.severity)
      BY <1>1, <1>2, <2>1, <2>2
    <2> QED BY <1>0, <2>3
  <1>5. PICK k \in 0..n : k = Cardinality(S) /\ S = 1..k
    <2> HIDE DEF S
    <2> QED BY <1>3, <1>4, FromTheStart
  <1> PICK r : r = InsertAt(s, k + 1, f)
    OBVIOUS
  <1>6. r = Inserted(s, f)
    BY <1>5 DEF Inserted
  <1>7. /\ r \in Seq(E) /\ Len(r) = n + 1
        /\ \A i \in 1..n + 1 : r[i] = IF i <= k THEN s[i] ELSE IF i = k + 1 THEN f ELSE s[i - 1]
    <2>1. k \in 0..Len(s)
      OBVIOUS
    <2>2. Placed(E, r, s, k, f)
      BY <2>1, PutIn
    <2> QED BY <2>2 DEF Placed
  <1>8. \A i \in 1..n : IF i <= k THEN Rank(s[i].severity) <= Rank(f.severity)
                        ELSE Rank(f.severity) <= Rank(s[i].severity)
    <2> TAKE i \in 1..n
    <2>1. i \in S <=> i <= k
      BY <1>5
    <2> QED BY <1>0, <1>1, <1>2, <2>1
  <1>9. \A i, j \in 1..n : i < j => Rank(s[i].severity) <= Rank(s[j].severity)
    BY <1>0 DEF InOrder
  <1>12. \A i \in k + 1..n : Rank(f.severity) < Rank(s[i].severity)
    <2> TAKE i \in k + 1..n
    <2>1. i \in 1..n /\ ~(i <= k)
      OBVIOUS
    <2>2. i \in S <=> i <= k
      BY <1>5, <2>1
    <2> QED BY <1>0, <1>1, <1>2, <2>1, <2>2
  <1> HIDE DEF S
  <1>10. ASSUME NEW i \in 1..n + 1, NEW j \in 1..n + 1, i < j
         PROVE  Rank(r[i].severity) <= Rank(r[j].severity)
    <2>1. CASE j <= k
      BY <1>7, <1>9, <1>10, <2>1
    <2>2. CASE j = k + 1
      <3>1. i \in 1..n /\ i <= k /\ r[i] = s[i] /\ r[j] = f
        BY <1>7, <1>10, <2>2
      <3> QED BY <1>8, <3>1
    <2>3. CASE j > k + 1
      <3>1. j - 1 \in 1..n /\ ~(j - 1 <= k) /\ r[j] = s[j - 1]
        BY <1>7, <1>10, <2>3
      <3>2. CASE i <= k
        <4>1. i \in 1..n /\ r[i] = s[i] /\ i < j - 1
          BY <1>7, <1>10, <2>3, <3>2
        <4> QED BY <1>9, <3>1, <4>1
      <3>3. CASE i = k + 1
        <4>1. r[i] = f
          BY <1>7, <1>10, <3>3
        <4> QED BY <1>8, <3>1, <4>1
      <3>4. CASE i > k + 1
        <4>1. i - 1 \in 1..n /\ r[i] = s[i - 1] /\ i - 1 < j - 1
          BY <1>7, <1>10, <3>4
        <4> QED BY <1>9, <3>1, <4>1
      <3> QED BY <3>2, <3>3, <3>4
    <2> QED BY <2>1, <2>2, <2>3
  <1>11. InOrder(r)
    <2>1. DOMAIN r = 1..n + 1
      BY <1>7
    <2> QED BY <1>10, <2>1 DEF InOrder
  <1> QED BY <1>6, <1>7, <1>11, <1>12

\* The loop of BySeverity.
OrderedLists(E) == {s \in Seq(E) : InOrder(s)}
SortLoop(f, list) ==
    f = [s \in SUBSET DOMAIN list |-> IF s = {} THEN <<>> ELSE Inserted(f[s \ {Max(s)}], list[Max(s)])]

\* What BySeverity has sorted up to each finding.
SortedUpTo(g, E, list) ==
    /\ g \in [0..Len(list) -> OrderedLists(E)] /\ g[0] = <<>> /\ BySeverity(list) = g[Len(list)]
    /\ \A k \in 1..Len(list) : g[k] = Inserted(g[k - 1], list[k])

\* BySeverity inserts one finding after the other.
LEMMA SortInTurn ==
    ASSUME NEW E, Ranked(E), NEW list \in Seq(E)
    PROVE  \E g : SortedUpTo(g, E, list)
  <1> DEFINE H == [p \in (1..Len(list)) \X OrderedLists(E) |-> Inserted(p[2], list[p[1]])]
             F == CHOOSE f : SortLoop(f, list)
  <1> PICK n \in Nat : n = Len(list)
    OBVIOUS
  <1>1. DOMAIN list = 1..n /\ \A k \in 1..n : list[k] \in E
    OBVIOUS
  <1>2. \A s \in OrderedLists(E), f \in E : Inserted(s, f) \in OrderedLists(E)
    BY InsertedInOrder DEF OrderedLists
  <1>3. H \in [(1..n) \X OrderedLists(E) -> OrderedLists(E)]
    <2> SUFFICES ASSUME NEW k \in 1..n, NEW s \in OrderedLists(E) PROVE Inserted(s, list[k]) \in OrderedLists(E)
      OBVIOUS
    <2> QED BY <1>1, <1>2
  <1>4. <<>> \in OrderedLists(E)
    BY DEF OrderedLists, InOrder
  <1>5. PICK f \in [SUBSET (1..n) -> OrderedLists(E)] : FoldsBy(f, n, <<>>, H)
    <2> HIDE DEF H
    <2> QED BY <1>3, <1>4, FoldExists
  <1>6. \A s \in SUBSET (1..n) : s # {} => Max(s) \in 1..n /\ s \ {Max(s)} \in SUBSET (1..n)
    BY LastOf
  <1>7. \A s \in SUBSET (1..n) : f[s] = IF s = {} THEN <<>> ELSE Inserted(f[s \ {Max(s)}], list[Max(s)])
    BY <1>5, <1>6 DEF FoldsBy
  <1>8. SortLoop(f, list)
    BY <1>1, <1>5, <1>7 DEF SortLoop
  <1>9. SortLoop(F, list)
    BY <1>8
  <1>10. BySeverity(list) = F[DOMAIN list]
    BY DEF BySeverity, FoldLeft, MapThenFoldSet, SortLoop
  <1> HIDE DEF F, H
  <1>11. F[1..0] = <<>>
    <2>1. 1..0 = {}
      OBVIOUS
    <2> QED BY <1>9, <2>1 DEF SortLoop
  <1>12. ASSUME NEW k \in 1..n PROVE F[1..k] = Inserted(F[1..k - 1], list[k])
    <2>1. 1..k \in SUBSET DOMAIN list /\ k \in 1..k
      BY <1>1
    <2>2. Max(1..k) = k /\ (1..k) \ {k} = 1..k - 1
      BY LastOf
    <2>3. F[1..k] = Inserted(F[(1..k) \ {Max(1..k)}], list[Max(1..k)])
      BY <1>9, <2>1 DEF SortLoop
    <2> QED BY <2>2, <2>3
  <1> DEFINE S == {k \in 0..n : F[1..k] \in OrderedLists(E)}
  <1>13. 0..n \subseteq S
    <2>1. 0 \in S
      BY <1>4, <1>11
    <2>2. ASSUME NEW k \in 1..n, k - 1 \in S PROVE k \in S
      BY <1>1, <1>2, <1>12, <2>2
    <2> HIDE DEF S
    <2> QED BY <2>1, <2>2, UpTo
  <1> DEFINE g == [k \in 0..n |-> F[1..k]]
  <1>14. g \in [0..n -> OrderedLists(E)] /\ g[0] = <<>> /\ BySeverity(list) = g[n]
    BY <1>1, <1>10, <1>11, <1>13
  <1>15. \A k \in 1..n : g[k] = Inserted(g[k - 1], list[k])
    <2> TAKE k \in 1..n
    <2>1. k \in 0..n /\ k - 1 \in 0..n
      OBVIOUS
    <2> QED BY <1>12, <2>1
  <1> HIDE DEF g
  <1> QED BY <1>14, <1>15 DEF SortedUpTo

\* BySeverity puts the same findings in order.
LEMMA SortedBySeverity ==
    ASSUME NEW E, Ranked(E), NEW list \in Seq(E)
    PROVE  BySeverity(list) \in Seq(E) /\ InOrder(BySeverity(list)) /\ Same(BySeverity(list), list)
  <1> PICK n \in Nat : n = Len(list)
    OBVIOUS
  <1>1. DOMAIN list = 1..n /\ \A k \in 1..n : list[k] \in E
    OBVIOUS
  <1>2. \A s \in OrderedLists(E), f \in E : Inserted(s, f) \in OrderedLists(E)
    BY InsertedInOrder DEF OrderedLists
  <1>4. <<>> \in OrderedLists(E)
    BY DEF OrderedLists, InOrder
  <1>5. PICK g : SortedUpTo(g, E, list)
    BY SortInTurn
  <1>11. g[0] = <<>> /\ BySeverity(list) = g[n] /\ \A k \in 1..n : g[k] = Inserted(g[k - 1], list[k])
    BY <1>5 DEF SortedUpTo
  <1> DEFINE S == {k \in 0..n : g[k] \in OrderedLists(E) /\ Same(g[k], SubSeq(list, 1, k))}
  <1>13. 0 \in S
    <2>1. SubSeq(list, 1, 0) = <<>>
      OBVIOUS
    <2>2. Same(<<>>, <<>>)
      BY DEF Same
    <2>3. 0 \in 0..n
      OBVIOUS
    <2>4. Same(g[0], SubSeq(list, 1, 0))
      BY <1>11, <2>1, <2>2
    <2> QED BY <1>4, <1>11, <2>3, <2>4
  <1>14. ASSUME NEW k \in 1..n, k - 1 \in S PROVE k \in S
    <2> PICK s : s = g[k - 1]
      OBVIOUS
    <2> PICK t : t = SubSeq(list, 1, k - 1)
      OBVIOUS
    <2>1. s \in Seq(E) /\ InOrder(s) /\ Same(s, t)
      BY <1>14 DEF OrderedLists
    <2>2. list[k] \in E /\ k - 1 \in 0..n
      BY <1>1
    <2>3. t \in Seq(E) /\ Len(t) = k - 1
      BY <2>2
    <2>4. PICK l \in 0..Len(s) : Inserted(s, list[k]) = InsertAt(s, l + 1, list[k])
      BY <2>1, <2>2, InsertedInOrder
    <2>5. Same(InsertAt(s, l + 1, list[k]), InsertAt(t, (k - 1) + 1, list[k]))
      <3>1. k - 1 \in 0..Len(t)
        BY <2>2, <2>3
      <3> QED BY <2>1, <2>2, <2>3, <3>1, SameAfterPut
    <2>6. InsertAt(t, (k - 1) + 1, list[k]) = Append(t, list[k])
      BY <2>2, <2>3, PutLast
    <2>7. Append(t, list[k]) = SubSeq(list, 1, k)
      BY <2>2
    <2>8. g[k] = Inserted(s, list[k])
      BY <1>11
    <2>9. g[k] \in OrderedLists(E)
      BY <1>2, <2>1, <2>2, <2>8 DEF OrderedLists
    <2>10. Same(g[k], SubSeq(list, 1, k))
      BY <2>4, <2>5, <2>6, <2>7, <2>8
    <2> QED BY <2>9, <2>10
  <1>15. n \in S
    <2>1. n \in 0..n
      OBVIOUS
    <2>2. 0..n \subseteq S
      <3> HIDE DEF S
      <3> QED BY <1>13, <1>14, UpTo
    <2> HIDE DEF S
    <2> QED BY <2>1, <2>2
  <1>16. SubSeq(list, 1, n) = list
    OBVIOUS
  <1> QED BY <1>1, <1>11, <1>15, <1>16 DEF OrderedLists

\* The positions of a list behind another.
LEMMA CountBehind ==
    ASSUME NEW F, NEW a \in Seq(F), NEW b \in Seq(F), NEW severity
    PROVE  Cardinality(Of(a \o b, severity)) = Cardinality(Of(a, severity)) + Cardinality(Of(b, severity))
  <1> PICK n \in Nat : n = Len(a)
    OBVIOUS
  <1> PICK m \in Nat : m = Len(b)
    OBVIOUS
  <1> PICK r : r = a \o b
    OBVIOUS
  <1>1. /\ DOMAIN a = 1..n /\ DOMAIN b = 1..m /\ DOMAIN r = 1..n + m
        /\ \A i \in 1..n + m : r[i] = IF i <= n THEN a[i] ELSE b[i - n]
    <2>1. r \in Seq(F) /\ Len(r) = n + m
      BY Concatenated
    <2> QED BY <2>1, Concatenated
  <1> DEFINE A == Of(a, severity)
             B == Of(b, severity)
             Moved == Of(r, severity) \ (1..n)
             g == [j \in B |-> n + j]
  <1>2. g \in Bijection(B, Moved)
    <2>1. g \in [B -> Moved]
      <3> SUFFICES ASSUME NEW j \in B PROVE n + j \in Moved
        OBVIOUS
      <3>1. j \in 1..m /\ b[j].severity = severity
        BY <1>1 DEF Of
      <3>2. n + j \in 1..n + m /\ ~(n + j <= n) /\ (n + j) - n = j
        BY <3>1
      <3>3. r[n + j] = b[j]
        BY <1>1, <3>2
      <3> QED BY <1>1, <3>1, <3>2, <3>3 DEF Of
    <2>2. \A i, j \in DOMAIN g : g[i] = g[j] => i = j
      BY <1>1 DEF Of
    <2>3. \A t \in Moved : \E j \in B : g[j] = t
      <3> SUFFICES ASSUME NEW t \in Moved PROVE \E j \in B : g[j] = t
        OBVIOUS
      <3>1. t \in 1..n + m /\ r[t].severity = severity /\ ~(t <= n)
        BY <1>1 DEF Of
      <3>2. t - n \in 1..m /\ n + (t - n) = t /\ r[t] = b[t - n]
        BY <1>1, <3>1
      <3>3. t - n \in B
        BY <1>1, <3>1, <3>2 DEF Of
      <3> QED BY <3>2, <3>3
    <2> HIDE DEF g, B, Moved
    <2> QED BY <2>1, <2>2, <2>3 DEF Bijection, Injection, Surjection, IsInjective
  <1>3. IsFiniteSet(A) /\ IsFiniteSet(B) /\ Cardinality(A) \in Nat /\ Cardinality(B) \in Nat
    BY CountsAreNumbers
  <1>4. IsFiniteSet(Moved) /\ Cardinality(Moved) = Cardinality(B)
    <2>1. ExistsBijection(B, Moved)
      BY <1>2 DEF ExistsBijection
    <2> HIDE DEF B, Moved
    <2> QED BY <1>3, <2>1, FS_Bijection
  <1>5. Of(r, severity) = A \cup Moved /\ A \cap Moved = {}
    <2>1. \A i \in 1..n : i \in 1..n + m /\ r[i] = a[i]
      BY <1>1
    <2>2. A \subseteq Of(r, severity) /\ A \subseteq 1..n
      BY <1>1, <2>1 DEF Of
    <2>3. \A i \in Of(r, severity) : i \in 1..n => i \in A
      BY <1>1, <2>1 DEF Of
    <2> HIDE DEF A
    <2> QED BY <2>2, <2>3
  <1>6. Cardinality(A \cup Moved) = Cardinality(A) + Cardinality(Moved)
    <2> HIDE DEF A, Moved
    <2>1. Cardinality(A \cap Moved) = 0
      BY <1>5, FS_EmptySet
    <2>2. Cardinality(A \cup Moved) = Cardinality(A) + Cardinality(Moved) - Cardinality(A \cap Moved)
      BY <1>3, <1>4, FS_Union
    <2> QED BY <1>3, <1>4, <2>1, <2>2
  <1> QED BY <1>4, <1>5, <1>6

\* What is found in one list or the other is found in both joined.
LEMMA FoundBehind ==
    ASSUME NEW F, NEW a \in Seq(F), NEW b \in Seq(F)
    PROVE  Found(a \o b) = Found(a) \cup Found(b)
  <1> PICK n \in Nat : n = Len(a)
    OBVIOUS
  <1> PICK m \in Nat : m = Len(b)
    OBVIOUS
  <1> PICK r : r = a \o b
    OBVIOUS
  <1>1. /\ DOMAIN a = 1..n /\ DOMAIN b = 1..m /\ DOMAIN r = 1..n + m
        /\ \A i \in 1..n + m : r[i] = IF i <= n THEN a[i] ELSE b[i - n]
    <2>1. r \in Seq(F) /\ Len(r) = n + m
      BY Concatenated
    <2> QED BY <2>1, Concatenated
  <1>2. \A i \in 1..n : i \in 1..n + m /\ r[i] = a[i]
    BY <1>1
  <1>3. \A j \in 1..m : n + j \in 1..n + m /\ r[n + j] = b[j]
    <2> TAKE j \in 1..m
    <2>1. n + j \in 1..n + m /\ ~(n + j <= n) /\ (n + j) - n = j
      OBVIOUS
    <2> QED BY <1>1, <2>1
  <1>4. \A t \in 1..n + m : (t \in 1..n /\ r[t] = a[t]) \/ (t - n \in 1..m /\ r[t] = b[t - n])
    BY <1>1
  <1>5. \A f \in Found(a) : f \in Found(r)
    BY <1>1, <1>2 DEF Found
  <1>6. \A f \in Found(b) : f \in Found(r)
    <2> TAKE f \in Found(b)
    <2>1. PICK j \in 1..m : f = b[j]
      BY <1>1 DEF Found
    <2> QED BY <1>1, <1>3, <2>1 DEF Found
  <1>7. \A f \in Found(r) : f \in Found(a) \cup Found(b)
    <2> TAKE f \in Found(r)
    <2>1. PICK t \in 1..n + m : f = r[t]
      BY <1>1 DEF Found
    <2> QED BY <1>1, <1>4, <2>1 DEF Found
  <1> QED BY <1>5, <1>6, <1>7

\* Lists of the same findings stay so with another behind them.
LEMMA SameBehind ==
    ASSUME NEW F, NEW a \in Seq(F), NEW b \in Seq(F), NEW c \in Seq(F), Same(a, b)
    PROVE  Same(a \o c, b \o c)
  <1>1. Len(a \o c) = Len(b \o c)
    <2>1. Len(a) = Len(b)
      BY DEF Same
    <2> QED BY <2>1
  <1>2. Found(a \o c) = Found(b \o c)
    <2>1. Found(a) = Found(b)
      BY DEF Same
    <2>2. Found(a \o c) = Found(a) \cup Found(c)
      BY FoundBehind
    <2>3. Found(b \o c) = Found(b) \cup Found(c)
      BY FoundBehind
    <2> QED BY <2>1, <2>2, <2>3
  <1>3. ASSUME NEW severity PROVE Cardinality(Of(a \o c, severity)) = Cardinality(Of(b \o c, severity))
    <2>1. Cardinality(Of(a, severity)) = Cardinality(Of(b, severity))
      BY DEF Same
    <2>2. Cardinality(Of(a \o c, severity)) = Cardinality(Of(a, severity)) + Cardinality(Of(c, severity))
      BY CountBehind
    <2>3. Cardinality(Of(b \o c, severity)) = Cardinality(Of(b, severity)) + Cardinality(Of(c, severity))
      BY CountBehind
    <2> QED BY <2>1, <2>2, <2>3
  <1> QED BY <1>1, <1>2, <1>3 DEF Same

-----------------------------------------------------------------------------
(* Loops over numbers.                                                      *)

\* A loop that goes through the numbers 1 to n has a result after each.
InSteps(g, n, base, H) == g[0] = base /\ \A k \in 1..n : g[k] = H[<<k, g[k - 1]>>]

\* A loop over the first n numbers has a result after each.
LEMMA ResultsInTurn ==
    ASSUME NEW n \in Nat, NEW V, NEW base \in V, NEW H \in [(1..n) \X V -> V]
    PROVE  \E g \in [0..n -> V] : InSteps(g, n, base, H)
  <1>1. PICK f \in [SUBSET (1..n) -> V] : FoldsBy(f, n, base, H)
    BY FoldExists
  <1>2. f[1..0] = base
    <2>1. 1..0 = {}
      OBVIOUS
    <2> QED BY <1>1, <2>1 DEF FoldsBy
  <1>3. ASSUME NEW k \in 1..n PROVE f[1..k] = H[<<k, f[1..k - 1]>>]
    <2>1. 1..k \in SUBSET (1..n) /\ k \in 1..k
      OBVIOUS
    <2>2. Max(1..k) = k /\ (1..k) \ {k} = 1..k - 1
      BY LastOf
    <2>3. f[1..k] = H[<<Max(1..k), f[(1..k) \ {Max(1..k)}]>>]
      BY <1>1, <2>1 DEF FoldsBy
    <2> QED BY <2>2, <2>3
  <1> DEFINE g == [k \in 0..n |-> f[1..k]]
  <1>4. g \in [0..n -> V]
    <2>1. \A k \in 0..n : 1..k \in SUBSET (1..n)
      OBVIOUS
    <2> QED BY <2>1
  <1>5. \A k \in 1..n : g[k] = H[<<k, g[k - 1]>>]
    <2> TAKE k \in 1..n
    <2>1. k \in 0..n /\ k - 1 \in 0..n
      OBVIOUS
    <2> QED BY <1>3, <2>1
  <1>6. g[0] = base
    BY <1>2
  <1> HIDE DEF g
  <1> QED BY <1>4, <1>5, <1>6 DEF InSteps

-----------------------------------------------------------------------------
(* The entries of a list at some places.                                    *)

\* What At has found up to each place.
Reached(g, E, list, places) ==
    /\ g \in [0..Len(list) -> Seq(E)] /\ g[0] = <<>> /\ At(list, places) = g[Len(list)]
    /\ \A k \in 1..Len(list) : g[k] = IF k \in places THEN Append(g[k - 1], list[k]) ELSE g[k - 1]

\* What a list has at some places, place by place.
LEMMA AtInTurn ==
    ASSUME NEW E, NEW list \in Seq(E), NEW places
    PROVE  \E g : Reached(g, E, list, places)
  <1> DEFINE V == Seq(E)
             H == [p \in (1..Len(list)) \X V |-> IF p[1] \in places THEN Append(p[2], list[p[1]]) ELSE p[2]]
             UpToBy(f) == f = [i \in 0..Len(list) |->
                IF i = 0 THEN <<>> ELSE IF i \in places THEN Append(f[i - 1], list[i]) ELSE f[i - 1]]
             F == CHOOSE f : UpToBy(f)
  <1> PICK n \in Nat : n = Len(list)
    OBVIOUS
  <1>1. \A k \in 1..n, s \in V : Append(s, list[k]) \in V
    OBVIOUS
  <1>2. <<>> \in V
    OBVIOUS
  <1>7. At(list, places) = F[n]
    BY DEF At
  <1> HIDE DEF V
  <1>3. H \in [(1..n) \X V -> V]
    BY <1>1
  <1>4. PICK g \in [0..n -> V] : InSteps(g, n, <<>>, H)
    <2> HIDE DEF H
    <2> QED BY <1>2, <1>3, ResultsInTurn
  <1>5. \A k \in 1..n : g[k] = IF k \in places THEN Append(g[k - 1], list[k]) ELSE g[k - 1]
    <2> TAKE k \in 1..n
    <2>1. k - 1 \in 0..n
      OBVIOUS
    <2>2. g[k - 1] \in V
      BY <2>1
    <2> QED BY <1>4, <2>2 DEF InSteps
  <1>6. UpToBy(g)
    <2>1. g = [i \in 0..n |-> g[i]]
      OBVIOUS
    <2>2. ASSUME NEW i \in 0..n
          PROVE  g[i] = IF i = 0 THEN <<>> ELSE IF i \in places THEN Append(g[i - 1], list[i]) ELSE g[i - 1]
      <3>1. CASE i = 0
        BY <1>4, <3>1 DEF InSteps
      <3>2. CASE i \in 1..n
        <4>1. i # 0
          BY <3>2
        <4> QED BY <1>5, <3>2, <4>1
      <3> QED BY <3>1, <3>2
    <2> QED BY <2>1, <2>2
  <1>8. UpToBy(F)
    BY <1>6
  <1> HIDE DEF F, H
  <1>9. F = [i \in 0..n |-> IF i = 0 THEN <<>> ELSE IF i \in places THEN Append(F[i - 1], list[i]) ELSE F[i - 1]]
    BY <1>8
  <1> HIDE DEF UpToBy
  <1>10. F[0] = <<>> /\ DOMAIN F = 0..n
    BY <1>9
  <1>11. ASSUME NEW k \in 1..n PROVE F[k] = IF k \in places THEN Append(F[k - 1], list[k]) ELSE F[k - 1]
    <2>1. k \in 0..n /\ k # 0
      OBVIOUS
    <2> QED BY <1>9, <2>1
  <1> DEFINE S == {k \in 0..n : F[k] \in V}
  <1>12. 0..n \subseteq S
    <2>1. 0 \in S
      BY <1>2, <1>10
    <2>2. ASSUME NEW k \in 1..n, k - 1 \in S PROVE k \in S
      BY <1>1, <1>11, <2>2
    <2> HIDE DEF S
    <2> QED BY <2>1, <2>2, UpTo
  <1>13. F \in [0..n -> V]
    <2>1. F = [k \in 0..n |-> F[k]]
      BY <1>9
    <2> QED BY <1>12, <2>1
  <1> QED BY <1>7, <1>10, <1>11, <1>13 DEF Reached, V

\* It depends on nothing behind, and on the places within the list only.
LEMMA AtOfTheFirst ==
    ASSUME NEW E, NEW list \in Seq(E), NEW places, NEW g, Reached(g, E, list, places),
           NEW s \in Seq(E), NEW t, Len(s) <= Len(list),
           \A i \in 1..Len(s) : s[i] = list[i] /\ (i \in t <=> i \in places)
    PROVE  At(s, t) = g[Len(s)]
  <1> PICK n \in Nat : n = Len(s)
    OBVIOUS
  <1>1. PICK h : Reached(h, E, s, t)
    BY AtInTurn
  <1>2. \A k \in 1..n : k \in 1..Len(list)
    OBVIOUS
  <1> DEFINE S == {k \in 0..n : h[k] = g[k]}
  <1>3. 0 \in S
    BY <1>1 DEF Reached
  <1>4. ASSUME NEW k \in 1..n, k - 1 \in S PROVE k \in S
    <2>1. h[k - 1] = g[k - 1] /\ k \in 0..n
      BY <1>4
    <2>2. h[k] = IF k \in t THEN Append(h[k - 1], s[k]) ELSE h[k - 1]
      BY <1>1 DEF Reached
    <2>3. g[k] = IF k \in places THEN Append(g[k - 1], list[k]) ELSE g[k - 1]
      BY <1>2 DEF Reached
    <2>4. s[k] = list[k] /\ (k \in t <=> k \in places)
      OBVIOUS
    <2>5. h[k] = g[k]
      BY <2>1, <2>2, <2>3, <2>4
    <2> QED BY <2>1, <2>5
  <1>5. n \in S
    <2>1. n \in 0..n
      OBVIOUS
    <2>2. 0..n \subseteq S
      <3> HIDE DEF S
      <3> QED BY <1>3, <1>4, UpTo
    <2> HIDE DEF S
    <2> QED BY <2>1, <2>2
  <1> QED BY <1>1, <1>5 DEF Reached

\* Only places within a list count.
LEMMA AtSamePlaces ==
    ASSUME NEW E, NEW list \in Seq(E), NEW s, NEW t, \A i \in 1..Len(list) : i \in s <=> i \in t
    PROVE  At(list, s) = At(list, t)
  <1>1. PICK g : Reached(g, E, list, t)
    BY AtInTurn
  <1>2. Len(list) <= Len(list)
    OBVIOUS
  <1>3. At(list, s) = g[Len(list)]
    BY <1>1, <1>2, AtOfTheFirst
  <1> QED BY <1>1, <1>3 DEF Reached

\* What a list has at some places is a list, empty if none is within.
LEMMA AtOrNothing ==
    ASSUME NEW E, NEW list \in Seq(E), NEW places
    PROVE  /\ At(list, places) \in Seq(E)
           /\ At(list, places) = <<>> <=> \A i \in 1..Len(list) : i \notin places
  <1> PICK n \in Nat : n = Len(list)
    OBVIOUS
  <1>1. PICK g : Reached(g, E, list, places)
    BY AtInTurn
  <1>2. /\ g \in [0..n -> Seq(E)] /\ g[0] = <<>> /\ At(list, places) = g[n]
        /\ \A k \in 1..n : g[k] = IF k \in places THEN Append(g[k - 1], list[k]) ELSE g[k - 1]
    BY <1>1 DEF Reached
  <1> DEFINE S == {k \in 0..n : g[k] = <<>> <=> \A i \in 1..k : i \notin places}
  <1>3. 0 \in S
    <2>1. 0 \in 0..n
      OBVIOUS
    <2> QED BY <1>2, <2>1
  <1>4. ASSUME NEW k \in 1..n, k - 1 \in S PROVE k \in S
    <2>1. k \in 0..n /\ k - 1 \in 0..n /\ 1..k = (1..k - 1) \cup {k} /\ list[k] \in E
      OBVIOUS
    <2>2. g[k - 1] = <<>> <=> \A i \in 1..k - 1 : i \notin places
      BY <1>4
    <2>3. CASE k \in places
      <3>s. PICK s \in Seq(E) : s = g[k - 1]
        BY <1>2, <2>1
      <3>1. Append(s, list[k]) # <<>>
        BY <2>1
      <3>2. g[k] # <<>>
        BY <1>2, <2>3, <3>s, <3>1
      <3> QED BY <2>1, <2>3, <3>2
    <2>4. CASE k \notin places
      <3>1. g[k] = g[k - 1]
        BY <1>2, <2>4
      <3> QED BY <2>1, <2>2, <2>4, <3>1
    <2> QED BY <2>3, <2>4
  <1>5. n \in S /\ n \in 0..n
    <2>1. n \in 0..n
      OBVIOUS
    <2>2. 0..n \subseteq S
      <3> HIDE DEF S
      <3> QED BY <1>3, <1>4, UpTo
    <2> HIDE DEF S
    <2> QED BY <2>1, <2>2
  <1> QED BY <1>2, <1>5

\* The entries of a list that are in a set.
Picked(list, S) == At(list, {i \in DOMAIN list : list[i] \in S})

\* What is picked of a list is a list.
LEMMA PickedSeq == ASSUME NEW E, NEW list \in Seq(E), NEW S PROVE Picked(list, S) \in Seq(E)
  <1> PICK places : places = {i \in DOMAIN list : list[i] \in S}
    OBVIOUS
  <1>1. PICK g : Reached(g, E, list, places)
    BY AtInTurn
  <1>2. Len(list) \in 0..Len(list)
    OBVIOUS
  <1> QED BY <1>1, <1>2 DEF Picked, Reached

\* One more element is picked last, or not.
LEMMA PickedLast ==
    ASSUME NEW E, NEW s \in Seq(E), NEW f \in E, NEW S
    PROVE  Picked(Append(s, f), S) = IF f \in S THEN Append(Picked(s, S), f) ELSE Picked(s, S)
  <1> PICK n \in Nat : n = Len(s)
    OBVIOUS
  <1>r. PICK r : r = Append(s, f)
    OBVIOUS
  <1>1. /\ r \in Seq(E) /\ Len(r) = n + 1 /\ DOMAIN r = 1..n + 1 /\ DOMAIN s = 1..n
        /\ r[n + 1] = f /\ \A i \in 1..n : r[i] = s[i]
    BY <1>r
  <1>p. PICK p : p = {i \in DOMAIN r : r[i] \in S}
    OBVIOUS
  <1>q. PICK q : q = {i \in DOMAIN s : s[i] \in S}
    OBVIOUS
  <1>2. /\ \A i \in 1..n : i \in q <=> i \in p
        /\ n + 1 \in p <=> f \in S
    BY <1>p, <1>q, <1>1
  <1>3. PICK g : Reached(g, E, r, p)
    BY <1>1, AtInTurn
  <1>4. At(s, q) = g[n]
    <2>1. Len(s) <= Len(r) /\ \A i \in 1..Len(s) : s[i] = r[i] /\ (i \in q <=> i \in p)
      BY <1>1, <1>2
    <2>2. At(s, q) = g[Len(s)]
      BY <1>1, <1>3, <2>1, AtOfTheFirst
    <2> QED BY <2>2
  <1>5. g[n + 1] = IF n + 1 \in p THEN Append(g[n], r[n + 1]) ELSE g[n]
    <2>1. n + 1 \in 1..Len(r) /\ (n + 1) - 1 = n
      BY <1>1
    <2> QED BY <1>3, <2>1 DEF Reached
  <1>6. At(r, p) = IF f \in S THEN Append(At(s, q), f) ELSE At(s, q)
    BY <1>1, <1>2, <1>3, <1>4, <1>5 DEF Reached
  <1> QED BY <1>r, <1>p, <1>q, <1>6 DEF Picked

\* Nothing is picked of nothing.
LEMMA PickedEmpty == ASSUME NEW S PROVE Picked(<<>>, S) = <<>>
  <1> PICK p : p = {i \in DOMAIN <<>> : <<>>[i] \in S}
    OBVIOUS
  <1>1. <<>> \in Seq({}) /\ Len(<<>>) = 0
    OBVIOUS
  <1>2. PICK g : Reached(g, {}, <<>>, p)
    BY <1>1, AtInTurn
  <1> QED BY <1>1, <1>2 DEF Picked, Reached

\* Induction over lists: what holds of the empty list and with each list of one that
\* has one entry more.
LEMMA ByAppending ==
    ASSUME NEW E, NEW T, <<>> \in T, \A s \in Seq(E), f \in E : s \in T => Append(s, f) \in T
    PROVE  Seq(E) \subseteq T
  <1> SUFFICES ASSUME NEW list \in Seq(E) PROVE list \in T
    OBVIOUS
  <1> PICK n \in Nat : n = Len(list)
    OBVIOUS
  <1> DEFINE S == {k \in 0..n : SubSeq(list, 1, k) \in T}
  <1>1. 0 \in S
    <2>1. SubSeq(list, 1, 0) = <<>> /\ 0 \in 0..n
      OBVIOUS
    <2> QED BY <2>1
  <1>2. ASSUME NEW k \in 1..n, k - 1 \in S PROVE k \in S
    <2>1. list[k] \in E /\ k \in 0..n /\ k - 1 \in 0..n
      OBVIOUS
    <2>2. SubSeq(list, 1, k - 1) \in Seq(E) /\ SubSeq(list, 1, k - 1) \in T
      BY <1>2, <2>1
    <2>3. SubSeq(list, 1, k) = Append(SubSeq(list, 1, k - 1), list[k])
      BY <2>1
    <2> QED BY <2>1, <2>2, <2>3
  <1>3. n \in S
    <2>1. n \in 0..n
      OBVIOUS
    <2>2. 0..n \subseteq S
      <3> HIDE DEF S
      <3> QED BY <1>1, <1>2, UpTo
    <2> HIDE DEF S
    <2> QED BY <2>1, <2>2
  <1>4. SubSeq(list, 1, n) = list
    OBVIOUS
  <1> QED BY <1>3, <1>4

Joins(c, a, b) == c = a \o b
Extends(c, a, f) == c = Append(a, f)

\* One more element behind two joined lists is behind the second.
LEMMA AppendBehind ==
    ASSUME NEW E, NEW a \in Seq(E), NEW b \in Seq(E), NEW f \in E, NEW c, Joins(c, a, b), NEW d, Extends(d, b, f)
    PROVE  Joins(Append(c, f), a, d)
  <1>1. Append(a \o b, f) = a \o Append(b, f)
    OBVIOUS
  <1> QED BY <1>1 DEF Joins, Extends

\* What is picked of two joined lists is what is picked of each.
LEMMA PickedBehind ==
    ASSUME NEW E, NEW a \in Seq(E), NEW b \in Seq(E), NEW S, NEW c, Joins(c, a, b)
    PROVE  Picked(c, S) = Picked(a, S) \o Picked(b, S)
  <1> DEFINE T == {s \in Seq(E) : Picked(a \o s, S) = Picked(a, S) \o Picked(s, S)}
  <1>1. <<>> \in T
    <2>1. a \o <<>> = a /\ <<>> \in Seq(E)
      OBVIOUS
    <2>2. Picked(a, S) \in Seq(E)
      BY PickedSeq
    <2>3. Picked(a, S) \o <<>> = Picked(a, S)
      BY <2>2
    <2> QED BY <2>1, <2>3, PickedEmpty
  <1>2. ASSUME NEW s \in Seq(E), NEW f \in E, s \in T PROVE Append(s, f) \in T
    <2>1. a \o Append(s, f) = Append(a \o s, f) /\ a \o s \in Seq(E) /\ Append(s, f) \in Seq(E)
      OBVIOUS
    <2>2. Picked(Append(a \o s, f), S) = IF f \in S THEN Append(Picked(a \o s, S), f) ELSE Picked(a \o s, S)
      BY <2>1, PickedLast
    <2>3. Picked(Append(s, f), S) = IF f \in S THEN Append(Picked(s, S), f) ELSE Picked(s, S)
      BY PickedLast
    <2>4. Picked(a, S) \in Seq(E) /\ Picked(s, S) \in Seq(E)
      BY PickedSeq
    <2>5. Append(Picked(a, S) \o Picked(s, S), f) = Picked(a, S) \o Append(Picked(s, S), f)
      <3>x. PICK x \in Seq(E) : x = Picked(a, S)
        BY <2>4
      <3>y. PICK y \in Seq(E) : y = Picked(s, S)
        BY <2>4
      <3>c. PICK z : Joins(z, x, y)
        BY DEF Joins
      <3>d. PICK w : Extends(w, y, f)
        BY DEF Extends
      <3>1. Joins(Append(z, f), x, w)
        BY <3>c, <3>d, AppendBehind
      <3>2. Append(x \o y, f) = x \o Append(y, f)
        BY <3>c, <3>d, <3>1 DEF Joins, Extends
      <3> QED BY <3>x, <3>y, <3>2
    <2>6. Picked(a \o s, S) = Picked(a, S) \o Picked(s, S)
      BY <1>2
    <2>7. Picked(a \o Append(s, f), S) = Picked(a, S) \o Picked(Append(s, f), S)
      BY <2>1, <2>2, <2>3, <2>5, <2>6
    <2> QED BY <2>1, <2>7
  <1>3. Seq(E) \subseteq T
    <2> HIDE DEF T
    <2> QED BY <1>1, <1>2, ByAppending
  <1> QED BY <1>3 DEF Joins

\* All is picked if all qualify, nothing if none does.
LEMMA PickedAllOrNone ==
    ASSUME NEW E, NEW list \in Seq(E), NEW S
    PROVE  /\ (\A i \in DOMAIN list : list[i] \in S) => Picked(list, S) = list
           /\ Picked(list, S) = <<>> <=> \A i \in DOMAIN list : list[i] \notin S
  <1> DEFINE T == {s \in Seq(E) : /\ (\A i \in DOMAIN s : s[i] \in S) => Picked(s, S) = s
                                  /\ Picked(s, S) = <<>> <=> \A i \in DOMAIN s : s[i] \notin S}
  <1>1. <<>> \in T
    <2>1. <<>> \in Seq(E) /\ DOMAIN <<>> = {}
      OBVIOUS
    <2> QED BY <2>1, PickedEmpty
  <1>2. ASSUME NEW s \in Seq(E), NEW f \in E, s \in T PROVE Append(s, f) \in T
    <2> PICK n \in Nat : n = Len(s)
      OBVIOUS
    <2> PICK r : r = Append(s, f)
      OBVIOUS
    <2>1. /\ r \in Seq(E) /\ DOMAIN r = 1..n + 1 /\ DOMAIN s = 1..n /\ r[n + 1] = f
          /\ \A i \in 1..n : r[i] = s[i] /\ i \in 1..n + 1
      OBVIOUS
    <2>2. Picked(r, S) = IF f \in S THEN Append(Picked(s, S), f) ELSE Picked(s, S)
      BY PickedLast
    <2>3. n + 1 \in 1..n + 1 /\ \A i \in 1..n + 1 : i \in 1..n \/ i = n + 1
      OBVIOUS
    <2>4. ASSUME \A i \in DOMAIN r : r[i] \in S PROVE Picked(r, S) = r
      <3>1. \A i \in DOMAIN s : s[i] \in S
        BY <2>1, <2>4
      <3>2. Picked(s, S) = s /\ f \in S
        BY <1>2, <2>1, <2>3, <2>4, <3>1
      <3> QED BY <2>2, <3>2
    <2>5. Picked(r, S) = <<>> <=> \A i \in DOMAIN r : r[i] \notin S
      <3>1. Picked(s, S) = <<>> <=> \A i \in DOMAIN s : s[i] \notin S
        BY <1>2
      <3>2. CASE f \in S
        <4>1. Picked(s, S) \in Seq(E)
          BY PickedSeq
        <4>2. Picked(r, S) # <<>>
          BY <2>2, <3>2, <4>1
        <4> QED BY <2>1, <2>3, <3>2, <4>2
      <3>3. CASE f \notin S
        <4>1. Picked(r, S) = Picked(s, S)
          BY <2>2, <3>3
        <4> QED BY <2>1, <2>3, <3>1, <3>3, <4>1
      <3> QED BY <3>2, <3>3
    <2> QED BY <2>1, <2>4, <2>5
  <1>3. Seq(E) \subseteq T
    <2> HIDE DEF T
    <2> QED BY <1>1, <1>2, ByAppending
  <1>4. list \in T
    BY <1>3
  <1> QED BY <1>4

-----------------------------------------------------------------------------
(* Lists behind each other.                                                 *)

\* What FlattenSeq has joined up to each list.
Flattened(g, E, lists) ==
    /\ g \in [0..Len(lists) -> Seq(E)] /\ g[0] = <<>> /\ FlattenSeq(lists) = g[Len(lists)]
    /\ \A k \in 1..Len(lists) : g[k] = g[k - 1] \o lists[k]

\* FlattenSeq joins one list after the other.
LEMMA FlattenInTurn ==
    ASSUME NEW E, NEW lists \in Seq(Seq(E))
    PROVE  \E g : Flattened(g, E, lists)
  <1> DEFINE V == Seq(E)
             H == [p \in (1..Len(lists)) \X V |-> p[2] \o lists[p[1]]]
             JoinedBy(f) == f = [i \in 1..Len(lists) |-> IF i = 1 THEN lists[i] ELSE f[i - 1] \o lists[i]]
             F == CHOOSE f : JoinedBy(f)
  <1> PICK n \in Nat : n = Len(lists)
    OBVIOUS
  <1>1. \A k \in 1..n : lists[k] \in V
    OBVIOUS
  <1>2. <<>> \in V /\ \A s, t \in V : s \o t \in V /\ <<>> \o t = t
    OBVIOUS
  <1>3. CASE n = 0
    <2>1. FlattenSeq(lists) = lists /\ lists = <<>>
      <3>1. Len(lists) = 0
        BY <1>3
      <3>2. FlattenSeq(lists) = lists
        BY <3>1, Zenon DEF FlattenSeq
      <3> QED BY <3>1, <3>2
    <2> DEFINE g == [k \in 0..0 |-> <<>>]
    <2>2. g \in [0..0 -> V] /\ g[0] = <<>>
      BY <1>2
    <2>3. Flattened(g, E, lists)
      BY <1>3, <2>1, <2>2 DEF Flattened
    <2> QED BY <2>3
  <1>4. CASE n # 0
    <2>0. n \in 1..n /\ 1 \in 1..n
      BY <1>4
    <2>1. FlattenSeq(lists) = F[n]
      BY <1>4 DEF FlattenSeq
    <2> HIDE DEF V
    <2>2. H \in [(1..n) \X V -> V]
      BY <1>1, <1>2
    <2>3. PICK g \in [0..n -> V] : InSteps(g, n, <<>>, H)
      <3> HIDE DEF H
      <3> QED BY <1>2, <2>2, ResultsInTurn
    <2>4. ASSUME NEW k \in 1..n PROVE g[k] = g[k - 1] \o lists[k] /\ g[k - 1] \in V
      <3>0. k - 1 \in 0..n
        OBVIOUS
      <3>1. g[k - 1] \in V
        BY <3>0
      <3> QED BY <2>3, <3>1 DEF InSteps
    <2>a. g[1] = <<>> \o lists[1]
      <3>1. g[1] = g[1 - 1] \o lists[1]
        BY <2>0, <2>4
      <3>2. 1 - 1 = 0
        OBVIOUS
      <3> QED BY <2>3, <3>1, <3>2 DEF InSteps
    <2>5. JoinedBy([k \in 1..n |-> g[k]])
      <3> DEFINE h == [k \in 1..n |-> g[k]]
      <3>1. ASSUME NEW i \in 1..n PROVE h[i] = IF i = 1 THEN lists[i] ELSE h[i - 1] \o lists[i]
        <4>1. CASE i = 1
          <5> QED BY <1>1, <1>2, <2>0, <2>a, <4>1
        <4>2. CASE i # 1
          <5>1. i - 1 \in 1..n
            BY <4>2
          <5> QED BY <2>4, <4>2, <5>1
        <4> QED BY <4>1, <4>2
      <3>2. h = [i \in 1..n |-> h[i]]
        OBVIOUS
      <3> HIDE DEF h
      <3> QED BY <3>1, <3>2 DEF h
    <2>6. JoinedBy(F)
      BY <2>5
    <2> HIDE DEF F, H
    <2>7. F = [i \in 1..n |-> IF i = 1 THEN lists[i] ELSE F[i - 1] \o lists[i]]
      BY <2>6
    <2> HIDE DEF JoinedBy
    <2> DEFINE S == {k \in 0..n : k = 0 \/ F[k] = g[k]}
    <2>8. 0..n \subseteq S
      <3>1. 0 \in S
        OBVIOUS
      <3>2. ASSUME NEW k \in 1..n, k - 1 \in S PROVE k \in S
        <4>1. CASE k = 1
          <5>1. F[1] = lists[1]
            BY <2>0, <2>7
          <5> QED BY <1>1, <1>2, <2>0, <2>a, <4>1, <5>1
        <4>2. CASE k # 1
          <5>1. F[k] = F[k - 1] \o lists[k]
            BY <2>7, <4>2
          <5>2. F[k - 1] = g[k - 1]
            BY <3>2, <4>2
          <5>3. g[k] = g[k - 1] \o lists[k]
            BY <2>4
          <5>4. F[k] = g[k]
            BY <5>1, <5>2, <5>3, Zenon
          <5>5. k \in 0..n
            OBVIOUS
          <5> QED BY <5>4, <5>5
        <4> QED BY <4>1, <4>2
      <3> HIDE DEF S
      <3> QED BY <3>1, <3>2, UpTo
    <2>9. F[n] = g[n]
      BY <1>4, <2>8
    <2>10. g[0] = <<>>
      BY <2>3 DEF InSteps
    <2>11. Flattened(g, E, lists)
      BY <2>1, <2>4, <2>9, <2>10 DEF Flattened, V
    <2> QED BY <2>11
  <1> QED BY <1>3, <1>4

\* What only one of several lists has can be picked from all of them joined.
LEMMA FlattenPicked ==
    ASSUME NEW E, NEW lists \in Seq(Seq(E)), NEW S
    PROVE  /\ FlattenSeq(lists) \in Seq(E)
           /\ \A r \in DOMAIN lists :
                /\ Found(lists[r]) \subseteq S
                /\ \A q \in DOMAIN lists : q # r => Found(lists[q]) \cap S = {}
                => Picked(FlattenSeq(lists), S) = lists[r]
           /\ Found(FlattenSeq(lists)) = UNION {Found(lists[r]) : r \in DOMAIN lists}
  <1> PICK n \in Nat : n = Len(lists)
    OBVIOUS
  <1>1. DOMAIN lists = 1..n /\ \A k \in 1..n : lists[k] \in Seq(E)
    OBVIOUS
  <1>2. PICK g : Flattened(g, E, lists)
    BY FlattenInTurn
  <1>3. /\ g \in [0..n -> Seq(E)] /\ g[0] = <<>> /\ FlattenSeq(lists) = g[n]
        /\ \A k \in 1..n : g[k] = g[k - 1] \o lists[k]
    BY <1>2 DEF Flattened
  <1>4. FlattenSeq(lists) \in Seq(E)
    <2>1. n \in 0..n
      OBVIOUS
    <2> QED BY <1>3, <2>1
  <1>5. ASSUME NEW r \in 1..n, Found(lists[r]) \subseteq S, \A q \in 1..n : q # r => Found(lists[q]) \cap S = {}
        PROVE  Picked(FlattenSeq(lists), S) = lists[r]
    <2>1. ASSUME NEW q \in 1..n PROVE Picked(lists[q], S) = IF q = r THEN lists[r] ELSE <<>>
      <3> PICK l \in Seq(E) : l = lists[q]
        BY <1>1
      <3>1. CASE q = r
        <4>1. \A i \in DOMAIN l : l[i] \in S
          BY <1>5, <3>1 DEF Found
        <4>2. Picked(l, S) = l
          BY <4>1, PickedAllOrNone
        <4> QED BY <3>1, <4>2
      <3>2. CASE q # r
        <4>1. \A i \in DOMAIN l : l[i] \notin S
          BY <1>5, <3>2 DEF Found
        <4>2. Picked(l, S) = <<>>
          BY <4>1, PickedAllOrNone
        <4> QED BY <3>2, <4>2
      <3> QED BY <3>1, <3>2
    <2> DEFINE T == {k \in 0..n : Picked(g[k], S) = IF r <= k THEN lists[r] ELSE <<>>}
    <2>2. 0 \in T
      <3>1. Picked(g[0], S) = <<>> /\ ~(r <= 0) /\ 0 \in 0..n
        BY <1>3, PickedEmpty
      <3> QED BY <3>1
    <2>3. ASSUME NEW k \in 1..n, k - 1 \in T PROVE k \in T
      <3>1. k \in 0..n /\ k - 1 \in 0..n
        OBVIOUS
      <3>2. Picked(g[k], S) = Picked(g[k - 1], S) \o Picked(lists[k], S)
        <4>a. PICK a \in Seq(E) : a = g[k - 1]
          BY <1>3, <3>1
        <4>b. PICK b \in Seq(E) : b = lists[k]
          BY <1>1
        <4>1. Joins(g[k], a, b)
          BY <1>3, <4>a, <4>b DEF Joins
        <4>2. Picked(g[k], S) = Picked(a, S) \o Picked(b, S)
          BY <4>1, PickedBehind
        <4> QED BY <4>a, <4>b, <4>2
      <3>3. Picked(g[k - 1], S) = IF r <= k - 1 THEN lists[r] ELSE <<>>
        BY <2>3
      <3>l. PICK l \in Seq(E) : l = lists[r]
        BY <1>1
      <3>4. l \o <<>> = l /\ <<>> \o l = l /\ <<>> \o <<>> = <<>>
        OBVIOUS
      <3>5. CASE k = r
        <4>1. Picked(lists[k], S) = l /\ ~(r <= k - 1) /\ r <= k
          BY <2>1, <3>5, <3>l
        <4>2. Picked(g[k], S) = <<>> \o l
          BY <3>2, <3>3, <4>1
        <4> QED BY <3>1, <3>4, <3>l, <4>1, <4>2
      <3>6. CASE k # r
        <4>1. Picked(lists[k], S) = <<>> /\ (r <= k - 1 <=> r <= k)
          BY <2>1, <3>6
        <4> QED BY <3>1, <3>2, <3>3, <3>4, <3>l, <4>1
      <3> QED BY <3>5, <3>6
    <2>4. n \in T
      <3>1. n \in 0..n
        OBVIOUS
      <3>2. 0..n \subseteq T
        <4> HIDE DEF T
        <4> QED BY <2>2, <2>3, UpTo
      <3> HIDE DEF T
      <3> QED BY <3>1, <3>2
    <2> QED BY <1>3, <2>4
  <1>6. Found(FlattenSeq(lists)) = UNION {Found(lists[r]) : r \in DOMAIN lists}
    <2> DEFINE T == {k \in 0..n : Found(g[k]) = UNION {Found(lists[r]) : r \in 1..k}}
    <2>1. 0 \in T
      <3>1. Found(<<>>) = {} /\ 1..0 = {} /\ 0 \in 0..n
        BY DEF Found
      <3> QED BY <1>3, <3>1
    <2>2. ASSUME NEW k \in 1..n, k - 1 \in T PROVE k \in T
      <3>1. k \in 0..n /\ k - 1 \in 0..n /\ 1..k = (1..k - 1) \cup {k}
        OBVIOUS
      <3>2. Found(g[k]) = Found(g[k - 1]) \cup Found(lists[k])
        <4>a. PICK a \in Seq(E) : a = g[k - 1]
          BY <1>3, <3>1
        <4>b. PICK b \in Seq(E) : b = lists[k]
          BY <1>1
        <4>1. Found(a \o b) = Found(a) \cup Found(b)
          BY FoundBehind
        <4> QED BY <1>3, <4>a, <4>b, <4>1
      <3>3. Found(g[k - 1]) = UNION {Found(lists[r]) : r \in 1..k - 1}
        BY <2>2
      <3>4. Found(g[k]) = UNION {Found(lists[r]) : r \in 1..k}
        BY <3>1, <3>2, <3>3
      <3> QED BY <3>1, <3>4
    <2>3. n \in T
      <3>1. n \in 0..n
        OBVIOUS
      <3>2. 0..n \subseteq T
        <4> HIDE DEF T
        <4> QED BY <2>1, <2>2, UpTo
      <3> HIDE DEF T
      <3> QED BY <3>1, <3>2
    <2> QED BY <1>1, <1>3, <2>3
  <1> QED BY <1>1, <1>4, <1>5, <1>6

-----------------------------------------------------------------------------
(* Sorting is stable.                                                       *)

OfOneSeverity(E, S) == \A a, b \in E : a \in S /\ b \in S => a.severity = b.severity

\* Among the findings of one severity an inserted one comes last: the sort is stable.
LEMMA InsertedLast ==
    ASSUME NEW E, Ranked(E), NEW s \in Seq(E), InOrder(s), NEW f \in E, NEW S, OfOneSeverity(E, S)
    PROVE  Picked(Inserted(s, f), S) = IF f \in S THEN Append(Picked(s, S), f) ELSE Picked(s, S)
  <1> PICK n \in Nat : n = Len(s)
    OBVIOUS
  <1>1. PICK k \in 0..n : /\ Inserted(s, f) = InsertAt(s, k + 1, f)
                          /\ \A i \in k + 1..n : Rank(f.severity) < Rank(s[i].severity)
    BY InsertedInOrder
  <1>a. PICK a : a = SubSeq(s, 1, k)
    OBVIOUS
  <1>b. PICK b : b = SubSeq(s, k + 1, n)
    OBVIOUS
  <1>2. a \in Seq(E) /\ b \in Seq(E) /\ Len(b) = n - k /\ \A i \in 1..n - k : b[i] = s[k + i]
    BY <1>a, <1>b
  <1>3. Joins(s, a, b)
    <2>c. PICK c : c = a \o b
      OBVIOUS
    <2>1. a \in Seq(E) /\ Len(a) = k /\ \A i \in 1..k : a[i] = s[i]
      BY <1>a
    <2>2. /\ c \in Seq(E) /\ Len(c) = Len(a) + Len(b)
          /\ \A i \in 1..Len(a) + Len(b) : c[i] = IF i <= Len(a) THEN a[i] ELSE b[i - Len(a)]
      BY <1>2, <2>1, <2>c, Concatenated
    <2>3. Len(a) + Len(b) = n
      BY <1>2, <2>1
    <2>4. ASSUME NEW i \in 1..n PROVE c[i] = s[i]
      <3>1. CASE i <= k
        BY <2>1, <2>2, <2>3, <3>1
      <3>2. CASE ~(i <= k)
        <4>1. i - k \in 1..n - k /\ k + (i - k) = i
          BY <3>2
        <4>2. c[i] = b[i - k]
          BY <2>1, <2>2, <2>3, <3>2
        <4> QED BY <1>2, <4>1, <4>2
      <3> QED BY <3>1, <3>2
    <2>5. c = s
      BY <2>2, <2>3, <2>4
    <2> QED BY <2>c, <2>5 DEF Joins
  <1>4. Inserted(s, f) = a \o <<f>> \o b
    <2>1. (k + 1) - 1 = k
      OBVIOUS
    <2> QED BY <1>1, <1>a, <1>b, <2>1 DEF InsertAt
  <1>c. PICK c : Extends(c, a, f)
    BY DEF Extends
  <1>5. c \in Seq(E)
    BY <1>2, <1>c DEF Extends
  <1>6. Joins(Inserted(s, f), c, b)
    <2>1. c = a \o <<f>>
      BY <1>2, <1>c DEF Extends
    <2> QED BY <1>4, <2>1 DEF Joins
  <1>7. Picked(Inserted(s, f), S) = Picked(c, S) \o Picked(b, S) /\ Picked(s, S) = Picked(a, S) \o Picked(b, S)
    <2>1. Picked(Inserted(s, f), S) = Picked(c, S) \o Picked(b, S)
      BY <1>2, <1>5, <1>6, PickedBehind
    <2>2. Picked(s, S) = Picked(a, S) \o Picked(b, S)
      BY <1>2, <1>3, PickedBehind
    <2> QED BY <2>1, <2>2
  <1>8. Picked(c, S) = IF f \in S THEN Append(Picked(a, S), f) ELSE Picked(a, S)
    BY <1>2, <1>c, PickedLast DEF Extends
  <1>9. ASSUME f \in S PROVE Picked(b, S) = <<>>
    <2>1. ASSUME NEW i \in DOMAIN b PROVE b[i] \notin S
      <3>1. i \in 1..n - k /\ k + i \in k + 1..n /\ b[i] = s[k + i] /\ b[i] \in E
        BY <1>2
      <3>2. Rank(f.severity) < Rank(b[i].severity)
        BY <1>1, <3>1
      <3>3. Rank(f.severity) \in Int
        BY DEF Ranked
      <3> QED BY <1>9, <3>1, <3>2, <3>3 DEF OfOneSeverity
    <2> QED BY <1>2, <2>1, PickedAllOrNone
  <1>10. CASE f \in S
    <2>p. PICK p \in Seq(E) : p = Picked(a, S)
      BY <1>2, PickedSeq
    <2>1. p \o <<>> = p /\ Append(p, f) \o <<>> = Append(p, f)
      OBVIOUS
    <2>2. Picked(s, S) = p
      BY <1>7, <1>9, <1>10, <2>p, <2>1
    <2>3. Picked(Inserted(s, f), S) = Append(p, f)
      BY <1>7, <1>8, <1>9, <1>10, <2>p, <2>1
    <2> QED BY <1>10, <2>2, <2>3
  <1>11. CASE f \notin S
    BY <1>7, <1>8, <1>11
  <1> QED BY <1>10, <1>11

\* What a sorted list has of one severity it has in the order of the list.
LEMMA PickedSorted ==
    ASSUME NEW E, Ranked(E), NEW list \in Seq(E), NEW S, OfOneSeverity(E, S)
    PROVE  Picked(BySeverity(list), S) = Picked(list, S)
  <1> PICK n \in Nat : n = Len(list)
    OBVIOUS
  <1>1. PICK g : SortedUpTo(g, E, list)
    BY SortInTurn
  <1>2. /\ g \in [0..n -> OrderedLists(E)] /\ g[0] = <<>> /\ BySeverity(list) = g[n]
        /\ \A k \in 1..n : g[k] = Inserted(g[k - 1], list[k])
    BY <1>1 DEF SortedUpTo
  <1> DEFINE T == {k \in 0..n : Picked(g[k], S) = Picked(SubSeq(list, 1, k), S)}
  <1>3. 0 \in T
    <2>1. SubSeq(list, 1, 0) = <<>> /\ 0 \in 0..n
      OBVIOUS
    <2> QED BY <1>2, <2>1
  <1>4. ASSUME NEW k \in 1..n, k - 1 \in T PROVE k \in T
    <2>1. k \in 0..n /\ k - 1 \in 0..n /\ list[k] \in E
      OBVIOUS
    <2>s. PICK s : s = g[k - 1]
      OBVIOUS
    <2>v. s \in Seq(E) /\ InOrder(s)
      BY <1>2, <2>1, <2>s DEF OrderedLists
    <2>t. PICK t : t = SubSeq(list, 1, k - 1)
      OBVIOUS
    <2>u. t \in Seq(E)
      BY <2>1, <2>t
    <2>2. SubSeq(list, 1, k) = Append(t, list[k])
      BY <2>1, <2>t
    <2>3. g[k] = Inserted(s, list[k])
      BY <1>2, <2>s
    <2>f. PICK f \in E : f = list[k]
      BY <2>1
    <2>4. Picked(Append(t, f), S) = IF f \in S THEN Append(Picked(t, S), f) ELSE Picked(t, S)
      BY <2>u, PickedLast
    <2>5. Picked(Inserted(s, f), S) = IF f \in S THEN Append(Picked(s, S), f) ELSE Picked(s, S)
      BY <2>v, InsertedLast
    <2>6. Picked(s, S) = Picked(t, S)
      BY <1>4, <2>s, <2>t
    <2>7. Picked(g[k], S) = Picked(SubSeq(list, 1, k), S)
      BY <2>f, <2>2, <2>3, <2>4, <2>5, <2>6
    <2> QED BY <2>1, <2>7
  <1>5. n \in T
    <2>1. n \in 0..n
      OBVIOUS
    <2>2. 0..n \subseteq T
      <3> HIDE DEF T
      <3> QED BY <1>3, <1>4, UpTo
    <2> HIDE DEF T
    <2> QED BY <2>1, <2>2
  <1>6. SubSeq(list, 1, n) = list
    OBVIOUS
  <1> QED BY <1>2, <1>5, <1>6
================================================================================
