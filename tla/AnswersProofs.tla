----------------------------- MODULE AnswersProofs -----------------------------
(***************************************************************************)
(* What a scan reports (ScanReport) and what the commands answer            *)
(* (Decisions), for every value of their constants.                         *)
(*                                                                          *)
(* ReportInv relates the slices of result and report, and the array they    *)
(* may share, to the findings added so far.  Decisions keeps no state: an   *)
(* answer is about what was asked, and the theorems turn on what the loops  *)
(* of the answer compute.  A scan is followed rule by rule, through joining *)
(* and sorting, to what docs/rules.md says each condition is about; the     *)
(* evidence of each pack to the scan with all of them; the bill object by   *)
(* object, in its two passes, with an invariant (BillUpTo) of the entries   *)
(* and of the table of fingerprints; the monitor to the rules.              *)
(***************************************************************************)
EXTENDS ScanReport, Decisions, ListTheorems, SequenceTheorems, FiniteSetTheorems, TLAPS

-----------------------------------------------------------------------------
(* The report of a scan.                                                     *)

LEMMA RankIsNumber ==
    /\ \A severity \in Severities : Rank(severity) \in 1..5
    /\ Rank("critical") = 1
    /\ \A severity \in Severities : Rank(severity) = 1 => severity = "critical"
  <1>1. DOMAIN Order = 1..5 /\ Order[1] = "critical" /\ Order[2] = "high" /\ Order[3] = "medium"
        /\ Order[4] = "low" /\ Order[5] = "info"
    BY DEF Order
  <1>2. ASSUME NEW severity \in Severities PROVE Rank(severity) \in 1..5 /\ Order[Rank(severity)] = severity
    <2>1. \E r \in DOMAIN Order : Order[r] = severity
      BY ReportAssumption DEF ReportAssumption
    <2> QED BY <1>1, <2>1 DEF Rank
  <1>3. Rank("critical") = 1
    <2>1. \A r \in DOMAIN Order : Order[r] = "critical" <=> r = 1
      BY <1>1
    <2> QED BY <1>1, <2>1 DEF Rank
  <1> QED BY <1>1, <1>2, <1>3

LEMMA FindingsSorted ==
    ASSUME NEW list \in Seq(Finding)
    PROVE  BySeverity(list) \in Seq(Finding) /\ InOrder(BySeverity(list)) /\ Same(BySeverity(list), list)
  <1>1. Ranked(Finding)
    BY RankIsNumber DEF Finding, Ranked
  <1> QED BY <1>1, SortedBySeverity

-----------------------------------------------------------------------------
(* Slices.                                                                   *)
Heap == Seq(Seq(Finding))
Slice == [array : Nat, len : Nat, score : Int]
In(h, s) == s \in Slice /\ s.array \in DOMAIN h /\ s.len <= Len(h[s.array])

\* What is seen of the first len places of an array.
LEMMA Seen ==
    ASSUME NEW h \in Heap, NEW s, In(h, s)
    PROVE  /\ View(h, s) \in Seq(Finding) /\ Len(View(h, s)) = s.len
           /\ \A i \in 1..s.len : View(h, s)[i] = h[s.array][i]
  <1> PICK a : a = h[s.array]
    OBVIOUS
  <1>1. a \in Seq(Finding)
    BY DEF Heap, In
  <1> PICK n \in Nat : n = s.len
    BY DEF In, Slice
  <1>2. n <= Len(a)
    BY DEF In
  <1>3. SubSeq(a, 1, n) \in Seq(Finding) /\ Len(SubSeq(a, 1, n)) = n
        /\ \A i \in 1..n : SubSeq(a, 1, n)[i] = a[i]
    BY <1>1, <1>2
  <1> QED BY <1>3 DEF View

LEMMA SameView ==
    ASSUME NEW h \in Heap, NEW s, In(h, s), NEW list \in Seq(Finding), Len(list) = s.len,
           \A i \in 1..s.len : h[s.array][i] = list[i]
    PROVE  View(h, s) = list
  <1> PICK v : v = View(h, s)
    OBVIOUS
  <1>1. v \in Seq(Finding) /\ Len(v) = s.len /\ \A i \in 1..s.len : v[i] = h[s.array][i]
    BY Seen
  <1> QED BY <1>1

\* An array after Write.
Overwritten(w, array, k, list) ==
    /\ w \in Seq(Finding) /\ Len(w) = Len(array)
    /\ \A i \in 1..Len(array) : w[i] = IF i > k /\ i <= k + Len(list) THEN list[i - k] ELSE array[i]

LEMMA Written ==
    ASSUME NEW array \in Seq(Finding), NEW k \in Nat, NEW list \in Seq(Finding), k + Len(list) <= Len(array),
           NEW w, w = Write(array, k + 1, list)
    PROVE  Overwritten(w, array, k, list)
  <1> PICK n \in Nat : n = Len(array)
    OBVIOUS
  <1> PICK m \in Nat : m = Len(list)
    OBVIOUS
  <1>1. DOMAIN array = 1..n /\ \A i \in 1..n : array[i] \in Finding
    OBVIOUS
  <1>2. \A i \in 1..m : list[i] \in Finding
    OBVIOUS
  <1>3. w = [i \in 1..n |-> IF i \in (k + 1)..((k + 1) + m - 1) THEN list[i - (k + 1) + 1] ELSE array[i]]
    BY <1>1 DEF Write
  <1>4. \A i \in 1..n : /\ i \in (k + 1)..((k + 1) + m - 1) <=> (i > k /\ i <= k + m)
                        /\ i - (k + 1) + 1 = i - k
                        /\ (i > k /\ i <= k + m) => i - k \in 1..m
    OBVIOUS
  <1>5. w = [i \in 1..n |-> IF i > k /\ i <= k + m THEN list[i - k] ELSE array[i]]
    BY <1>3, <1>4
  <1>6. w \in [1..n -> Finding]
    BY <1>1, <1>2, <1>4, <1>5
  <1>7. w \in Seq(Finding) /\ Len(w) = n
    BY <1>6
  <1> QED BY <1>5, <1>7 DEF Overwritten

\* append leaves what was there followed by the list, in the array it was in or in a new one.
Appended(h, s, list, g, t) ==
    /\ g \in Heap /\ In(g, t) /\ DOMAIN h \subseteq DOMAIN g
    /\ t.score = s.score /\ t.len = s.len + Len(list)
    /\ View(g, t) = View(h, s) \o list
    /\ \A a \in DOMAIN h : a # t.array => g[a] = h[a]
    /\ \/ /\ t.array = s.array /\ Len(g[t.array]) = Len(h[s.array]) /\ t.len <= Len(h[s.array])
          /\ \A i \in 1..Len(h[s.array]) : ~(i > s.len /\ i <= t.len) => g[s.array][i] = h[s.array][i]
       \/ t.array \notin DOMAIN h

LEMMA BlankIsFinding == ASSUME NEW f \in Finding PROVE Blank \in Finding
  <1>1. f.severity \in Severities
    BY DEF Finding
  <1>2. (CHOOSE s \in Severities : TRUE) \in Severities
    BY <1>1
  <1> QED BY <1>2 DEF Blank, Finding

LEMMA AppendLeaves ==
    ASSUME NEW h \in Heap, NEW s, In(h, s), NEW list \in Seq(Finding), list # <<>>
    PROVE  Appended(h, s, list, AppendTo(h, s, list).heap, AppendTo(h, s, list).slice)
  <1> PICK m \in Nat : m = Len(list)
    OBVIOUS
  <1> PICK k \in Nat : k = s.len
    BY DEF In, Slice
  <1> PICK old : old = h[s.array]
    OBVIOUS
  <1>1. /\ old \in Seq(Finding) /\ s.array \in DOMAIN h /\ s.array \in Nat /\ s.score \in Int
        /\ s = [array |-> s.array, len |-> k, score |-> s.score]
    BY DEF Heap, In, Slice
  <1> PICK cap \in Nat : cap = Len(old)
    BY <1>1
  <1>2. k <= cap /\ m >= 1 /\ DOMAIN list = 1..m
    BY DEF In
  <1>3. list[1] \in Finding
    BY <1>2
  <1>4. Blank \in Finding
    BY <1>3, BlankIsFinding
  <1> PICK v : v = View(h, s)
    OBVIOUS
  <1>5. v \in Seq(Finding) /\ Len(v) = k /\ \A i \in 1..k : v[i] = old[i]
    BY Seen
  <1> PICK l : l = v \o list
    OBVIOUS
  <1>6. l \in Seq(Finding) /\ Len(l) = k + m
        /\ \A i \in 1..k + m : l[i] = IF i <= k THEN old[i] ELSE list[i - k]
    <2>1. /\ v \o list \in Seq(Finding) /\ Len(v \o list) = Len(v) + Len(list)
          /\ \A i \in 1..Len(v) + Len(list) : (v \o list)[i] = IF i <= Len(v) THEN v[i] ELSE list[i - Len(v)]
      BY <1>5, Concatenated
    <2> QED BY <1>5, <2>1
  <1> PICK r : r = AppendTo(h, s, list)
    OBVIOUS
  <1>7. CASE k + m <= cap
    <2> PICK w : w = Write(old, k + 1, list)
      OBVIOUS
    <2>1. /\ w \in Seq(Finding) /\ Len(w) = cap
          /\ \A i \in 1..cap : w[i] = IF i > k /\ i <= k + m THEN list[i - k] ELSE old[i]
      <3>1. Overwritten(w, old, k, list)
        BY <1>1, <1>7, Written
      <3> QED BY <3>1 DEF Overwritten
    <2> PICK t : t = [array |-> s.array, len |-> k + m, score |-> s.score]
      OBVIOUS
    <2>2. r.heap = [h EXCEPT ![s.array] = w] /\ r.slice = t
      BY <1>1, <1>7 DEF AppendTo
    <2> PICK g : g = r.heap
      OBVIOUS
    <2>3. g \in Heap /\ DOMAIN g = DOMAIN h /\ g[s.array] = w /\ \A a \in DOMAIN h : a # s.array => g[a] = h[a]
      BY <1>1, <2>1, <2>2 DEF Heap
    <2>4. In(g, t) /\ t.array = s.array /\ t.len = k + m /\ t.score = s.score
      BY <1>1, <1>7, <2>1, <2>3 DEF In, Slice
    <2>5. ASSUME NEW i \in 1..k + m PROVE w[i] = l[i]
      <3>1. i \in 1..cap
        BY <1>7
      <3>2. CASE i <= k
        BY <1>6, <2>1, <3>1, <3>2
      <3>3. CASE ~(i <= k)
        <4>1. w[i] = list[i - k]
          <5>1. i > k /\ i <= k + m
            BY <3>3
          <5> QED BY <2>1, <3>1, <5>1
        <4>2. l[i] = list[i - k]
          BY <1>6, <3>3
        <4> QED BY <4>1, <4>2
      <3> QED BY <3>2, <3>3
    <2>6. View(g, t) = l
      <3>1. \A i \in 1..t.len : g[t.array][i] = l[i]
        BY <2>3, <2>4, <2>5
      <3>2. l \in Seq(Finding) /\ Len(l) = t.len
        BY <1>6, <2>4
      <3> QED BY <2>3, <2>4, <3>1, <3>2, SameView
    <2>7. \A i \in 1..cap : ~(i > k /\ i <= t.len) => g[s.array][i] = old[i]
      BY <2>1, <2>3, <2>4
    <2>8. t.array = s.array /\ Len(g[t.array]) = Len(h[s.array]) /\ t.len <= Len(h[s.array])
      BY <1>7, <2>1, <2>3, <2>4
    <2> QED BY <2>2, <2>3, <2>4, <2>6, <2>7, <2>8 DEF Appended
  <1>8. CASE ~(k + m <= cap)
    <2> PICK new \in Nat : new = Grown(cap, k + m) /\ new >= k + m
      BY <1>8 DEF Grown
    <2> PICK fresh : fresh = [i \in 1..new |-> IF i <= k THEN old[i] ELSE Blank]
      OBVIOUS
    <2>1. fresh \in Seq(Finding) /\ Len(fresh) = new /\ \A i \in 1..k : fresh[i] = old[i]
      <3>1. \A i \in 1..k : old[i] \in Finding
        BY <1>1, <1>2
      <3>2. fresh \in [1..new -> Finding]
        BY <1>4, <3>1
      <3>3. fresh \in Seq(Finding) /\ Len(fresh) = new
        BY <3>2, FunctionsAreLists
      <3>4. \A i \in 1..k : i \in 1..new /\ i <= k
        OBVIOUS
      <3> QED BY <3>3, <3>4
    <2> PICK w : w = Write(fresh, k + 1, list)
      OBVIOUS
    <2>2. /\ w \in Seq(Finding) /\ Len(w) = new
          /\ \A i \in 1..new : w[i] = IF i > k /\ i <= k + m THEN list[i - k] ELSE fresh[i]
      <3>1. Overwritten(w, fresh, k, list)
        BY <2>1, Written
      <3> QED BY <2>1, <3>1 DEF Overwritten
    <2> PICK n \in Nat : n = Len(h)
      <3>1. Len(h) \in Nat
        BY DEF Heap
      <3> QED BY <3>1
    <2> PICK t : t = [array |-> n + 1, len |-> k + m, score |-> s.score]
      OBVIOUS
    <2>3. r.heap = Append(h, w) /\ r.slice = t
      BY <1>1, <1>8 DEF AppendTo
    <2> PICK g : g = r.heap
      OBVIOUS
    <2>4. g \in Heap /\ DOMAIN g = 1..n + 1 /\ g[n + 1] = w /\ DOMAIN h = 1..n /\ \A a \in 1..n : g[a] = h[a]
      BY <2>2, <2>3 DEF Heap
    <2>5. In(g, t) /\ t.array = n + 1 /\ t.len = k + m /\ t.score = s.score
      BY <1>1, <2>2, <2>4 DEF In, Slice
    <2>6. \A i \in 1..t.len : g[t.array][i] = l[i]
      <3> SUFFICES ASSUME NEW i \in 1..k + m PROVE w[i] = l[i]
        BY <2>4, <2>5
      <3>1. i \in 1..new
        OBVIOUS
      <3>2. CASE i <= k
        <4>1. i \in 1..k /\ ~(i > k)
          BY <3>2
        <4>2. w[i] = fresh[i]
          BY <2>2, <3>1, <4>1
        <4>3. fresh[i] = old[i]
          BY <2>1, <4>1
        <4>4. l[i] = old[i]
          BY <1>6, <3>2
        <4> QED BY <4>2, <4>3, <4>4
      <3>3. CASE ~(i <= k)
        <4>1. i > k /\ i <= k + m
          BY <3>3
        <4>2. w[i] = list[i - k]
          BY <2>2, <3>1, <4>1
        <4>3. l[i] = list[i - k]
          BY <1>6, <3>3
        <4> QED BY <4>2, <4>3
      <3> QED BY <3>2, <3>3
    <2>7. View(g, t) = l
      <3>2. l \in Seq(Finding) /\ Len(l) = t.len
        BY <1>6, <2>5
      <3> QED BY <2>4, <2>5, <2>6, <3>2, SameView
    <2>8. t.array \notin DOMAIN h /\ DOMAIN h \subseteq DOMAIN g /\ \A a \in DOMAIN h : g[a] = h[a]
      BY <2>4, <2>5
    <2> QED BY <2>3, <2>4, <2>5, <2>7, <2>8 DEF Appended
  <1> QED BY <1>7, <1>8

\* Sorting a slice.
LEMMA SortLeaves ==
    ASSUME NEW h \in Heap, NEW s, In(h, s), NEW g, g = Sorted(h, s)
    PROVE  /\ g \in Heap /\ DOMAIN g = DOMAIN h /\ In(g, s)
           /\ View(g, s) = BySeverity(View(h, s))
           /\ \A a \in DOMAIN h : (a # s.array => g[a] = h[a]) /\ Len(g[a]) = Len(h[a])
           /\ \A i \in 1..Len(h[s.array]) : i > s.len => g[s.array][i] = h[s.array][i]
  <1> PICK k \in Nat : k = s.len
    BY DEF In, Slice
  <1> PICK old : old = h[s.array]
    OBVIOUS
  <1>1. old \in Seq(Finding) /\ s.array \in DOMAIN h
    BY DEF Heap, In
  <1> PICK cap \in Nat : cap = Len(old)
    BY <1>1
  <1>2. k <= cap
    BY DEF In
  <1> PICK v : v = BySeverity(View(h, s))
    OBVIOUS
  <1>3. v \in Seq(Finding) /\ Len(v) = k
    <2>1. View(h, s) \in Seq(Finding) /\ Len(View(h, s)) = k
      BY Seen
    <2>2. v \in Seq(Finding) /\ Same(v, View(h, s))
      BY <2>1, FindingsSorted
    <2> QED BY <2>1, <2>2 DEF Same
  <1> PICK w : w = Write(old, 0 + 1, v)
    OBVIOUS
  <1>4. /\ w \in Seq(Finding) /\ Len(w) = cap
        /\ \A i \in 1..cap : w[i] = IF i > 0 /\ i <= 0 + k THEN v[i - 0] ELSE old[i]
    <2>1. 0 \in Nat /\ 0 + Len(v) <= Len(old)
      BY <1>2, <1>3
    <2>2. Overwritten(w, old, 0, v)
      BY <1>1, <1>3, <2>1, Written
    <2> QED BY <1>3, <2>2 DEF Overwritten
  <1>5. g = [h EXCEPT ![s.array] = w]
    BY DEF Sorted
  <1>6. g \in Heap /\ DOMAIN g = DOMAIN h /\ g[s.array] = w /\ \A a \in DOMAIN h : a # s.array => g[a] = h[a]
    BY <1>1, <1>4, <1>5 DEF Heap
  <1>7. In(g, s)
    BY <1>1, <1>2, <1>4, <1>6 DEF In
  <1>8. \A i \in 1..cap : w[i] = IF i <= k THEN v[i] ELSE old[i]
    BY <1>4
  <1>9. View(g, s) = v
    <2>1. \A i \in 1..k : g[s.array][i] = v[i]
      BY <1>2, <1>6, <1>8
    <2> QED BY <1>3, <1>6, <1>7, <2>1, SameView
  <1>10. \A a \in DOMAIN h : (a # s.array => g[a] = h[a]) /\ Len(g[a]) = Len(h[a])
    BY <1>4, <1>6
  <1>11. \A i \in 1..cap : i > k => g[s.array][i] = old[i]
    BY <1>6, <1>8
  <1> QED BY <1>6, <1>7, <1>9, <1>10, <1>11

LEMMA ScoreIsNumber == ASSUME NEW list \in Seq(Finding) PROVE Score(list) \in Int
  <1>1. \A severity : Cardinality(Of(list, severity)) \in Nat
    BY CountsAreNumbers
  <1>2. Score(list) = PointsLeft(Cardinality(Of(list, "critical")), Cardinality(Of(list, "high")),
                         Cardinality(Of(list, "medium")), Cardinality(Of(list, "low")), Cardinality(Of(list, "info")))
    BY DEF Of, Score, ScoreBy, PointsLeft
  <1>3. \A c, h, m, l, i \in Nat : PointsLeft(c, h, m, l, i) \in Int
    BY DEF PointsLeft, DefaultScoring
  <1> QED BY <1>1, <1>2, <1>3

LEMMA ScoreOfNothing == Score(<<>>) = 100
  <1>1. \A severity : Of(<<>>, severity) = {}
    BY DEF Of
  <1>2. \A severity : Cardinality(Of(<<>>, severity)) = 0
    BY <1>1, FS_EmptySet
  <1>3. Score(<<>>) = PointsLeft(Cardinality(Of(<<>>, "critical")), Cardinality(Of(<<>>, "high")),
                         Cardinality(Of(<<>>, "medium")), Cardinality(Of(<<>>, "low")), Cardinality(Of(<<>>, "info")))
    BY DEF Of, Score, ScoreBy, PointsLeft
  <1>4. PointsLeft(0, 0, 0, 0, 0) = 100
    BY DEF PointsLeft, DefaultScoring
  <1> QED BY <1>2, <1>3, <1>4

\* The slice of the result: the findings of list, in order.
ResultOf(h, s, list) ==
    /\ In(h, s) /\ Same(View(h, s), list) /\ InOrder(View(h, s))
    /\ s.score = Score(list)

\* How findings of mine that v no longer holds compare with the first of v.
Kept(v, mine) == \A f \in Found(mine) : f \notin Found(v) =>
    \A i \in 1..Len(mine) : Rank(v[i].severity) <= Rank(f.severity)

\* The slice of the report: as long as mine, all from list, none more severe left out.
ReportOf(h, r, mine, list) ==
    /\ In(h, r) /\ r.len = Len(mine)
    /\ mine = <<>> => Len(h[r.array]) = 0
    /\ Found(View(h, r)) \subseteq Found(list) /\ Kept(View(h, r), mine)

\* AddFindings: from h and s to g and t.
Merged(h, s, list, g, t) ==
    /\ g \in Heap /\ ResultOf(g, t, list) /\ t.len >= s.len
    /\ DOMAIN h \subseteq DOMAIN g
    /\ \A a \in DOMAIN h : (a # t.array => g[a] = h[a]) /\ Len(g[a]) = Len(h[a])
    /\ t.array = s.array \/ t.array \notin DOMAIN h

LEMMA AddLeaves ==
    ASSUME NEW h \in Heap, NEW s, NEW list \in Seq(Finding), NEW extra \in Seq(Finding),
           In(h, s), Same(View(h, s), list), extra # <<>>,
           NEW p, p = AppendTo(h, s, extra), NEW g, g = Sorted(p.heap, p.slice),
           NEW t, t = [p.slice EXCEPT !.score = Score(View(g, p.slice))]
    PROVE  Merged(h, s, list \o extra, g, t)
  <1> PICK q : q = p.slice
    OBVIOUS
  <1> PICK k : k = p.heap
    OBVIOUS
  <1>1. Appended(h, s, extra, k, q)
    BY AppendLeaves
  <1>2. k \in Heap /\ In(k, q) /\ DOMAIN h \subseteq DOMAIN k /\ q.len = s.len + Len(extra)
    BY <1>1 DEF Appended
  <1>3. /\ g \in Heap /\ DOMAIN g = DOMAIN k /\ In(g, q) /\ View(g, q) = BySeverity(View(k, q))
        /\ \A a \in DOMAIN k : (a # q.array => g[a] = k[a]) /\ Len(g[a]) = Len(k[a])
    BY <1>2, SortLeaves
  <1> PICK v : v = View(g, q)
    OBVIOUS
  <1>4. v \in Seq(Finding) /\ InOrder(v) /\ Same(v, View(k, q))
    <2>1. View(k, q) \in Seq(Finding)
      BY <1>2, Seen
    <2> QED BY <1>3, <2>1, FindingsSorted
  <1>5. Same(v, list \o extra)
    <2>1. View(h, s) \in Seq(Finding)
      BY Seen
    <2>2. Same(View(h, s) \o extra, list \o extra)
      BY <2>1, SameBehind
    <2>3. View(k, q) = View(h, s) \o extra
      BY <1>1 DEF Appended
    <2> QED BY <1>4, <2>2, <2>3, SameIsTransitive
  <1>6. t.array = q.array /\ t.len = q.len /\ t.score = Score(v) /\ In(g, t)
    <2>1. Score(v) \in Int
      BY <1>4, ScoreIsNumber
    <2>2. q \in Slice
      BY <1>2 DEF In
    <2>3. t = [q EXCEPT !.score = Score(v)]
      OBVIOUS
    <2>4. t \in Slice /\ t.array = q.array /\ t.len = q.len /\ t.score = Score(v)
      BY <2>1, <2>2, <2>3 DEF Slice
    <2> QED BY <1>3, <2>4 DEF In
  <1>7. View(g, t) = v
    BY <1>6 DEF View
  <1>8. ResultOf(g, t, list \o extra)
    <2>1. Score(v) = Score(list \o extra)
      BY <1>5, SameScore
    <2> QED BY <1>4, <1>5, <1>6, <1>7, <2>1 DEF ResultOf
  <1>9. t.len >= s.len
    <2>1. s.len \in Nat /\ Len(extra) \in Nat
      BY DEF In, Slice
    <2> QED BY <1>2, <1>6, <2>1
  <1>10. ASSUME NEW a \in DOMAIN h PROVE (a # t.array => g[a] = h[a]) /\ Len(g[a]) = Len(h[a])
    <2>1. a \in DOMAIN k
      BY <1>2
    <2>2. a # q.array => k[a] = h[a]
      BY <1>1 DEF Appended
    <2>3. Len(k[a]) = Len(h[a])
      <3>1. CASE a = q.array
        BY <1>1, <3>1 DEF Appended
      <3> QED BY <2>2, <3>1
    <2> QED BY <1>3, <1>6, <2>1, <2>2, <2>3
  <1>11. t.array = s.array \/ t.array \notin DOMAIN h
    BY <1>1, <1>6 DEF Appended
  <1>12. DOMAIN h \subseteq DOMAIN g
    BY <1>2, <1>3
  <1> QED BY <1>3, <1>8, <1>9, <1>10, <1>11, <1>12 DEF Merged

LEMMA ReportAfter ==
    ASSUME NEW h \in Heap, NEW s, NEW r, NEW g, NEW t,
           NEW list \in Seq(Finding), NEW mine \in Seq(Finding), NEW extra \in Seq(Finding),
           In(h, s), s.len = Len(list), Len(mine) <= Len(list), Found(mine) \subseteq Found(list),
           ReportOf(h, r, mine, list), Merged(h, s, list \o extra, g, t)
    PROVE  ReportOf(g, r, mine, list \o extra)
  <1> PICK n \in Nat : n = Len(mine)
    OBVIOUS
  <1> PICK all : all = list \o extra
    OBVIOUS
  <1>1. Found(all) = Found(list) \cup Found(extra)
    BY FoundBehind
  <1>2. In(h, r) /\ r.len = n /\ r \in Slice /\ r.array \in DOMAIN h /\ n <= Len(h[r.array])
    BY DEF ReportOf, In
  <1>3. g \in Heap /\ DOMAIN h \subseteq DOMAIN g /\ Len(g[r.array]) = Len(h[r.array])
    BY <1>2 DEF Merged
  <1>4. In(g, r)
    BY <1>2, <1>3 DEF In
  <1> PICK v : v = View(g, r)
    OBVIOUS
  <1>5. v \in Seq(Finding) /\ Len(v) = n /\ \A i \in 1..n : v[i] = g[r.array][i]
    BY <1>2, <1>3, <1>4, Seen
  <1>6. CASE t.array = r.array
    <2> PICK u : u = View(g, t)
      OBVIOUS
    <2>1. In(g, t) /\ Same(u, all) /\ InOrder(u) /\ t.len >= n
      <3>1. s.len \in Nat /\ t.len \in Nat
        BY DEF Merged, ResultOf, In, Slice
      <3>2. t.len >= s.len
        BY DEF Merged
      <3>3. Len(list) >= n
        OBVIOUS
      <3>4. t.len >= n
        BY <3>1, <3>2, <3>3
      <3> QED BY <3>4 DEF Merged, ResultOf
    <2> PICK m \in Nat : m = t.len
      BY <2>1 DEF In, Slice
    <2>2. u \in Seq(Finding) /\ Len(u) = m /\ \A i \in 1..m : u[i] = g[t.array][i]
      BY <1>3, <2>1, Seen
    <2>3. \A i \in 1..n : i \in 1..m /\ v[i] = u[i]
      BY <1>5, <1>6, <2>1, <2>2
    <2>4. Found(u) = Found(all)
      BY <2>1 DEF Same
    <2>5. Found(v) \subseteq Found(all)
      <3> SUFFICES ASSUME NEW f \in Found(v) PROVE f \in Found(u)
        BY <2>4
      <3>1. DOMAIN v = 1..n /\ DOMAIN u = 1..m
        BY <1>5, <2>2
      <3>2. PICK i \in 1..n : f = v[i]
        BY <3>1 DEF Found
      <3> QED BY <2>3, <3>1, <3>2 DEF Found
    <2>6. Kept(v, mine)
      <3> SUFFICES ASSUME NEW f \in Found(mine), f \notin Found(v), NEW i \in 1..n
                   PROVE  Rank(v[i].severity) <= Rank(f.severity)
        BY DEF Kept
      <3>1. f \in Found(u)
        BY <1>1, <2>4
      <3>2. PICK j \in 1..m : f = u[j]
        BY <2>2, <3>1 DEF Found
      <3>3. ~(j \in 1..n)
        <4>1. DOMAIN v = 1..n
          BY <1>5
        <4>2. \A x \in 1..n : v[x] \in Found(v)
          BY <4>1 DEF Found
        <4> QED BY <2>3, <3>2, <4>2
      <3>4. i \in DOMAIN u /\ j \in DOMAIN u /\ i < j
        BY <2>2, <2>3, <3>3
      <3> QED BY <2>1, <2>3, <3>2, <3>4 DEF InOrder
    <2>7. mine = <<>> => Len(g[r.array]) = 0
      BY <1>3 DEF ReportOf
    <2> QED BY <1>2, <1>4, <2>5, <2>6, <2>7 DEF ReportOf
  <1>7. CASE t.array # r.array
    <2>1. g[r.array] = h[r.array]
      BY <1>2, <1>7 DEF Merged
    <2>2. View(g, r) = View(h, r)
      BY <2>1 DEF View
    <2> QED BY <1>1, <1>4, <2>1, <2>2 DEF ReportOf
  <1> QED BY <1>6, <1>7

-----------------------------------------------------------------------------
(* The list of the rules, appended one finding at a time.                    *)
Slices == {b \in [heap : Heap, slice : Slice] : In(b.heap, b.slice)}
BuildLoop(f, base, list) ==
    f = [s \in SUBSET DOMAIN list |-> IF s = {} THEN base
            ELSE LET b == f[s \ {Max(s)}] IN AppendTo(b.heap, b.slice, <<list[Max(s)]>>)]
Built(base, list) == FoldLeft(LAMBDA b, f : AppendTo(b.heap, b.slice, <<f>>), base, list)

LEMMA OneAppended ==
    ASSUME NEW b \in Slices, NEW f \in Finding, NEW c, c = AppendTo(b.heap, b.slice, <<f>>)
    PROVE  c \in Slices /\ Appended(b.heap, b.slice, <<f>>, c.heap, c.slice)
  <1>1. b.heap \in Heap /\ In(b.heap, b.slice)
    BY DEF Slices
  <1>2. <<f>> \in Seq(Finding) /\ <<f>> # <<>>
    OBVIOUS
  <1>3. Appended(b.heap, b.slice, <<f>>, c.heap, c.slice)
    BY <1>1, <1>2, AppendLeaves
  <1>4. \E x, y : c = [heap |-> x, slice |-> y]
    BY DEF AppendTo
  <1>5. c.heap \in Heap /\ In(c.heap, c.slice) /\ c.slice \in Slice
    BY <1>3 DEF Appended, In
  <1> QED BY <1>3, <1>4, <1>5 DEF Slices

LEMMA BuiltFromRules ==
    ASSUME NEW list \in Seq(Finding), NEW base \in Slices, base.slice.len = 0, NEW c, c = Built(base, list)
    PROVE  /\ c \in Slices /\ View(c.heap, c.slice) = list
           /\ list = <<>> => c = base
  <1> DEFINE H == [p \in (1..Len(list)) \X Slices |-> AppendTo(p[2].heap, p[2].slice, <<list[p[1]]>>)]
             F == CHOOSE f : BuildLoop(f, base, list)
  <1> PICK n \in Nat : n = Len(list)
    OBVIOUS
  <1>1. DOMAIN list = 1..n /\ \A k \in 1..n : list[k] \in Finding
    OBVIOUS
  <1>2. \A b \in Slices, f \in Finding : AppendTo(b.heap, b.slice, <<f>>) \in Slices
    BY OneAppended
  <1>3. H \in [(1..n) \X Slices -> Slices]
    <2> SUFFICES ASSUME NEW k \in 1..n, NEW b \in Slices PROVE AppendTo(b.heap, b.slice, <<list[k]>>) \in Slices
      OBVIOUS
    <2> QED BY <1>1, <1>2
  <1>5. PICK f \in [SUBSET (1..n) -> Slices] : FoldsBy(f, n, base, H)
    <2> HIDE DEF H
    <2> QED BY <1>3, FoldExists
  <1>6. \A s \in SUBSET (1..n) : s # {} => Max(s) \in 1..n /\ s \ {Max(s)} \in SUBSET (1..n)
    BY LastOf
  <1>7. \A s \in SUBSET (1..n) : f[s] = IF s = {} THEN base
            ELSE AppendTo(f[s \ {Max(s)}].heap, f[s \ {Max(s)}].slice, <<list[Max(s)]>>)
    BY <1>5, <1>6 DEF FoldsBy
  <1>8. BuildLoop(f, base, list)
    BY <1>1, <1>5, <1>7 DEF BuildLoop
  <1>9. BuildLoop(F, base, list)
    BY <1>8
  <1>10. c = F[DOMAIN list]
    BY DEF Built, FoldLeft, MapThenFoldSet, BuildLoop
  <1> HIDE DEF F, H
  <1>11. F[1..0] = base
    <2>1. 1..0 = {}
      OBVIOUS
    <2> QED BY <1>9, <2>1 DEF BuildLoop
  <1>12. ASSUME NEW k \in 1..n PROVE F[1..k] = AppendTo(F[1..k - 1].heap, F[1..k - 1].slice, <<list[k]>>)
    <2>1. 1..k \in SUBSET DOMAIN list /\ k \in 1..k
      BY <1>1
    <2>2. Max(1..k) = k /\ (1..k) \ {k} = 1..k - 1
      BY LastOf
    <2>3. F[1..k] = AppendTo(F[(1..k) \ {Max(1..k)}].heap, F[(1..k) \ {Max(1..k)}].slice, <<list[Max(1..k)]>>)
      BY <1>9, <2>1 DEF BuildLoop
    <2> QED BY <2>2, <2>3
  <1> DEFINE S == {k \in 0..n : F[1..k] \in Slices /\ View(F[1..k].heap, F[1..k].slice) = SubSeq(list, 1, k)}
  <1>13. 0 \in S
    <2>1. base.heap \in Heap /\ In(base.heap, base.slice)
      BY DEF Slices
    <2>2. <<>> \in Seq(Finding) /\ Len(<<>>) = base.slice.len /\ SubSeq(list, 1, 0) = <<>>
      OBVIOUS
    <2>3. View(base.heap, base.slice) = <<>>
      <3>1. \A i \in 1..base.slice.len : base.heap[base.slice.array][i] = <<>>[i]
        OBVIOUS
      <3> QED BY <2>1, <2>2, <3>1, SameView
    <2>4. 0 \in 0..n
      OBVIOUS
    <2> QED BY <1>11, <2>2, <2>3, <2>4
  <1>14. ASSUME NEW k \in 1..n, k - 1 \in S PROVE k \in S
    <2>b. PICK b : b = F[1..k - 1]
      OBVIOUS
    <2>d. PICK d : d = F[1..k]
      OBVIOUS
    <2>1. b \in Slices /\ View(b.heap, b.slice) = SubSeq(list, 1, k - 1) /\ d = AppendTo(b.heap, b.slice, <<list[k]>>)
      BY <2>b, <2>d, <1>12, <1>14
    <2>2. d \in Slices /\ View(d.heap, d.slice) = View(b.heap, b.slice) \o <<list[k]>>
      <3>1. list[k] \in Finding
        BY <1>1
      <3>2. d \in Slices /\ Appended(b.heap, b.slice, <<list[k]>>, d.heap, d.slice)
        BY <2>1, <3>1, OneAppended
      <3> QED BY <3>2 DEF Appended
    <2>3. SubSeq(list, 1, k - 1) \o <<list[k]>> = SubSeq(list, 1, k)
      OBVIOUS
    <2>4. View(d.heap, d.slice) = SubSeq(list, 1, k)
      <3>1. View(b.heap, b.slice) \o <<list[k]>> = SubSeq(list, 1, k)
        BY <2>1, <2>3
      <3> QED BY <2>2, <3>1
    <2>6. View(F[1..k].heap, F[1..k].slice) = SubSeq(list, 1, k)
      BY <2>d, <2>4, Zenon
    <2>7. k \in 0..n
      OBVIOUS
    <2>5. F[1..k] \in Slices
      BY <2>d, <2>2
    <2> QED BY <2>5, <2>6, <2>7
  <1>15. n \in S
    <2>1. n \in 0..n
      OBVIOUS
    <2>2. 0..n \subseteq S
      <3> HIDE DEF S
      <3> QED BY <1>13, <1>14, UpTo
    <2> HIDE DEF S
    <2> QED BY <2>1, <2>2
  <1>16. SubSeq(list, 1, n) = list
    OBVIOUS
  <1>17. ASSUME list = <<>> PROVE c = base
    <2>1. n = 0
      BY <1>17
    <2> QED BY <1>1, <1>10, <1>11, <2>1
  <1> QED BY <1>1, <1>10, <1>15, <1>16, <1>17

\* A finished scan of a command that merges advisories.
Finished ==
    /\ res.score = Score(All) /\ rep.score = res.score
    /\ \A severity \in Severities :
        checkFailOn(severity) <=> \E f \in Found(All) : Rank(f.severity) <= Rank(severity)
    /\ Listed \in Seq(Finding) /\ Len(Listed) = Len(own) + Len(advisories)
    /\ Found(Listed) \subseteq Found(All) /\ Found(advisories) \subseteq Found(Listed)
    /\ Kept(Listed, own)

ReportInv ==
    /\ own \in Seq(Finding) /\ vendor \in Seq(Finding) /\ advisories \in Seq(Finding)
    /\ command \in Commands /\ at \in Places /\ heap \in Heap
    /\ at = "evaluate" => /\ heap = << <<>> >> /\ rep = res
                          /\ res = [array |-> 1, len |-> 0, score |-> 100]
    /\ at \in {"new", "vendor"} => /\ ResultOf(heap, res, own)
                                   /\ own = <<>> => Len(heap[res.array]) = 0
    /\ at = "vendor" => rep = res
    /\ at = "advisories" => command = "cli"
    /\ (at = "advisories" \/ (at = "done" /\ command # "cli")) =>
            /\ ResultOf(heap, res, own \o vendor) /\ ReportOf(heap, rep, own, own \o vendor)
            /\ rep.score = res.score
    /\ (at = "done" /\ command = "cli") => Finished

LEMMA ListsAreLists ==
    ASSUME NEW from \in {"rule", "vendor", "advisory"}, NEW max \in Nat, NEW list \in Lists(from, max)
    PROVE  list \in Seq(Finding)
  <1>0. PICK len \in 0..max :
            list \in {[i \in 1..len |-> [from |-> from, n |-> i, severity |-> s[i]]] : s \in [1..len -> Severities]}
    BY DEF Lists
  <1>1. PICK s \in [1..len -> Severities] :
            list = [i \in 1..len |-> [from |-> from, n |-> i, severity |-> s[i]]]
    BY <1>0
  <1>2. \A i \in 1..len : [from |-> from, n |-> i, severity |-> s[i]] \in Finding
    BY DEF Finding
  <1>3. list \in [1..len -> Finding]
    BY <1>1, <1>2
  <1> QED BY <1>3, FunctionsAreLists

LEMMA InitReportInv == ASSUME Init PROVE ReportInv
  <1>1. own \in Seq(Finding) /\ vendor \in Seq(Finding)
    BY ListsAreLists, ReportAssumption DEF Init, ReportAssumption
  <1>2. advisories \in Seq(Finding)
    <2>1. CASE command = "cli"
      BY <2>1, ListsAreLists, ReportAssumption DEF Init, ReportAssumption
    <2>2. CASE command # "cli"
      <3>1. advisories = <<>>
        BY <2>2 DEF Init
      <3> QED BY <3>1
    <2> QED BY <2>1, <2>2
  <1>3. heap \in Heap
    <2>1. <<>> \in Seq(Finding)
      OBVIOUS
    <2> QED BY <2>1 DEF Init, Heap
  <1>4. at = "evaluate" /\ command \in Commands /\ heap = << <<>> >> /\ rep = res
        /\ res = [array |-> 1, len |-> 0, score |-> 100]
    BY DEF Init
  <1> QED BY <1>1, <1>2, <1>3, <1>4 DEF ReportInv, Places

\* AddFindings of a list that may be empty.
LEMMA AddedOrNot ==
    ASSUME ReportInv, NEW list \in Seq(Finding), NEW extra \in Seq(Finding), ResultOf(heap, res, list),
           NEW g, g = AddFindings(extra).heap, NEW t, t = AddFindings(extra).slice
    PROVE  /\ extra = <<>> => g = heap /\ t = res /\ list \o extra = list
           /\ extra # <<>> => Merged(heap, res, list \o extra, g, t)
           /\ g \in Heap /\ ResultOf(g, t, list \o extra)
  <1> PICK p : p = AppendTo(heap, res, extra)
    OBVIOUS
  <1>1. ASSUME extra = <<>> PROVE g = heap /\ t = res /\ list \o extra = list
    BY <1>1 DEF AddFindings
  <1>2. ASSUME extra # <<>> PROVE Merged(heap, res, list \o extra, g, t)
    <2>1. g = Sorted(p.heap, p.slice) /\ t = [p.slice EXCEPT !.score = Score(View(g, p.slice))]
      BY <1>2 DEF AddFindings
    <2>2. heap \in Heap /\ In(heap, res) /\ Same(View(heap, res), list)
      BY DEF ReportInv, ResultOf
    <2> QED BY <1>2, <2>1, <2>2, AddLeaves
  <1>3. g \in Heap /\ ResultOf(g, t, list \o extra)
    <2>1. CASE extra = <<>>
      BY <1>1, <2>1 DEF ReportInv
    <2>2. CASE extra # <<>>
      BY <1>2, <2>2 DEF Merged
    <2> QED BY <2>1, <2>2
  <1> QED BY <1>1, <1>2, <1>3

LEMMA EvaluationKeeps == ASSUME ReportInv, Evaluation PROVE ReportInv'
  <1> PICK base : base = [heap |-> heap, slice |-> res]
    OBVIOUS
  <1> PICK c : c = Built(base, own)
    OBVIOUS
  <1>1. heap = << <<>> >> /\ res = [array |-> 1, len |-> 0, score |-> 100] /\ own \in Seq(Finding) /\ heap \in Heap
    BY DEF ReportInv, Evaluation
  <1>2. base \in Slices /\ base.slice.len = 0
    <2>1. res \in Slice /\ DOMAIN heap = {1} /\ heap[1] = <<>>
      BY <1>1 DEF Slice
    <2>2. In(heap, res)
      BY <1>1, <2>1 DEF In
    <2> QED BY <1>1, <2>1, <2>2 DEF Slices
  <1>3. c \in Slices /\ View(c.heap, c.slice) = own /\ (own = <<>> => c = base)
    BY <1>1, <1>2, BuiltFromRules
  <1> PICK h : h = c.heap
    OBVIOUS
  <1> PICK s : s = c.slice
    OBVIOUS
  <1>4. h \in Heap /\ In(h, s) /\ s \in Slice /\ View(h, s) = own
    BY <1>3 DEF Slices
  <1>5. heap' = Sorted(h, s) /\ res' = [s EXCEPT !.score = Score(View(heap', s))]
        /\ at' = "new" /\ UNCHANGED <<command, own, vendor, advisories>>
    BY DEF Evaluation, Built, inputs
  <1>6. /\ heap' \in Heap /\ In(heap', s) /\ View(heap', s) = BySeverity(own)
        /\ Len(heap'[s.array]) = Len(h[s.array])
    <2>1. s.array \in DOMAIN h
      BY <1>4 DEF In
    <2> QED BY <1>4, <1>5, <2>1, SortLeaves
  <1>7. Same(BySeverity(own), own) /\ InOrder(BySeverity(own)) /\ BySeverity(own) \in Seq(Finding)
    BY <1>1, FindingsSorted
  <1>8. res' \in Slice /\ res'.array = s.array /\ res'.len = s.len /\ res'.score = Score(BySeverity(own))
    <2>1. Score(BySeverity(own)) \in Int
      BY <1>7, ScoreIsNumber
    <2>2. res' = [s EXCEPT !.score = Score(BySeverity(own))]
      BY <1>5, <1>6
    <2> QED BY <1>4, <2>1, <2>2 DEF Slice
  <1>9. ResultOf(heap', res', own)
    <2>1. In(heap', res') /\ View(heap', res') = BySeverity(own)
      BY <1>6, <1>8 DEF In, View
    <2>2. res'.score = Score(own)
      BY <1>7, <1>8, SameScore
    <2> QED BY <1>7, <2>1, <2>2 DEF ResultOf
  <1>10. ASSUME own = <<>> PROVE Len(heap'[res'.array]) = 0
    <2>1. h = heap /\ s = res
      BY <1>3, <1>10
    <2>2. Len(h[s.array]) = 0
      BY <1>1, <2>1
    <2> QED BY <1>6, <1>8, <2>2
  <1>11. ResultOf(heap, res, own)'
    BY <1>5, <1>9
  <1> QED BY <1>5, <1>6, <1>10, <1>9 DEF ReportInv, Places

LEMMA NewKeeps == ASSUME ReportInv, New PROVE ReportInv'
  <1>1. at = "new" /\ at' = "vendor" /\ rep' = res /\ UNCHANGED <<command, own, vendor, advisories, heap, res>>
    BY DEF New, inputs
  <1>2. ResultOf(heap, res, own) /\ (own = <<>> => Len(heap[res.array]) = 0)
    BY <1>1 DEF ReportInv
  <1> QED BY <1>1, <1>2 DEF ReportInv, Places

LEMMA VendorKeeps == ASSUME ReportInv, Vendor PROVE ReportInv'
  <1>1. /\ at = "vendor" /\ at' = (IF command = "cli" THEN "advisories" ELSE "done")
        /\ heap' = AddFindings(vendor).heap /\ res' = AddFindings(vendor).slice
        /\ rep' = [rep EXCEPT !.score = res'.score]
        /\ UNCHANGED <<command, own, vendor, advisories>>
    BY DEF Vendor, inputs
  <1>2. /\ ResultOf(heap, res, own) /\ (own = <<>> => Len(heap[res.array]) = 0) /\ rep = res
        /\ own \in Seq(Finding) /\ vendor \in Seq(Finding) /\ heap \in Heap
    BY <1>1 DEF ReportInv
  <1>3. /\ vendor = <<>> => heap' = heap /\ res' = res /\ own \o vendor = own
        /\ vendor # <<>> => Merged(heap, res, own \o vendor, heap', res')
        /\ heap' \in Heap /\ ResultOf(heap', res', own \o vendor)
    BY <1>1, <1>2, AddedOrNot
  <1> PICK n \in Nat : n = Len(own)
    BY <1>2
  <1>4. In(heap, res) /\ res \in Slice /\ res.len = n /\ Found(View(heap, res)) = Found(own)
    <2>1. In(heap, res) /\ Same(View(heap, res), own)
      BY <1>2 DEF ResultOf
    <2>2. Len(View(heap, res)) = res.len
      BY <1>2, <2>1, Seen
    <2> QED BY <2>1, <2>2 DEF Same, In
  <1>5. ReportOf(heap, rep, own, own)
    <2>1. Kept(View(heap, res), own)
      BY <1>4 DEF Kept
    <2> QED BY <1>2, <1>4, <2>1 DEF ReportOf
  <1>6. ReportOf(heap', rep, own, own \o vendor)
    <2>1. CASE vendor = <<>>
      BY <1>3, <1>5, <2>1
    <2>2. CASE vendor # <<>>
      <3>1. Merged(heap, res, own \o vendor, heap', res') /\ Len(own) <= Len(own)
            /\ Found(own) \subseteq Found(own) /\ res.len = Len(own)
        BY <1>3, <1>4, <2>2
      <3> QED BY <1>2, <1>4, <1>5, <3>1, ReportAfter
    <2> QED BY <2>1, <2>2
  <1>7. rep'.array = rep.array /\ rep'.len = rep.len /\ rep'.score = res'.score /\ rep' \in Slice
    <2>1. res'.score \in Int
      BY <1>3 DEF ResultOf, In, Slice
    <2> QED BY <1>1, <1>2, <1>4, <2>1 DEF Slice
  <1>8. ReportOf(heap', rep', own, own \o vendor)
    <2>1. View(heap', rep') = View(heap', rep)
      BY <1>7 DEF View
    <2> QED BY <1>6, <1>7, <2>1 DEF ReportOf, In
  <1> QED BY <1>1, <1>2, <1>3, <1>7, <1>8 DEF ReportInv, Places

LEMMA GateOfSame ==
    ASSUME NEW u, NEW list, Found(u) = Found(list)
    PROVE  \A x : (\E f \in Found(u) : Rank(f.severity) <= Rank(x)) <=>
                  (\E f \in Found(list) : Rank(f.severity) <= Rank(x))
  OBVIOUS

LEMMA AdvisoriesKeeps == ASSUME ReportInv, Advisories PROVE ReportInv'
  <1> PICK g : g = AddFindings(advisories).heap
    OBVIOUS
  <1> PICK t : t = AddFindings(advisories).slice
    OBVIOUS
  <1> PICK p : p = AppendTo(g, rep, advisories)
    OBVIOUS
  <1> PICK list : list = own \o vendor
    OBVIOUS
  <1> PICK all : all = list \o advisories
    OBVIOUS
  <1>1. /\ at = "advisories" /\ at' = "done" /\ res' = t
        /\ advisories = <<>> => heap' = heap /\ rep' = rep
        /\ advisories # <<>> => heap' = p.heap /\ rep' = [p.slice EXCEPT !.score = t.score]
        /\ UNCHANGED <<command, own, vendor, advisories>>
    BY DEF Advisories, inputs
  <1>2. /\ own \in Seq(Finding) /\ vendor \in Seq(Finding) /\ advisories \in Seq(Finding)
        /\ command \in Commands /\ command = "cli" /\ heap \in Heap
        /\ ResultOf(heap, res, list) /\ ReportOf(heap, rep, own, list) /\ rep.score = res.score
    BY <1>1 DEF ReportInv
  <1>3. list \in Seq(Finding) /\ all \in Seq(Finding) /\ All = all /\ All' = all
    <2>1. All' = All
      BY <1>1 DEF All
    <2> QED BY <1>2, <2>1 DEF All
  <1>4. /\ advisories = <<>> => g = heap /\ t = res /\ all = list
        /\ advisories # <<>> => Merged(heap, res, all, g, t)
        /\ g \in Heap /\ ResultOf(g, t, all)
    BY <1>2, <1>3, AddedOrNot
  <1>5. Found(own) \subseteq Found(list) /\ Found(advisories) \subseteq Found(all) /\ Found(list) \subseteq Found(all)
        /\ Len(own) <= Len(list)
    <2>1. Found(list) = Found(own) \cup Found(vendor)
      BY <1>2, FoundBehind
    <2>2. Found(all) = Found(list) \cup Found(advisories)
      BY <1>2, <1>3, FoundBehind
    <2>3. Len(list) = Len(own) + Len(vendor) /\ Len(own) \in Nat /\ Len(vendor) \in Nat
      BY <1>2
    <2> QED BY <2>1, <2>2, <2>3
  <1>6. In(heap, res) /\ res.len = Len(list)
    <2>1. In(heap, res) /\ Len(View(heap, res)) = Len(list)
      BY <1>2 DEF ResultOf, Same
    <2> QED BY <1>2, <2>1, Seen
  <1>7. ReportOf(g, rep, own, all)
    <2>1. CASE advisories = <<>>
      BY <1>2, <1>4, <2>1
    <2>2. CASE advisories # <<>>
      BY <1>2, <1>3, <1>4, <1>5, <1>6, <2>2, ReportAfter
    <2> QED BY <2>1, <2>2
  <1> PICK n \in Nat : n = Len(own)
    BY <1>2
  <1> PICK m \in Nat : m = Len(advisories)
    BY <1>2
  <1> PICK r : r = View(g, rep)
    OBVIOUS
  <1> PICK u : u = View(g, t)
    OBVIOUS
  <1>8. /\ In(g, rep) /\ rep.len = n /\ (n = 0 => Len(g[rep.array]) = 0)
        /\ r \in Seq(Finding) /\ Len(r) = n /\ Found(r) \subseteq Found(all) /\ Kept(r, own)
        /\ \A i \in 1..n : r[i] = g[rep.array][i]
    <2>1. In(g, rep) /\ rep.len = n /\ Found(r) \subseteq Found(all) /\ Kept(r, own)
      BY <1>7 DEF ReportOf
    <2>2. r \in Seq(Finding) /\ Len(r) = n /\ \A i \in 1..n : r[i] = g[rep.array][i]
      BY <1>4, <2>1, Seen
    <2>3. n = 0 => own = <<>>
      BY <1>2, EmptySeq
    <2>4. n = 0 => Len(g[rep.array]) = 0
      BY <1>7, <2>3 DEF ReportOf
    <2> QED BY <2>1, <2>2, <2>4
  <1>9. In(g, t) /\ InOrder(u) /\ Found(u) = Found(all) /\ t.score = Score(all) /\ t.len = Len(all)
        /\ u \in Seq(Finding) /\ Len(u) = t.len /\ \A i \in 1..t.len : u[i] = g[t.array][i]
    <2>1. In(g, t) /\ InOrder(u) /\ Same(u, all) /\ t.score = Score(all)
      BY <1>4 DEF ResultOf
    <2>2. u \in Seq(Finding) /\ Len(u) = t.len /\ \A i \in 1..t.len : u[i] = g[t.array][i]
      BY <1>4, <2>1, Seen
    <2> QED BY <2>1, <2>2 DEF Same
  <1>10. CASE advisories = <<>>
    <2>1. heap' = g /\ rep' = rep /\ res' = t /\ t = res /\ m = 0 /\ Listed' = r /\ View(heap', res') = u
      BY <1>1, <1>4, <1>10 DEF Listed, View
    <2>2. res'.score = Score(all) /\ rep'.score = res'.score
      BY <1>1, <1>2, <1>9, <2>1
    <2>3. \A severity \in Severities :
            checkFailOn(severity)' <=> \E f \in Found(all) : Rank(f.severity) <= Rank(severity)
      BY <1>9, <2>1 DEF checkFailOn
    <2>4. Listed' \in Seq(Finding) /\ Len(Listed') = n + m /\ Found(Listed') \subseteq Found(all)
          /\ Found(advisories) \subseteq Found(Listed') /\ Kept(Listed', own)
      <3>1. Found(advisories) = {}
        BY <1>10 DEF Found
      <3> QED BY <1>8, <2>1, <3>1
    <2>5. heap' \in Heap
      BY <1>4, <2>1
    <2>6. Finished'
      BY <1>1, <1>3, <2>2, <2>3, <2>4 DEF Finished
    <2> QED BY <1>1, <1>2, <2>5, <2>6 DEF ReportInv, Places
  <1>11. CASE advisories # <<>>
    <2> PICK h : h = p.heap
      OBVIOUS
    <2> PICK q : q = p.slice
      OBVIOUS
    <2> PICK l : l = View(h, q)
      OBVIOUS
    <2>1. Appended(g, rep, advisories, h, q)
      BY <1>2, <1>4, <1>8, <1>11, AppendLeaves
    <2>2. /\ h \in Heap /\ In(h, q) /\ q \in Slice /\ q.len = n + m /\ l = r \o advisories
          /\ \A a \in DOMAIN g : a # q.array => h[a] = g[a]
          /\ DOMAIN g \subseteq DOMAIN h
      BY <1>8, <2>1 DEF Appended, In
    <2>3. /\ l \in Seq(Finding) /\ Len(l) = n + m /\ Found(l) = Found(r) \cup Found(advisories)
          /\ \A i \in 1..n : l[i] = r[i]
          /\ \A i \in 1..n + m : l[i] = h[q.array][i]
      <3>1. l \in Seq(Finding) /\ Len(l) = n + m /\ \A i \in 1..n + m : l[i] = h[q.array][i]
        <4>1. l \in Seq(Finding) /\ Len(l) = q.len /\ \A i \in 1..q.len : l[i] = h[q.array][i]
          <5>1. h \in Heap /\ In(h, q)
            BY <2>2
          <5>2. View(h, q) \in Seq(Finding) /\ Len(View(h, q)) = q.len
                /\ \A i \in 1..q.len : View(h, q)[i] = h[q.array][i]
            BY <5>1, Seen
          <5> QED BY <5>2
        <4>2. q.len = n + m
          BY <2>2
        <4> QED BY <4>1, <4>2
      <3>2. Found(l) = Found(r) \cup Found(advisories)
        BY <1>2, <1>8, <2>2, FoundBehind
      <3>3. /\ r \o advisories \in Seq(Finding) /\ Len(r \o advisories) = Len(r) + Len(advisories)
            /\ \A i \in 1..Len(r) + Len(advisories) :
                 (r \o advisories)[i] = IF i <= Len(r) THEN r[i] ELSE advisories[i - Len(r)]
        <4>1. r \in Seq(Finding)
          BY <1>8
        <4>2. advisories \in Seq(Finding)
          BY <1>2
        <4> QED BY <4>1, <4>2, Concatenated
      <3>4. ASSUME NEW i \in 1..n PROVE l[i] = r[i]
        <4>1. i \in 1..Len(r) + Len(advisories) /\ i <= Len(r)
          BY <1>8
        <4> QED BY <2>2, <3>3, <4>1
      <3> QED BY <3>1, <3>2, <3>4
    <2>4. heap' = h /\ res' = t /\ rep'.array = q.array /\ rep'.len = q.len /\ rep'.score = t.score
      BY <1>1, <1>11, <2>2 DEF Slice
    <2>5. Listed' = l
      BY <2>4 DEF Listed, View
    <2>6. Kept(l, own)
      BY <1>8, <2>3 DEF Kept
    <2>7. Found(l) \subseteq Found(all)
      BY <1>5, <1>8, <2>3
    <2> PICK w : w = View(h, t)
      OBVIOUS
    <2>8. In(h, t) /\ t \in Slice
      <3>1. t.array \in DOMAIN g /\ t \in Slice /\ t.len <= Len(g[t.array])
        BY <1>9 DEF In
      <3>2. Len(h[t.array]) = Len(g[t.array])
        <4>1. CASE t.array = q.array
          BY <2>1, <3>1, <4>1 DEF Appended
        <4>2. CASE t.array # q.array
          BY <2>2, <3>1, <4>2
        <4> QED BY <4>1, <4>2
      <3> QED BY <2>2, <3>1, <3>2 DEF In
    <2>9. ASSUME NEW x \in Severities
          PROVE  (\E f \in Found(w) : Rank(f.severity) <= Rank(x)) <=>
                 (\E f \in Found(all) : Rank(f.severity) <= Rank(x))
      <3>1. CASE t.array # q.array
        <4>1. h[t.array] = g[t.array]
          BY <1>9, <2>2, <3>1 DEF In
        <4>2. w = u
          BY <4>1 DEF View
        <4> QED BY <1>9, <4>2
      <3>2. CASE t.array = q.array
        <4> PICK k \in Nat : k = t.len
          BY <2>8 DEF Slice
        <4>1. w \in Seq(Finding) /\ Len(w) = k /\ \A i \in 1..k : w[i] = h[q.array][i]
          BY <2>2, <2>8, <3>2, Seen, SMTT(20)
        <4>2. q.array = rep.array /\ n + m <= Len(g[rep.array])
              /\ \A i \in 1..Len(g[rep.array]) : ~(i > n /\ i <= n + m) => h[q.array][i] = g[q.array][i]
          <5>1. q.array \in DOMAIN g
            BY <1>9, <3>2 DEF In
          <5>2. /\ q.array = rep.array /\ q.len <= Len(g[rep.array])
                /\ \A i \in 1..Len(g[rep.array]) :
                     ~(i > rep.len /\ i <= q.len) => h[rep.array][i] = g[rep.array][i]
            BY <2>1, <5>1 DEF Appended
          <5> QED BY <1>8, <2>2, <5>2
        <4>3. m >= 1
          BY <1>2, <1>11
        <4>4. n >= 1
          BY <1>8, <4>2, <4>3
        <4>5. k >= 1 /\ k <= Len(g[rep.array]) /\ Len(g[rep.array]) \in Nat
          <5>1. Len(all) >= Len(own)
            <6>1. Len(all) = Len(list) + Len(advisories) /\ Len(list) \in Nat
              BY <1>2, <1>3
            <6> QED BY <1>2, <1>5, <6>1
          <5>2. k >= 1
            BY <1>9, <4>4, <5>1
          <5>3. k <= Len(g[rep.array])
            BY <1>9, <3>2, <4>2 DEF In
          <5>4. g[rep.array] \in Seq(Finding)
            BY <1>4, <1>8 DEF In, Heap
          <5> QED BY <5>2, <5>3, <5>4
        <4>6. \A i \in 1..k : u[i] = g[q.array][i]
          BY <1>9, <3>2
        <4>7. \A i \in 1..k : ~(i > n /\ i <= n + m) => w[i] = u[i]
          BY <4>1, <4>2, <4>5, <4>6
        <4>8. \A i \in 1..k : (i > n /\ i <= n + m) => w[i] = l[i]
          BY <2>3, <4>1
        <4>9. ASSUME NEW f \in Found(w) PROVE f \in Found(all)
          <5>1. PICK i \in 1..k : f = w[i]
            BY <4>1 DEF Found
          <5>2. CASE i > n /\ i <= n + m
            <6>1. i \in DOMAIN l /\ f = l[i]
              BY <2>3, <4>8, <5>1, <5>2
            <6> QED BY <2>7, <6>1 DEF Found
          <5>3. CASE ~(i > n /\ i <= n + m)
            <6>1. i \in DOMAIN u /\ f = u[i]
              BY <1>9, <4>7, <5>1, <5>3
            <6> QED BY <1>9, <6>1 DEF Found
          <5> QED BY <5>2, <5>3
        <4>10. w[1] = u[1] /\ w[1] \in Found(w) /\ 1 \in DOMAIN u
          <5>1. 1 \in 1..k /\ ~(1 > n /\ 1 <= n + m)
            BY <4>4, <4>5
          <5>2. 1 \in DOMAIN w
            BY <4>1, <5>1
          <5> QED BY <1>9, <4>7, <5>1, <5>2 DEF Found
        <4>11. ASSUME NEW f \in Found(all), Rank(f.severity) <= Rank(x)
               PROVE  Rank(w[1].severity) <= Rank(x)
          <5>1. PICK j \in 1..k : f = u[j]
            <6>1. DOMAIN u = 1..k
              BY <1>9
            <6> QED BY <1>9, <6>1 DEF Found
          <5>2. u[1].severity \in Severities /\ u[j].severity \in Severities
            <6>1. u[1] \in Finding /\ u[j] \in Finding
              BY <1>9, <4>5, <5>1
            <6> QED BY <6>1 DEF Finding
          <5>3. Rank(u[1].severity) \in Nat /\ Rank(u[j].severity) \in Nat /\ Rank(x) \in Nat
            <6>1. ASSUME NEW severity \in Severities PROVE Rank(severity) \in Nat
              <7>1. Rank(severity) \in 1..5
                BY RankIsNumber
              <7> QED BY <7>1
            <6> QED BY <5>2, <6>1
          <5>4. Rank(u[1].severity) <= Rank(u[j].severity)
            <6>1. CASE j = 1
              BY <5>3, <6>1
            <6>2. CASE j # 1
              <7>1. 1 \in DOMAIN u /\ j \in DOMAIN u /\ 1 < j
                BY <1>9, <4>10, <5>1, <6>2
              <7> QED BY <1>9, <7>1 DEF InOrder
            <6> QED BY <6>1, <6>2
          <5> QED BY <4>10, <4>11, <5>1, <5>3, <5>4
        <4> QED BY <4>9, <4>10, <4>11
      <3> QED BY <3>1, <3>2
    <2>10. \A severity \in Severities :
            checkFailOn(severity)' <=> \E f \in Found(all) : Rank(f.severity) <= Rank(severity)
      BY <2>4, <2>9 DEF checkFailOn
    <2>11. Finished'
      <3>1. Found(advisories) \subseteq Found(l)
        BY <2>3
      <3> QED BY <1>1, <1>3, <1>9, <2>3, <2>4, <2>5, <2>6, <2>7, <2>10, <3>1 DEF Finished
    <2> QED BY <1>1, <1>2, <2>2, <2>4, <2>11 DEF ReportInv, Places
  <1> QED BY <1>10, <1>11

LEMMA ReportInvariant == Spec => []ReportInv
  <1>1. ASSUME ReportInv, [Next]_vars PROVE ReportInv'
    <2>1. CASE UNCHANGED vars
      <3>1. UNCHANGED <<command, at, own, vendor, advisories, heap, res, rep>>
        BY <2>1 DEF vars
      <3>2. ASSUME Finished PROVE Finished'
        <4>1. All' = All /\ Listed' = Listed /\ View(heap, res)' = View(heap, res)
          BY <3>1 DEF All, Listed, View
        <4>2. \A severity \in Severities : checkFailOn(severity)' <=> checkFailOn(severity)
          BY <4>1 DEF checkFailOn
        <4> QED BY <3>1, <3>2, <4>1, <4>2 DEF Finished
      <3>3. own' \in Seq(Finding) /\ vendor' \in Seq(Finding) /\ advisories' \in Seq(Finding)
            /\ command' \in Commands /\ at' \in Places /\ heap' \in Heap
        BY <1>1, <3>1 DEF ReportInv
      <3>4. (at' = "done" /\ command' = "cli") => Finished'
        BY <1>1, <3>1, <3>2 DEF ReportInv
      <3>5. /\ at' = "evaluate" => /\ heap' = << <<>> >> /\ rep' = res'
                                   /\ res' = [array |-> 1, len |-> 0, score |-> 100]
            /\ at' \in {"new", "vendor"} => /\ ResultOf(heap', res', own')
                                            /\ own' = <<>> => Len(heap'[res'.array]) = 0
            /\ at' = "vendor" => rep' = res'
            /\ at' = "advisories" => command' = "cli"
            /\ (at' = "advisories" \/ (at' = "done" /\ command' # "cli")) =>
                    /\ ResultOf(heap', res', own' \o vendor') /\ ReportOf(heap', rep', own', own' \o vendor')
                    /\ rep'.score = res'.score
        BY <1>1, <3>1 DEF ReportInv
      <3> QED BY <3>3, <3>4, <3>5 DEF ReportInv
    <2> QED BY <1>1, <2>1, EvaluationKeeps, NewKeeps, VendorKeeps, AdvisoriesKeeps DEF Next
  <1> QED BY <1>1, InitReportInv, PTL DEF Spec

\* Everything added so far has the score the result has; what it is at each stage.
LEMMA AddedSoFar ==
    ASSUME ReportInv
    PROVE  /\ at = "vendor" => Added = own /\ ResultOf(heap, res, own)
           /\ (at = "advisories" \/ (at = "done" /\ command # "cli")) =>
                    Added = own \o vendor /\ ResultOf(heap, res, own \o vendor)
           /\ (at = "done" /\ command = "cli") => Added = All
           /\ at = "new" => Added = own /\ ResultOf(heap, res, own)
  BY DEF ReportInv, Added

\* The score of the report is that of everything found so far.
THEOREM ScoreCountsAll == Spec => []ScoreIsOfAll
  <1>1. ASSUME ReportInv PROVE ScoreIsOfAll
    <2>1. CASE at = "vendor"
      BY <1>1, <2>1, AddedSoFar DEF ReportInv, ResultOf, ScoreIsOfAll
    <2>2. CASE at = "advisories" \/ (at = "done" /\ command # "cli")
      BY <1>1, <2>2, AddedSoFar DEF ReportInv, ResultOf, ScoreIsOfAll
    <2>3. CASE at = "done" /\ command = "cli"
      BY <1>1, <2>3, AddedSoFar DEF ReportInv, Finished, ScoreIsOfAll
    <2>4. CASE at \notin {"vendor", "advisories", "done"}
      BY <2>4 DEF ScoreIsOfAll
    <2> QED BY <2>1, <2>2, <2>3, <2>4
  <1> QED BY <1>1, ReportInvariant, PTL

\* --fail-on ends the command exactly if a finding as severe was made.
THEOREM GateSeesTheWorst == Spec => []GateSeesWorst
  <1>1. ASSUME ReportInv PROVE GateSeesWorst
    <2>1. ASSUME NEW list, ResultOf(heap, res, list), NEW threshold
          PROVE  checkFailOn(threshold) <=> \E f \in Found(list) : Rank(f.severity) <= Rank(threshold)
      <3>1. Found(View(heap, res)) = Found(list)
        BY <2>1 DEF ResultOf, Same
      <3> QED BY <3>1 DEF checkFailOn
    <2>2. CASE at \in {"new", "vendor"}
      <3>1. ResultOf(heap, res, own) /\ Added = own
        BY <1>1, <2>2, AddedSoFar
      <3> QED BY <2>1, <3>1 DEF GateSeesWorst
    <2>3. CASE at = "advisories" \/ (at = "done" /\ command # "cli")
      <3>1. ResultOf(heap, res, own \o vendor) /\ Added = own \o vendor
        BY <1>1, <2>3, AddedSoFar
      <3> QED BY <2>1, <3>1 DEF GateSeesWorst
    <2>4. CASE at = "done" /\ command = "cli"
      BY <1>1, <2>4, AddedSoFar DEF ReportInv, Finished, GateSeesWorst
    <2>5. CASE at = "evaluate"
      BY <2>5 DEF GateSeesWorst
    <2>6. at \in Places
      BY <1>1 DEF ReportInv
    <2> QED BY <2>2, <2>3, <2>4, <2>5, <2>6 DEF Places
  <1> QED BY <1>1, ReportInvariant, PTL

\* What the report no longer shows of the rules' findings is no more severe than what
\* stands in their place.
THEOREM OnlyTheMildAreLost == Spec => []SevereKept
  <1>1. ASSUME ReportInv PROVE SevereKept
    <2>1. ASSUME at \in {"vendor", "advisories", "done"} PROVE Kept(Listed, own)
      <3>1. CASE at = "vendor"
        <4>1. Listed = View(heap, res) /\ Same(View(heap, res), own)
          BY <1>1, <3>1 DEF ReportInv, ResultOf, Listed
        <4> QED BY <4>1 DEF Kept, Same
      <3>2. CASE at = "advisories" \/ (at = "done" /\ command # "cli")
        BY <1>1, <3>2 DEF ReportInv, ReportOf, Listed
      <3>3. CASE at = "done" /\ command = "cli"
        BY <1>1, <3>3 DEF ReportInv, Finished
      <3> QED BY <2>1, <3>1, <3>2, <3>3
    <2> QED BY <2>1 DEF SevereKept, Shown, Kept
  <1> QED BY <1>1, ReportInvariant, PTL

LEMMA SeverityOfList ==
    ASSUME NEW list \in Seq(Finding)
    PROVE  /\ Severity(list) \in Seq(Severities) /\ Len(Severity(list)) = Len(list)
           /\ \A severity : severity \in Found(Severity(list)) <=>
                                \E f \in Found(list) : f.severity = severity
  <1> PICK n \in Nat : n = Len(list)
    OBVIOUS
  <1>1. DOMAIN list = 1..n /\ \A i \in 1..n : list[i] \in Finding
    OBVIOUS
  <1>2. Severity(list) = [i \in 1..n |-> list[i].severity]
    BY <1>1 DEF Severity
  <1>3. \A i \in 1..n : list[i].severity \in Severities
    BY <1>1 DEF Finding
  <1>4. Severity(list) \in [1..n -> Severities]
    BY <1>2, <1>3
  <1>5. Severity(list) \in Seq(Severities) /\ Len(Severity(list)) = n
    BY <1>4, FunctionsAreLists
  <1>6. ASSUME NEW severity
        PROVE  severity \in Found(Severity(list)) <=> \E f \in Found(list) : f.severity = severity
    BY <1>1, <1>2 DEF Found
  <1> QED BY <1>5, <1>6

LEMMA OneInList == ASSUME NEW S, NEW e \in S PROVE <<e>> \in Seq(S) /\ Len(<<e>>) = 1 /\ Found(<<e>>) = {e}
  <1>1. <<e>> \in Seq(S) /\ Len(<<e>>) = 1 /\ DOMAIN <<e>> = {1} /\ <<e>>[1] = e
    OBVIOUS
  <1> QED BY <1>1 DEF Found

LEMMA TwoLists ==
    ASSUME NEW S, NEW x \in Seq(S), NEW y \in Seq(S)
    PROVE  x \o y \in Seq(S) /\ Len(x \o y) = Len(x) + Len(y) /\ Found(x \o y) = Found(x) \cup Found(y)
  BY FoundBehind

\* What a diagnosis is made of.
Diagnosed(issues, a, b, exposed, failed) ==
    /\ "critical" \in Found(issues) <=>
         failed \/ (\E f \in Found(a) : f.severity = "critical") \/ (\E f \in Found(b) : f.severity = "critical")
    /\ issues = <<>> <=> (a = <<>> /\ b = <<>> /\ ~exposed /\ ~failed)

LEMMA WhatIsDiagnosed ==
    ASSUME NEW a \in Seq(Finding), NEW b \in Seq(Finding), NEW exposed \in BOOLEAN, NEW failed \in BOOLEAN,
           NEW issues, issues = Severity(a) \o Severity(b) \o Others(exposed, failed)
    PROVE  Diagnosed(issues, a, b, exposed, failed)
  <1> DEFINE S == Severities \cup {"info", "critical"}
  <1>x. PICK x : x = Severity(a)
    OBVIOUS
  <1>y. PICK y : y = Severity(b)
    OBVIOUS
  <1>z. PICK z : z = Others(exposed, failed)
    OBVIOUS
  <1>1. x \in Seq(S) /\ Len(x) = Len(a) /\ ("critical" \in Found(x) <=> \E f \in Found(a) : f.severity = "critical")
    <2>1. x \in Seq(Severities) /\ Len(x) = Len(a)
      BY <1>x, SeverityOfList
    <2>2. "critical" \in Found(x) <=> \E f \in Found(a) : f.severity = "critical"
      BY <1>x, SeverityOfList
    <2> QED BY <2>1, <2>2
  <1>2. y \in Seq(S) /\ Len(y) = Len(b) /\ ("critical" \in Found(y) <=> \E f \in Found(b) : f.severity = "critical")
    <2>1. y \in Seq(Severities) /\ Len(y) = Len(b)
      BY <1>y, SeverityOfList
    <2>2. "critical" \in Found(y) <=> \E f \in Found(b) : f.severity = "critical"
      BY <1>y, SeverityOfList
    <2> QED BY <2>1, <2>2
  <1>3. z \in Seq(S) /\ ("critical" \in Found(z) <=> failed) /\ (Len(z) = 0 <=> ~exposed /\ ~failed)
    <2>v. PICK v : v = IF exposed THEN <<"info">> ELSE <<>>
      OBVIOUS
    <2>w. PICK w : w = IF failed THEN <<"critical">> ELSE <<>>
      OBVIOUS
    <2>1. v \in Seq(S) /\ "critical" \notin Found(v) /\ (Len(v) = 0 <=> ~exposed)
      <3>1. CASE exposed
        <4>1. v = <<"info">>
          BY <2>v, <3>1
        <4>2. v \in Seq(S) /\ Len(v) = 1 /\ Found(v) = {"info"}
          BY <4>1, OneInList
        <4> QED BY <3>1, <4>2
      <3>2. CASE ~exposed
        BY <2>v, <3>2 DEF Found
      <3> QED BY <3>1, <3>2
    <2>2. w \in Seq(S) /\ ("critical" \in Found(w) <=> failed) /\ (Len(w) = 0 <=> ~failed)
      <3>1. CASE failed
        <4>1. w = <<"critical">>
          BY <2>w, <3>1
        <4>2. w \in Seq(S) /\ Len(w) = 1 /\ Found(w) = {"critical"}
          BY <4>1, OneInList
        <4> QED BY <3>1, <4>2
      <3>2. CASE ~failed
        BY <2>w, <3>2 DEF Found
      <3> QED BY <3>1, <3>2
    <2>3. z = v \o w
      BY <2>v, <2>w, <1>z DEF Others
    <2>4. v \o w \in Seq(S) /\ Len(v \o w) = Len(v) + Len(w) /\ Found(v \o w) = Found(v) \cup Found(w)
      BY <2>1, <2>2, TwoLists
    <2>5. Len(v) \in Nat /\ Len(w) \in Nat
      BY <2>1, <2>2
    <2> HIDE DEF S
    <2> QED BY <2>1, <2>2, <2>3, <2>4, <2>5
  <1> HIDE DEF S
  <1>4. PICK xy : xy = x \o y
    OBVIOUS
  <1>5. xy \in Seq(S) /\ Len(xy) = Len(x) + Len(y) /\ Found(xy) = Found(x) \cup Found(y)
    BY <1>1, <1>2, <1>4, TwoLists
  <1>6. issues \in Seq(S) /\ Len(issues) = Len(x) + Len(y) + Len(z)
        /\ Found(issues) = Found(x) \cup Found(y) \cup Found(z)
    <2>1. xy \o z \in Seq(S) /\ Len(xy \o z) = Len(xy) + Len(z) /\ Found(xy \o z) = Found(xy) \cup Found(z)
      <3>1. xy \in Seq(S) /\ z \in Seq(S)
        BY <1>3, <1>5
      <3> QED BY <3>1, TwoLists
    <2>2. issues = xy \o z
      BY <1>x, <1>y, <1>z, <1>4
    <2> QED BY <1>5, <2>1, <2>2
  <1>7. Len(a) \in Nat /\ Len(b) \in Nat /\ Len(z) \in Nat
    BY <1>3
  <1>8. /\ issues = <<>> <=> Len(issues) = 0
        /\ a = <<>> <=> Len(a) = 0
        /\ b = <<>> <=> Len(b) = 0
    BY <1>6, EmptySeq
  <1>9. Len(issues) = 0 <=> (Len(a) = 0 /\ Len(b) = 0 /\ Len(z) = 0)
    BY <1>1, <1>2, <1>6, <1>7
  <1> QED BY <1>1, <1>2, <1>3, <1>6, <1>8, <1>9 DEF Diagnosed

\* The verdict of doctor is that of everything found.
THEOREM VerdictCountsAll == Spec => []VerdictOfAll
  <1>1. ASSUME ReportInv PROVE VerdictOfAll
    <2> SUFFICES ASSUME at = "done", command = "cli", NEW exposed \in BOOLEAN, NEW failed \in BOOLEAN
                 PROVE  LET verdict == verdictOf(Build(exposed, failed), rep.score)
                        IN  /\ verdict = "critical" <=> failed \/ \E f \in Found(All) : f.severity = "critical"
                            /\ verdict = "healthy" <=> ~exposed /\ ~failed /\ All = <<>>
      BY DEF VerdictOfAll
    <2> PICK issues : issues = Build(exposed, failed)
      OBVIOUS
    <2> PICK l : l = Listed
      OBVIOUS
    <2>1. own \in Seq(Finding) /\ vendor \in Seq(Finding) /\ advisories \in Seq(Finding)
      BY <1>1 DEF ReportInv
    <2>2. /\ l \in Seq(Finding) /\ Len(l) = Len(own) + Len(advisories)
          /\ Found(l) \subseteq Found(All) /\ Found(advisories) \subseteq Found(l) /\ Kept(l, own)
          /\ rep.score = Score(All)
      BY <1>1 DEF ReportInv, Finished
    <2>3. /\ "critical" \in Found(issues) <=>
                failed \/ (\E f \in Found(l) : f.severity = "critical")
                       \/ (\E f \in Found(vendor) : f.severity = "critical")
          /\ issues = <<>> <=> (l = <<>> /\ vendor = <<>> /\ ~exposed /\ ~failed)
      <3>1. issues = Severity(l) \o Severity(vendor) \o Others(exposed, failed)
        BY DEF Build
      <3>2. l \in Seq(Finding) /\ vendor \in Seq(Finding)
        BY <2>1, <2>2
      <3>3. Diagnosed(issues, l, vendor, exposed, failed)
        BY <3>1, <3>2, WhatIsDiagnosed
      <3> QED BY <3>3 DEF Diagnosed
    <2> PICK both : both = own \o vendor
      OBVIOUS
    <2>4. both \in Seq(Finding) /\ Len(both) = Len(own) + Len(vendor) /\ Found(both) = Found(own) \cup Found(vendor)
      BY <2>1, FoundBehind
    <2>5. All \in Seq(Finding) /\ Len(All) = Len(both) + Len(advisories)
          /\ Found(All) = Found(both) \cup Found(advisories)
      <3>1. All = both \o advisories
        BY DEF All
      <3>2. both \in Seq(Finding) /\ advisories \in Seq(Finding)
        BY <2>1, <2>4
      <3>3. Found(both \o advisories) = Found(both) \cup Found(advisories)
        BY <3>2, FoundBehind
      <3>4. both \o advisories \in Seq(Finding) /\ Len(both \o advisories) = Len(both) + Len(advisories)
        BY <3>2
      <3> QED BY <3>1, <3>3, <3>4
    <2>6. ASSUME NEW f \in Found(own), f.severity = "critical"
          PROVE  \E c \in Found(l) : c.severity = "critical"
      <3>1. CASE f \in Found(l)
        BY <2>6, <3>1
      <3>2. CASE f \notin Found(l)
        <4>1. Len(own) >= 1
          <5>1. own # <<>>
            BY DEF Found
          <5> QED BY <2>1, <5>1
        <4>2. 1 \in 1..Len(own) /\ 1 \in DOMAIN l
          BY <2>1, <2>2, <4>1
        <4>3. Rank(l[1].severity) <= Rank("critical")
          BY <2>2, <2>6, <3>2, <4>2 DEF Kept
        <4>4. l[1] \in Finding /\ l[1] \in Found(l)
          BY <2>2, <4>2 DEF Found
        <4>5. l[1].severity \in Severities
          BY <4>4 DEF Finding
        <4>6. Rank(l[1].severity) \in 1..5 /\ Rank("critical") = 1
          BY <4>5, RankIsNumber
        <4>7. l[1].severity = "critical"
          BY <4>3, <4>5, <4>6, RankIsNumber
        <4> QED BY <4>4, <4>7
      <3> QED BY <3>1, <3>2
    <2>7. "critical" \in Found(issues) <=> failed \/ \E f \in Found(All) : f.severity = "critical"
      BY <2>2, <2>3, <2>4, <2>5, <2>6
    <2>8. issues = <<>> <=> ~exposed /\ ~failed /\ All = <<>>
      <3>1. /\ l = <<>> <=> Len(l) = 0
            /\ vendor = <<>> <=> Len(vendor) = 0
            /\ All = <<>> <=> Len(All) = 0
        BY <2>1, <2>2, <2>5, EmptySeq
      <3>2. Len(own) \in Nat /\ Len(vendor) \in Nat /\ Len(advisories) \in Nat
        BY <2>1
      <3>3. Len(All) = 0 <=> Len(l) = 0 /\ Len(vendor) = 0
        BY <2>2, <2>4, <2>5, <3>2
      <3> QED BY <2>3, <3>1, <3>3
    <2>9. All = <<>> => rep.score = 100
      BY <2>2, ScoreOfNothing
    <2>10. issues = <<>> => "critical" \notin Found(issues)
      BY DEF Found
    <2> PICK verdict : verdict = verdictOf(issues, rep.score)
      OBVIOUS
    <2>11. verdict = "critical" <=> "critical" \in Found(issues)
      BY DEF verdictOf
    <2>12. verdict = "healthy" <=> issues = <<>>
      <3>1. CASE issues = <<>>
        <4>1. ~(rep.score < 90)
          BY <2>8, <2>9, <3>1
        <4> QED BY <2>10, <3>1, <4>1 DEF verdictOf
      <3>2. CASE issues # <<>>
        BY <3>2 DEF verdictOf
      <3> QED BY <3>1, <3>2
    <2> QED BY <2>7, <2>8, <2>11, <2>12
  <1> QED BY <1>1, ReportInvariant, PTL

-----------------------------------------------------------------------------
(* The findings of a scan.                                                  *)

\* Rules that Load accepts.
UsableRules(rules) ==
    /\ IsList(rules)
    /\ \A r, q \in DOMAIN rules : rules[r].id = rules[q].id => r = q
    /\ \A r \in DOMAIN rules : rules[r].severity \in {Order[k] : k \in DOMAIN Order}

\* The first n numbers are finitely many, n of them.
LEMMA FirstNumbers == ASSUME NEW n \in Nat PROVE IsFiniteSet(1..n) /\ Cardinality(1..n) = n
  <1>1. IsFiniteSet(1..n)
    BY FS_Interval
  <1>2. Cardinality(1..n) = n
    BY FS_Interval
  <1> QED BY <1>1, <1>2

\* As many ids as rules: no two rules have one.
LEMMA IdsTellApart ==
    ASSUME NEW rules, IsList(rules), Cardinality(IdsOf(rules)) = Len(rules)
    PROVE  \A r, q \in DOMAIN rules : rules[r].id = rules[q].id => r = q
  <1> PICK n \in Nat : n = Len(rules) /\ DOMAIN rules = 1..n
    BY DEF IsList
  <1> DEFINE f == [r \in 1..n |-> rules[r].id]
  <1>1. f \in Surjection(1..n, IdsOf(rules))
    BY DEF Surjection, IdsOf
  <1>2. IsFiniteSet(1..n) /\ Cardinality(1..n) = n
    <2> HIDE DEF f
    <2> QED BY FirstNumbers
  <1>3. f \in Injection(1..n, IdsOf(rules))
    <2> HIDE DEF f
    <2> QED BY <1>1, <1>2, FS_Surjection
  <1>4. \A r, q \in 1..n : f[r] = f[q] => r = q
    <2> HIDE DEF f
    <2> QED BY <1>3 DEF Injection, IsInjective
  <1> QED BY <1>4

\* A list over any set is one over what it holds.
LEMMA ListOfItsOwn == ASSUME NEW E, NEW list \in Seq(E) PROVE IsList(list)
  <1> PICK n \in Nat : DOMAIN list = 1..n
    OBVIOUS
  <1>f. PICK F : F = Found(list)
    OBVIOUS
  <1>1. list = [i \in 1..n |-> list[i]]
    OBVIOUS
  <1>2. \A i \in 1..n : list[i] \in F
    BY <1>f DEF Found
  <1>3. [i \in 1..n |-> list[i]] \in Seq(F)
    BY <1>2
  <1> QED BY <1>1, <1>3, <1>f DEF IsList

\* What a finding of some rules about an inventory can be.
Named(inv) == {objectRef(inv.objects[i]) : i \in DOMAIN inv.objects} \cup {OfToken}
FindingsOfRule(rule, inv) == {FindingOf(rule, x) : x \in Named(inv)}
FindingsOfRules(rules, inv) == UNION {FindingsOfRule(rules[r], inv) : r \in DOMAIN rules}

\* evalRule finds only things its rule says of an object of the inventory or of the token.
LEMMA RuleFinds ==
    ASSUME NEW inv, IsList(inv.objects), NEW rule, NEW facts
    PROVE  evalRule(inv, rule, facts) \in Seq(FindingsOfRule(rule, inv))
  <1> DEFINE F == FindingsOfRule(rule, inv)
  <1>1. CASE tokenScoped(rule.match)
    <2>1. FindingOf(rule, OfToken) \in F
      BY DEF FindingsOfRule, Named
    <2> HIDE DEF F
    <2>2. <<FindingOf(rule, OfToken)>> \in Seq(F) /\ <<>> \in Seq(F)
      BY <2>1
    <2>3. evalMechanismRule(inv.mechanisms, rule) \in {<<FindingOf(rule, OfToken)>>, <<>>}
      BY DEF evalMechanismRule
    <2>4. evalRule(inv, rule, facts) = evalMechanismRule(inv.mechanisms, rule)
      BY <1>1 DEF evalRule
    <2> QED BY <2>2, <2>3, <2>4 DEF F
  <1>2. CASE ~tokenScoped(rule.match)
    <2> PICK list : list = inv.objects
      OBVIOUS
    <2>p. PICK places : places = {i \in DOMAIN list : matchObject(rule, list[i], facts)}
      OBVIOUS
    <2>m. PICK matched : matched = At(list, places)
      OBVIOUS
    <2>1. list \in Seq(Found(list))
      BY DEF IsList
    <2>2. matched \in Seq(Found(list))
      BY <2>m, <2>1, AtOrNothing
    <2>3. evalRule(inv, rule, facts) = [i \in DOMAIN matched |-> FindingOf(rule, objectRef(matched[i]))]
      BY <1>2, <2>p, <2>m DEF evalRule
    <2>4. \A i \in DOMAIN matched : FindingOf(rule, objectRef(matched[i])) \in F
      <3> TAKE i \in DOMAIN matched
      <3>1. matched[i] \in Found(list)
        BY <2>2
      <3>2. objectRef(matched[i]) \in Named(inv)
        BY <3>1 DEF Found, Named
      <3> QED BY <3>2 DEF FindingsOfRule
    <2> HIDE DEF F
    <2> PICK n \in Nat : DOMAIN matched = 1..n
      BY <2>2
    <2>5. [i \in 1..n |-> FindingOf(rule, objectRef(matched[i]))] \in Seq(F)
      BY <2>4
    <2> QED BY <2>3, <2>5 DEF F
  <1> QED BY <1>1, <1>2

\* Evaluate has of each rule what evalRule finds, in its order.
ScanOfRules(findings, rules, inv, facts) ==
    /\ IsList(findings) /\ InOrder(findings)
    /\ \A r \in DOMAIN rules : At(findings, OfRule(findings, rules[r].id)) = evalRule(inv, rules[r], facts)
    /\ \A i \in DOMAIN findings : findings[i].rule \in IdsOf(rules)

\* Evaluate joins what evalRule finds of each rule and sorts it; neither drops, adds or
\* reorders anything of one rule, for all of a rule has one severity.
LEMMA ScanFinds ==
    ASSUME NEW inv, IsList(inv.objects), NEW config, UsableRules(config.rules), NEW now
    PROVE  ScanOfRules(Evaluate(inv, config, now).findings, config.rules, inv, buildFacts(inv.objects, now))
  <1>r. PICK rules : rules = config.rules
    OBVIOUS
  <1>f. PICK facts : facts = buildFacts(inv.objects, now)
    OBVIOUS
  <1>0. UsableRules(rules)
    BY <1>r
  <1> PICK n \in Nat : DOMAIN rules = 1..n
    BY <1>0 DEF UsableRules, IsList
  <1>e. PICK E : E = FindingsOfRules(rules, inv)
    OBVIOUS
  <1>l. PICK lists : lists = [r \in 1..n |-> evalRule(inv, rules[r], facts)]
    OBVIOUS
  <1>1. \A f \in E : \E r \in 1..n : f \in FindingsOfRule(rules[r], inv)
    BY <1>e DEF FindingsOfRules
  <1>2. \A r \in 1..n : FindingsOfRule(rules[r], inv) \subseteq E
    BY <1>e DEF FindingsOfRules
  <1>3. \A r \in 1..n : \A f \in FindingsOfRule(rules[r], inv) : f.rule = rules[r].id /\ f.severity = rules[r].severity
    <2> SUFFICES ASSUME NEW r \in 1..n, NEW f \in FindingsOfRule(rules[r], inv)
                 PROVE  f.rule = rules[r].id /\ f.severity = rules[r].severity
      OBVIOUS
    <2>1. PICK x : f = FindingOf(rules[r], x)
      BY DEF FindingsOfRule
    <2> QED BY <2>1 DEF FindingOf
  <1>4. \A r \in 1..n : lists[r] \in Seq(FindingsOfRule(rules[r], inv)) /\ lists[r] \in Seq(E)
    <2> TAKE r \in 1..n
    <2>1. lists[r] \in Seq(FindingsOfRule(rules[r], inv))
      BY <1>l, RuleFinds
    <2> PICK F : F = FindingsOfRule(rules[r], inv)
      OBVIOUS
    <2>2. F \subseteq E
      BY <1>2
    <2>3. Seq(F) \subseteq Seq(E)
      BY <2>2
    <2> QED BY <2>1, <2>3
  <1>5. lists \in Seq(Seq(E)) /\ DOMAIN lists = 1..n
    BY <1>l, <1>4
  <1>6. Ranked(E)
    <2> SUFFICES ASSUME NEW f \in E PROVE Rank(f.severity) \in 1..5
      BY DEF Ranked
    <2>1. PICK r \in 1..n : f.severity = rules[r].severity
      BY <1>1, <1>3
    <2>2. \E k \in DOMAIN Order : Order[k] = f.severity
      BY <1>0, <2>1 DEF UsableRules
    <2>3. DOMAIN Order = 1..5
      BY DEF Order
    <2> QED BY <2>2, <2>3 DEF Rank
  <1>u. PICK unsorted : unsorted = FlattenSeq(lists)
    OBVIOUS
  <1>s. PICK findings : findings = BySeverity(unsorted)
    OBVIOUS
  <1>7. unsorted \in Seq(E)
    BY <1>5, <1>u, FlattenPicked
  <1>8. findings \in Seq(E) /\ InOrder(findings)
    BY <1>6, <1>7, <1>s, SortedBySeverity
  <1>9. ASSUME NEW r \in 1..n PROVE At(findings, OfRule(findings, rules[r].id)) = lists[r]
    <2> DEFINE S == {f \in E : f.rule = rules[r].id}
    <2>1. \A q \in 1..n : rules[q].id = rules[r].id => q = r
      BY <1>0 DEF UsableRules
    <2>2. OfOneSeverity(E, S)
      <3>1. \A f \in S : f.severity = rules[r].severity
        BY <1>1, <1>3, <2>1
      <3> QED BY <3>1 DEF OfOneSeverity
    <2>3. Found(lists[r]) \subseteq S
      <3> SUFFICES ASSUME NEW i \in DOMAIN lists[r] PROVE lists[r][i] \in S
        BY DEF Found
      <3> PICK l : l = lists[r]
        OBVIOUS
      <3>1. l[i] \in FindingsOfRule(rules[r], inv)
        BY <1>4
      <3> QED BY <1>2, <1>3, <3>1
    <2>4. ASSUME NEW q \in 1..n, q # r PROVE Found(lists[q]) \cap S = {}
      <3> SUFFICES ASSUME NEW i \in DOMAIN lists[q], lists[q][i] \in S PROVE FALSE
        BY DEF Found
      <3> PICK l : l = lists[q]
        OBVIOUS
      <3>1. l[i] \in FindingsOfRule(rules[q], inv)
        BY <1>4
      <3>2. l[i].rule = rules[q].id /\ l[i].rule = rules[r].id
        BY <1>3, <3>1
      <3> QED BY <2>1, <2>4, <3>2
    <2>5. Picked(unsorted, S) = lists[r]
      <3> HIDE DEF S
      <3> QED BY <1>5, <1>u, <2>3, <2>4, FlattenPicked
    <2>6. Picked(findings, S) = Picked(unsorted, S)
      <3> HIDE DEF S
      <3> QED BY <1>6, <1>7, <1>s, <2>2, PickedSorted
    <2>7. {i \in DOMAIN findings : findings[i] \in S} = OfRule(findings, rules[r].id)
      <3>1. \A i \in DOMAIN findings : findings[i] \in E
        BY <1>8
      <3> QED BY <3>1 DEF OfRule
    <2>8. At(findings, OfRule(findings, rules[r].id)) = Picked(findings, S)
      <3> HIDE DEF S
      <3> QED BY <2>7 DEF Picked
    <2> QED BY <2>5, <2>6, <2>8
  <1>10. \A i \in DOMAIN findings : findings[i].rule \in IdsOf(rules)
    <2> TAKE i \in DOMAIN findings
    <2>1. findings[i] \in E
      BY <1>8
    <2>2. PICK r \in 1..n : findings[i].rule = rules[r].id
      BY <1>1, <1>3, <2>1
    <2> QED BY <2>2 DEF IdsOf
  <1>11. Evaluate(inv, config, now).findings = findings
    BY <1>r, <1>f, <1>l, <1>u, <1>s DEF Evaluate
  <1>12. \A r \in 1..n : lists[r] = evalRule(inv, rules[r], facts)
    BY <1>l
  <1>13. IsList(findings)
    BY <1>8, ListOfItsOwn
  <1>14. ScanOfRules(findings, rules, inv, facts)
    BY <1>8, <1>9, <1>10, <1>12, <1>13 DEF ScanOfRules
  <1> QED BY <1>r, <1>f, <1>11, <1>14

\* A finite set with x in it has more than one element exactly if it has another.
LEMMA AnotherOne ==
    ASSUME NEW S, IsFiniteSet(S), NEW x \in S
    PROVE  Cardinality(S) > 1 <=> \E y \in S : y # x
  <1>1. IsFiniteSet(S \ {x}) /\ Cardinality(S \ {x}) = Cardinality(S) - 1
    BY FS_RemoveElement
  <1>2. Cardinality(S) \in Nat /\ Cardinality(S \ {x}) \in Nat
    BY <1>1, FS_CardinalityType
  <1>3. Cardinality(S \ {x}) = 0 <=> S \ {x} = {}
    BY <1>1, FS_EmptySet
  <1> QED BY <1>1, <1>2, <1>3

\* What the table of labels says: another object of the class has the label.
LEMMA LabelsShared ==
    ASSUME NEW objects, IsList(objects), NEW now, NEW i \in DOMAIN objects
    PROVE  isDuplicateLabel(objects[i], buildFacts(objects, now)) <=>
              \E j \in DOMAIN objects \ {i} : /\ Has(objects[i], "label") /\ Has(objects[j], "label")
                                              /\ objects[i].label = objects[j].label
                                              /\ objects[i].class = objects[j].class
  <1>1. CASE ~Has(objects[i], "label")
    BY <1>1 DEF isDuplicateLabel
  <1>2. CASE Has(objects[i], "label")
    <2>k. PICK key : key = <<objects[i].class, objects[i].label>>
      OBVIOUS
    <2>s. PICK S : S = {j \in With(objects, "label") : <<objects[j].class, objects[j].label>> = key}
      OBVIOUS
    <2>1. buildFacts(objects, now).duplicateLabels[key] = Cardinality(S)
      <3>1. buildFacts(objects, now).duplicateLabels = duplicateLabels(objects)
        BY DEF buildFacts
      <3>2. key \in {<<objects[j].class, objects[j].label>> : j \in With(objects, "label")}
        BY <1>2, <2>k DEF With
      <3>3. duplicateLabels(objects)[key] = Cardinality(S)
        BY <3>2, <2>s DEF duplicateLabels
      <3> QED BY <3>1, <3>3
    <2>2. IsFiniteSet(S)
      <3>1. S \subseteq DOMAIN objects
        BY <2>s DEF With
      <3>2. IsFiniteSet(DOMAIN objects)
        BY FirstNumbers DEF IsList
      <3> QED BY <3>1, <3>2, FS_Subset
    <2>3. i \in S
      BY <1>2, <2>k, <2>s DEF With
    <2>4. Cardinality(S) > 1 <=> \E j \in S : j # i
      BY <2>2, <2>3, AnotherOne
    <2>5. \A j \in DOMAIN objects : j \in S <=> /\ Has(objects[j], "label") /\ objects[i].label = objects[j].label
                                                /\ objects[i].class = objects[j].class
      BY <2>k, <2>s DEF With
    <2>6. \A j \in S : j \in DOMAIN objects
      BY <2>s DEF With
    <2>7. isDuplicateLabel(objects[i], buildFacts(objects, now)) <=> Cardinality(S) > 1
      BY <1>2, <2>1, <2>k DEF isDuplicateLabel
    <2> QED BY <1>2, <2>4, <2>5, <2>6, <2>7
  <1> QED BY <1>1, <1>2

\* What the table of ids says: the classes of the objects that have the id.
LEMMA OwnersOfId ==
    ASSUME NEW objects, NEW now, NEW i \in DOMAIN objects, Has(objects[i], "id")
    PROVE  \A class : class \in buildFacts(objects, now).idOwners[objects[i].id] <=>
              \E j \in DOMAIN objects : SameId(objects[i], objects[j]) /\ objects[j].class = class
  <1>d. PICK id : id = objects[i].id
    OBVIOUS
  <1>1. id \in Ids(objects)
    BY <1>d DEF Ids, With
  <1>2. buildFacts(objects, now).idOwners[id] =
            {objects[j].class : j \in {k \in With(objects, "id") : objects[k].id = id}}
    BY <1>1 DEF buildFacts
  <1> QED BY <1>d, <1>2 DEF SameId, With

\* The keys that share the id of an object and have a fingerprint.
KeysOfId(objects, i) ==
    {j \in DOMAIN objects : /\ SameId(objects[i], objects[j]) /\ Has(objects[j], "fingerprint")
                            /\ objects[j].class \in KeyClasses}

\* What the table of fingerprints says: those of the keys that have the id.
LEMMA PrintsOfId ==
    ASSUME NEW objects, NEW now, NEW i \in DOMAIN objects, Has(objects[i], "id")
    PROVE  buildFacts(objects, now).keyFingerprints[objects[i].id]
              = {objects[j].fingerprint : j \in KeysOfId(objects, i)}
  <1>d. PICK id : id = objects[i].id
    OBVIOUS
  <1>1. id \in Ids(objects)
    BY <1>d DEF Ids, With
  <1>2. buildFacts(objects, now).keyFingerprints[id] =
            {objects[j].fingerprint : j \in {k \in With(objects, "id") \cap With(objects, "fingerprint") :
                objects[k].id = id /\ objects[k].class \in KeyClasses}}
    BY <1>1 DEF buildFacts
  <1>3. {k \in With(objects, "id") \cap With(objects, "fingerprint") :
            objects[k].id = id /\ objects[k].class \in KeyClasses} = KeysOfId(objects, i)
    BY <1>d DEF SameId, With, KeysOfId
  <1> QED BY <1>d, <1>2, <1>3

\* An object is an orphan by the tables exactly if no counterpart has its id.
LEMMA OrphansAlone ==
    ASSUME NEW objects, NEW now, NEW i \in DOMAIN objects
    PROVE  isOrphan(objects[i], buildFacts(objects, now)) <=> Alone(i, objects)
  <1>f. PICK owners : owners = buildFacts(objects, now).idOwners
    OBVIOUS
  <1>o. PICK o : o = objects[i]
    OBVIOUS
  <1>1. Has(o, "id") => \A class : class \in owners[o.id] <=>
            \E j \in DOMAIN objects : SameId(o, objects[j]) /\ objects[j].class = class
    <2> SUFFICES ASSUME Has(objects[i], "id")
                 PROVE  \A class : class \in buildFacts(objects, now).idOwners[objects[i].id] <=>
                            \E j \in DOMAIN objects : SameId(objects[i], objects[j]) /\ objects[j].class = class
      BY <1>f, <1>o
    <2> QED BY OwnersOfId
  <1>2. ~Has(o, "id") => \A j \in DOMAIN objects : ~SameId(o, objects[j])
    BY DEF SameId
  <1>3. isOrphan(o, buildFacts(objects, now)) <=>
            \/ o.class = "private-key" /\ (Has(o, "id") => {"certificate", "public-key"} \cap owners[o.id] = {})
            \/ o.class = "certificate" /\ (Has(o, "id") => "private-key" \notin owners[o.id])
    BY <1>f DEF isOrphan
  <1>4. CASE o.class = "private-key"
    <2>1. Alone(i, objects) <=>
              \A j \in DOMAIN objects : objects[j].class \in {"certificate", "public-key"} => ~SameId(o, objects[j])
      BY <1>4, <1>o DEF Alone
    <2>2. {"certificate", "public-key"} \cap owners[o.id] = {} <=>
              "certificate" \notin owners[o.id] /\ "public-key" \notin owners[o.id]
      OBVIOUS
    <2> QED BY <1>1, <1>2, <1>3, <1>4, <1>o, <2>1, <2>2
  <1>5. CASE o.class = "certificate"
    <2>1. Alone(i, objects) <=>
              \A j \in DOMAIN objects : objects[j].class = "private-key" => ~SameId(o, objects[j])
      BY <1>5, <1>o DEF Alone
    <2> QED BY <1>1, <1>2, <1>3, <1>5, <1>o, <2>1
  <1>6. CASE o.class \notin {"private-key", "certificate"}
    <2>1. ~Alone(i, objects)
      BY <1>6, <1>o DEF Alone
    <2> QED BY <1>3, <1>6, <1>o, <2>1
  <1> QED BY <1>4, <1>5, <1>6

\* A certificate mismatches by the tables exactly if keys have its id and none its print.
LEMMA MismatchesSeen ==
    ASSUME NEW objects, NEW now, NEW i \in DOMAIN objects
    PROVE  certKeyMismatch(objects[i], buildFacts(objects, now)) <=> Mismatched(i, objects)
  <1>f. PICK prints : prints = buildFacts(objects, now).keyFingerprints
    OBVIOUS
  <1>o. PICK o : o = objects[i]
    OBVIOUS
  <1>k. PICK keys : keys = KeysOfId(objects, i)
    OBVIOUS
  <1>1. certKeyMismatch(o, buildFacts(objects, now)) <=>
            /\ o.class = "certificate" /\ Has(o, "id") /\ Has(o, "certificate") /\ Has(o.certificate, "fingerprint")
            /\ prints[o.id] # {} /\ o.certificate.fingerprint \notin prints[o.id]
    BY <1>f DEF certKeyMismatch
  <1>2. Mismatched(i, objects) <=>
            /\ o.class = "certificate" /\ Has(o, "certificate") /\ Has(o.certificate, "fingerprint")
            /\ keys # {} /\ \A j \in keys : objects[j].fingerprint # o.certificate.fingerprint
    BY <1>o, <1>k DEF Mismatched, KeysOfId
  <1>3. CASE ~Has(o, "id")
    <2>1. keys = {}
      BY <1>3, <1>k, <1>o DEF SameId, KeysOfId
    <2> QED BY <1>1, <1>2, <1>3, <1>o, <2>1
  <1>4. CASE Has(o, "id")
    <2>1. prints[o.id] = {objects[j].fingerprint : j \in keys}
      BY <1>4, <1>f, <1>o, <1>k, PrintsOfId
    <2>2. prints[o.id] = {} <=> keys = {}
      BY <2>1
    <2> QED BY <1>1, <1>2, <1>4, <1>o, <2>1, <2>2
  <1> QED BY <1>3, <1>4

\* matchObject decides every condition as docs/rules.md describes it.
LEMMA ConditionsMeanWhatIsSaid ==
    ASSUME NEW objects, IsList(objects), NEW now, NEW i \in DOMAIN objects, NEW c, NEW want
    PROVE  ConditionHolds(c, want, objects[i], buildFacts(objects, now)) <=> Meant(c, want, i, objects, now)
  <1>f. PICK facts : facts = buildFacts(objects, now)
    OBVIOUS
  <1>1. CASE c = "duplicate_label"
    <2>1. ConditionHolds(c, want, objects[i], facts) <=> (isDuplicateLabel(objects[i], facts) = want)
      BY <1>1 DEF ConditionHolds, Flags
    <2> DEFINE P == \E j \in DOMAIN objects \ {i} : /\ Has(objects[i], "label") /\ Has(objects[j], "label")
                                                    /\ objects[i].label = objects[j].label
                                                    /\ objects[i].class = objects[j].class
    <2>2. Meant(c, want, i, objects, now) <=> (want = P)
      BY <1>1 DEF Meant
    <2>3. isDuplicateLabel(objects[i], facts) <=> P
      BY <1>f, LabelsShared
    <2>4. isDuplicateLabel(objects[i], facts) \in BOOLEAN
      BY DEF isDuplicateLabel
    <2>5. P \in BOOLEAN
      OBVIOUS
    <2> HIDE DEF P
    <2> QED BY <1>f, <2>1, <2>2, <2>3, <2>4, <2>5
  <1>2. CASE c = "orphan"
    <2>1. ConditionHolds(c, want, objects[i], facts) <=> (isOrphan(objects[i], facts) = want)
      BY <1>2 DEF ConditionHolds, Flags
    <2>2. Meant(c, want, i, objects, now) <=> (want = Alone(i, objects))
      BY <1>2 DEF Meant
    <2>3. isOrphan(objects[i], facts) <=> Alone(i, objects)
      BY <1>f, OrphansAlone
    <2>4. isOrphan(objects[i], facts) \in BOOLEAN
      BY DEF isOrphan
    <2>5. Alone(i, objects) \in BOOLEAN
      BY DEF Alone
    <2> QED BY <1>f, <2>1, <2>2, <2>3, <2>4, <2>5
  <1>3. CASE c = "cert_key_mismatch"
    <2>1. ConditionHolds(c, want, objects[i], facts) <=> (certKeyMismatch(objects[i], facts) = want)
      BY <1>3 DEF ConditionHolds, Flags
    <2>2. Meant(c, want, i, objects, now) <=> (want = Mismatched(i, objects))
      BY <1>3 DEF Meant
    <2>3. certKeyMismatch(objects[i], facts) <=> Mismatched(i, objects)
      BY <1>f, MismatchesSeen
    <2>4. certKeyMismatch(objects[i], facts) \in BOOLEAN
      BY DEF certKeyMismatch
    <2>5. Mismatched(i, objects) \in BOOLEAN
      BY DEF Mismatched
    <2> QED BY <1>f, <2>1, <2>2, <2>3, <2>4, <2>5
  <1>4. CASE c \notin {"duplicate_label", "orphan", "cert_key_mismatch"}
    <2>1. facts.now = now /\ [now |-> now].now = now
      BY <1>f DEF buildFacts
    <2>2. ConditionHolds(c, want, objects[i], facts) <=> ConditionHolds(c, want, objects[i], [now |-> now])
      BY <1>4, <2>1 DEF ConditionHolds
    <2>3. Meant(c, want, i, objects, now) <=> ConditionHolds(c, want, objects[i], [now |-> now])
      BY <1>4 DEF Meant
    <2> QED BY <1>f, <2>2, <2>3
  <1> QED BY <1>1, <1>2, <1>3, <1>4

\* evalRule of a rule about objects finds the objects it is meant for, in their order.
LEMMA RulesMeanWhatIsSaid ==
    ASSUME NEW inv, IsList(inv.objects), NEW rule, ~tokenScoped(rule.match), NEW now
    PROVE  evalRule(inv, rule, buildFacts(inv.objects, now)) =
              [k \in DOMAIN Meaning(rule, inv, now) |-> FindingOf(rule, Meaning(rule, inv, now)[k])]
  <1>o. PICK list : list = inv.objects
    OBVIOUS
  <1>f. PICK facts : facts = buildFacts(list, now)
    OBVIOUS
  <1>s. PICK S : S = {i \in DOMAIN list : matchObject(rule, list[i], facts)}
    OBVIOUS
  <1>t. PICK T : T = {i \in DOMAIN list : \A c \in DOMAIN rule.match : Meant(c, rule.match[c], i, list, now)}
    OBVIOUS
  <1>a. PICK about : about = At(list, T)
    OBVIOUS
  <1>1. S = T
    <2>1. IsList(list)
      BY <1>o
    <2>2. \A i \in DOMAIN list : \A c, want :
              ConditionHolds(c, want, list[i], facts) <=> Meant(c, want, i, list, now)
      BY <1>f, <2>1, ConditionsMeanWhatIsSaid
    <2>3. \A i \in DOMAIN list : matchObject(rule, list[i], facts) <=>
              \A c \in DOMAIN rule.match : Meant(c, rule.match[c], i, list, now)
      BY <2>2 DEF matchObject
    <2> QED BY <1>s, <1>t, <2>3
  <1>2. evalRule(inv, rule, facts) = [i \in DOMAIN about |-> FindingOf(rule, objectRef(about[i]))]
    BY <1>o, <1>s, <1>a, <1>1 DEF evalRule
  <1>3. Meaning(rule, inv, now) = [k \in DOMAIN about |-> objectRef(about[k])]
    BY <1>o, <1>t, <1>a DEF Meaning
  <1>4. [i \in DOMAIN about |-> FindingOf(rule, objectRef(about[i]))]
            = [k \in DOMAIN Meaning(rule, inv, now) |-> FindingOf(rule, Meaning(rule, inv, now)[k])]
    BY <1>3
  <1> QED BY <1>o, <1>f, <1>2, <1>4

\* A rejected configuration has no rules.
LEMMA RejectedUsable == UsableRules(Rejected.rules)
  <1>1. Rejected.rules = <<>>
    BY DEF Rejected
  <1>2. <<>> \in Seq(Found(<<>>)) /\ DOMAIN <<>> = {}
    OBVIOUS
  <1> QED BY <1>1, <1>2 DEF UsableRules, IsList

\* Load answers a usable configuration, the one it read or none.
LEMMA LoadedUsable ==
    ASSUME NEW config, IsList(config.rules)
    PROVE  UsableRules(Load(config).rules) /\ (Load(config) # Rejected => Load(config) = config)
  <1>1. CASE /\ Cardinality(IdsOf(config.rules)) = Len(config.rules)
             /\ \A i \in DOMAIN config.rules : config.rules[i].severity \in {Order[r] : r \in DOMAIN Order}
             /\ Load(config) = config
    <2>1. \A r, q \in DOMAIN config.rules : config.rules[r].id = config.rules[q].id => r = q
      BY <1>1, IdsTellApart
    <2> QED BY <1>1, <2>1 DEF UsableRules
  <1>2. CASE Load(config) = Rejected
    BY <1>2, RejectedUsable
  <1> QED BY <1>1, <1>2 DEF Load

\* Merge answers a usable configuration with all rules of all packs, or none.
LEMMA MergedUsable ==
    ASSUME NEW configs, IsList(configs), \A p \in DOMAIN configs : UsableRules(configs[p].rules)
    PROVE  /\ UsableRules(Merge(configs).rules)
           /\ Merge(configs) # Rejected => \A p \in DOMAIN configs : Found(configs[p].rules) \subseteq Found(Merge(configs).rules)
  <1> PICK n \in Nat : DOMAIN configs = 1..n
    BY DEF IsList
  <1>e. PICK E : E = UNION {Found(configs[p].rules) : p \in 1..n}
    OBVIOUS
  <1>l. PICK lists : lists = [p \in 1..n |-> configs[p].rules]
    OBVIOUS
  <1>m. PICK merged : merged = FlattenSeq(lists)
    OBVIOUS
  <1>1. \A p \in 1..n : lists[p] \in Seq(E)
    <2> TAKE p \in 1..n
    <2>1. lists[p] \in Seq(Found(configs[p].rules))
      BY <1>l DEF UsableRules, IsList
    <2> PICK F : F = Found(configs[p].rules)
      OBVIOUS
    <2>2. F \subseteq E
      BY <1>e
    <2>3. Seq(F) \subseteq Seq(E)
      BY <2>2
    <2> QED BY <2>1, <2>3
  <1>2. lists \in Seq(Seq(E)) /\ DOMAIN lists = 1..n
    BY <1>1, <1>l
  <1>3. merged \in Seq(E) /\ Found(merged) = UNION {Found(lists[p]) : p \in DOMAIN lists}
    BY <1>2, <1>m, FlattenPicked
  <1>4. \A p \in 1..n : Found(configs[p].rules) \subseteq Found(merged)
    BY <1>2, <1>3, <1>l
  <1>5. IsList(merged)
    BY <1>3, ListOfItsOwn
  <1>6. \A i \in DOMAIN merged : merged[i].severity \in {Order[k] : k \in DOMAIN Order}
    <2> TAKE i \in DOMAIN merged
    <2>1. merged[i] \in E
      BY <1>3
    <2>2. PICK p \in 1..n : merged[i] \in Found(configs[p].rules)
      BY <1>e, <2>1
    <2> QED BY <2>2 DEF Found, UsableRules
  <1>7. CASE Merge(configs) = Rejected
    BY <1>7, RejectedUsable
  <1>8. CASE Merge(configs).rules = merged /\ Cardinality(IdsOf(merged)) = Len(merged)
    <2>1. \A r, q \in DOMAIN merged : merged[r].id = merged[q].id => r = q
      BY <1>5, <1>8, IdsTellApart
    <2> QED BY <1>4, <1>5, <1>6, <1>8, <2>1 DEF UsableRules
  <1>9. Merge(configs) = Rejected \/ (Merge(configs).rules = merged /\ Cardinality(IdsOf(merged)) = Len(merged))
    BY <1>l, <1>m DEF Merge
  <1> QED BY <1>7, <1>8, <1>9

\* Whatever file and packs a command is given, it evaluates usable rules.
LEMMA ResolvedUsable ==
    ASSUME NEW file \in RuleFiles, NEW packs \in PackLists
    PROVE  UsableRules(resolveRuleConfig(file, packs, BuiltinRules).rules)
  <1>l. PICK loaded : loaded = [p \in DOMAIN packs |-> Load(packs[p])]
    OBVIOUS
  <1>1. IsList(packs) /\ IsList(file.rules) /\ IsList(BuiltinRules.rules)
        /\ \A p \in DOMAIN packs : IsList(packs[p].rules)
    BY RulesAssumption DEF RulesAssumption
  <1>2. IsList(loaded)
    <2> PICK n \in Nat : DOMAIN packs = 1..n
      BY <1>1 DEF IsList
    <2>1. \A p \in 1..n : Load(packs[p]) \in Found(loaded)
      BY <1>l DEF Found
    <2>f. PICK F : F = Found(loaded)
      OBVIOUS
    <2>2. [p \in 1..n |-> Load(packs[p])] \in Seq(F)
      BY <2>1, <2>f
    <2> QED BY <1>l, <2>2, <2>f DEF IsList
  <1>3. \A p \in DOMAIN loaded : UsableRules(loaded[p].rules)
    BY <1>1, <1>l, LoadedUsable
  <1>4. UsableRules(Merge(loaded).rules) /\ UsableRules(Rejected.rules)
        /\ UsableRules(Load(file).rules) /\ UsableRules(Load(BuiltinRules).rules)
    BY <1>1, <1>2, <1>3, MergedUsable, LoadedUsable, RejectedUsable
  <1>5. resolveRuleConfig(file, packs, BuiltinRules) \in {Rejected, Load(file), Load(BuiltinRules), Merge(loaded)}
    BY <1>l DEF resolveRuleConfig
  <1> QED BY <1>4, <1>5

\* The findings of a scan are those docs/rules.md describes, each once, the worst first.
LEMMA ScansSayWhatIsMeant ==
    ASSUME NEW inv, IsList(inv.objects), NEW config, UsableRules(config.rules), NEW now
    PROVE  SaysWhatIsMeant(Evaluate(inv, config, now).findings, inv, config, now)
  <1>f. PICK findings : findings = Evaluate(inv, config, now).findings
    OBVIOUS
  <1>r. PICK rules : rules = config.rules
    OBVIOUS
  <1>1. ScanOfRules(findings, rules, inv, buildFacts(inv.objects, now))
    BY <1>f, <1>r, ScanFinds
  <1>2. \A i, j \in DOMAIN findings : i < j => Rank(findings[i].severity) <= Rank(findings[j].severity)
    BY <1>1 DEF ScanOfRules, InOrder
  <1>3. \A i \in DOMAIN findings : findings[i].rule \in IdsOf(rules)
    BY <1>1 DEF ScanOfRules
  <1>4. ASSUME NEW r \in DOMAIN rules
        PROVE  IF tokenScoped(rules[r].match)
               THEN At(findings, OfRule(findings, rules[r].id)) = evalMechanismRule(inv.mechanisms, rules[r])
               ELSE At(findings, OfRule(findings, rules[r].id))
                        = [k \in DOMAIN Meaning(rules[r], inv, now) |-> FindingOf(rules[r], Meaning(rules[r], inv, now)[k])]
    <2>1. At(findings, OfRule(findings, rules[r].id)) = evalRule(inv, rules[r], buildFacts(inv.objects, now))
      BY <1>1 DEF ScanOfRules
    <2>2. tokenScoped(rules[r].match) =>
              evalRule(inv, rules[r], buildFacts(inv.objects, now)) = evalMechanismRule(inv.mechanisms, rules[r])
      BY DEF evalRule
    <2>3. ~tokenScoped(rules[r].match) =>
              evalRule(inv, rules[r], buildFacts(inv.objects, now))
                 = [k \in DOMAIN Meaning(rules[r], inv, now) |-> FindingOf(rules[r], Meaning(rules[r], inv, now)[k])]
      BY RulesMeanWhatIsSaid
    <2> QED BY <2>1, <2>2, <2>3
  <1>5. SaysWhatIsMeant(findings, inv, config, now)
    BY <1>r, <1>2, <1>3, <1>4 DEF SaysWhatIsMeant
  <1> QED BY <1>f, <1>5

\* What a scan is given and answers.
ScanInv == asked.by = "scan" =>
    /\ asked.inv \in Inventories /\ UsableRules(asked.config.rules)
    /\ asked.findings = Evaluate(asked.inv, asked.config, asked.now).findings

\* A scan (policy.Evaluate with buildFacts and matchObject) finds of every rule exactly
\* the objects that docs/rules.md says it is about, in their order and the severe first.
THEOREM ScanFindsWhatIsDocumented == DecisionsInit /\ [][DecisionsNext]_asked => []FindingsAsDocumented
  <1>1. DecisionsInit => ScanInv
    BY DEF DecisionsInit, Nobody, ScanInv
  <1>2. ScanInv /\ [DecisionsNext]_asked => ScanInv'
    <2> SUFFICES ASSUME ScanInv, [DecisionsNext]_asked PROVE ScanInv'
      OBVIOUS
    <2>1. CASE scan
      <3>1. PICK inv \in Inventories, now \in Times, file \in RuleFiles, packs \in PackLists :
                LET config == resolveRuleConfig(file, packs, BuiltinRules)
                IN  asked' = [by |-> "scan", inv |-> inv, now |-> now, config |-> config,
                              findings |-> Evaluate(inv, config, now).findings]
        BY <2>1 DEF scan, Answer
      <3>c. PICK config : config = resolveRuleConfig(file, packs, BuiltinRules)
        OBVIOUS
      <3>2. UsableRules(config.rules)
        BY <3>c, ResolvedUsable
      <3>3. asked' = [by |-> "scan", inv |-> inv, now |-> now, config |-> config,
                      findings |-> Evaluate(inv, config, now).findings]
        BY <3>1, <3>c
      <3> QED BY <3>2, <3>3 DEF ScanInv
    <2>2. CASE evidence
      BY <2>2 DEF evidence, Answer, ScanInv
    <2>3. CASE cbom
      BY <2>3 DEF cbom, Answer, ScanInv
    <2>4. CASE pqc
      BY <2>4 DEF pqc, Answer, ScanInv
    <2>5. CASE snapshotDiff
      BY <2>5 DEF snapshotDiff, Answer, ScanInv
    <2>6. CASE preflight
      BY <2>6 DEF preflight, Answer, ScanInv
    <2>7. CASE UNCHANGED asked
      BY <2>7 DEF ScanInv
    <2> QED BY <2>1, <2>2, <2>3, <2>4, <2>5, <2>6, <2>7 DEF DecisionsNext
  <1>3. ScanInv => FindingsAsDocumented
    BY ScansSayWhatIsMeant, InventoriesAssumption DEF ScanInv, FindingsAsDocumented, InventoriesAssumption
  <1> QED BY <1>1, <1>2, <1>3, PTL

\* The places of a list are of one of three kinds.
LEMMA ThreeKinds ==
    ASSUME NEW n \in Nat, NEW A, NEW B, NEW C, A \cup B \cup C = 1..n,
           A \cap B = {}, A \cap C = {}, B \cap C = {}
    PROVE  Cardinality(A) + Cardinality(B) + Cardinality(C) = n
  <1>1. IsFiniteSet(1..n) /\ Cardinality(1..n) = n
    BY FirstNumbers
  <1>2. IsFiniteSet(A) /\ IsFiniteSet(B) /\ IsFiniteSet(C)
    <2>1. A \subseteq 1..n /\ B \subseteq 1..n /\ C \subseteq 1..n
      OBVIOUS
    <2> QED BY <1>1, <2>1, FS_Subset
  <1>d. PICK D : D = A \cup B
    OBVIOUS
  <1>3. IsFiniteSet(D) /\ Cardinality(D) = Cardinality(A) + Cardinality(B) - Cardinality(A \cap B)
    BY <1>2, <1>d, FS_Union
  <1>4. Cardinality(D \cup C) = Cardinality(D) + Cardinality(C) - Cardinality(D \cap C)
    BY <1>2, <1>3, FS_Union
  <1>5. A \cap B = {} /\ D \cap C = {} /\ D \cup C = 1..n
    BY <1>d
  <1>6. Cardinality({}) = 0
    BY FS_EmptySet
  <1>7. Cardinality(A) \in Nat /\ Cardinality(B) \in Nat /\ Cardinality(C) \in Nat
    BY <1>2, FS_CardinalityType
  <1>8. Cardinality(A \cap B) = 0 /\ Cardinality(D \cap C) = 0 /\ Cardinality(D \cup C) = n
    BY <1>1, <1>5, <1>6
  <1>9. Cardinality(D) = Cardinality(A) + Cardinality(B)
    BY <1>3, <1>7, <1>8
  <1>10. n = Cardinality(D) + Cardinality(C)
    BY <1>4, <1>7, <1>8, <1>9
  <1> QED BY <1>9, <1>10

Kinds == {"pass", "fail", "not-applicable"}

\* The three counts of the controls of a pack add up to the controls.
LEMMA AllControlsCounted ==
    ASSUME NEW n \in Nat, NEW controls, DOMAIN controls = 1..n, \A r \in 1..n : controls[r].status \in Kinds
    PROVE  Counted(controls, "pass") + Counted(controls, "fail") + Counted(controls, "not-applicable") = n
  <1> DEFINE Of3(status) == {i \in DOMAIN controls : controls[i].status = status}
  <1>1. Of3("pass") \cup Of3("fail") \cup Of3("not-applicable") = 1..n
    BY DEF Kinds
  <1>2. Of3("pass") \cap Of3("fail") = {} /\ Of3("pass") \cap Of3("not-applicable") = {}
        /\ Of3("fail") \cap Of3("not-applicable") = {}
    OBVIOUS
  <1>3. \A status : Counted(controls, status) = Cardinality(Of3(status))
    BY DEF Counted
  <1> HIDE DEF Of3
  <1> QED BY <1>1, <1>2, <1>3, ThreeKinds

\* What is said of a rule a scan was made with.
LEMMA ScanOfOne ==
    ASSUME NEW inv, IsList(inv.objects), NEW config, UsableRules(config.rules), NEW now,
           NEW rule \in Found(config.rules), NEW findings, findings = Evaluate(inv, config, now).findings
    PROVE  /\ Violations(findings, rule) = evalRule(inv, rule, buildFacts(inv.objects, now))
           /\ Violations(findings, rule) = <<>> <=> OfRule(findings, rule.id) = {}
  <1>r. PICK rules : rules = config.rules
    OBVIOUS
  <1>1. ScanOfRules(findings, rules, inv, buildFacts(inv.objects, now))
    BY <1>r, ScanFinds
  <1>2. PICK r \in DOMAIN rules : rule = rules[r]
    BY <1>r DEF Found
  <1>3. At(findings, OfRule(findings, rule.id)) = evalRule(inv, rule, buildFacts(inv.objects, now))
    BY <1>1, <1>2 DEF ScanOfRules
  <1>p. PICK places : places = OfRule(findings, rule.id)
    OBVIOUS
  <1>f. PICK F : F = Found(findings)
    OBVIOUS
  <1>4. findings \in Seq(F)
    BY <1>1, <1>f DEF ScanOfRules, IsList
  <1>5. At(findings, places) = <<>> <=> \A i \in 1..Len(findings) : i \notin places
    BY <1>4, AtOrNothing
  <1>6. places \subseteq 1..Len(findings)
    BY <1>4, <1>p DEF OfRule
  <1> QED BY <1>3, <1>5, <1>6, <1>p DEF Violations

\* A rule about objects of a class finds some only where there are some.
LEMMA FoundIsApplicable ==
    ASSUME NEW inv, IsList(inv.objects), NEW rule, NEW facts, evalRule(inv, rule, facts) # <<>>
    PROVE  applicable(inv, rule)
  <1> SUFFICES ASSUME ~tokenScoped(rule.match) PROVE applicable(inv, rule)
    BY DEF applicable
  <1>o. PICK list : list = inv.objects
    OBVIOUS
  <1>s. PICK S : S = {i \in DOMAIN list : matchObject(rule, list[i], facts)}
    OBVIOUS
  <1>m. PICK matched : matched = At(list, S)
    OBVIOUS
  <1>1. evalRule(inv, rule, facts) = [i \in DOMAIN matched |-> FindingOf(rule, objectRef(matched[i]))]
    BY <1>o, <1>s, <1>m DEF evalRule
  <1>f. PICK F : F = Found(list)
    OBVIOUS
  <1>2. list \in Seq(F)
    BY <1>o, <1>f DEF IsList
  <1>3. matched # <<>>
    <2> SUFFICES ASSUME matched = <<>> PROVE FALSE
      OBVIOUS
    <2>1. DOMAIN matched = {}
      OBVIOUS
    <2>2. [i \in DOMAIN matched |-> FindingOf(rule, objectRef(matched[i]))] = <<>>
      BY <2>1
    <2> QED BY <1>1, <2>2
  <1>4. PICK i \in S : i \in DOMAIN list
    <2>1. matched = <<>> <=> \A i \in 1..Len(list) : i \notin S
      BY <1>2, <1>m, AtOrNothing
    <2> QED BY <1>2, <1>3, <2>1
  <1>5. matchObject(rule, list[i], facts)
    BY <1>s
  <1>6. Has(rule.match, "class") => list[i].class = rule.match.class
    <2> SUFFICES ASSUME Has(rule.match, "class") PROVE list[i].class = rule.match.class
      OBVIOUS
    <2>1. ConditionHolds("class", rule.match["class"], list[i], facts)
      BY <1>5 DEF matchObject, Has
    <2> QED BY <2>1 DEF ConditionHolds
  <1> QED BY <1>4, <1>6, <1>o DEF applicable

\* A control and a scan agree on a rule.
InLine(control, inv, findings, rule) ==
    /\ control.violations = At(findings, OfRule(findings, rule.id))
    /\ control.status \in Kinds
    /\ control.status = "fail" <=> OfRule(findings, rule.id) # {}
    /\ control.status = "not-applicable" <=> ~applicable(inv, rule)

\* A control evaluated with one pack agrees with a scan that has other rules besides.
LEMMA ControlAgrees ==
    ASSUME NEW inv, IsList(inv.objects), NEW config, UsableRules(config.rules), NEW now,
           NEW other, UsableRules(other.rules), NEW rule \in Found(config.rules) \cap Found(other.rules)
    PROVE  InLine(Control(inv, Evaluate(inv, config, now).findings, rule), inv, Evaluate(inv, other, now).findings, rule)
  <1>c. PICK control : control = Control(inv, Evaluate(inv, config, now).findings, rule)
    OBVIOUS
  <1>f. PICK findings : findings = Evaluate(inv, other, now).findings
    OBVIOUS
  <1>w. PICK ofOne : ofOne = Evaluate(inv, config, now).findings
    OBVIOUS
  <1>v. PICK violations : violations = evalRule(inv, rule, buildFacts(inv.objects, now))
    OBVIOUS
  <1>1. Violations(ofOne, rule) = violations
    BY <1>w, <1>v, ScanOfOne
  <1>2. Violations(findings, rule) = violations /\ (Violations(findings, rule) = <<>> <=> OfRule(findings, rule.id) = {})
    BY <1>f, <1>v, ScanOfOne
  <1>3. control.violations = violations
    BY <1>c, <1>w, <1>1 DEF Control
  <1>4. control.status = CASE violations # <<>> -> "fail"
                           [] violations = <<>> /\ applicable(inv, rule) -> "pass"
                           [] OTHER -> "not-applicable"
    BY <1>c, <1>w, <1>1 DEF Control
  <1>5. violations # <<>> => applicable(inv, rule)
    BY <1>v, FoundIsApplicable
  <1>6. control.violations = At(findings, OfRule(findings, rule.id))
    BY <1>2, <1>3 DEF Violations
  <1>7. /\ control.status \in Kinds
        /\ control.status = "fail" <=> violations # <<>>
        /\ control.status = "not-applicable" <=> ~applicable(inv, rule)
    BY <1>4, <1>5 DEF Kinds
  <1>8. InLine(control, inv, findings, rule)
    BY <1>2, <1>6, <1>7 DEF InLine
  <1> QED BY <1>8, <1>c, <1>f

\* evidence.Build of all packs agrees with the scan of the merged packs.
LEMMA EvidenceAgrees ==
    ASSUME NEW inv \in Inventories, NEW packs \in PackLists, NEW now
    PROVE  AgreesWithScan(inv, packs, now)
  <1>e. PICK answers : answers = EvidenceReport(inv, packs, now)
    OBVIOUS
  <1>m. PICK merged : merged = Merge(packs)
    OBVIOUS
  <1>1. IsList(inv.objects) /\ IsList(packs) /\ \A p \in DOMAIN packs : IsList(packs[p].rules)
    BY InventoriesAssumption, RulesAssumption DEF InventoriesAssumption, RulesAssumption
  <1>2. ASSUME NEW p \in DOMAIN answers, NEW config, config = packs[p],
               NEW other, other = IF merged = Rejected THEN packs[p] ELSE merged,
               NEW findings, findings = Evaluate(inv, other, now).findings
        PROVE  /\ answers[p].passed + answers[p].failed + answers[p].notApplicable = Len(config.rules)
               /\ \A r \in DOMAIN config.rules : InLine(answers[p].controls[r], inv, findings, config.rules[r])
    <2>1. /\ \A q \in DOMAIN packs : Load(packs[q]) # Rejected
          /\ answers = [q \in DOMAIN packs |-> EvidenceOf(inv, packs[q], now)]
      <3>1. CASE loadEvidencePacks(packs) = <<>>
        <4>1. answers = [q \in DOMAIN <<>> |-> EvidenceOf(inv, <<>>[q], now)]
          BY <1>e, <3>1 DEF EvidenceReport
        <4>2. DOMAIN <<>> = {}
          OBVIOUS
        <4> QED BY <1>2, <4>1, <4>2
      <3>2. CASE loadEvidencePacks(packs) # <<>>
        <4>1. loadEvidencePacks(packs) = packs /\ \A q \in DOMAIN packs : Load(packs[q]) # Rejected
          BY <3>2 DEF loadEvidencePacks
        <4> QED BY <1>e, <4>1 DEF EvidenceReport
      <3> QED BY <3>1, <3>2
    <2>2. p \in DOMAIN packs /\ answers[p] = EvidenceOf(inv, config, now)
      BY <1>2, <2>1
    <2>3. \A q \in DOMAIN packs : UsableRules(packs[q].rules)
      <3> TAKE q \in DOMAIN packs
      <3>1. Load(packs[q]) = packs[q] /\ UsableRules(Load(packs[q]).rules)
        BY <1>1, <2>1, LoadedUsable
      <3> QED BY <3>1
    <2>4. UsableRules(config.rules)
      BY <1>2, <2>2, <2>3
    <2>5. UsableRules(other.rules) /\ Found(config.rules) \subseteq Found(other.rules)
      <3>1. CASE merged = Rejected
        BY <1>2, <2>4, <3>1
      <3>2. CASE merged # Rejected
        <4>1. UsableRules(merged.rules) /\ \A q \in DOMAIN packs : Found(packs[q].rules) \subseteq Found(merged.rules)
          BY <1>1, <1>m, <2>3, <3>2, MergedUsable
        <4> QED BY <1>2, <2>2, <3>2, <4>1
      <3> QED BY <3>1, <3>2
    <2>r. PICK rules : rules = config.rules
      OBVIOUS
    <2>6. PICK n \in Nat : DOMAIN rules = 1..n /\ Len(rules) = n
      BY <2>4, <2>r DEF UsableRules, IsList
    <2>w. PICK ofOne : ofOne = Evaluate(inv, config, now).findings
      OBVIOUS
    <2>c. PICK controls : controls = [r \in 1..n |-> Control(inv, ofOne, rules[r])]
      OBVIOUS
    <2>7. answers[p] = [controls |-> controls, passed |-> Counted(controls, "pass"),
                         failed |-> Counted(controls, "fail"), notApplicable |-> Counted(controls, "not-applicable")]
      BY <2>2, <2>6, <2>c, <2>r, <2>w DEF EvidenceOf
    <2>8. ASSUME NEW r \in 1..n
          PROVE  InLine(controls[r], inv, findings, rules[r])
      <3>k. PICK rule : rule = rules[r]
        OBVIOUS
      <3>1. controls[r] = Control(inv, ofOne, rule)
        BY <2>c, <3>k
      <3>2. rule \in Found(config.rules)
        BY <2>6, <2>r, <3>k DEF Found
      <3>3. rule \in Found(config.rules) \cap Found(other.rules)
        BY <2>5, <3>2
      <3>4. findings = Evaluate(inv, other, now).findings
        BY <1>2
      <3>5. UsableRules(other.rules)
        BY <2>5
      <3>6. IsList(inv.objects)
        BY <1>1
      <3>7. InLine(Control(inv, Evaluate(inv, config, now).findings, rule), inv, Evaluate(inv, other, now).findings, rule)
        BY <2>4, <3>3, <3>5, <3>6, ControlAgrees
      <3> QED BY <2>w, <3>1, <3>4, <3>7, <3>k
    <2>9. DOMAIN controls = 1..n /\ \A r \in 1..n : controls[r].status \in Kinds
      BY <2>8, <2>c DEF InLine
    <2>10. Counted(controls, "pass") + Counted(controls, "fail") + Counted(controls, "not-applicable") = n
      BY <2>9, AllControlsCounted
    <2>11. answers[p].passed + answers[p].failed + answers[p].notApplicable = Len(rules)
      BY <2>6, <2>7, <2>10
    <2>12. answers[p].controls = controls
      BY <2>7
    <2> QED BY <2>6, <2>8, <2>11, <2>12, <2>r
  <1>3. ASSUME NEW rule
        PROVE  ~applicable(inv, rule) <=> ~tokenScoped(rule.match) /\ {i \in DOMAIN inv.objects :
                    ~Has(rule.match, "class") \/ inv.objects[i].class = rule.match.class} = {}
    BY DEF applicable
  <1> DEFINE Scan(p) == Evaluate(inv, IF merged = Rejected THEN packs[p] ELSE merged, now).findings
             OfClass(rule) == {i \in DOMAIN inv.objects : ~Has(rule.match, "class") \/ inv.objects[i].class = rule.match.class}
  <1>4. ASSUME NEW p \in DOMAIN answers
        PROVE  /\ answers[p].passed + answers[p].failed + answers[p].notApplicable = Len(packs[p].rules)
               /\ \A r \in DOMAIN packs[p].rules : InLine(answers[p].controls[r], inv, Scan(p), packs[p].rules[r])
    <2>c. PICK config : config = packs[p]
      OBVIOUS
    <2>o. PICK other : other = IF merged = Rejected THEN packs[p] ELSE merged
      OBVIOUS
    <2>f. PICK findings : findings = Evaluate(inv, other, now).findings
      OBVIOUS
    <2>1. /\ answers[p].passed + answers[p].failed + answers[p].notApplicable = Len(config.rules)
          /\ \A r \in DOMAIN config.rules : InLine(answers[p].controls[r], inv, findings, config.rules[r])
      BY <1>2, <2>c, <2>o, <2>f
    <2>2. findings = Scan(p)
      BY <2>f, <2>o
    <2> HIDE DEF Scan
    <2> QED BY <2>1, <2>2, <2>c
  <1>5. AgreesWithScan(inv, packs, now) <=> \A p \in DOMAIN answers :
          /\ answers[p].passed + answers[p].failed + answers[p].notApplicable = Len(packs[p].rules)
          /\ \A r \in DOMAIN packs[p].rules :
                /\ answers[p].controls[r].violations = At(Scan(p), OfRule(Scan(p), packs[p].rules[r].id))
                /\ answers[p].controls[r].status = "fail" <=> OfRule(Scan(p), packs[p].rules[r].id) # {}
                /\ answers[p].controls[r].status = "not-applicable" <=>
                        ~tokenScoped(packs[p].rules[r].match) /\ OfClass(packs[p].rules[r]) = {}
    BY <1>e, <1>m DEF AgreesWithScan
  <1>6. \A rule : ~applicable(inv, rule) <=> ~tokenScoped(rule.match) /\ OfClass(rule) = {}
    BY <1>3
  <1> HIDE DEF Scan, OfClass
  <1> QED BY <1>4, <1>5, <1>6 DEF InLine

\* What an evidence report is made of.
EvidenceInv == asked.by = "evidence" => asked.inv \in Inventories /\ asked.packs \in PackLists

\* The evidence of several packs (evidence.Build for each) and a scan with all of them
\* merged (policy.Merge, policy.Evaluate) agree on every rule, whatever the packs; a rule
\* is said to pass only where the token has something it is about.
THEOREM EvidenceAndScanAgree == DecisionsInit /\ [][DecisionsNext]_asked => []EvidenceAgreesWithScan
  <1>1. DecisionsInit => EvidenceInv
    BY DEF DecisionsInit, Nobody, EvidenceInv
  <1>2. EvidenceInv /\ [DecisionsNext]_asked => EvidenceInv'
    <2> SUFFICES ASSUME EvidenceInv, [DecisionsNext]_asked PROVE EvidenceInv'
      OBVIOUS
    <2>1. CASE scan
      BY <2>1 DEF scan, Answer, EvidenceInv
    <2>2. CASE evidence
      BY <2>2 DEF evidence, Answer, EvidenceInv
    <2>3. CASE cbom
      BY <2>3 DEF cbom, Answer, EvidenceInv
    <2>4. CASE pqc
      BY <2>4 DEF pqc, Answer, EvidenceInv
    <2>5. CASE snapshotDiff
      BY <2>5 DEF snapshotDiff, Answer, EvidenceInv
    <2>6. CASE preflight
      BY <2>6 DEF preflight, Answer, EvidenceInv
    <2>7. CASE UNCHANGED asked
      BY <2>7 DEF EvidenceInv
    <2> QED BY <2>1, <2>2, <2>3, <2>4, <2>5, <2>6, <2>7 DEF DecisionsNext
  <1>3. EvidenceInv => EvidenceAgreesWithScan
    BY EvidenceAgrees DEF EvidenceInv, EvidenceAgreesWithScan
  <1> QED BY <1>1, <1>2, <1>3, PTL

-----------------------------------------------------------------------------
(* Names of algorithms.                                                     *)

IsName(name) == name = <<>> \/ (\E x : name = <<x>>) \/ (\E x, y : name = <<x, y>>)

\* algoIdentity answers no name or one that begins with the type, EC for both of its names.
LEMMA IdentityIsName ==
    ASSUME NEW keyType, NEW curve, NEW bits, NEW name, name = algoIdentity(keyType, curve, bits)
    PROVE  /\ IsName(name) /\ (name = NoName <=> keyType = "none")
           /\ name # NoName => name[1] = IF keyType \in {"EC", "ECDSA"} THEN "EC" ELSE keyType
  <1>1. CASE keyType = "none"
    BY <1>1 DEF algoIdentity, IsName, NoName
  <1>2. CASE keyType \in {"RSA", "AES"}
    <2>1. name = <<keyType, ToString(bits)>> \/ name = <<keyType>>
      BY <1>2 DEF algoIdentity
    <2> QED BY <1>2, <2>1 DEF IsName, NoName
  <1>3. CASE keyType \in {"EC", "ECDSA"}
    <2>1. name = <<"EC", curve>> \/ name = <<"EC">>
      BY <1>3 DEF algoIdentity
    <2> QED BY <1>3, <2>1 DEF IsName, NoName
  <1>4. CASE keyType \notin {"none", "RSA", "AES", "EC", "ECDSA"}
    <2>1. name = <<keyType>>
      BY <1>4 DEF algoIdentity
    <2> QED BY <1>4, <2>1 DEF IsName, NoName
  <1> QED BY <1>1, <1>2, <1>3, <1>4

\* The reference of an algorithm says that it is one and begins with its name.
LEMMA AlgorithmRefIs ==
    ASSUME NEW name, IsName(name), name # NoName
    PROVE  AlgorithmRef(name)[1] = "algorithm" /\ AlgorithmRef(name)[2] = name[1]
  <1>1. CASE \E x : name = <<x>>
    <2> PICK x : name = <<x>>
      BY <1>1
    <2>1. <<"algorithm">> \in Seq({"algorithm", x}) /\ name \in Seq({"algorithm", x})
      OBVIOUS
    <2> QED BY <2>1 DEF AlgorithmRef
  <1>2. CASE \E x, y : name = <<x, y>>
    <2> PICK x, y : name = <<x, y>>
      BY <1>2
    <2>1. <<"algorithm">> \in Seq({"algorithm", x, y}) /\ name \in Seq({"algorithm", x, y})
      OBVIOUS
    <2> QED BY <2>1 DEF AlgorithmRef
  <1> QED BY <1>1, <1>2 DEF IsName, NoName

-----------------------------------------------------------------------------
(* What a bill of some objects can hold.                                    *)

SignatureOf(o) == <<o.certificate.signature_algorithm>>
NamesOf(objects) == UNION {{NameOfKey(objects[i]), NameOfPublicKey(objects[i].certificate), SignatureOf(objects[i])} :
                           i \in DOMAIN objects}
RefsFor(objects) == {AlgorithmRef(name) : name \in NamesOf(objects)}
                    \cup {KeyRef(objects[i], m) : i \in DOMAIN objects, m \in Nat}
                    \cup {CertificateRef(objects[i], m) : i \in DOMAIN objects, m \in Nat}
EntryOf(R) == [ref : R, kind : keyMaterialType \cup {"algorithm", "certificate"}, refers : Seq(R), vulnerable : BOOLEAN]
TablesOf(P, R) == UNION {[Q -> R] : Q \in SUBSET P}
Prints(objects) == {objects[i].fingerprint : i \in DOMAIN objects}
EntriesFor(objects) == EntryOf(RefsFor(objects))
Bills(objects) == [components : Seq(EntriesFor(objects)), refs : TablesOf(Prints(objects), RefsFor(objects))]

AlgorithmEntry(name, vulnerable) ==
    [ref |-> AlgorithmRef(name), kind |-> "algorithm", refers |-> <<>>, vulnerable |-> vulnerable]
KeyEntry(o, number) ==
    [ref |-> KeyRef(o, number), kind |-> o.class, refers |-> RefTo(NameOfKey(o)), vulnerable |-> FALSE]
KeptKey(refs, o) == Has(o.certificate, "fingerprint") /\ o.certificate.fingerprint \in DOMAIN refs
CertificateEntry(o, number, refs) ==
    [ref |-> CertificateRef(o, number), kind |-> "certificate", vulnerable |-> FALSE,
     refers |-> (IF KeptKey(refs, o) THEN <<refs[o.certificate.fingerprint]>> ELSE RefTo(NameOfPublicKey(o.certificate)))
                \o RefTo(SignatureOf(o))]
Broken(name) == name # NoName /\ name[1] \in Vulnerable

\* An algorithm is entered if it is not yet there.
Widened(c, d, name, vulnerable) ==
    \/ d = c /\ (name = NoName \/ AlgorithmRef(name) \in RefsOf(c))
    \/ /\ name # NoName /\ AlgorithmRef(name) \notin RefsOf(c)
       /\ d = Append(c, AlgorithmEntry(name, vulnerable))

\* The entry of an algorithm that the objects name fits in a bill of them.
LEMMA AlgorithmFits ==
    ASSUME NEW objects, NEW name \in NamesOf(objects), NEW vulnerable \in BOOLEAN
    PROVE  IsName(name) /\ AlgorithmEntry(name, vulnerable) \in EntriesFor(objects)
  <1>1. IsName(name)
    <2>1. PICK i \in DOMAIN objects : name \in {NameOfKey(objects[i]), NameOfPublicKey(objects[i].certificate),
                                               SignatureOf(objects[i])}
      BY DEF NamesOf
    <2>2. IsName(NameOfKey(objects[i]))
      BY IdentityIsName DEF NameOfKey
    <2>3. IsName(NameOfPublicKey(objects[i].certificate))
      BY IdentityIsName DEF NameOfPublicKey
    <2>4. IsName(SignatureOf(objects[i]))
      BY DEF IsName, SignatureOf
    <2> QED BY <2>1, <2>2, <2>3, <2>4
  <1>r. PICK R : R = RefsFor(objects)
    OBVIOUS
  <1>2. AlgorithmRef(name) \in R
    BY <1>r DEF RefsFor
  <1>3. <<>> \in Seq(R)
    OBVIOUS
  <1>4. AlgorithmEntry(name, vulnerable) \in EntryOf(R)
    BY <1>2, <1>3 DEF AlgorithmEntry, EntryOf
  <1> QED BY <1>1, <1>r, <1>4 DEF EntriesFor

\* AddAlgorithm keeps a bill a bill and enters the algorithm if it is not there.
LEMMA AlgorithmAdded ==
    ASSUME NEW objects, NEW bom \in Bills(objects), NEW name \in NamesOf(objects), NEW vulnerable \in BOOLEAN
    PROVE  /\ AddAlgorithm(bom, name, vulnerable) \in Bills(objects)
           /\ AddAlgorithm(bom, name, vulnerable).refs = bom.refs
           /\ Widened(bom.components, AddAlgorithm(bom, name, vulnerable).components, name, vulnerable)
  <1>e. PICK E : E = EntriesFor(objects)
    OBVIOUS
  <1>t. PICK T : T = TablesOf(Prints(objects), RefsFor(objects))
    OBVIOUS
  <1>1. bom \in [components : Seq(E), refs : T]
    BY <1>e, <1>t DEF Bills
  <1>f. PICK f : f = AlgorithmEntry(name, vulnerable)
    OBVIOUS
  <1>2. f \in E
    BY <1>e, <1>f, AlgorithmFits
  <1>3. CASE name = NoName \/ AlgorithmRef(name) \in RefsOf(bom.components)
    <2>1. AddAlgorithm(bom, name, vulnerable) = bom
      BY <1>3 DEF AddAlgorithm, RefsOf
    <2> QED BY <1>3, <2>1 DEF Widened
  <1>4. CASE name # NoName /\ AlgorithmRef(name) \notin RefsOf(bom.components)
    <2>1. AddAlgorithm(bom, name, vulnerable) = [bom EXCEPT !.components = Append(@, f)]
      BY <1>4, <1>f DEF AddAlgorithm, RefsOf, AlgorithmEntry
    <2>2. Append(bom.components, f) \in Seq(E)
      BY <1>1, <1>2
    <2>3. AddAlgorithm(bom, name, vulnerable) = [components |-> Append(bom.components, f), refs |-> bom.refs]
      BY <1>1, <2>1
    <2>4. AddAlgorithm(bom, name, vulnerable) \in [components : Seq(E), refs : T]
      BY <1>1, <2>2, <2>3
    <2> QED BY <1>4, <1>e, <1>f, <1>t, <2>3, <2>4 DEF Widened, Bills
  <1> QED BY <1>3, <1>4

\* What addKey does to the components and to the table of fingerprints.
KeyStep(c, d, o) ==
    \/ o.class \notin keyMaterialType /\ d = c
    \/ /\ o.class \in keyMaterialType
       /\ \E w : Widened(c, w, NameOfKey(o), Broken(NameOfKey(o))) /\ d = Append(w, KeyEntry(o, Len(c)))
TableStep(refs, new, o, number) ==
    IF o.class \in keyMaterialType /\ Has(o, "fingerprint")
    THEN new = [print \in DOMAIN refs \cup {o.fingerprint} |->
                    IF print = o.fingerprint THEN KeyRef(o, number) ELSE refs[print]]
    ELSE new = refs

\* addKey enters the algorithm of a key and the key, and keeps its fingerprint.
LEMMA KeyAdded ==
    ASSUME NEW objects, NEW bom \in Bills(objects), NEW i \in DOMAIN objects,
           NEW o, o = objects[i]
    PROVE  /\ addKey(bom, o) \in Bills(objects)
           /\ KeyStep(bom.components, addKey(bom, o).components, o)
           /\ TableStep(bom.refs, addKey(bom, o).refs, o, Len(bom.components))
  <1>1. CASE o.class \notin keyMaterialType
    <2>1. addKey(bom, o) = bom
      BY <1>1 DEF addKey
    <2> QED BY <1>1, <2>1 DEF KeyStep, TableStep
  <1>2. CASE o.class \in keyMaterialType
    <2>e. PICK E : E = EntriesFor(objects)
      OBVIOUS
    <2>r. PICK R : R = RefsFor(objects)
      OBVIOUS
    <2>p. PICK P : P = Prints(objects)
      OBVIOUS
    <2>0. bom \in [components : Seq(E), refs : TablesOf(P, R)]
      BY <2>e, <2>r, <2>p DEF Bills
    <2>n. PICK name : name = NameOfKey(o)
      OBVIOUS
    <2>1. name \in NamesOf(objects) /\ Broken(name) \in BOOLEAN
      BY <2>n DEF NamesOf, Broken
    <2>w. PICK named : named = AddAlgorithm(bom, name, Broken(name))
      OBVIOUS
    <2>2. named \in Bills(objects) /\ named.refs = bom.refs /\ Widened(bom.components, named.components, name, Broken(name))
      BY <2>1, <2>w, AlgorithmAdded
    <2>m. PICK number : number = Len(bom.components)
      OBVIOUS
    <2>3. number \in Nat
      BY <2>0, <2>m
    <2>f. PICK f : f = KeyEntry(o, number)
      OBVIOUS
    <2>t. PICK table : table = IF Has(o, "fingerprint")
                       THEN [print \in DOMAIN bom.refs \cup {o.fingerprint} |->
                                IF print = o.fingerprint THEN KeyRef(o, number) ELSE bom.refs[print]]
                       ELSE bom.refs
      OBVIOUS
    <2>4. addKey(bom, o) = [components |-> Append(named.components, f), refs |-> table]
      BY <1>2, <2>n, <2>w, <2>m, <2>f, <2>t DEF addKey, KeyEntry, Broken
    <2>5. KeyRef(o, number) \in R
      BY <2>3, <2>r DEF RefsFor
    <2>6. RefTo(name) \in Seq(R)
      <3>1. AlgorithmRef(name) \in R
        BY <2>1, <2>r DEF RefsFor
      <3> QED BY <3>1 DEF RefTo
    <2>7. f \in E
      <3>1. f \in EntryOf(R)
        BY <1>2, <2>5, <2>6, <2>f, <2>n DEF KeyEntry, EntryOf
      <3> QED BY <3>1, <2>e, <2>r DEF EntriesFor
    <2>8. Append(named.components, f) \in Seq(E)
      <3>1. named.components \in Seq(E)
        BY <2>2, <2>e DEF Bills
      <3> QED BY <3>1, <2>7
    <2>9. table \in TablesOf(P, R)
      <3>1. PICK Q \in SUBSET P : bom.refs \in [Q -> R]
        BY <2>0 DEF TablesOf
      <3>2. CASE ~Has(o, "fingerprint")
        BY <2>0, <2>t, <3>2
      <3>3. CASE Has(o, "fingerprint")
        <4>q. PICK Q2 : Q2 = Q \cup {o.fingerprint}
          OBVIOUS
        <4>1. Q2 \in SUBSET P
          BY <2>p, <4>q DEF Prints
        <4>2. table = [print \in Q2 |-> IF print = o.fingerprint THEN KeyRef(o, number) ELSE bom.refs[print]]
          BY <2>t, <3>1, <3>3, <4>q
        <4>3. \A print \in Q2 : print # o.fingerprint => bom.refs[print] \in R
          BY <3>1, <4>q
        <4>4. table \in [Q2 -> R]
          BY <2>5, <4>2, <4>3
        <4> QED BY <4>1, <4>4 DEF TablesOf
      <3> QED BY <3>2, <3>3
    <2>10. addKey(bom, o) \in Bills(objects)
      <3>1. addKey(bom, o) \in [components : Seq(E), refs : TablesOf(P, R)]
        BY <2>4, <2>8, <2>9
      <3> QED BY <3>1, <2>e, <2>r, <2>p DEF Bills
    <2>11. KeyStep(bom.components, addKey(bom, o).components, o)
      BY <1>2, <2>2, <2>4, <2>f, <2>m, <2>n DEF KeyStep
    <2>12. TableStep(bom.refs, addKey(bom, o).refs, o, Len(bom.components))
      BY <1>2, <2>4, <2>t, <2>m DEF TableStep
    <2> QED BY <2>10, <2>11, <2>12
  <1> QED BY <1>1, <1>2

\* What addCertificate does to the components.
CertificateStep(c, d, refs, o) ==
    \/ ~Has(o, "certificate") /\ d = c
    \/ /\ Has(o, "certificate")
       /\ \E v, w : /\ IF KeptKey(refs, o) THEN v = c
                       ELSE Widened(c, v, NameOfPublicKey(o.certificate), Broken(NameOfPublicKey(o.certificate)))
                    /\ Widened(v, w, SignatureOf(o), sigAlgVulnerable(SignatureOf(o)))
                    /\ d = Append(w, CertificateEntry(o, Len(c), refs))

\* addCertificate enters the algorithms of a certificate and the certificate.
LEMMA CertificateAdded ==
    ASSUME NEW objects, NEW bom \in Bills(objects), NEW i \in DOMAIN objects,
           NEW o, o = objects[i]
    PROVE  /\ addCertificate(bom, o) \in Bills(objects) /\ addCertificate(bom, o).refs = bom.refs
           /\ CertificateStep(bom.components, addCertificate(bom, o).components, bom.refs, o)
  <1>1. CASE ~Has(o, "certificate")
    <2>1. addCertificate(bom, o) = bom
      BY <1>1 DEF addCertificate
    <2> QED BY <1>1, <2>1 DEF CertificateStep
  <1>2. CASE Has(o, "certificate")
    <2>e. PICK E : E = EntriesFor(objects)
      OBVIOUS
    <2>r. PICK R : R = RefsFor(objects)
      OBVIOUS
    <2>t. PICK T : T = TablesOf(Prints(objects), R)
      OBVIOUS
    <2>0. bom \in [components : Seq(E), refs : T]
      BY <2>e, <2>r, <2>t DEF Bills
    <2>n. PICK name : name = NameOfPublicKey(o.certificate)
      OBVIOUS
    <2>s. PICK signature : signature = SignatureOf(o)
      OBVIOUS
    <2>1. name \in NamesOf(objects) /\ signature \in NamesOf(objects)
          /\ Broken(name) \in BOOLEAN /\ sigAlgVulnerable(signature) \in BOOLEAN
      BY <2>n, <2>s DEF NamesOf, Broken, sigAlgVulnerable
    <2>v. PICK subject : subject = IF KeptKey(bom.refs, o) THEN bom ELSE AddAlgorithm(bom, name, Broken(name))
      OBVIOUS
    <2>2. /\ subject \in Bills(objects) /\ subject.refs = bom.refs
          /\ IF KeptKey(bom.refs, o) THEN subject.components = bom.components
             ELSE Widened(bom.components, subject.components, name, Broken(name))
      BY <2>1, <2>v, AlgorithmAdded
    <2>w. PICK signed : signed = AddAlgorithm(subject, signature, sigAlgVulnerable(signature))
      OBVIOUS
    <2>3. /\ signed \in Bills(objects) /\ signed.refs = bom.refs
          /\ Widened(subject.components, signed.components, signature, sigAlgVulnerable(signature))
      BY <2>1, <2>2, <2>w, AlgorithmAdded
    <2>m. PICK number : number = Len(bom.components)
      OBVIOUS
    <2>4. number \in Nat
      BY <2>0, <2>m
    <2>f. PICK f : f = CertificateEntry(o, number, bom.refs)
      OBVIOUS
    <2>5. addCertificate(bom, o) = [signed EXCEPT !.components = Append(@, f)]
      BY <1>2, <2>n, <2>s, <2>v, <2>w, <2>m, <2>f
      DEF addCertificate, CertificateEntry, KeptKey, SignatureOf, Broken
    <2>6. signed \in [components : Seq(E), refs : T]
      BY <2>3, <2>e, <2>r, <2>t DEF Bills
    <2>7. addCertificate(bom, o) = [components |-> Append(signed.components, f), refs |-> bom.refs]
      BY <2>3, <2>5, <2>6
    <2>8. f \in E
      <3>1. CertificateRef(o, number) \in R
        BY <2>4, <2>r DEF RefsFor
      <3>2. RefTo(name) \in Seq(R) /\ RefTo(signature) \in Seq(R)
        <4>1. AlgorithmRef(name) \in R /\ AlgorithmRef(signature) \in R
          BY <2>1, <2>r DEF RefsFor
        <4> QED BY <4>1 DEF RefTo
      <3>3. KeptKey(bom.refs, o) => <<bom.refs[o.certificate.fingerprint]>> \in Seq(R)
        <4>1. PICK Q : bom.refs \in [Q -> R]
          BY <2>0, <2>t DEF TablesOf
        <4>2. KeptKey(bom.refs, o) => bom.refs[o.certificate.fingerprint] \in R
          BY <4>1 DEF KeptKey
        <4> QED BY <4>2
      <3>4. \A a, b \in Seq(R) : a \o b \in Seq(R)
        OBVIOUS
      <3>5. f.refers \in Seq(R)
        BY <2>f, <2>n, <2>s, <3>2, <3>3, <3>4 DEF CertificateEntry
      <3>6. f \in EntryOf(R)
        BY <2>f, <3>1, <3>5 DEF CertificateEntry, EntryOf
      <3> QED BY <3>6, <2>e, <2>r DEF EntriesFor
    <2>9. Append(signed.components, f) \in Seq(E)
      BY <2>6, <2>8
    <2>10. addCertificate(bom, o) \in Bills(objects)
      <3>1. addCertificate(bom, o) \in [components : Seq(E), refs : T]
        BY <2>0, <2>7, <2>9
      <3> QED BY <3>1, <2>e, <2>r, <2>t DEF Bills
    <2>11. CertificateStep(bom.components, addCertificate(bom, o).components, bom.refs, o)
      BY <1>2, <2>2, <2>3, <2>7, <2>f, <2>m, <2>n, <2>s DEF CertificateStep
    <2> QED BY <2>7, <2>10, <2>11
  <1> QED BY <1>1, <1>2

-----------------------------------------------------------------------------
(* The two loops over the objects.                                          *)

KeyLoop(f, objects) ==
    f = [s \in SUBSET DOMAIN objects |-> IF s = {} THEN EmptyBOM ELSE addKey(f[s \ {Max(s)}], objects[Max(s)])]
CertificateLoop(f, base, objects) ==
    f = [s \in SUBSET DOMAIN objects |-> IF s = {} THEN base ELSE addCertificate(f[s \ {Max(s)}], objects[Max(s)])]

\* The bill after one object after the other.
KeysEntered(g, objects, n) ==
    /\ g \in [0..n -> Bills(objects)] /\ g[0] = EmptyBOM /\ g[n] = FoldLeft(addKey, EmptyBOM, objects)
    /\ \A k \in 1..n : g[k] = addKey(g[k - 1], objects[k])
CertificatesEntered(g, base, objects, n) ==
    /\ g \in [0..n -> Bills(objects)] /\ g[0] = base /\ g[n] = FoldLeft(addCertificate, base, objects)
    /\ \A k \in 1..n : g[k] = addCertificate(g[k - 1], objects[k])

\* The first pass of CBOM is addKey of one object after the other.
LEMMA KeysInTurn ==
    ASSUME NEW objects, NEW n \in Nat, DOMAIN objects = 1..n
    PROVE  \E g : KeysEntered(g, objects, n)
  <1> DEFINE F == CHOOSE f : KeyLoop(f, objects)
  <1>v. PICK V : V = Bills(objects)
    OBVIOUS
  <1>h. PICK H : H = [p \in (1..n) \X V |-> addKey(p[2], objects[p[1]])]
    OBVIOUS
  <1>2. \A b \in V, k \in 1..n : addKey(b, objects[k]) \in V
    BY <1>v, KeyAdded
  <1>3. H \in [(1..n) \X V -> V]
    BY <1>2, <1>h
  <1>4. EmptyBOM \in V
    <2>e. PICK E : E = EntriesFor(objects)
      OBVIOUS
    <2>t. PICK T : T = TablesOf(Prints(objects), RefsFor(objects))
      OBVIOUS
    <2>1. [fingerprint \in {} |-> NoName] \in T
      <3>1. [fingerprint \in {} |-> NoName] \in [{} -> RefsFor(objects)]
        OBVIOUS
      <3> QED BY <2>t, <3>1 DEF TablesOf
    <2>2. EmptyBOM \in [components : Seq(E), refs : T]
      BY <2>1 DEF EmptyBOM
    <2> QED BY <2>2, <2>e, <2>t, <1>v DEF Bills
  <1>5. PICK f \in [SUBSET (1..n) -> V] : FoldsBy(f, n, EmptyBOM, H)
    BY <1>3, <1>4, FoldExists
  <1>6. \A s \in SUBSET (1..n) : s # {} => Max(s) \in 1..n /\ s \ {Max(s)} \in SUBSET (1..n)
    BY LastOf
  <1>7. \A s \in SUBSET (1..n) : f[s] = IF s = {} THEN EmptyBOM ELSE addKey(f[s \ {Max(s)}], objects[Max(s)])
    BY <1>5, <1>6, <1>h DEF FoldsBy
  <1>8. KeyLoop(f, objects)
    BY <1>5, <1>7 DEF KeyLoop
  <1>9. KeyLoop(F, objects)
    BY <1>8
  <1>10. FoldLeft(addKey, EmptyBOM, objects) = F[DOMAIN objects]
    BY DEF FoldLeft, MapThenFoldSet, KeyLoop
  <1> HIDE DEF F
  <1>11. F[1..0] = EmptyBOM
    <2>1. 1..0 = {}
      OBVIOUS
    <2> QED BY <1>9, <2>1 DEF KeyLoop
  <1>12. ASSUME NEW k \in 1..n PROVE F[1..k] = addKey(F[1..k - 1], objects[k])
    <2>1. 1..k \in SUBSET DOMAIN objects /\ k \in 1..k
      OBVIOUS
    <2>2. Max(1..k) = k /\ (1..k) \ {k} = 1..k - 1
      BY LastOf
    <2>3. F[1..k] = addKey(F[(1..k) \ {Max(1..k)}], objects[Max(1..k)])
      BY <1>9, <2>1 DEF KeyLoop
    <2> QED BY <2>2, <2>3
  <1> DEFINE S == {k \in 0..n : F[1..k] \in V}
  <1>13. 0..n \subseteq S
    <2>1. 0 \in S
      BY <1>4, <1>11
    <2>2. ASSUME NEW k \in 1..n, k - 1 \in S PROVE k \in S
      BY <1>2, <1>12, <2>2
    <2> HIDE DEF S
    <2> QED BY <2>1, <2>2, UpTo
  <1> DEFINE g == [k \in 0..n |-> F[1..k]]
  <1>14. g \in [0..n -> V] /\ g[0] = EmptyBOM /\ g[n] = FoldLeft(addKey, EmptyBOM, objects)
    BY <1>10, <1>11, <1>13
  <1>15. \A k \in 1..n : g[k] = addKey(g[k - 1], objects[k])
    <2> TAKE k \in 1..n
    <2>1. k \in 0..n /\ k - 1 \in 0..n
      OBVIOUS
    <2> QED BY <1>12, <2>1
  <1> HIDE DEF g
  <1> QED BY <1>14, <1>15, <1>v DEF KeysEntered

\* The second pass of CBOM is addCertificate of one object after the other.
LEMMA CertificatesInTurn ==
    ASSUME NEW objects, NEW n \in Nat, DOMAIN objects = 1..n, NEW base \in Bills(objects)
    PROVE  \E g : CertificatesEntered(g, base, objects, n)
  <1> DEFINE F == CHOOSE f : CertificateLoop(f, base, objects)
  <1>v. PICK V : V = Bills(objects)
    OBVIOUS
  <1>h. PICK H : H = [p \in (1..n) \X V |-> addCertificate(p[2], objects[p[1]])]
    OBVIOUS
  <1>2. \A b \in V, k \in 1..n : addCertificate(b, objects[k]) \in V
    BY <1>v, CertificateAdded
  <1>3. H \in [(1..n) \X V -> V]
    BY <1>2, <1>h
  <1>4. base \in V
    BY <1>v
  <1>5. PICK f \in [SUBSET (1..n) -> V] : FoldsBy(f, n, base, H)
    BY <1>3, <1>4, FoldExists
  <1>6. \A s \in SUBSET (1..n) : s # {} => Max(s) \in 1..n /\ s \ {Max(s)} \in SUBSET (1..n)
    BY LastOf
  <1>7. \A s \in SUBSET (1..n) : f[s] = IF s = {} THEN base ELSE addCertificate(f[s \ {Max(s)}], objects[Max(s)])
    BY <1>5, <1>6, <1>h DEF FoldsBy
  <1>8. CertificateLoop(f, base, objects)
    BY <1>5, <1>7 DEF CertificateLoop
  <1>9. CertificateLoop(F, base, objects)
    BY <1>8
  <1>10. FoldLeft(addCertificate, base, objects) = F[DOMAIN objects]
    BY DEF FoldLeft, MapThenFoldSet, CertificateLoop
  <1> HIDE DEF F
  <1>11. F[1..0] = base
    <2>1. 1..0 = {}
      OBVIOUS
    <2> QED BY <1>9, <2>1 DEF CertificateLoop
  <1>12. ASSUME NEW k \in 1..n PROVE F[1..k] = addCertificate(F[1..k - 1], objects[k])
    <2>1. 1..k \in SUBSET DOMAIN objects /\ k \in 1..k
      OBVIOUS
    <2>2. Max(1..k) = k /\ (1..k) \ {k} = 1..k - 1
      BY LastOf
    <2>3. F[1..k] = addCertificate(F[(1..k) \ {Max(1..k)}], objects[Max(1..k)])
      BY <1>9, <2>1 DEF CertificateLoop
    <2> QED BY <2>2, <2>3
  <1> DEFINE S == {k \in 0..n : F[1..k] \in V}
  <1>13. 0..n \subseteq S
    <2>1. 0 \in S
      BY <1>4, <1>11
    <2>2. ASSUME NEW k \in 1..n, k - 1 \in S PROVE k \in S
      BY <1>2, <1>12, <2>2
    <2> HIDE DEF S
    <2> QED BY <2>1, <2>2, UpTo
  <1> DEFINE g == [k \in 0..n |-> F[1..k]]
  <1>14. g \in [0..n -> V] /\ g[0] = base /\ g[n] = FoldLeft(addCertificate, base, objects)
    BY <1>10, <1>11, <1>13
  <1>15. \A k \in 1..n : g[k] = addCertificate(g[k - 1], objects[k])
    <2> TAKE k \in 1..n
    <2>1. k \in 0..n /\ k - 1 \in 0..n
      OBVIOUS
    <2> QED BY <1>12, <2>1
  <1> HIDE DEF g
  <1> QED BY <1>14, <1>15, <1>v DEF CertificatesEntered

-----------------------------------------------------------------------------
(* What holds of a bill after each object.                                  *)

\* An entry is an algorithm, or of a key among the first k objects or a certificate among
\* the first l, whose number is below b.
From(e, objects, k, l, b) ==
    \/ e.kind = "algorithm" /\ e.ref[1] = "algorithm"
    \/ e.kind # "algorithm" /\ \E i \in KeysIn(objects), m \in 0..b - 1 : i \in 1..k /\ e.ref = KeyRef(objects[i], m)
    \/ /\ e.kind # "algorithm"
       /\ \E i \in With(objects, "certificate"), m \in 0..b - 1 : i \in 1..l /\ e.ref = CertificateRef(objects[i], m)
\* An algorithm is entered once, and everything if the objects are told apart.
Fresh(c, f, objects) ==
    \A a \in DOMAIN c : c[a].kind = "algorithm" \/ f.kind = "algorithm" \/ Distinct(objects) => c[a].ref # f.ref
Apart(c, objects) ==
    \A a, z \in DOMAIN c : a # z /\ (c[a].kind = "algorithm" \/ Distinct(objects)) => c[a].ref # c[z].ref
Closed(c) == \A a \in DOMAIN c : \A k \in DOMAIN c[a].refers : c[a].refers[k] \in RefsOf(c)
Sound(c, objects, k, l, b) ==
    /\ c \in Seq(EntriesFor(objects)) /\ Apart(c, objects) /\ Closed(c)
    /\ \A a \in DOMAIN c : From(c[a], objects, k, l, b)

\* The references of a bill with one more entry.
LEMMA RefsLast ==
    ASSUME NEW E, NEW c \in Seq(E), NEW f \in E
    PROVE  RefsOf(Append(c, f)) = RefsOf(c) \cup {f.ref}
  <1>d. PICK d : d = Append(c, f)
    OBVIOUS
  <1> PICK n \in Nat : n = Len(c)
    OBVIOUS
  <1>1. /\ DOMAIN c = 1..n /\ DOMAIN d = 1..n + 1
        /\ d[n + 1] = f /\ \A i \in 1..n : d[i] = c[i]
    BY <1>d
  <1>2. 1..n + 1 = (1..n) \cup {n + 1}
    OBVIOUS
  <1>3. RefsOf(d) = {d[i].ref : i \in 1..n} \cup {f.ref}
    BY <1>1, <1>2 DEF RefsOf
  <1>4. {d[i].ref : i \in 1..n} = RefsOf(c)
    BY <1>1 DEF RefsOf
  <1> QED BY <1>3, <1>4, <1>d

\* An entry from fewer objects is one from more.
LEMMA FromMore ==
    ASSUME NEW objects, NEW k \in Nat, NEW l \in Nat, NEW b \in Nat,
           NEW k2 \in Nat, NEW l2 \in Nat, NEW b2 \in Nat, k <= k2, l <= l2, b <= b2,
           NEW e, From(e, objects, k, l, b)
    PROVE  From(e, objects, k2, l2, b2)
  <1>1. 1..k \subseteq 1..k2 /\ 1..l \subseteq 1..l2 /\ 0..b - 1 \subseteq 0..b2 - 1
    OBVIOUS
  <1> QED BY <1>1 DEF From

\* A sound bill with one more entry is sound, if that is fresh and refers into the bill.
LEMMA AppendedSound ==
    ASSUME NEW objects, NEW k \in Nat, NEW l \in Nat, NEW b \in Nat,
           NEW k2 \in Nat, NEW l2 \in Nat, NEW b2 \in Nat, k <= k2, l <= l2, b <= b2,
           NEW c, Sound(c, objects, k, l, b), NEW f \in EntriesFor(objects), From(f, objects, k2, l2, b2),
           Fresh(c, f, objects), \A r \in DOMAIN f.refers : f.refers[r] \in RefsOf(c)
    PROVE  Sound(Append(c, f), objects, k2, l2, b2)
  <1>e. PICK E : E = EntriesFor(objects)
    OBVIOUS
  <1>d. PICK d : d = Append(c, f)
    OBVIOUS
  <1>0. c \in Seq(E) /\ f \in E
    BY <1>e DEF Sound
  <1> PICK n \in Nat : n = Len(c)
    BY <1>0
  <1>1. /\ DOMAIN c = 1..n /\ DOMAIN d = 1..n + 1 /\ d \in Seq(E)
        /\ d[n + 1] = f /\ \A i \in 1..n : d[i] = c[i]
    BY <1>0, <1>d
  <1>2. RefsOf(d) = RefsOf(c) \cup {f.ref}
    BY <1>0, <1>d, RefsLast
  <1>3. \A i \in 1..n + 1 : i \in 1..n \/ i = n + 1
    OBVIOUS
  <1>4. Apart(d, objects)
    <2> SUFFICES ASSUME NEW a \in 1..n + 1, NEW z \in 1..n + 1, a # z,
                        d[a].kind = "algorithm" \/ Distinct(objects)
                 PROVE  d[a].ref # d[z].ref
      BY <1>1 DEF Apart
    <2>1. CASE a \in 1..n /\ z \in 1..n
      BY <1>1, <2>1 DEF Sound, Apart
    <2>2. CASE a \in 1..n /\ z = n + 1
      BY <1>1, <2>2 DEF Fresh
    <2>3. CASE a = n + 1 /\ z \in 1..n
      BY <1>1, <2>3 DEF Fresh
    <2> QED BY <1>3, <2>1, <2>2, <2>3
  <1>5. Closed(d)
    <2> SUFFICES ASSUME NEW a \in 1..n + 1, NEW r \in DOMAIN d[a].refers PROVE d[a].refers[r] \in RefsOf(d)
      BY <1>1 DEF Closed
    <2>1. CASE a \in 1..n
      BY <1>1, <1>2, <2>1 DEF Sound, Closed
    <2>2. CASE a = n + 1
      BY <1>1, <1>2, <2>2
    <2> QED BY <1>3, <2>1, <2>2
  <1>6. ASSUME NEW a \in 1..n + 1 PROVE From(d[a], objects, k2, l2, b2)
    <2>1. CASE a \in 1..n
      <3>1. From(c[a], objects, k, l, b) /\ d[a] = c[a]
        BY <1>1, <2>1 DEF Sound
      <3> QED BY <3>1, FromMore
    <2>2. CASE a = n + 1
      BY <1>1, <2>2
    <2> QED BY <1>3, <2>1, <2>2
  <1>7. Sound(d, objects, k2, l2, b2)
    BY <1>1, <1>4, <1>5, <1>6, <1>e DEF Sound
  <1> QED BY <1>7, <1>d

\* A sound bill widened by an algorithm is sound and has the algorithm.
LEMMA WidenedSound ==
    ASSUME NEW objects, NEW k \in Nat, NEW l \in Nat, NEW b \in Nat, NEW c, Sound(c, objects, k, l, b),
           NEW name \in NamesOf(objects), NEW vulnerable \in BOOLEAN, NEW d, Widened(c, d, name, vulnerable)
    PROVE  /\ Sound(d, objects, k, l, b) /\ Len(c) <= Len(d) /\ Len(d) <= Len(c) + 1 /\ Len(d) \in Nat /\ Len(c) \in Nat
           /\ RefsOf(c) \subseteq RefsOf(d) /\ (name # NoName => AlgorithmRef(name) \in RefsOf(d))
  <1>e. PICK E : E = EntriesFor(objects)
    OBVIOUS
  <1>0. c \in Seq(E)
    BY <1>e DEF Sound
  <1>1. CASE d = c /\ (name = NoName \/ AlgorithmRef(name) \in RefsOf(c))
    BY <1>0, <1>1
  <1>2. CASE /\ name # NoName /\ AlgorithmRef(name) \notin RefsOf(c)
             /\ d = Append(c, AlgorithmEntry(name, vulnerable))
    <2>f. PICK f : f = AlgorithmEntry(name, vulnerable)
      OBVIOUS
    <2>1. f \in E /\ IsName(name)
      BY <1>e, <2>f, AlgorithmFits
    <2>2. f.ref = AlgorithmRef(name) /\ f.kind = "algorithm" /\ f.refers = <<>>
      BY <2>f DEF AlgorithmEntry
    <2>3. From(f, objects, k, l, b)
      BY <1>2, <2>1, <2>2, AlgorithmRefIs DEF From
    <2>4. Fresh(c, f, objects)
      BY <1>2, <2>2 DEF Fresh, RefsOf
    <2>5. \A r \in DOMAIN f.refers : f.refers[r] \in RefsOf(c)
      BY <2>2
    <2>6. Sound(Append(c, f), objects, k, l, b)
      BY <1>e, <2>1, <2>3, <2>4, <2>5, AppendedSound
    <2>7. RefsOf(Append(c, f)) = RefsOf(c) \cup {f.ref}
      BY <1>0, <2>1, RefsLast
    <2>8. d = Append(c, f)
      BY <1>2, <2>f
    <2>9. Len(d) = Len(c) + 1 /\ Len(c) \in Nat
      BY <1>0, <2>1, <2>8
    <2> QED BY <2>2, <2>6, <2>7, <2>8, <2>9
  <1> QED BY <1>1, <1>2 DEF Widened

\* addKey keeps a bill sound; what the key refers to is in it, and so is the key.
LEMMA KeyStepSound ==
    ASSUME NEW objects, NEW n \in Nat, DOMAIN objects = 1..n, Len(objects) = n, NEW k \in 1..n,
           NEW o, o = objects[k], NEW c, Sound(c, objects, k - 1, 0, Len(c)), Len(c) <= 5 * n,
           NEW d, KeyStep(c, d, o), d \in Seq(EntriesFor(objects))
    PROVE  /\ Sound(d, objects, k, 0, Len(d)) /\ Len(d) <= Len(c) + 2 /\ Len(d) \in Nat /\ Len(c) \in Nat
           /\ RefsOf(c) \subseteq RefsOf(d)
           /\ o.class \in keyMaterialType => /\ KeyRef(o, Len(c)) \in RefsOf(d)
                                             /\ RefTo(NameOfKey(o)) # <<>> => AlgorithmRef(NameOfKey(o)) \in RefsOf(d)
  <1>e. PICK E : E = EntriesFor(objects)
    OBVIOUS
  <1>0. c \in Seq(E) /\ Len(c) \in Nat
    BY <1>e DEF Sound
  <1>1. CASE o.class \notin keyMaterialType
    <2>1. d = c
      BY <1>1 DEF KeyStep
    <2>2. Sound(c, objects, k, 0, Len(c))
      <3>1. 1..k - 1 \subseteq 1..k
        OBVIOUS
      <3>2. \A e : From(e, objects, k - 1, 0, Len(c)) => From(e, objects, k, 0, Len(c))
        BY <3>1 DEF From
      <3> QED BY <3>2 DEF Sound
    <2> QED BY <1>0, <1>1, <2>1, <2>2
  <1>2. CASE o.class \in keyMaterialType
    <2>b. PICK b : b = Len(c)
      OBVIOUS
    <2>n. PICK name : name = NameOfKey(o)
      OBVIOUS
    <2>1. PICK w : Widened(c, w, name, Broken(name)) /\ d = Append(w, KeyEntry(o, b))
      BY <1>2, <2>b, <2>n DEF KeyStep
    <2>2. name \in NamesOf(objects) /\ Broken(name) \in BOOLEAN
      BY <2>n DEF NamesOf, Broken
    <2>3. k - 1 \in Nat /\ k \in Nat /\ 0 \in Nat /\ b \in Nat /\ b + 1 \in Nat
      BY <1>0, <2>b
    <2>4. /\ Sound(w, objects, k - 1, 0, b) /\ b <= Len(w) /\ Len(w) <= b + 1 /\ Len(w) \in Nat
          /\ RefsOf(c) \subseteq RefsOf(w) /\ (name # NoName => AlgorithmRef(name) \in RefsOf(w))
      BY <2>1, <2>2, <2>3, <2>b, WidenedSound
    <2>f. PICK f : f = KeyEntry(o, b)
      OBVIOUS
    <2>5. w \in Seq(E)
      BY <2>4, <1>e DEF Sound
    <2>6. f \in E
      <3>1. d \in Seq(E) /\ d = Append(w, f)
        BY <1>e, <2>1, <2>f
      <3>2. Len(w) + 1 \in DOMAIN d /\ d[Len(w) + 1] = f
        BY <2>5, <3>1
      <3> QED BY <3>1, <3>2
    <2>7. f.ref = KeyRef(o, b) /\ f.kind = o.class /\ f.refers = RefTo(name)
      BY <2>f, <2>n DEF KeyEntry
    <2>8. k \in KeysIn(objects) /\ f.kind # "algorithm"
      BY <1>2, <2>7 DEF KeysIn, keyMaterialType, KeyClasses
    <2>9. From(f, objects, k, 0, b + 1)
      <3>1. b \in 0..b + 1 - 1 /\ k \in 1..k
        BY <2>3
      <3> QED BY <2>7, <2>8, <3>1 DEF From
    <2>10. Fresh(w, f, objects)
      <3> SUFFICES ASSUME NEW a \in DOMAIN w, w[a].kind = "algorithm" \/ f.kind = "algorithm" \/ Distinct(objects)
                   PROVE  w[a].ref # f.ref
        BY DEF Fresh
      <3>x. PICK e : e = w[a]
        OBVIOUS
      <3>1. From(e, objects, k - 1, 0, b)
        BY <2>4, <3>x DEF Sound
      <3>2. f.ref[1] = "key"
        BY <2>7 DEF KeyRef
      <3>3. CASE e.kind = "algorithm" /\ e.ref[1] = "algorithm"
        BY <3>2, <3>3, <3>x
      <3>4. CASE e.kind # "algorithm" /\ \E i \in KeysIn(objects), m \in 0..b - 1 : i \in 1..k - 1 /\ e.ref = KeyRef(objects[i], m)
        <4>1. Distinct(objects)
          BY <2>8, <3>4, <3>x
        <4> PICK i \in KeysIn(objects), m \in 0..b - 1 : i \in 1..k - 1 /\ e.ref = KeyRef(objects[i], m)
          BY <3>4
        <4>2. i \in DOMAIN objects /\ k \in DOMAIN objects /\ i # k /\ m # b /\ {i, k} \subseteq KeysIn(objects)
          BY <2>3, <2>8
        <4>3. m \in 0..5 * Len(objects) /\ b \in 0..5 * Len(objects)
          BY <2>3, <2>b
        <4>4. KeyRef(objects[i], m) # KeyRef(objects[k], b)
          BY <4>1, <4>2, <4>3 DEF Distinct
        <4> QED BY <2>7, <3>x, <4>4
      <3>5. CASE \E i \in With(objects, "certificate"), m \in 0..b - 1 : i \in 1..0 /\ e.ref = CertificateRef(objects[i], m)
        BY <3>5
      <3> QED BY <3>1, <3>3, <3>4, <3>5 DEF From
    <2>11. \A r \in DOMAIN f.refers : f.refers[r] \in RefsOf(w)
      BY <2>4, <2>7 DEF RefTo
    <2>12. Sound(Append(w, f), objects, k, 0, b + 1)
      <3>1. k - 1 <= k /\ 0 <= 0 /\ b <= b + 1 /\ f \in EntriesFor(objects)
        BY <2>3, <2>6, <1>e
      <3> QED BY <2>3, <2>4, <2>9, <2>10, <2>11, <3>1, AppendedSound
    <2>13. d = Append(w, f) /\ Len(d) = Len(w) + 1
      BY <2>1, <2>5, <2>6, <2>f
    <2>14. RefsOf(d) = RefsOf(w) \cup {f.ref}
      BY <2>5, <2>6, <2>13, RefsLast
    <2>15. Sound(d, objects, k, 0, Len(d))
      <3>x. PICK b2 : b2 = Len(d)
        OBVIOUS
      <3>1. b2 \in Nat /\ b + 1 <= b2
        BY <2>3, <2>4, <2>13, <3>x
      <3>2. \A e : From(e, objects, k, 0, b + 1) => From(e, objects, k, 0, b2)
        BY <2>3, <3>1, FromMore
      <3> QED BY <2>12, <2>13, <3>2, <3>x DEF Sound
    <2> QED BY <1>0, <2>3, <2>4, <2>7, <2>13, <2>14, <2>15, <2>b, <2>n DEF RefTo
  <1> QED BY <1>1, <1>2

\* addCertificate keeps a bill sound, if the kept fingerprints lead into it.
LEMMA CertificateStepSound ==
    ASSUME NEW objects, NEW n \in Nat, DOMAIN objects = 1..n, Len(objects) = n, NEW k \in 1..n,
           NEW o, o = objects[k], NEW c, Sound(c, objects, n, k - 1, Len(c)), Len(c) <= 5 * n,
           NEW refs, \A p \in DOMAIN refs : refs[p] \in RefsOf(c),
           NEW d, CertificateStep(c, d, refs, o), d \in Seq(EntriesFor(objects))
    PROVE  /\ Sound(d, objects, n, k, Len(d)) /\ Len(d) <= Len(c) + 3 /\ Len(d) \in Nat /\ Len(c) \in Nat
           /\ RefsOf(c) \subseteq RefsOf(d)
  <1>e. PICK E : E = EntriesFor(objects)
    OBVIOUS
  <1>0. c \in Seq(E) /\ Len(c) \in Nat
    BY <1>e DEF Sound
  <1>1. CASE ~Has(o, "certificate")
    <2>1. d = c
      BY <1>1 DEF CertificateStep
    <2>2. Sound(c, objects, n, k, Len(c))
      <3>1. 1..k - 1 \subseteq 1..k
        OBVIOUS
      <3>2. \A e : From(e, objects, n, k - 1, Len(c)) => From(e, objects, n, k, Len(c))
        BY <3>1 DEF From
      <3> QED BY <3>2 DEF Sound
    <2> QED BY <1>0, <1>1, <2>1, <2>2
  <1>2. CASE Has(o, "certificate")
    <2>b. PICK b : b = Len(c)
      OBVIOUS
    <2>n. PICK name : name = NameOfPublicKey(o.certificate)
      OBVIOUS
    <2>s. PICK signature : signature = SignatureOf(o)
      OBVIOUS
    <2>1. PICK v, w : /\ IF KeptKey(refs, o) THEN v = c ELSE Widened(c, v, name, Broken(name))
                      /\ Widened(v, w, signature, sigAlgVulnerable(signature))
                      /\ d = Append(w, CertificateEntry(o, b, refs))
      BY <1>2, <2>b, <2>n, <2>s DEF CertificateStep
    <2>2. name \in NamesOf(objects) /\ Broken(name) \in BOOLEAN
          /\ signature \in NamesOf(objects) /\ sigAlgVulnerable(signature) \in BOOLEAN
      BY <2>n, <2>s DEF NamesOf, Broken, sigAlgVulnerable
    <2>3. k - 1 \in Nat /\ k \in Nat /\ b \in Nat /\ b + 1 \in Nat
      BY <1>0, <2>b
    <2>4. /\ Sound(v, objects, n, k - 1, b) /\ b <= Len(v) /\ Len(v) <= b + 1 /\ Len(v) \in Nat
          /\ RefsOf(c) \subseteq RefsOf(v) /\ (~KeptKey(refs, o) /\ name # NoName => AlgorithmRef(name) \in RefsOf(v))
      <3>1. CASE KeptKey(refs, o)
        BY <1>0, <2>1, <2>3, <2>b, <3>1
      <3>2. CASE ~KeptKey(refs, o)
        <4>1. Widened(c, v, name, Broken(name)) /\ Sound(c, objects, n, k - 1, b)
          BY <2>1, <2>b, <3>2
        <4> QED BY <2>2, <2>3, <2>b, <4>1, WidenedSound
      <3> QED BY <3>1, <3>2
    <2>5. /\ Sound(w, objects, n, k - 1, b) /\ Len(v) <= Len(w) /\ Len(w) <= Len(v) + 1 /\ Len(w) \in Nat
          /\ RefsOf(v) \subseteq RefsOf(w) /\ AlgorithmRef(signature) \in RefsOf(w)
      <3>1. signature # NoName
        BY <2>s DEF SignatureOf, NoName
      <3> QED BY <2>1, <2>2, <2>3, <2>4, <3>1, WidenedSound
    <2>f. PICK f : f = CertificateEntry(o, b, refs)
      OBVIOUS
    <2>6. w \in Seq(E)
      BY <2>5, <1>e DEF Sound
    <2>7. f \in E
      <3>1. d \in Seq(E) /\ d = Append(w, f)
        BY <1>e, <2>1, <2>f
      <3>2. Len(w) + 1 \in DOMAIN d /\ d[Len(w) + 1] = f
        BY <2>6, <3>1
      <3> QED BY <3>1, <3>2
    <2>8. f.ref = CertificateRef(o, b) /\ f.kind = "certificate"
      BY <2>f DEF CertificateEntry
    <2>9. k \in With(objects, "certificate")
      BY <1>2 DEF With
    <2>10. From(f, objects, n, k, b + 1)
      <3>1. b \in 0..b + 1 - 1 /\ k \in 1..k
        BY <2>3
      <3> QED BY <2>8, <2>9, <3>1 DEF From
    <2>11. Fresh(w, f, objects)
      <3> SUFFICES ASSUME NEW a \in DOMAIN w, w[a].kind = "algorithm" \/ f.kind = "algorithm" \/ Distinct(objects)
                   PROVE  w[a].ref # f.ref
        BY DEF Fresh
      <3>x. PICK e : e = w[a]
        OBVIOUS
      <3>1. From(e, objects, n, k - 1, b)
        BY <2>5, <3>x DEF Sound
      <3>2. f.ref[1] = "certificate"
        BY <2>8 DEF CertificateRef
      <3>3. CASE e.kind = "algorithm" /\ e.ref[1] = "algorithm"
        BY <3>2, <3>3, <3>x
      <3>4. CASE \E i \in KeysIn(objects), m \in 0..b - 1 : i \in 1..n /\ e.ref = KeyRef(objects[i], m)
        <4>1. e.ref[1] = "key"
          BY <3>4 DEF KeyRef
        <4> QED BY <3>2, <3>x, <4>1
      <3>5. CASE /\ e.kind # "algorithm"
                 /\ \E i \in With(objects, "certificate"), m \in 0..b - 1 : i \in 1..k - 1 /\ e.ref = CertificateRef(objects[i], m)
        <4>1. Distinct(objects)
          BY <2>8, <3>5, <3>x
        <4> PICK i \in With(objects, "certificate"), m \in 0..b - 1 : i \in 1..k - 1 /\ e.ref = CertificateRef(objects[i], m)
          BY <3>5
        <4>2. i \in DOMAIN objects /\ k \in DOMAIN objects /\ i # k /\ m # b /\ {i, k} \subseteq With(objects, "certificate")
          BY <2>3, <2>9
        <4>3. m \in 0..5 * Len(objects) /\ b \in 0..5 * Len(objects)
          BY <2>3, <2>b
        <4>4. CertificateRef(objects[i], m) # CertificateRef(objects[k], b)
          BY <4>1, <4>2, <4>3 DEF Distinct
        <4> QED BY <2>8, <3>x, <4>4
      <3> QED BY <3>1, <3>3, <3>4, <3>5 DEF From
    <2>12. \A r \in DOMAIN f.refers : f.refers[r] \in RefsOf(w)
      <3>r. PICK R : R = RefsOf(w)
        OBVIOUS
      <3>1. RefTo(signature) = <<AlgorithmRef(signature)>>
        <4>1. signature # NoName
          BY <2>s DEF SignatureOf, NoName
        <4> QED BY <4>1 DEF RefTo
      <3>2. RefTo(signature) \in Seq(R)
        BY <2>5, <3>1, <3>r
      <3>3. ~KeptKey(refs, o) => RefTo(name) \in Seq(R)
        <4>1. ~KeptKey(refs, o) /\ name # NoName => AlgorithmRef(name) \in R
          BY <2>4, <2>5, <3>r
        <4> QED BY <4>1 DEF RefTo
      <3>4. KeptKey(refs, o) => <<refs[o.certificate.fingerprint]>> \in Seq(R)
        <4>1. KeptKey(refs, o) => refs[o.certificate.fingerprint] \in R
          BY <2>4, <2>5, <3>r DEF KeptKey
        <4> QED BY <4>1
      <3>5. \A x, y \in Seq(R) : x \o y \in Seq(R)
        OBVIOUS
      <3>6. f.refers \in Seq(R)
        BY <2>f, <2>n, <2>s, <3>2, <3>3, <3>4, <3>5 DEF CertificateEntry
      <3> QED BY <3>6, <3>r
    <2>13. Sound(Append(w, f), objects, n, k, b + 1)
      <3>1. k - 1 <= k /\ n <= n /\ b <= b + 1 /\ f \in EntriesFor(objects)
        BY <2>3, <2>7, <1>e
      <3> QED BY <2>3, <2>5, <2>10, <2>11, <2>12, <3>1, AppendedSound
    <2>14. d = Append(w, f) /\ Len(d) = Len(w) + 1
      BY <2>1, <2>6, <2>7, <2>f
    <2>15. RefsOf(d) = RefsOf(w) \cup {f.ref}
      BY <2>6, <2>7, <2>14, RefsLast
    <2>16. Sound(d, objects, n, k, Len(d))
      <3>x. PICK b2 : b2 = Len(d)
        OBVIOUS
      <3>1. b2 \in Nat /\ b + 1 <= b2
        BY <2>3, <2>4, <2>5, <2>14, <3>x
      <3>2. \A e : From(e, objects, n, k, b + 1) => From(e, objects, n, k, b2)
        BY <2>3, <3>1, FromMore
      <3> QED BY <2>13, <2>14, <3>2, <3>x DEF Sound
    <2>17. Len(d) <= Len(c) + 3 /\ Len(d) \in Nat
      BY <2>3, <2>4, <2>5, <2>14, <2>b
    <2> QED BY <1>0, <2>4, <2>5, <2>15, <2>16, <2>17
  <1> QED BY <1>1, <1>2

\* The fingerprints of the first k objects that are keys lead to a key of the bill.
KeysUpTo(objects, k) == {i \in 1..k : objects[i].class \in keyMaterialType /\ Has(objects[i], "fingerprint")}
Leads(refs, c, objects, k) ==
    /\ DOMAIN refs = {objects[i].fingerprint : i \in KeysUpTo(objects, k)}
    /\ \A p \in DOMAIN refs : refs[p] \in RefsOf(c) /\ refs[p][1] = "key"

BillUpTo(bom, objects, k, l) ==
    /\ bom \in Bills(objects) /\ Sound(bom.components, objects, k, l, Len(bom.components))
    /\ Len(bom.components) \in Nat /\ Len(bom.components) <= 2 * k + 3 * l /\ Leads(bom.refs, bom.components, objects, k)

\* addKey keeps of every fingerprint a key in the bill.
LEMMA TableStepLeads ==
    ASSUME NEW objects, NEW n \in Nat, DOMAIN objects = 1..n, NEW k \in 1..n, NEW o, o = objects[k],
           NEW c, NEW d, NEW refs, NEW new, NEW number, Leads(refs, c, objects, k - 1), RefsOf(c) \subseteq RefsOf(d),
           TableStep(refs, new, o, number), o.class \in keyMaterialType => KeyRef(o, number) \in RefsOf(d)
    PROVE  Leads(new, d, objects, k)
  <1>1. 1..k = (1..k - 1) \cup {k}
    OBVIOUS
  <1>2. CASE o.class \in keyMaterialType /\ Has(o, "fingerprint")
    <2>1. new = [print \in DOMAIN refs \cup {o.fingerprint} |-> IF print = o.fingerprint THEN KeyRef(o, number) ELSE refs[print]]
      BY <1>2 DEF TableStep
    <2>2. KeysUpTo(objects, k) = KeysUpTo(objects, k - 1) \cup {k}
      BY <1>1, <1>2 DEF KeysUpTo
    <2>3. DOMAIN new = {objects[i].fingerprint : i \in KeysUpTo(objects, k)}
      BY <2>1, <2>2 DEF Leads
    <2>4. KeyRef(o, number)[1] = "key"
      BY DEF KeyRef
    <2>5. \A p \in DOMAIN new : new[p] \in RefsOf(d) /\ new[p][1] = "key"
      <3> TAKE p \in DOMAIN new
      <3>1. CASE p = o.fingerprint
        BY <1>2, <2>1, <2>4, <3>1
      <3>2. CASE p # o.fingerprint
        <4>1. p \in DOMAIN refs /\ new[p] = refs[p]
          BY <2>1, <3>2
        <4> QED BY <4>1 DEF Leads
      <3> QED BY <3>1, <3>2
    <2> QED BY <2>3, <2>5 DEF Leads
  <1>3. CASE ~(o.class \in keyMaterialType /\ Has(o, "fingerprint"))
    <2>1. new = refs
      BY <1>3 DEF TableStep
    <2>2. KeysUpTo(objects, k) = KeysUpTo(objects, k - 1)
      BY <1>1, <1>3 DEF KeysUpTo
    <2> QED BY <2>1, <2>2 DEF Leads
  <1> QED BY <1>2, <1>3

\* After each object of the first pass the bill is sound and its table leads to its keys.
LEMMA KeysSound ==
    ASSUME NEW objects, NEW n \in Nat, DOMAIN objects = 1..n, Len(objects) = n, NEW g, KeysEntered(g, objects, n)
    PROVE  /\ \A k \in 0..n : BillUpTo(g[k], objects, k, 0)
           /\ \A k \in 1..n : KeyStep(g[k - 1].components, g[k].components, objects[k])
  <1> DEFINE S == {k \in 0..n : BillUpTo(g[k], objects, k, 0)}
  <1>1. 0 \in S
    <2>1. g[0] = EmptyBOM /\ g[0] \in Bills(objects)
      BY DEF KeysEntered
    <2>2. EmptyBOM.components = <<>> /\ DOMAIN EmptyBOM.refs = {}
      BY DEF EmptyBOM
    <2>3. <<>> \in Seq(EntriesFor(objects)) /\ DOMAIN <<>> = {} /\ Len(<<>>) = 0
      OBVIOUS
    <2>4. Sound(<<>>, objects, 0, 0, 0)
      BY <2>3 DEF Sound, Apart, Closed
    <2>5. Leads(EmptyBOM.refs, <<>>, objects, 0)
      BY <2>2 DEF Leads, KeysUpTo
    <2>6. BillUpTo(g[0], objects, 0, 0)
      BY <2>1, <2>2, <2>3, <2>4, <2>5 DEF BillUpTo
    <2> QED BY <2>6
  <1>2. ASSUME NEW k \in 1..n
        PROVE  /\ g[k] \in Bills(objects) /\ KeyStep(g[k - 1].components, g[k].components, objects[k])
               /\ TableStep(g[k - 1].refs, g[k].refs, objects[k], Len(g[k - 1].components))
    <2>b. PICK b : b = g[k - 1]
      OBVIOUS
    <2>1. k - 1 \in 0..n
      OBVIOUS
    <2>2. b \in Bills(objects) /\ g[k] = addKey(b, objects[k])
      BY <2>1, <2>b DEF KeysEntered
    <2>3. k \in DOMAIN objects
      OBVIOUS
    <2> QED BY <2>2, <2>3, <2>b, KeyAdded
  <1>3. ASSUME NEW k \in 1..n, k - 1 \in S PROVE k \in S
    <2>b. PICK b : b = g[k - 1]
      OBVIOUS
    <2>d. PICK d : d = g[k]
      OBVIOUS
    <2>o. PICK o : o = objects[k]
      OBVIOUS
    <2>1. BillUpTo(b, objects, k - 1, 0) /\ k - 1 \in Nat
      BY <1>3, <2>b
    <2>2. /\ d \in Bills(objects) /\ KeyStep(b.components, d.components, o)
          /\ TableStep(b.refs, d.refs, o, Len(b.components))
      BY <1>2, <2>b, <2>d, <2>o
    <2>c. PICK c : c = b.components
      OBVIOUS
    <2>w. PICK w : w = d.components
      OBVIOUS
    <2>3. Sound(c, objects, k - 1, 0, Len(c)) /\ Len(c) <= 5 * n /\ Len(c) <= 2 * (k - 1) /\ Len(c) \in Nat
          /\ Leads(b.refs, c, objects, k - 1)
      BY <2>1, <2>c DEF BillUpTo
    <2>4. w \in Seq(EntriesFor(objects)) /\ KeyStep(c, w, o)
      BY <2>2, <2>c, <2>w DEF Bills
    <2>5. /\ Sound(w, objects, k, 0, Len(w)) /\ Len(w) <= Len(c) + 2 /\ Len(w) \in Nat /\ RefsOf(c) \subseteq RefsOf(w)
          /\ o.class \in keyMaterialType => KeyRef(o, Len(c)) \in RefsOf(w)
      BY <2>3, <2>4, <2>o, KeyStepSound
    <2>6. Leads(d.refs, w, objects, k)
      BY <2>2, <2>3, <2>5, <2>c, <2>o, TableStepLeads
    <2>7. Len(w) <= 2 * k + 3 * 0
      BY <2>3, <2>5
    <2>8. BillUpTo(d, objects, k, 0)
      BY <2>2, <2>5, <2>6, <2>7, <2>w DEF BillUpTo
    <2> QED BY <2>8, <2>d
  <1>4. 0..n \subseteq S
    <2> HIDE DEF S
    <2> QED BY <1>1, <1>3, UpTo
  <1> QED BY <1>2, <1>4

\* After each object of the second pass the bill is sound and its table unchanged.
LEMMA CertificatesSound ==
    ASSUME NEW objects, NEW n \in Nat, DOMAIN objects = 1..n, Len(objects) = n, NEW base, BillUpTo(base, objects, n, 0),
           NEW h, CertificatesEntered(h, base, objects, n)
    PROVE  /\ \A k \in 0..n : BillUpTo(h[k], objects, n, k) /\ h[k].refs = base.refs
           /\ \A k \in 1..n : CertificateStep(h[k - 1].components, h[k].components, base.refs, objects[k])
  <1> DEFINE S == {k \in 0..n : BillUpTo(h[k], objects, n, k) /\ h[k].refs = base.refs}
  <1>1. 0 \in S
    BY DEF CertificatesEntered
  <1>2. ASSUME NEW k \in 1..n
        PROVE  /\ h[k] \in Bills(objects) /\ h[k].refs = h[k - 1].refs
               /\ CertificateStep(h[k - 1].components, h[k].components, h[k - 1].refs, objects[k])
    <2>b. PICK b : b = h[k - 1]
      OBVIOUS
    <2>1. k - 1 \in 0..n
      OBVIOUS
    <2>2. b \in Bills(objects) /\ h[k] = addCertificate(b, objects[k])
      BY <2>1, <2>b DEF CertificatesEntered
    <2>3. k \in DOMAIN objects
      OBVIOUS
    <2> QED BY <2>2, <2>3, <2>b, CertificateAdded
  <1>3. ASSUME NEW k \in 1..n, k - 1 \in S PROVE k \in S
    <2>b. PICK b : b = h[k - 1]
      OBVIOUS
    <2>d. PICK d : d = h[k]
      OBVIOUS
    <2>o. PICK o : o = objects[k]
      OBVIOUS
    <2>r. PICK refs : refs = base.refs
      OBVIOUS
    <2>1. BillUpTo(b, objects, n, k - 1) /\ k - 1 \in Nat /\ b.refs = refs
      BY <1>3, <2>b, <2>r
    <2>2. d \in Bills(objects) /\ CertificateStep(b.components, d.components, refs, o) /\ d.refs = refs
      BY <1>2, <2>1, <2>b, <2>d, <2>o
    <2>c. PICK c : c = b.components
      OBVIOUS
    <2>w. PICK w : w = d.components
      OBVIOUS
    <2>3. Sound(c, objects, n, k - 1, Len(c)) /\ Len(c) <= 2 * n + 3 * (k - 1) /\ Len(c) \in Nat /\ Leads(refs, c, objects, n)
      BY <2>1, <2>c DEF BillUpTo
    <2>4. w \in Seq(EntriesFor(objects)) /\ CertificateStep(c, w, refs, o)
      BY <2>2, <2>c, <2>w DEF Bills
    <2>5. \A p \in DOMAIN refs : refs[p] \in RefsOf(c)
      BY <2>3 DEF Leads
    <2>6. Len(c) <= 5 * n
      BY <2>3
    <2>7. Sound(w, objects, n, k, Len(w)) /\ Len(w) <= Len(c) + 3 /\ Len(w) \in Nat /\ RefsOf(c) \subseteq RefsOf(w)
      BY <2>3, <2>4, <2>5, <2>6, <2>o, CertificateStepSound
    <2>8. Leads(refs, w, objects, n)
      BY <2>3, <2>7 DEF Leads
    <2>9. Len(w) <= 2 * n + 3 * k
      BY <2>3, <2>7
    <2>10. BillUpTo(d, objects, n, k) /\ d.refs = refs
      BY <2>2, <2>7, <2>8, <2>9, <2>w DEF BillUpTo
    <2> QED BY <2>10, <2>d, <2>r
  <1>4. 0..n \subseteq S
    <2> HIDE DEF S
    <2> QED BY <1>1, <1>3, UpTo
  <1>5. ASSUME NEW k \in 1..n PROVE CertificateStep(h[k - 1].components, h[k].components, base.refs, objects[k])
    <2>1. k - 1 \in S
      BY <1>4
    <2> QED BY <1>2, <2>1
  <1> QED BY <1>4, <1>5

-----------------------------------------------------------------------------
(* How many entries of a bill are of some kind.                             *)

CountOf(c, S) == Cardinality({a \in DOMAIN c : c[a] \in S})
CountUpTo(T, k) == Cardinality({i \in 1..k : i \in T})

\* The count of entries after one more.
LEMMA CountLast ==
    ASSUME NEW E, NEW c \in Seq(E), NEW f \in E, NEW S
    PROVE  /\ CountOf(c, S) \in Nat
           /\ CountOf(Append(c, f), S) = IF f \in S THEN CountOf(c, S) + 1 ELSE CountOf(c, S)
  <1>d. PICK d : d = Append(c, f)
    OBVIOUS
  <1>l. PICK n \in Nat : n = Len(c)
    OBVIOUS
  <1>1. /\ DOMAIN c = 1..n /\ DOMAIN d = 1..n + 1
        /\ d[n + 1] = f /\ \A i \in 1..n : d[i] = c[i]
    BY <1>d, <1>l
  <1>s. PICK A : A = {a \in DOMAIN c : c[a] \in S}
    OBVIOUS
  <1>2. A \subseteq 1..n /\ IsFiniteSet(1..n)
    BY <1>1, <1>s, FirstNumbers
  <1>3. IsFiniteSet(A)
    BY <1>2, FS_Subset
  <1>4. Cardinality(A) \in Nat
    BY <1>3, FS_CardinalityType
  <1>5. 1..n + 1 = (1..n) \cup {n + 1} /\ n + 1 \notin 1..n
    OBVIOUS
  <1>6. {a \in DOMAIN d : d[a] \in S} = IF f \in S THEN A \cup {n + 1} ELSE A
    BY <1>1, <1>5, <1>s
  <1>7. n + 1 \notin A
    BY <1>2, <1>5
  <1>8. Cardinality(A \cup {n + 1}) = Cardinality(A) + 1
    BY <1>3, <1>7, FS_AddElement
  <1> QED BY <1>4, <1>6, <1>8, <1>d, <1>s DEF CountOf

\* The count of objects up to the next.
LEMMA CountNext ==
    ASSUME NEW T, NEW k \in Nat, k # 0
    PROVE  CountUpTo(T, k) = IF k \in T THEN CountUpTo(T, k - 1) + 1 ELSE CountUpTo(T, k - 1)
  <1>s. PICK A : A = {i \in 1..k - 1 : i \in T}
    OBVIOUS
  <1>1. A \subseteq 1..k - 1 /\ IsFiniteSet(1..k - 1)
    <2>1. k - 1 \in Nat
      OBVIOUS
    <2> QED BY <1>s, <2>1, FirstNumbers
  <1>2. IsFiniteSet(A) /\ k \notin A
    <2>1. IsFiniteSet(A)
      BY <1>1, FS_Subset
    <2>2. k \notin 1..k - 1
      OBVIOUS
    <2> QED BY <1>1, <2>1, <2>2
  <1>3. 1..k = (1..k - 1) \cup {k}
    OBVIOUS
  <1>4. {i \in 1..k : i \in T} = IF k \in T THEN A \cup {k} ELSE A
    BY <1>3, <1>s
  <1>5. Cardinality(A \cup {k}) = Cardinality(A) + 1
    BY <1>2, FS_AddElement
  <1> QED BY <1>4, <1>5, <1>s DEF CountUpTo

\* A further algorithm changes neither the count nor the list of other entries.
LEMMA WidenedCount ==
    ASSUME NEW objects, NEW c \in Seq(EntriesFor(objects)), NEW name \in NamesOf(objects), NEW vulnerable \in BOOLEAN,
           NEW d, Widened(c, d, name, vulnerable), NEW S, \A e \in S : e.kind # "algorithm"
    PROVE  d \in Seq(EntriesFor(objects)) /\ CountOf(d, S) = CountOf(c, S) /\ Picked(d, S) = Picked(c, S)
  <1>e. PICK E : E = EntriesFor(objects)
    OBVIOUS
  <1>f. PICK f : f = AlgorithmEntry(name, vulnerable)
    OBVIOUS
  <1>1. f \in E
    BY <1>e, <1>f, AlgorithmFits
  <1>2. f \notin S
    <2>1. f.kind = "algorithm"
      BY <1>f DEF AlgorithmEntry
    <2> QED BY <2>1
  <1>3. d = c \/ d = Append(c, f)
    BY <1>f DEF Widened
  <1>4. c \in Seq(E)
    BY <1>e
  <1>5. CASE d = c
    BY <1>5
  <1>6. CASE d = Append(c, f)
    <2>1. d \in Seq(E)
      BY <1>1, <1>4, <1>6
    <2>2. CountOf(d, S) = CountOf(c, S)
      BY <1>1, <1>2, <1>4, <1>6, CountLast
    <2>3. Picked(d, S) = Picked(c, S)
      BY <1>1, <1>2, <1>4, <1>6, PickedLast
    <2> QED BY <1>e, <2>1, <2>2, <2>3
  <1> QED BY <1>3, <1>5, <1>6

\* The first pass enters one entry for each key.
LEMMA KeysCounted ==
    ASSUME NEW objects, NEW n \in Nat, DOMAIN objects = 1..n, NEW g, KeysEntered(g, objects, n),
           \A k \in 1..n : KeyStep(g[k - 1].components, g[k].components, objects[k]),
           NEW S, \A e \in S : e.kind # "algorithm", NEW T,
           \A k \in 1..n, m \in Nat : k \in T <=> objects[k].class \in keyMaterialType /\ KeyEntry(objects[k], m) \in S
    PROVE  \A k \in 0..n : CountOf(g[k].components, S) = CountUpTo(T, k) /\ CountUpTo(T, k) \in Nat
  <1>e. PICK E : E = EntriesFor(objects)
    OBVIOUS
  <1> DEFINE U == {k \in 0..n : CountOf(g[k].components, S) = CountUpTo(T, k) /\ CountUpTo(T, k) \in Nat}
  <1>0. \A k \in 0..n : g[k].components \in Seq(E)
    BY <1>e DEF KeysEntered, Bills
  <1>1. 0 \in U
    <2>1. g[0].components = <<>>
      BY DEF KeysEntered, EmptyBOM
    <2>2. {a \in DOMAIN <<>> : <<>>[a] \in S} = {} /\ {i \in 1..0 : i \in T} = {}
      OBVIOUS
    <2>3. Cardinality({}) = 0
      BY FS_EmptySet
    <2>4. CountOf(<<>>, S) = 0 /\ CountUpTo(T, 0) = 0
      BY <2>2, <2>3 DEF CountOf, CountUpTo
    <2> QED BY <2>1, <2>4
  <1>2. ASSUME NEW k \in 1..n, k - 1 \in U PROVE k \in U
    <2>c. PICK c : c = g[k - 1].components
      OBVIOUS
    <2>d. PICK d : d = g[k].components
      OBVIOUS
    <2>o. PICK o : o = objects[k]
      OBVIOUS
    <2>1. c \in Seq(E) /\ d \in Seq(E) /\ KeyStep(c, d, o)
      <3>1. k - 1 \in 0..n /\ k \in 0..n
        OBVIOUS
      <3> QED BY <1>0, <3>1, <2>c, <2>d, <2>o
    <2>2. CountOf(c, S) = CountUpTo(T, k - 1) /\ CountUpTo(T, k - 1) \in Nat
      BY <1>2, <2>c
    <2>3. CountUpTo(T, k) = IF k \in T THEN CountUpTo(T, k - 1) + 1 ELSE CountUpTo(T, k - 1)
      BY CountNext
    <2>4. CASE o.class \notin keyMaterialType
      <3>1. d = c
        BY <2>1, <2>4 DEF KeyStep
      <3>2. k \notin T
        <4>1. k \in T <=> objects[k].class \in keyMaterialType /\ KeyEntry(objects[k], 0) \in S
          OBVIOUS
        <4> QED BY <2>4, <2>o, <4>1
      <3>3. CountUpTo(T, k) = CountUpTo(T, k - 1) /\ CountOf(d, S) = CountOf(c, S)
        BY <2>3, <3>1, <3>2
      <3> QED BY <2>2, <2>d, <3>3
    <2>5. CASE o.class \in keyMaterialType
      <3>n. PICK name : name = NameOfKey(o)
        OBVIOUS
      <3>m. PICK m : m = Len(c)
        OBVIOUS
      <3>0. m \in Nat
        BY <2>1, <3>m
      <3>1. PICK w : Widened(c, w, name, Broken(name)) /\ d = Append(w, KeyEntry(o, m))
        BY <2>1, <2>5, <3>n, <3>m DEF KeyStep
      <3>2. name \in NamesOf(objects) /\ Broken(name) \in BOOLEAN
        BY <2>o, <3>n DEF NamesOf, Broken
      <3>3. c \in Seq(EntriesFor(objects))
        BY <2>1, <1>e
      <3>4. w \in Seq(E) /\ CountOf(w, S) = CountOf(c, S)
        BY <1>e, <3>1, <3>2, <3>3, WidenedCount
      <3>f. PICK f : f = KeyEntry(o, m)
        OBVIOUS
      <3>5. d = Append(w, f) /\ f \in E
        <4>1. d = Append(w, f)
          BY <3>1, <3>f
        <4>2. Len(w) + 1 \in DOMAIN d /\ d[Len(w) + 1] = f
          BY <3>4, <4>1
        <4> QED BY <2>1, <4>1, <4>2
      <3>6. CountOf(d, S) = IF f \in S THEN CountOf(w, S) + 1 ELSE CountOf(w, S)
        BY <3>4, <3>5, CountLast
      <3>7. f \in S <=> k \in T
        BY <2>5, <2>o, <3>0, <3>f
      <3> QED BY <2>2, <2>3, <2>d, <3>4, <3>6, <3>7
    <2> QED BY <2>4, <2>5
  <1>3. 0..n \subseteq U
    <2> HIDE DEF U
    <2> QED BY <1>1, <1>2, UpTo
  <1> QED BY <1>3

\* The second loop enters no key and no entry of another kind than it should.
LEMMA CertificateStepCount ==
    ASSUME NEW objects, NEW k \in DOMAIN objects, NEW o, o = objects[k], NEW c \in Seq(EntriesFor(objects)),
           NEW refs, NEW d, CertificateStep(c, d, refs, o), d \in Seq(EntriesFor(objects)),
           NEW S, \A e \in S : e.kind # "algorithm"
    PROVE  IF Has(o, "certificate")
           THEN /\ Picked(d, S) = IF CertificateEntry(o, Len(c), refs) \in S
                                  THEN Append(Picked(c, S), CertificateEntry(o, Len(c), refs)) ELSE Picked(c, S)
                /\ CertificateEntry(o, Len(c), refs) \notin S => CountOf(d, S) = CountOf(c, S)
           ELSE d = c
  <1>1. CASE ~Has(o, "certificate")
    BY <1>1 DEF CertificateStep
  <1>2. CASE Has(o, "certificate")
    <2>e. PICK E : E = EntriesFor(objects)
      OBVIOUS
    <2>n. PICK name : name = NameOfPublicKey(o.certificate)
      OBVIOUS
    <2>s. PICK signature : signature = SignatureOf(o)
      OBVIOUS
    <2>f. PICK f : f = CertificateEntry(o, Len(c), refs)
      OBVIOUS
    <2>1. PICK v, w : /\ IF KeptKey(refs, o) THEN v = c ELSE Widened(c, v, name, Broken(name))
                      /\ Widened(v, w, signature, sigAlgVulnerable(signature)) /\ d = Append(w, f)
      BY <1>2, <2>n, <2>s, <2>f DEF CertificateStep
    <2>2. name \in NamesOf(objects) /\ Broken(name) \in BOOLEAN
          /\ signature \in NamesOf(objects) /\ sigAlgVulnerable(signature) \in BOOLEAN
      BY <2>n, <2>s DEF NamesOf, Broken, sigAlgVulnerable
    <2>3. v \in Seq(EntriesFor(objects)) /\ CountOf(v, S) = CountOf(c, S) /\ Picked(v, S) = Picked(c, S)
      <3>1. CASE v = c
        BY <3>1
      <3>2. CASE Widened(c, v, name, Broken(name))
        BY <2>2, <3>2, WidenedCount
      <3> QED BY <2>1, <3>1, <3>2
    <2>4. w \in Seq(EntriesFor(objects)) /\ CountOf(w, S) = CountOf(v, S) /\ Picked(w, S) = Picked(v, S)
      BY <2>1, <2>2, <2>3, WidenedCount
    <2>5. w \in Seq(E) /\ f \in E
      <3>1. w \in Seq(E) /\ d \in Seq(E)
        BY <2>4, <2>e
      <3>2. Len(w) + 1 \in DOMAIN d /\ d[Len(w) + 1] = f
        BY <2>1, <3>1
      <3> QED BY <3>1, <3>2
    <2>6. Picked(d, S) = IF f \in S THEN Append(Picked(w, S), f) ELSE Picked(w, S)
      BY <2>1, <2>5, PickedLast
    <2>7. CountOf(d, S) = IF f \in S THEN CountOf(w, S) + 1 ELSE CountOf(w, S)
      BY <2>1, <2>5, CountLast
    <2> QED BY <1>2, <2>3, <2>4, <2>6, <2>7, <2>f
  <1> QED BY <1>1, <1>2

\* The second pass enters no keys.
LEMMA CertificatesUncounted ==
    ASSUME NEW objects, NEW n \in Nat, DOMAIN objects = 1..n, NEW base, NEW h, CertificatesEntered(h, base, objects, n),
           \A k \in 1..n : CertificateStep(h[k - 1].components, h[k].components, base.refs, objects[k]),
           NEW S, \A e \in S : e.kind \notin {"algorithm", "certificate"}
    PROVE  CountOf(h[n].components, S) = CountOf(base.components, S)
  <1> DEFINE U == {k \in 0..n : CountOf(h[k].components, S) = CountOf(base.components, S)}
  <1>0. \A k \in 0..n : h[k].components \in Seq(EntriesFor(objects))
    BY DEF CertificatesEntered, Bills
  <1>1. 0 \in U
    BY DEF CertificatesEntered
  <1>2. ASSUME NEW k \in 1..n, k - 1 \in U PROVE k \in U
    <2>c. PICK c : c = h[k - 1].components
      OBVIOUS
    <2>d. PICK d : d = h[k].components
      OBVIOUS
    <2>o. PICK o : o = objects[k]
      OBVIOUS
    <2>r. PICK refs : refs = base.refs
      OBVIOUS
    <2>1. c \in Seq(EntriesFor(objects)) /\ d \in Seq(EntriesFor(objects)) /\ CertificateStep(c, d, refs, o)
      <3>1. k - 1 \in 0..n /\ k \in 0..n
        OBVIOUS
      <3> QED BY <1>0, <3>1, <2>c, <2>d, <2>o, <2>r
    <2>f. PICK f : f = CertificateEntry(o, Len(c), refs)
      OBVIOUS
    <2>2. f \notin S
      BY <2>f DEF CertificateEntry
    <2>3. k \in DOMAIN objects /\ \A e \in S : e.kind # "algorithm"
      OBVIOUS
    <2>4. IF Has(o, "certificate") THEN CountOf(d, S) = CountOf(c, S) ELSE d = c
      BY <2>1, <2>2, <2>3, <2>f, <2>o, CertificateStepCount
    <2>5. CountOf(d, S) = CountOf(c, S)
      BY <2>4
    <2> QED BY <1>2, <2>5, <2>c, <2>d
  <1>3. 0..n \subseteq U
    <2> HIDE DEF U
    <2> QED BY <1>1, <1>2, UpTo
  <1> QED BY <1>3

\* The entries of certificates refer to a key first if the token has it, to an algorithm
\* otherwise.
Paired(entries, certs, refs) ==
    /\ Len(entries) = Len(certs)
    /\ \A m \in 1..Len(certs) : KeptKey(refs, certs[m]) <=> entries[m].refers[1][1] = "key"

\* The entry of a certificate refers to a key first exactly if its fingerprint was kept.
LEMMA FirstReference ==
    ASSUME NEW objects, NEW o, NEW number, NEW refs, \A p \in DOMAIN refs : refs[p][1] = "key",
           SignatureOf(o) \in NamesOf(objects), NameOfPublicKey(o.certificate) \in NamesOf(objects)
    PROVE  KeptKey(refs, o) <=> CertificateEntry(o, number, refs).refers[1][1] = "key"
  <1>n. PICK name : name = NameOfPublicKey(o.certificate)
    OBVIOUS
  <1>s. PICK signature : signature = SignatureOf(o)
    OBVIOUS
  <1>k. PICK ref : ref = refs[o.certificate.fingerprint]
    OBVIOUS
  <1>f. PICK refers : refers = CertificateEntry(o, number, refs).refers
    OBVIOUS
  <1>1. IsName(name) /\ IsName(signature)
    BY <1>n, <1>s, AlgorithmFits
  <1>2. RefTo(signature) = <<AlgorithmRef(signature)>> /\ AlgorithmRef(signature)[1] = "algorithm"
    <2>1. signature # NoName
      BY <1>s DEF SignatureOf, NoName
    <2> QED BY <1>1, <2>1, AlgorithmRefIs DEF RefTo
  <1>3. refers = (IF KeptKey(refs, o) THEN <<ref>> ELSE RefTo(name)) \o RefTo(signature)
    BY <1>f, <1>n, <1>s, <1>k DEF CertificateEntry
  <1>a. PICK a : a = AlgorithmRef(signature)
    OBVIOUS
  <1>b. PICK b : b = AlgorithmRef(name)
    OBVIOUS
  <1>4. CASE KeptKey(refs, o)
    <2>1. refers = <<ref>> \o <<a>>
      BY <1>2, <1>3, <1>4, <1>a
    <2>2. refers[1] = ref
      BY <2>1
    <2>3. ref[1] = "key"
      BY <1>4, <1>k DEF KeptKey
    <2> QED BY <1>4, <1>f, <2>2, <2>3
  <1>5. CASE ~KeptKey(refs, o) /\ name = NoName
    <2>1. refers = <<>> \o <<a>>
      BY <1>2, <1>3, <1>5, <1>a DEF RefTo
    <2>2. refers[1] = a
      BY <2>1
    <2> QED BY <1>2, <1>5, <1>a, <1>f, <2>2
  <1>6. CASE ~KeptKey(refs, o) /\ name # NoName
    <2>1. refers = <<b>> \o <<a>>
      BY <1>2, <1>3, <1>6, <1>a, <1>b DEF RefTo
    <2>2. refers[1] = b
      BY <2>1
    <2>3. b[1] = "algorithm"
      BY <1>1, <1>6, <1>b, AlgorithmRefIs
    <2> QED BY <1>6, <1>f, <2>2, <2>3
  <1> QED BY <1>4, <1>5, <1>6

StepPicks(c, d, S, o, f) ==
    IF Has(o, "certificate") THEN Picked(d, S) = IF f \in S THEN Append(Picked(c, S), f) ELSE Picked(c, S) ELSE d = c

\* addCertificate enters one certificate.
LEMMA CertificatePicked ==
    ASSUME NEW objects, NEW k \in DOMAIN objects, NEW o, o = objects[k], NEW c \in Seq(EntriesFor(objects)),
           NEW refs, NEW d, CertificateStep(c, d, refs, o), d \in Seq(EntriesFor(objects)),
           NEW S, \A e \in S : e.kind # "algorithm", NEW f, f = CertificateEntry(o, Len(c), refs)
    PROVE  StepPicks(c, d, S, o, f)
  <1>1. IF Has(o, "certificate")
        THEN /\ Picked(d, S) = IF CertificateEntry(o, Len(c), refs) \in S
                               THEN Append(Picked(c, S), CertificateEntry(o, Len(c), refs)) ELSE Picked(c, S)
             /\ CertificateEntry(o, Len(c), refs) \notin S => CountOf(d, S) = CountOf(c, S)
        ELSE d = c
    BY CertificateStepCount
  <1> QED BY <1>1 DEF StepPicks

\* The second pass enters the certificates in the order of the objects.
LEMMA CertificatesPaired ==
    ASSUME NEW objects, NEW n \in Nat, DOMAIN objects = 1..n, Len(objects) = n, NEW base, NEW h,
           CertificatesEntered(h, base, objects, n), \A p \in DOMAIN base.refs : base.refs[p][1] = "key",
           \A k \in 1..n : CertificateStep(h[k - 1].components, h[k].components, base.refs, objects[k]),
           NEW S, S = {e \in EntriesFor(objects) : e.kind = "certificate"}, Picked(base.components, S) = <<>>,
           NEW F, NEW q, Reached(q, F, objects, With(objects, "certificate"))
    PROVE  Paired(Picked(h[n].components, S), q[n], base.refs)
  <1>e. PICK E : E = EntriesFor(objects)
    OBVIOUS
  <1>r. PICK refs : refs = base.refs
    OBVIOUS
  <1> DEFINE U == {k \in 0..n : Paired(Picked(h[k].components, S), q[k], refs)}
  <1>0. \A k \in 0..n : h[k].components \in Seq(E)
    BY <1>e DEF CertificatesEntered, Bills
  <1>1. 0 \in U
    <2>1. h[0] = base /\ q[0] = <<>>
      BY DEF CertificatesEntered, Reached
    <2>2. Len(<<>>) = 0
      OBVIOUS
    <2> QED BY <2>1, <2>2 DEF Paired
  <1>2. ASSUME NEW k \in 1..n, k - 1 \in U PROVE k \in U
    <2>c. PICK c : c = h[k - 1].components
      OBVIOUS
    <2>d. PICK d : d = h[k].components
      OBVIOUS
    <2>o. PICK o : o = objects[k]
      OBVIOUS
    <2>q. PICK certs : certs = q[k - 1]
      OBVIOUS
    <2>n. PICK entries : entries = Picked(c, S)
      OBVIOUS
    <2>1. c \in Seq(EntriesFor(objects)) /\ d \in Seq(EntriesFor(objects)) /\ CertificateStep(c, d, refs, o)
      <3>1. k - 1 \in 0..n /\ k \in 0..n
        OBVIOUS
      <3> QED BY <1>0, <1>e, <1>r, <3>1, <2>c, <2>d, <2>o
    <2>2. Paired(entries, certs, refs) /\ entries \in Seq(E)
      <3>1. c \in Seq(E)
        BY <2>1, <1>e
      <3>2. entries \in Seq(E)
        BY <2>n, <3>1, PickedSeq
      <3> QED BY <1>2, <2>c, <2>q, <2>n, <3>2
    <2>3. certs \in Seq(F) /\ q[k] = IF k \in With(objects, "certificate") THEN Append(certs, o) ELSE certs
      <3>1. k - 1 \in 0..Len(objects) /\ k \in 1..Len(objects)
        OBVIOUS
      <3> QED BY <3>1, <2>q, <2>o DEF Reached
    <2>f. PICK f : f = CertificateEntry(o, Len(c), refs)
      OBVIOUS
    <2>4. k \in DOMAIN objects /\ \A e \in S : e.kind # "algorithm"
      OBVIOUS
    <2>5. IF Has(o, "certificate") THEN Picked(d, S) = IF f \in S THEN Append(entries, f) ELSE entries ELSE d = c
      <3>1. StepPicks(c, d, S, o, f)
        BY <2>1, <2>4, <2>o, <2>f, CertificatePicked
      <3> QED BY <3>1, <2>n DEF StepPicks
    <2>6. CASE ~Has(o, "certificate")
      <3>1. k \notin With(objects, "certificate")
        BY <2>6, <2>o DEF With
      <3>2. Picked(d, S) = entries /\ q[k] = certs
        BY <2>3, <2>5, <2>6, <2>n, <3>1
      <3>3. Paired(Picked(d, S), q[k], refs)
        BY <2>2, <3>2
      <3> QED BY <2>d, <3>3
    <2>7. CASE Has(o, "certificate")
      <3>1. k \in With(objects, "certificate")
        BY <2>7, <2>o DEF With
      <3>2. f \in E
        <4>1. PICK v, w : d = Append(w, f) /\ Widened(v, w, SignatureOf(o), sigAlgVulnerable(SignatureOf(o)))
                          /\ (v = c \/ Widened(c, v, NameOfPublicKey(o.certificate), Broken(NameOfPublicKey(o.certificate))))
          BY <2>1, <2>7, <2>f DEF CertificateStep
        <4>2. NameOfPublicKey(o.certificate) \in NamesOf(objects) /\ Broken(NameOfPublicKey(o.certificate)) \in BOOLEAN
              /\ SignatureOf(o) \in NamesOf(objects) /\ sigAlgVulnerable(SignatureOf(o)) \in BOOLEAN
          BY <2>o DEF NamesOf, Broken, sigAlgVulnerable
        <4>3. v \in Seq(EntriesFor(objects))
          BY <2>1, <2>4, <4>1, <4>2, WidenedCount
        <4>4. w \in Seq(EntriesFor(objects))
          BY <2>4, <4>1, <4>2, <4>3, WidenedCount
        <4>5. w \in Seq(E) /\ d \in Seq(E)
          BY <1>e, <2>1, <4>4
        <4>6. Len(w) + 1 \in DOMAIN d /\ d[Len(w) + 1] = f
          BY <4>1, <4>5
        <4> QED BY <4>5, <4>6
      <3>3. f \in S
        <4>1. f.kind = "certificate"
          BY <2>f DEF CertificateEntry
        <4> QED BY <1>e, <3>2, <4>1
      <3>4. Picked(d, S) = Append(entries, f) /\ q[k] = Append(certs, o)
        BY <2>3, <2>5, <2>7, <3>1, <3>3
      <3>5. KeptKey(refs, o) <=> f.refers[1][1] = "key"
        <4>1. SignatureOf(o) \in NamesOf(objects) /\ NameOfPublicKey(o.certificate) \in NamesOf(objects)
          BY <2>o DEF NamesOf
        <4>2. \A p \in DOMAIN refs : refs[p][1] = "key"
          BY <1>r
        <4> QED BY <2>f, <4>1, <4>2, FirstReference
      <3>l. PICK m \in Nat : m = Len(certs)
        BY <2>3
      <3>6. Len(entries) = m /\ \A j \in 1..m : KeptKey(refs, certs[j]) <=> entries[j].refers[1][1] = "key"
        BY <2>2, <3>l DEF Paired
      <3>a. PICK certs2 : certs2 = Append(certs, o)
        OBVIOUS
      <3>b. PICK entries2 : entries2 = Append(entries, f)
        OBVIOUS
      <3>7. /\ Len(certs2) = m + 1 /\ certs2[m + 1] = o /\ \A j \in 1..m : certs2[j] = certs[j]
        <4>1. o \in F \cup {o} /\ certs \in Seq(F \cup {o})
          BY <2>3
        <4> QED BY <3>a, <3>l, <4>1
      <3>8. /\ Len(entries2) = m + 1 /\ entries2[m + 1] = f /\ \A j \in 1..m : entries2[j] = entries[j]
        BY <2>2, <3>2, <3>b, <3>6
      <3>9. Paired(entries2, certs2, refs)
        <4>1. ASSUME NEW j \in 1..m + 1 PROVE KeptKey(refs, certs2[j]) <=> entries2[j].refers[1][1] = "key"
          <5>1. CASE j \in 1..m
            BY <3>6, <3>7, <3>8, <5>1
          <5>2. CASE j = m + 1
            BY <3>5, <3>7, <3>8, <5>2
          <5>3. j \in 1..m \/ j = m + 1
            OBVIOUS
          <5> QED BY <5>1, <5>2, <5>3
        <4> QED BY <3>7, <3>8, <4>1 DEF Paired
      <3>10. Paired(Picked(d, S), q[k], refs)
        BY <3>4, <3>9, <3>a, <3>b
      <3> QED BY <2>d, <3>10
    <2> QED BY <2>6, <2>7
  <1>3. 0..n \subseteq U
    <2> HIDE DEF U
    <2> QED BY <1>1, <1>2, UpTo
  <1>4. n \in U
    <2> HIDE DEF U
    <2>1. n \in 0..n
      OBVIOUS
    <2> QED BY <1>3, <2>1
  <1> QED BY <1>4, <1>r

\* As many entries of a kind of key as there are keys of it, and none of certificates.
KindHeld(c, S, objects, kind) ==
    /\ kind \in keyMaterialType => CountOf(c, S) = Cardinality({i \in DOMAIN objects : objects[i].class = kind})
    /\ kind = "certificate" => Picked(c, S) = <<>>

\* After the first pass every kind of key is counted and no certificate is entered.
LEMMA KindCounted ==
    ASSUME NEW objects, NEW n \in Nat, DOMAIN objects = 1..n, NEW g, KeysEntered(g, objects, n),
           \A k \in 1..n : KeyStep(g[k - 1].components, g[k].components, objects[k]),
           NEW kind, kind # "algorithm", NEW S, S = {e \in EntriesFor(objects) : e.kind = kind}
    PROVE  KindHeld(g[n].components, S, objects, kind)
  <1>e. PICK E : E = EntriesFor(objects)
    OBVIOUS
  <1>c. PICK c : c = g[n].components
    OBVIOUS
  <1>s. PICK T : T = {i \in 1..n : objects[i].class = kind /\ kind \in keyMaterialType}
    OBVIOUS
  <1>1. \A e \in S : e.kind # "algorithm"
    OBVIOUS
  <1>2. ASSUME NEW k \in 1..n, NEW m \in Nat
        PROVE  k \in T <=> objects[k].class \in keyMaterialType /\ KeyEntry(objects[k], m) \in S
    <2>o. PICK o : o = objects[k]
      OBVIOUS
    <2>f. PICK f : f = KeyEntry(o, m)
      OBVIOUS
    <2>1. f.kind = o.class
      BY <2>f DEF KeyEntry
    <2>2. o.class \in keyMaterialType => f \in E
      <3>r. PICK R : R = RefsFor(objects)
        OBVIOUS
      <3>1. KeyRef(o, m) \in R
        BY <3>r, <2>o DEF RefsFor
      <3>2. RefTo(NameOfKey(o)) \in Seq(R)
        <4>1. NameOfKey(o) \in NamesOf(objects)
          BY <2>o DEF NamesOf
        <4>2. AlgorithmRef(NameOfKey(o)) \in R
          BY <4>1, <3>r DEF RefsFor
        <4> QED BY <4>2 DEF RefTo
      <3>3. o.class \in keyMaterialType => f \in EntryOf(R)
        BY <3>1, <3>2, <2>f DEF KeyEntry, EntryOf
      <3> QED BY <3>3, <3>r, <1>e DEF EntriesFor
    <2>3. o.class \in keyMaterialType => (f \in S <=> o.class = kind)
      BY <1>e, <2>1, <2>2
    <2>4. k \in T <=> o.class = kind /\ kind \in keyMaterialType
      BY <1>s, <2>o
    <2>5. k \in T <=> o.class \in keyMaterialType /\ f \in S
      BY <2>3, <2>4
    <2> QED BY <2>5, <2>o, <2>f
  <1>3. CountOf(c, S) = CountUpTo(T, n)
    <2>0. \A k \in 1..n, m \in Nat : k \in T <=> objects[k].class \in keyMaterialType /\ KeyEntry(objects[k], m) \in S
      BY <1>2
    <2>x. PICK X : X = S
      OBVIOUS
    <2>3. \A e \in X : e.kind # "algorithm"
      BY <1>1, <2>x
    <2>4. \A k \in 1..n, m \in Nat : k \in T <=> objects[k].class \in keyMaterialType /\ KeyEntry(objects[k], m) \in X
      BY <2>0, <2>x
    <2>1. \A k \in 0..n : CountOf(g[k].components, X) = CountUpTo(T, k) /\ CountUpTo(T, k) \in Nat
      BY <2>3, <2>4, KeysCounted
    <2>2. n \in 0..n
      OBVIOUS
    <2> QED BY <2>1, <2>2, <2>x, <1>c
  <1>4. ASSUME kind \in keyMaterialType
        PROVE  CountUpTo(T, n) = Cardinality({i \in DOMAIN objects : objects[i].class = kind})
    <2>1. {i \in 1..n : i \in T} = {i \in DOMAIN objects : objects[i].class = kind}
      BY <1>4, <1>s
    <2> QED BY <2>1 DEF CountUpTo
  <1>5. ASSUME kind = "certificate" PROVE Picked(c, S) = <<>>
    <2>1. T = {}
      BY <1>5, <1>s DEF keyMaterialType, KeyClasses
    <2>2. CountUpTo(T, n) = 0
      <3>1. {i \in 1..n : i \in T} = {}
        BY <2>1
      <3> QED BY <3>1, FS_EmptySet DEF CountUpTo
    <2>3. c \in Seq(E)
      <3>1. n \in 0..n
        OBVIOUS
      <3> QED BY <3>1, <1>c, <1>e DEF KeysEntered, Bills
    <2>4. \A a \in DOMAIN c : c[a] \notin S
      <3>a. PICK A : A = {a \in DOMAIN c : c[a] \in S}
        OBVIOUS
      <3>l. PICK l \in Nat : DOMAIN c = 1..l
        BY <2>3
      <3>1. IsFiniteSet(A)
        BY <3>a, <3>l, FirstNumbers, FS_Subset
      <3>2. Cardinality(A) = 0
        BY <1>3, <2>2, <3>a DEF CountOf
      <3> QED BY <3>1, <3>2, <3>a, FS_EmptySet
    <2> QED BY <2>3, <2>4, PickedAllOrNone
  <1> QED BY <1>3, <1>4, <1>5, <1>c DEF KindHeld

\* What is asked of the certificates of a bill.
CertificatesAccounted(components, objects) ==
    LET certs == At(objects, With(objects, "certificate"))
        entries == At(components, OfKind(components, "certificate"))
    IN  /\ Len(certs) = Len(entries)
        /\ \A k \in DOMAIN certs :
             LET kept == \E i \in KeysIn(objects) \cap With(objects, "fingerprint") :
                             /\ Has(certs[k].certificate, "fingerprint")
                             /\ objects[i].fingerprint = certs[k].certificate.fingerprint
             IN  kept <=> entries[k].refers[1][1] = "key"

\* Certificates entered in order are accounted for.
LEMMA PairedAccounted ==
    ASSUME NEW objects, NEW n \in Nat, DOMAIN objects = 1..n, NEW components, NEW refs,
           NEW F, NEW certs \in Seq(F), certs = At(objects, With(objects, "certificate")),
           NEW entries, entries = At(components, OfKind(components, "certificate")), Paired(entries, certs, refs),
           DOMAIN refs = {objects[i].fingerprint : i \in KeysUpTo(objects, n)}
    PROVE  CertificatesAccounted(components, objects)
  <1>1. ASSUME NEW o
        PROVE  KeptKey(refs, o) <=> \E i \in KeysIn(objects) \cap With(objects, "fingerprint") :
                                        /\ Has(o.certificate, "fingerprint")
                                        /\ objects[i].fingerprint = o.certificate.fingerprint
    <2>1. KeysUpTo(objects, n) = KeysIn(objects) \cap With(objects, "fingerprint")
      BY DEF KeysUpTo, KeysIn, With
    <2> QED BY <2>1 DEF KeptKey
  <1>2. \A k \in DOMAIN certs : k \in 1..Len(certs)
    OBVIOUS
  <1>3. \A k \in DOMAIN certs :
            (\E i \in KeysIn(objects) \cap With(objects, "fingerprint") :
                                        /\ Has(certs[k].certificate, "fingerprint")
                                        /\ objects[i].fingerprint = certs[k].certificate.fingerprint)
            <=> entries[k].refers[1][1] = "key"
    BY <1>1, <1>2 DEF Paired
  <1> QED BY <1>3 DEF Paired, CertificatesAccounted

\* Where no two entries share a reference there are as many references as entries.
LEMMA ApartCounted ==
    ASSUME NEW E, NEW c \in Seq(E), \A a, z \in DOMAIN c : a # z => c[a].ref # c[z].ref
    PROVE  Cardinality(RefsOf(c)) = Len(c)
  <1> PICK n \in Nat : n = Len(c) /\ DOMAIN c = 1..n
    OBVIOUS
  <1>f. PICK f : f = [a \in 1..n |-> c[a].ref]
    OBVIOUS
  <1>1. f \in Bijection(1..n, RefsOf(c))
    <2>1. f \in [1..n -> RefsOf(c)]
      BY <1>f DEF RefsOf
    <2>2. \A a, z \in 1..n : f[a] = f[z] => a = z
      BY <1>f
    <2>3. \A r \in RefsOf(c) : \E a \in 1..n : f[a] = r
      BY <1>f DEF RefsOf
    <2> QED BY <2>1, <2>2, <2>3 DEF Bijection, Injection, Surjection, IsInjective
  <1>2. IsFiniteSet(1..n) /\ Cardinality(1..n) = n
    BY FirstNumbers
  <1> QED BY <1>1, <1>2, FS_Bijection DEF ExistsBijection

\* CBOM of any list of objects accounts for it.
LEMMA BillAccounts ==
    ASSUME NEW objects, IsList(objects)
    PROVE  Accounts(CBOM(objects), objects)
  <1>n. PICK n \in Nat : n = Len(objects) /\ DOMAIN objects = 1..n
    BY DEF IsList
  <1>e. PICK E : E = EntriesFor(objects)
    OBVIOUS
  <1>g. PICK g : KeysEntered(g, objects, n)
    BY <1>n, KeysInTurn
  <1>1. /\ \A k \in 0..n : BillUpTo(g[k], objects, k, 0)
        /\ \A k \in 1..n : KeyStep(g[k - 1].components, g[k].components, objects[k])
    BY <1>n, <1>g, KeysSound
  <1>b. PICK base : base = g[n]
    OBVIOUS
  <1>2. BillUpTo(base, objects, n, 0) /\ base \in Bills(objects)
    <2>1. n \in 0..n
      OBVIOUS
    <2> QED BY <1>1, <1>b, <2>1 DEF BillUpTo
  <1>h. PICK h : CertificatesEntered(h, base, objects, n)
    BY <1>n, <1>2, CertificatesInTurn
  <1>3. /\ \A k \in 0..n : BillUpTo(h[k], objects, n, k) /\ h[k].refs = base.refs
        /\ \A k \in 1..n : CertificateStep(h[k - 1].components, h[k].components, base.refs, objects[k])
    BY <1>n, <1>h, <1>2, CertificatesSound
  <1>c. PICK c : c = h[n].components
    OBVIOUS
  <1>4. CBOM(objects) = c
    BY <1>b, <1>c, <1>g, <1>h DEF CBOM, KeysEntered, CertificatesEntered
  <1>5. c \in Seq(E) /\ Apart(c, objects) /\ Closed(c)
    <2>1. n \in 0..n
      OBVIOUS
    <2>2. BillUpTo(h[n], objects, n, n)
      BY <1>3, <2>1
    <2> QED BY <1>c, <1>e, <2>2 DEF BillUpTo, Sound
  <1>6. ASSUME NEW kind \in keyMaterialType
        PROVE  Cardinality(OfKind(c, kind)) = Cardinality({i \in DOMAIN objects : objects[i].class = kind})
    <2>s. PICK S : S = {x \in EntriesFor(objects) : x.kind = kind}
      OBVIOUS
    <2>0. kind # "algorithm" /\ kind # "certificate"
      BY DEF keyMaterialType, KeyClasses
    <2>1. CountOf(g[n].components, S) = Cardinality({i \in DOMAIN objects : objects[i].class = kind})
      <3>1. KindHeld(g[n].components, S, objects, kind)
        BY <1>n, <1>g, <1>1, <2>s, <2>0, KindCounted
      <3> QED BY <3>1 DEF KindHeld
    <2>2. \A x \in S : x.kind \notin {"algorithm", "certificate"}
      BY <2>s, <2>0
    <2>3. CountOf(h[n].components, S) = CountOf(base.components, S)
      BY <1>n, <1>h, <1>3, <2>2, CertificatesUncounted
    <2>4. OfKind(c, kind) = {a \in DOMAIN c : c[a] \in S}
      <3>1. \A a \in DOMAIN c : c[a] \in E
        BY <1>5
      <3> QED BY <3>1, <2>s, <1>e DEF OfKind
    <2>5. Cardinality(OfKind(c, kind)) = CountOf(c, S)
      BY <2>4 DEF CountOf
    <2> QED BY <1>b, <1>c, <2>1, <2>3, <2>5
  <1>7. CertificatesAccounted(c, objects)
    <2>s. PICK S : S = {x \in EntriesFor(objects) : x.kind = "certificate"}
      OBVIOUS
    <2>f. PICK F : F = Found(objects)
      OBVIOUS
    <2>0. objects \in Seq(F)
      BY <2>f DEF IsList
    <2>q. PICK q : Reached(q, F, objects, With(objects, "certificate"))
      BY <2>0, AtInTurn
    <2>1. Picked(base.components, S) = <<>>
      <3>k. PICK kind : kind = "certificate"
        OBVIOUS
      <3>s. S = {x \in EntriesFor(objects) : x.kind = kind} /\ kind # "algorithm"
        BY <2>s, <3>k
      <3>1. KindHeld(g[n].components, S, objects, kind)
        BY <1>n, <1>g, <1>1, <3>s, KindCounted
      <3> QED BY <3>1, <3>k, <1>b DEF KindHeld
    <2>2. \A p \in DOMAIN base.refs : base.refs[p][1] = "key"
      BY <1>2 DEF BillUpTo, Leads
    <2>3. Len(objects) = n /\ DOMAIN objects = 1..n
      BY <1>n
    <2>4. Paired(Picked(h[n].components, S), q[n], base.refs)
      BY <1>h, <1>3, <2>s, <2>q, <2>1, <2>2, <2>3, CertificatesPaired
    <2>5. q[n] = At(objects, With(objects, "certificate")) /\ q[n] \in Seq(F)
      BY <2>q, <2>3 DEF Reached
    <2>6. Picked(h[n].components, S) = At(c, OfKind(c, "certificate"))
      <3>1. \A a \in DOMAIN c : c[a] \in E
        BY <1>5
      <3>2. OfKind(c, "certificate") = {a \in DOMAIN c : c[a] \in S}
        BY <3>1, <2>s, <1>e DEF OfKind
      <3> QED BY <3>2, <1>c DEF Picked
    <2>7. DOMAIN base.refs = {objects[i].fingerprint : i \in KeysUpTo(objects, n)}
      BY <1>2 DEF BillUpTo, Leads
    <2> QED BY <2>3, <2>4, <2>5, <2>6, <2>7, PairedAccounted
  <1>8. Distinct(objects) => Cardinality(RefsOf(c)) = Len(c)
    <2> SUFFICES ASSUME Distinct(objects) PROVE Cardinality(RefsOf(c)) = Len(c)
      OBVIOUS
    <2>1. \A a, z \in DOMAIN c : a # z => c[a].ref # c[z].ref
      BY <1>5 DEF Apart
    <2> QED BY <1>5, <2>1, ApartCounted
  <1>9. \A i, j \in OfKind(c, "algorithm") : i # j => c[i].ref # c[j].ref
    BY <1>5 DEF Apart, OfKind
  <1>10. \A i \in DOMAIN c : \A k \in DOMAIN c[i].refers : c[i].refers[k] \in RefsOf(c)
    BY <1>5 DEF Closed
  <1>11. Accounts(c, objects)
    BY <1>6, <1>7, <1>8, <1>9, <1>10 DEF Accounts, CertificatesAccounted
  <1> QED BY <1>4, <1>11

\* What the bill is made of.
BillInv == asked.by = "cbom" => asked.inv \in Inventories /\ asked.components = CBOM(asked.inv.objects)

\* The bill of materials (report.CBOM) of any list of objects has an entry for each key
\* and certificate and one for each algorithm, refers only to what it has, to a key of
\* the token exactly where there is one with the fingerprint of the certificate, and is
\* free of ambiguous references if the identities on the token are.
THEOREM BillIsComplete == DecisionsInit /\ [][DecisionsNext]_asked => []BillOfMaterials
  <1>1. DecisionsInit => BillInv
    BY DEF DecisionsInit, Nobody, BillInv
  <1>2. BillInv /\ [DecisionsNext]_asked => BillInv'
    <2> SUFFICES ASSUME BillInv, [DecisionsNext]_asked PROVE BillInv'
      OBVIOUS
    <2>1. CASE scan
      BY <2>1 DEF scan, Answer, BillInv
    <2>2. CASE evidence
      BY <2>2 DEF evidence, Answer, BillInv
    <2>3. CASE cbom
      BY <2>3 DEF cbom, Answer, BillInv
    <2>4. CASE pqc
      BY <2>4 DEF pqc, Answer, BillInv
    <2>5. CASE snapshotDiff
      BY <2>5 DEF snapshotDiff, Answer, BillInv
    <2>6. CASE preflight
      BY <2>6 DEF preflight, Answer, BillInv
    <2>7. CASE UNCHANGED asked
      BY <2>7 DEF BillInv
    <2> QED BY <2>1, <2>2, <2>3, <2>4, <2>5, <2>6, <2>7 DEF DecisionsNext
  <1>3. BillInv => BillOfMaterials
    BY BillAccounts, InventoriesAssumption DEF BillInv, BillOfMaterials, InventoriesAssumption
  <1> QED BY <1>1, <1>2, <1>3, PTL

-----------------------------------------------------------------------------
(* The keys whose algorithm a bill marks as broken.                         *)

\* An algorithm that a key is the first to name is marked by what it is, and a key refers
\* to nothing but an algorithm.
Weighed(c) == \A a \in DOMAIN c :
    IF c[a].kind = "algorithm" THEN c[a].vulnerable <=> c[a].ref[2] \in Vulnerable
    ELSE \A k \in DOMAIN c[a].refers : c[a].refers[k][1] = "algorithm"

\* What a key refers to is there and marked by what it is.
Marked(c) == \A a \in DOMAIN c : c[a].kind \in keyMaterialType => \A k \in DOMAIN c[a].refers :
    \E j \in DOMAIN c : /\ c[j].kind = "algorithm" /\ c[j].ref = c[a].refers[k]
                        /\ c[j].vulnerable <=> c[j].ref[2] \in Vulnerable

\* One more entry keeps a bill weighed.
LEMMA WeighedAppend ==
    ASSUME NEW E, NEW c \in Seq(E), NEW f \in E, Weighed(c),
           IF f.kind = "algorithm" THEN f.vulnerable <=> f.ref[2] \in Vulnerable
           ELSE \A k \in DOMAIN f.refers : f.refers[k][1] = "algorithm"
    PROVE  Weighed(Append(c, f))
  <1>d. PICK d : d = Append(c, f)
    OBVIOUS
  <1> PICK n \in Nat : n = Len(c)
    OBVIOUS
  <1>1. /\ DOMAIN c = 1..n /\ DOMAIN d = 1..n + 1
        /\ d[n + 1] = f /\ \A i \in 1..n : d[i] = c[i]
    BY <1>d
  <1>2. \A i \in 1..n + 1 : i \in 1..n \/ i = n + 1
    OBVIOUS
  <1>3. Weighed(d)
    BY <1>1, <1>2 DEF Weighed
  <1> QED BY <1>3, <1>d

\* One more entry that is no key keeps a bill marked.
LEMMA MarkedAppend ==
    ASSUME NEW E, NEW c \in Seq(E), NEW f \in E, Marked(c), f.kind \notin keyMaterialType
    PROVE  Marked(Append(c, f))
  <1>d. PICK d : d = Append(c, f)
    OBVIOUS
  <1> PICK n \in Nat : n = Len(c)
    OBVIOUS
  <1>1. /\ DOMAIN c = 1..n /\ DOMAIN d = 1..n + 1
        /\ d[n + 1] = f /\ \A i \in 1..n : d[i] = c[i]
    BY <1>d
  <1>2. \A i \in 1..n + 1 : i \in 1..n \/ i = n + 1
    OBVIOUS
  <1>3. 1..n \subseteq 1..n + 1
    OBVIOUS
  <1>4. Marked(d)
    <2> SUFFICES ASSUME NEW a \in 1..n + 1, d[a].kind \in keyMaterialType, NEW k \in DOMAIN d[a].refers
                 PROVE  \E j \in 1..n + 1 : /\ d[j].kind = "algorithm" /\ d[j].ref = d[a].refers[k]
                                            /\ d[j].vulnerable <=> d[j].ref[2] \in Vulnerable
      BY <1>1 DEF Marked
    <2>1. a \in 1..n /\ d[a] = c[a]
      BY <1>1, <1>2
    <2>2. PICK j \in 1..n : /\ c[j].kind = "algorithm" /\ c[j].ref = c[a].refers[k]
                            /\ c[j].vulnerable <=> c[j].ref[2] \in Vulnerable
      BY <1>1, <2>1 DEF Marked
    <2>3. d[j] = c[j] /\ j \in 1..n + 1
      BY <1>1, <1>3
    <2> QED BY <2>1, <2>2, <2>3
  <1> QED BY <1>4, <1>d

\* addKey keeps a bill weighed: it is the first to name an algorithm or leaves it alone.
LEMMA KeyStepWeighed ==
    ASSUME NEW objects, NEW k \in DOMAIN objects, NEW o, o = objects[k], NEW c \in Seq(EntriesFor(objects)), Weighed(c),
           NEW d, d \in Seq(EntriesFor(objects)), KeyStep(c, d, o)
    PROVE  Weighed(d)
  <1>e. PICK E : E = EntriesFor(objects)
    OBVIOUS
  <1>1. CASE d = c
    BY <1>1
  <1>2. CASE \E w : Widened(c, w, NameOfKey(o), Broken(NameOfKey(o))) /\ d = Append(w, KeyEntry(o, Len(c)))
             /\ o.class \in keyMaterialType
    <2>n. PICK name : name = NameOfKey(o)
      OBVIOUS
    <2>b. PICK vulnerable : vulnerable = Broken(name)
      OBVIOUS
    <2>f. PICK f : f = KeyEntry(o, Len(c))
      OBVIOUS
    <2>1. name \in NamesOf(objects) /\ vulnerable \in BOOLEAN
      BY <2>n, <2>b DEF NamesOf, Broken
    <2>2. PICK w : Widened(c, w, name, vulnerable) /\ d = Append(w, f) /\ o.class \in keyMaterialType
      BY <1>2, <2>n, <2>b, <2>f
    <2>g. PICK g : g = AlgorithmEntry(name, vulnerable)
      OBVIOUS
    <2>3. IsName(name) /\ g \in E
      BY <2>1, <2>g, <1>e, AlgorithmFits
    <2>4. name # NoName => g.kind = "algorithm" /\ g.ref[2] = name[1] /\ g.vulnerable = Broken(name)
      BY <2>3, <2>g, <2>b, AlgorithmRefIs DEF AlgorithmEntry
    <2>5. w \in Seq(E) /\ Weighed(w)
      <3>1. CASE w = c
        BY <3>1, <1>e
      <3>2. CASE name # NoName /\ w = Append(c, g)
        <4>1. g.vulnerable <=> g.ref[2] \in Vulnerable
          BY <2>4, <3>2 DEF Broken
        <4>2. c \in Seq(E)
          BY <1>e
        <4>3. Weighed(Append(c, g))
          BY <2>3, <2>4, <3>2, <4>1, <4>2, WeighedAppend
        <4>4. Append(c, g) \in Seq(E)
          BY <2>3, <4>2
        <4> QED BY <3>2, <4>3, <4>4
      <3> QED BY <2>2, <2>g, <3>1, <3>2 DEF Widened
    <2>6. f \in E
      <3>1. d \in Seq(E) /\ d = Append(w, f)
        BY <1>e, <2>2
      <3>2. Len(w) + 1 \in DOMAIN d /\ d[Len(w) + 1] = f
        BY <2>5, <3>1
      <3> QED BY <3>1, <3>2
    <2>7. f.kind # "algorithm" /\ f.refers = RefTo(name)
      BY <2>f, <2>n, <2>2 DEF KeyEntry, keyMaterialType, KeyClasses
    <2>8. \A r \in DOMAIN f.refers : f.refers[r][1] = "algorithm"
      <3>1. CASE name = NoName
        <4>1. f.refers = <<>> /\ DOMAIN <<>> = {}
          BY <2>7, <3>1 DEF RefTo
        <4> QED BY <4>1
      <3>2. CASE name # NoName
        <4>r. PICK ref : ref = AlgorithmRef(name)
          OBVIOUS
        <4>1. f.refers = <<ref>> /\ ref[1] = "algorithm"
          BY <2>3, <2>7, <3>2, <4>r, AlgorithmRefIs DEF RefTo
        <4>2. \A r \in DOMAIN <<ref>> : <<ref>>[r] = ref
          OBVIOUS
        <4> QED BY <4>1, <4>2
      <3> QED BY <3>1, <3>2
    <2>9. Weighed(Append(w, f))
      BY <2>5, <2>6, <2>7, <2>8, WeighedAppend
    <2> QED BY <2>2, <2>9
  <1> QED BY <1>1, <1>2 DEF KeyStep

\* addCertificate leaves the algorithms of the keys as they are marked.
LEMMA CertificateStepMarked ==
    ASSUME NEW objects, NEW k \in DOMAIN objects, NEW o, o = objects[k], NEW c \in Seq(EntriesFor(objects)), Marked(c),
           NEW refs, NEW d, CertificateStep(c, d, refs, o), d \in Seq(EntriesFor(objects))
    PROVE  Marked(d)
  <1>e. PICK E : E = EntriesFor(objects)
    OBVIOUS
  <1>1. CASE ~Has(o, "certificate")
    BY <1>1 DEF CertificateStep
  <1>2. CASE Has(o, "certificate")
    <2>n. PICK name : name = NameOfPublicKey(o.certificate)
      OBVIOUS
    <2>s. PICK signature : signature = SignatureOf(o)
      OBVIOUS
    <2>f. PICK f : f = CertificateEntry(o, Len(c), refs)
      OBVIOUS
    <2>1. PICK v, w : d = Append(w, f) /\ Widened(v, w, signature, sigAlgVulnerable(signature))
                      /\ (v = c \/ Widened(c, v, name, Broken(name)))
      BY <1>2, <2>n, <2>s, <2>f DEF CertificateStep
    <2>2. name \in NamesOf(objects) /\ Broken(name) \in BOOLEAN
          /\ signature \in NamesOf(objects) /\ sigAlgVulnerable(signature) \in BOOLEAN
      BY <2>n, <2>s DEF NamesOf, Broken, sigAlgVulnerable
    <2>3. ASSUME NEW x, x \in Seq(E), Marked(x), NEW y, NEW called \in NamesOf(objects), NEW vulnerable \in BOOLEAN,
                 Widened(x, y, called, vulnerable)
          PROVE  y \in Seq(E) /\ Marked(y)
      <3>g. PICK g : g = AlgorithmEntry(called, vulnerable)
        OBVIOUS
      <3>1. g \in E
        BY <1>e, <3>g, AlgorithmFits
      <3>2. g.kind \notin keyMaterialType
        BY <3>g DEF AlgorithmEntry, keyMaterialType, KeyClasses
      <3>3. CASE y = x
        BY <2>3, <3>3
      <3>4. CASE y = Append(x, g)
        <4>1. Marked(Append(x, g))
          BY <2>3, <3>1, <3>2, MarkedAppend
        <4>2. Append(x, g) \in Seq(E)
          BY <2>3, <3>1
        <4> QED BY <3>4, <4>1, <4>2
      <3> QED BY <2>3, <3>g, <3>3, <3>4 DEF Widened
    <2>4. v \in Seq(E) /\ Marked(v)
      <3>1. c \in Seq(E)
        BY <1>e
      <3> QED BY <2>1, <2>2, <2>3, <3>1
    <2>5. w \in Seq(E) /\ Marked(w)
      BY <2>1, <2>2, <2>3, <2>4
    <2>6. f \in E
      <3>1. d \in Seq(E) /\ d = Append(w, f)
        BY <1>e, <2>1
      <3>2. Len(w) + 1 \in DOMAIN d /\ d[Len(w) + 1] = f
        BY <2>5, <3>1
      <3> QED BY <3>1, <3>2
    <2>7. f.kind \notin keyMaterialType
      BY <2>f DEF CertificateEntry, keyMaterialType, KeyClasses
    <2>8. Marked(Append(w, f))
      BY <2>5, <2>6, <2>7, MarkedAppend
    <2> QED BY <2>1, <2>8
  <1> QED BY <1>1, <1>2

\* The entries of private keys that refer to a broken algorithm.
BrokenKeys(E) == {e \in E : e.kind = "private-key" /\ \E ref : e.refers = <<ref>> /\ ref[2] \in Vulnerable}
Classical(objects) ==
    {i \in DOMAIN objects : objects[i].class = "private-key" /\ Attribute(objects[i], "key_type", "none") \in classicalKeyTypes}

\* The first pass leaves a weighed bill.
LEMMA KeysWeighed ==
    ASSUME NEW objects, NEW n \in Nat, DOMAIN objects = 1..n, NEW g, KeysEntered(g, objects, n),
           \A k \in 1..n : KeyStep(g[k - 1].components, g[k].components, objects[k])
    PROVE  Weighed(g[n].components)
  <1>e. PICK E : E = EntriesFor(objects)
    OBVIOUS
  <1> DEFINE U == {k \in 0..n : Weighed(g[k].components)}
  <1>0. \A k \in 0..n : g[k].components \in Seq(E)
    BY <1>e DEF KeysEntered, Bills
  <1>1. 0 \in U
    <2>1. g[0].components = <<>>
      BY DEF KeysEntered, EmptyBOM
    <2>2. DOMAIN <<>> = {}
      OBVIOUS
    <2>3. Weighed(<<>>)
      BY <2>2 DEF Weighed
    <2> QED BY <2>1, <2>3
  <1>2. ASSUME NEW k \in 1..n, k - 1 \in U PROVE k \in U
    <2>c. PICK c : c = g[k - 1].components
      OBVIOUS
    <2>d. PICK d : d = g[k].components
      OBVIOUS
    <2>o. PICK o : o = objects[k]
      OBVIOUS
    <2>1. c \in Seq(EntriesFor(objects)) /\ d \in Seq(EntriesFor(objects)) /\ KeyStep(c, d, o)
      <3>1. k - 1 \in 0..n /\ k \in 0..n
        OBVIOUS
      <3> QED BY <1>0, <1>e, <3>1, <2>c, <2>d, <2>o
    <2>2. Weighed(c)
      BY <1>2, <2>c
    <2>3. k \in DOMAIN objects
      OBVIOUS
    <2>4. Weighed(d)
      BY <2>1, <2>2, <2>3, <2>o, KeyStepWeighed
    <2> QED BY <2>4, <2>d
  <1>3. n \in U
    <2> HIDE DEF U
    <2>1. 0..n \subseteq U
      BY <1>1, <1>2, UpTo
    <2>2. n \in 0..n
      OBVIOUS
    <2> QED BY <2>1, <2>2
  <1> QED BY <1>3

\* The second pass leaves a marked bill.
LEMMA BillsMarked ==
    ASSUME NEW objects, NEW n \in Nat, DOMAIN objects = 1..n, NEW base, NEW h, CertificatesEntered(h, base, objects, n),
           \A k \in 1..n : CertificateStep(h[k - 1].components, h[k].components, base.refs, objects[k]),
           Marked(base.components)
    PROVE  Marked(h[n].components)
  <1>e. PICK E : E = EntriesFor(objects)
    OBVIOUS
  <1>r. PICK refs : refs = base.refs
    OBVIOUS
  <1> DEFINE U == {k \in 0..n : Marked(h[k].components)}
  <1>0. \A k \in 0..n : h[k].components \in Seq(E)
    BY <1>e DEF CertificatesEntered, Bills
  <1>1. 0 \in U
    BY DEF CertificatesEntered
  <1>2. ASSUME NEW k \in 1..n, k - 1 \in U PROVE k \in U
    <2>c. PICK c : c = h[k - 1].components
      OBVIOUS
    <2>d. PICK d : d = h[k].components
      OBVIOUS
    <2>o. PICK o : o = objects[k]
      OBVIOUS
    <2>1. c \in Seq(EntriesFor(objects)) /\ d \in Seq(EntriesFor(objects)) /\ CertificateStep(c, d, refs, o)
      <3>1. k - 1 \in 0..n /\ k \in 0..n
        OBVIOUS
      <3> QED BY <1>0, <1>e, <1>r, <3>1, <2>c, <2>d, <2>o
    <2>2. Marked(c)
      BY <1>2, <2>c
    <2>3. k \in DOMAIN objects
      OBVIOUS
    <2>4. Marked(d)
      BY <2>1, <2>2, <2>3, <2>o, CertificateStepMarked
    <2> QED BY <2>4, <2>d
  <1>3. n \in U
    <2> HIDE DEF U
    <2>1. 0..n \subseteq U
      BY <1>1, <1>2, UpTo
    <2>2. n \in 0..n
      OBVIOUS
    <2> QED BY <2>1, <2>2
  <1> QED BY <1>3

\* After the keys, what a key refers to is an algorithm of the bill.
LEMMA WeighedMarked ==
    ASSUME NEW objects, NEW k \in Nat, NEW l \in Nat, NEW b \in Nat, NEW c, Sound(c, objects, k, l, b), Weighed(c)
    PROVE  Marked(c)
  <1> SUFFICES ASSUME NEW a \in DOMAIN c, c[a].kind \in keyMaterialType, NEW r \in DOMAIN c[a].refers
               PROVE  \E j \in DOMAIN c : /\ c[j].kind = "algorithm" /\ c[j].ref = c[a].refers[r]
                                          /\ c[j].vulnerable <=> c[j].ref[2] \in Vulnerable
    BY DEF Marked
  <1>1. c[a].kind # "algorithm"
    BY DEF keyMaterialType, KeyClasses
  <1>2. c[a].refers[r][1] = "algorithm"
    BY <1>1 DEF Weighed
  <1>3. PICK j \in DOMAIN c : c[j].ref = c[a].refers[r]
    BY DEF Sound, Closed, RefsOf
  <1>4. From(c[j], objects, k, l, b)
    BY DEF Sound
  <1>5. \A o, m : KeyRef(o, m)[1] # "algorithm" /\ CertificateRef(o, m)[1] # "algorithm"
    BY DEF KeyRef, CertificateRef
  <1>6. c[j].kind = "algorithm"
    BY <1>2, <1>3, <1>4, <1>5 DEF From
  <1> QED BY <1>3, <1>6 DEF Weighed

\* Of a marked bill the keys marked as broken are those whose algorithm is.
LEMMA MarksOfBill ==
    ASSUME NEW objects, NEW c \in Seq(EntriesFor(objects)), Apart(c, objects), Marked(c)
    PROVE  MarkedPrivate(c) = {a \in DOMAIN c : c[a] \in BrokenKeys(EntriesFor(objects))}
  <1>e. PICK E : E = EntriesFor(objects)
    OBVIOUS
  <1> SUFFICES ASSUME NEW a \in DOMAIN c, c[a].kind = "private-key"
               PROVE  (\E j \in DOMAIN c : c[a].refers = <<c[j].ref>> /\ c[j].vulnerable)
                      <=> \E ref : c[a].refers = <<ref>> /\ ref[2] \in Vulnerable
    <2>1. \A a \in DOMAIN c : c[a] \in E
      BY <1>e
    <2>2. \A a \in DOMAIN c : c[a] \in BrokenKeys(E) <=>
              c[a].kind = "private-key" /\ \E ref : c[a].refers = <<ref>> /\ ref[2] \in Vulnerable
      BY <2>1 DEF BrokenKeys
    <2>3. \A a \in DOMAIN c : a \in MarkedPrivate(c) <=>
              c[a].kind = "private-key" /\ \E j \in DOMAIN c : c[a].refers = <<c[j].ref>> /\ c[j].vulnerable
      BY DEF MarkedPrivate
    <2>4. MarkedPrivate(c) \subseteq DOMAIN c
      BY DEF MarkedPrivate
    <2> QED BY <2>2, <2>3, <2>4, <1>e
  <1>1. c[a].kind \in keyMaterialType
    BY DEF keyMaterialType, KeyClasses
  <1>2. ASSUME NEW ref, c[a].refers = <<ref>>
        PROVE  \E j \in DOMAIN c : /\ c[j].kind = "algorithm" /\ c[j].ref = ref
                                   /\ c[j].vulnerable <=> ref[2] \in Vulnerable
    <2>r. PICK refers : refers = c[a].refers
      OBVIOUS
    <2>1. 1 \in DOMAIN refers /\ refers[1] = ref
      BY <1>2, <2>r
    <2>2. PICK j \in DOMAIN c : /\ c[j].kind = "algorithm" /\ c[j].ref = refers[1]
                                /\ c[j].vulnerable <=> c[j].ref[2] \in Vulnerable
      BY <1>1, <2>1, <2>r DEF Marked
    <2> QED BY <2>1, <2>2
  <1>3. ASSUME NEW j \in DOMAIN c, c[a].refers = <<c[j].ref>>, c[j].vulnerable
        PROVE  c[j].ref[2] \in Vulnerable
    <2>r. PICK ref : ref = c[j].ref
      OBVIOUS
    <2>1. PICK i \in DOMAIN c : /\ c[i].kind = "algorithm" /\ c[i].ref = ref
                                /\ c[i].vulnerable <=> ref[2] \in Vulnerable
      BY <1>2, <1>3, <2>r
    <2>2. i = j
      BY <2>1, <2>r DEF Apart
    <2> QED BY <1>3, <2>1, <2>2, <2>r
  <1>4. ASSUME NEW ref, c[a].refers = <<ref>>, ref[2] \in Vulnerable
        PROVE  \E j \in DOMAIN c : c[a].refers = <<c[j].ref>> /\ c[j].vulnerable
    BY <1>2, <1>4
  <1> QED BY <1>3, <1>4

\* A private key is entered as broken exactly if Assess counts it as classical.
LEMMA KeyEntryBroken ==
    ASSUME NEW objects, NEW k \in DOMAIN objects, NEW o, o = objects[k], NEW m \in Nat,
           Attribute(o, "key_type", "none") # "ECDSA"
    PROVE  o.class \in keyMaterialType /\ KeyEntry(o, m) \in BrokenKeys(EntriesFor(objects)) <=> k \in Classical(objects)
  <1>e. PICK E : E = EntriesFor(objects)
    OBVIOUS
  <1>f. PICK f : f = KeyEntry(o, m)
    OBVIOUS
  <1>n. PICK name : name = NameOfKey(o)
    OBVIOUS
  <1>t. PICK type : type = Attribute(o, "key_type", "none")
    OBVIOUS
  <1>1. f.kind = o.class /\ f.refers = RefTo(name)
    BY <1>f, <1>n DEF KeyEntry
  <1>2. o.class \in keyMaterialType => f \in E
    <2>r. PICK R : R = RefsFor(objects)
      OBVIOUS
    <2>1. KeyRef(o, m) \in R
      BY <2>r DEF RefsFor
    <2>2. RefTo(name) \in Seq(R)
      <3>1. AlgorithmRef(name) \in R
        BY <1>n, <2>r DEF NamesOf, RefsFor
      <3> QED BY <3>1 DEF RefTo
    <2>3. o.class \in keyMaterialType => f \in EntryOf(R)
      BY <1>1, <1>f, <1>n, <2>1, <2>2 DEF KeyEntry, EntryOf
    <2> QED BY <2>3, <2>r, <1>e DEF EntriesFor
  <1>3. IsName(name) /\ (name = NoName <=> type = "none")
        /\ (name # NoName => name[1] = IF type \in {"EC", "ECDSA"} THEN "EC" ELSE type)
    BY <1>n, <1>t, IdentityIsName DEF NameOfKey
  <1>4. (\E ref : f.refers = <<ref>> /\ ref[2] \in Vulnerable) <=> type \in classicalKeyTypes
    <2>1. CASE name = NoName
      <3>1. f.refers = <<>>
        BY <1>1, <2>1 DEF RefTo
      <3>2. \A ref : f.refers # <<ref>>
        BY <3>1
      <3> QED BY <1>3, <2>1, <3>2 DEF classicalKeyTypes
    <2>2. CASE name # NoName
      <3>r. PICK r : r = AlgorithmRef(name)
        OBVIOUS
      <3>1. f.refers = <<r>> /\ r[2] = name[1]
        BY <1>1, <1>3, <2>2, <3>r, AlgorithmRefIs DEF RefTo
      <3>2. \A ref : f.refers = <<ref>> <=> ref = r
        BY <3>1
      <3>3. r[2] = IF type = "EC" THEN "EC" ELSE type
        BY <1>3, <1>t, <2>2, <3>1
      <3>4. r[2] \in Vulnerable <=> type \in classicalKeyTypes
        BY <3>3 DEF Vulnerable, classicalKeyTypes
      <3> QED BY <3>2, <3>4
    <2> QED BY <2>1, <2>2
  <1>5. k \in Classical(objects) <=> o.class = "private-key" /\ type \in classicalKeyTypes
    BY <1>t DEF Classical
  <1>6. "private-key" \in keyMaterialType
    BY DEF keyMaterialType, KeyClasses
  <1>7. o.class \in keyMaterialType /\ f \in BrokenKeys(E) <=> o.class = "private-key" /\ type \in classicalKeyTypes
    BY <1>1, <1>2, <1>4, <1>6 DEF BrokenKeys
  <1> QED BY <1>5, <1>7, <1>e, <1>f

OneNameOfCurves(objects) == \A k \in DOMAIN objects : Attribute(objects[k], "key_type", "none") # "ECDSA"

\* A bill marks as many private keys as Assess counts classical.
LEMMA BillMarksClassical ==
    ASSUME NEW objects, IsList(objects), OneNameOfCurves(objects)
    PROVE  Cardinality(MarkedPrivate(CBOM(objects))) = Cardinality(Classical(objects))
  <1>n. PICK n \in Nat : n = Len(objects) /\ DOMAIN objects = 1..n
    BY DEF IsList
  <1>g. PICK g : KeysEntered(g, objects, n)
    BY <1>n, KeysInTurn
  <1>1. /\ \A k \in 0..n : BillUpTo(g[k], objects, k, 0)
        /\ \A k \in 1..n : KeyStep(g[k - 1].components, g[k].components, objects[k])
    BY <1>n, <1>g, KeysSound
  <1>b. PICK base : base = g[n]
    OBVIOUS
  <1>2. BillUpTo(base, objects, n, 0) /\ base \in Bills(objects)
    <2>1. n \in 0..n
      OBVIOUS
    <2> QED BY <1>1, <1>b, <2>1 DEF BillUpTo
  <1>h. PICK h : CertificatesEntered(h, base, objects, n)
    BY <1>n, <1>2, CertificatesInTurn
  <1>3. /\ \A k \in 0..n : BillUpTo(h[k], objects, n, k) /\ h[k].refs = base.refs
        /\ \A k \in 1..n : CertificateStep(h[k - 1].components, h[k].components, base.refs, objects[k])
    BY <1>n, <1>h, <1>2, CertificatesSound
  <1>c. PICK c : c = h[n].components
    OBVIOUS
  <1>4. CBOM(objects) = c
    BY <1>b, <1>c, <1>g, <1>h DEF CBOM, KeysEntered, CertificatesEntered
  <1>5. c \in Seq(EntriesFor(objects)) /\ Apart(c, objects)
    <2>1. n \in 0..n
      OBVIOUS
    <2>2. BillUpTo(h[n], objects, n, n)
      BY <1>3, <2>1
    <2> QED BY <1>c, <2>2 DEF BillUpTo, Sound
  <1>6. Marked(c)
    <2>1. Weighed(base.components)
      BY <1>n, <1>g, <1>1, <1>b, KeysWeighed
    <2>2. Marked(base.components)
      <3>b. PICK b \in Nat : b = Len(base.components)
        BY <1>2 DEF BillUpTo
      <3>1. Sound(base.components, objects, n, 0, b)
        BY <1>2, <3>b DEF BillUpTo
      <3> QED BY <2>1, <3>1, WeighedMarked
    <2> QED BY <1>n, <1>h, <1>3, <1>c, <2>2, BillsMarked
  <1>s. PICK S : S = BrokenKeys(EntriesFor(objects))
    OBVIOUS
  <1>t. PICK T : T = Classical(objects)
    OBVIOUS
  <1>7. Cardinality(MarkedPrivate(c)) = CountOf(c, S)
    BY <1>5, <1>6, <1>s, MarksOfBill DEF CountOf
  <1>8. \A x \in S : x.kind = "private-key"
    BY <1>s DEF BrokenKeys
  <1>9. CountOf(h[n].components, S) = CountOf(base.components, S)
    <2>1. \A x \in S : x.kind \notin {"algorithm", "certificate"}
      BY <1>8
    <2> QED BY <1>n, <1>h, <1>3, <2>1, CertificatesUncounted
  <1>10. \A k \in 1..n, m \in Nat : k \in T <=> objects[k].class \in keyMaterialType /\ KeyEntry(objects[k], m) \in S
    BY <1>n, <1>s, <1>t, KeyEntryBroken DEF OneNameOfCurves
  <1>11. CountOf(g[n].components, S) = CountUpTo(T, n)
    <2>1. \A x \in S : x.kind # "algorithm"
      BY <1>8
    <2>2. \A k \in 0..n : CountOf(g[k].components, S) = CountUpTo(T, k) /\ CountUpTo(T, k) \in Nat
      BY <1>n, <1>g, <1>1, <1>10, <2>1, KeysCounted
    <2>3. n \in 0..n
      OBVIOUS
    <2> QED BY <2>2, <2>3
  <1>12. CountUpTo(T, n) = Cardinality(T)
    <2>1. {i \in 1..n : i \in T} = T
      BY <1>n, <1>t DEF Classical
    <2> QED BY <2>1 DEF CountUpTo
  <1> QED BY <1>4, <1>7, <1>9, <1>11, <1>12, <1>b, <1>c, <1>t

-----------------------------------------------------------------------------
(* Exposure and readiness.                                                  *)

Urgent(objects) ==
    {i \in Classical(objects) : Holds(objects[i], "decrypt") \/ Holds(objects[i], "unwrap")}
ClassAndFlags(objects) ==
    \A i \in DOMAIN objects :
        Has(objects[i], "class") /\ \A flag \in Flags : Has(objects[i], flag) => objects[i][flag] \in BOOLEAN
RSAWith(objects, flag) ==
    {i \in DOMAIN objects :
        LET o == objects[i]
        IN  o.class = "private-key" /\ Has(o, "class") /\ Has(o, "key_type") /\ o.key_type = "RSA"
            /\ Has(o, flag) /\ o[flag] = TRUE}

LooksFor(n, flag) == (n = 3 /\ flag = "decrypt") \/ (n = 4 /\ flag = "unwrap")

\* A rule of the migration pack about RSA keys and a flag finds the RSA keys that have it.
LEMMA FoundByFlag ==
    ASSUME NEW inv, NEW n, NEW flag, LooksFor(n, flag)
    PROVE  FoundBy(inv, n) = RSAWith(inv.objects, flag)
  <1>m. PICK match : match = PqcmMatch[n]
    OBVIOUS
  <1>1. match.class = "private-key" /\ match.key_type = "RSA" /\ match[flag] = TRUE
        /\ DOMAIN match = {"class", "key_type", flag}
    <2>1. CASE n = 3 /\ flag = "decrypt"
      <3>1. match = [class |-> "private-key", key_type |-> "RSA", decrypt |-> TRUE]
        BY <1>m, <2>1 DEF PqcmMatch
      <3> QED BY <2>1, <3>1
    <2>2. CASE n = 4 /\ flag = "unwrap"
      <3>1. match = [class |-> "private-key", key_type |-> "RSA", unwrap |-> TRUE]
        BY <1>m, <2>2 DEF PqcmMatch
      <3> QED BY <2>2, <3>1
    <2> QED BY <2>1, <2>2 DEF LooksFor
  <1>2. ASSUME NEW o, NEW facts, NEW c, NEW want, c \in {"class", "key_type", flag}
        PROVE  ConditionHolds(c, want, o, facts) <=> Has(o, c) /\ o[c] = want
    BY <1>2 DEF ConditionHolds, Flags, LooksFor
  <1>3. ASSUME NEW o, NEW facts
        PROVE  matchObject([match |-> match], o, facts) <=>
                  /\ Has(o, "class") /\ o["class"] = "private-key" /\ Has(o, "key_type") /\ o["key_type"] = "RSA"
                  /\ Has(o, flag) /\ o[flag] = TRUE
    <2>1. matchObject([match |-> match], o, facts) <=>
              \A c \in {"class", "key_type", flag} : ConditionHolds(c, match[c], o, facts)
      BY <1>1 DEF matchObject
    <2>2. matchObject([match |-> match], o, facts) <=>
              \A c \in {"class", "key_type", flag} : Has(o, c) /\ o[c] = match[c]
      BY <1>2, <2>1
    <2>3. match["class"] = "private-key" /\ match["key_type"] = "RSA"
      BY <1>1
    <2> QED BY <1>1, <2>2, <2>3
  <1>4. FoundBy(inv, n) = {i \in DOMAIN inv.objects : matchObject([match |-> match], inv.objects[i], [now |-> 0])}
    BY <1>m DEF FoundBy
  <1> QED BY <1>3, <1>4 DEF RSAWith

\* PQCM-003 finds the RSA keys that decrypt, PQCM-004 those that unwrap.
LEMMA FoundToDecryptOrUnwrap ==
    ASSUME NEW inv
    PROVE  /\ FoundBy(inv, 3) = RSAWith(inv.objects, "decrypt")
           /\ FoundBy(inv, 4) = RSAWith(inv.objects, "unwrap")
  <1>1. FoundBy(inv, 3) = RSAWith(inv.objects, "decrypt")
    <2>1. LooksFor(3, "decrypt")
      BY DEF LooksFor
    <2> QED BY <2>1, FoundByFlag
  <1>2. FoundBy(inv, 4) = RSAWith(inv.objects, "unwrap")
    <2>1. LooksFor(4, "unwrap")
      BY DEF LooksFor
    <2> QED BY <2>1, FoundByFlag
  <1> QED BY <1>1, <1>2

\* What Assess counts agrees with what the migration pack finds.
LEMMA ExposureAgrees ==
    ASSUME NEW inv, IsList(inv.objects), ClassAndFlags(inv.objects)
    PROVE  LET exposure == Assess(inv.objects)
               urgent == FoundBy(inv, 3) \cup FoundBy(inv, 4)
           IN  /\ exposure.ClassicalPrivateKeys = Cardinality(Classical(inv.objects))
               /\ exposure.ClassicalPrivateKeys + exposure.PQCPrivateKeys <= exposure.TotalPrivateKeys
               /\ Cardinality(urgent) <= exposure.HarvestNowDecryptLater
               /\ (\A i \in With(inv.objects, "key_type") : inv.objects[i].key_type = "RSA") =>
                        Cardinality(urgent) = exposure.HarvestNowDecryptLater
  <1>o. PICK objects : objects = inv.objects
    OBVIOUS
  <1>p. PICK P : P = {i \in DOMAIN objects : objects[i].class = "private-key"}
    OBVIOUS
  <1>c. PICK C : C = Classical(objects)
    OBVIOUS
  <1>q. PICK Q : Q = {i \in P : Attribute(objects[i], "key_type", "none") \in pqcKeyTypes}
    OBVIOUS
  <1>h. PICK H : H = Urgent(objects)
    OBVIOUS
  <1>u. PICK U : U = FoundBy(inv, 3) \cup FoundBy(inv, 4)
    OBVIOUS
  <1>e. PICK exposure : exposure = Assess(inv.objects)
    OBVIOUS
  <1>1. /\ exposure.ClassicalPrivateKeys = Cardinality(C) /\ exposure.PQCPrivateKeys = Cardinality(Q)
        /\ exposure.TotalPrivateKeys = Cardinality(P) /\ exposure.HarvestNowDecryptLater = Cardinality(H)
    <2>1. C = {i \in P : Attribute(objects[i], "key_type", "none") \in classicalKeyTypes}
      BY <1>c, <1>p DEF Classical
    <2>2. H = {i \in C : Holds(objects[i], "decrypt") \/ Holds(objects[i], "unwrap")}
      BY <1>c, <1>h DEF Urgent
    <2> QED BY <1>e, <1>o, <1>p, <1>q, <2>1, <2>2 DEF Assess
  <1>2. IsFiniteSet(P)
    <2>1. IsFiniteSet(DOMAIN objects)
      BY <1>o, FirstNumbers DEF IsList
    <2>2. P \subseteq DOMAIN objects
      BY <1>p
    <2> QED BY <2>1, <2>2, FS_Subset
  <1>3. C \subseteq P /\ Q \subseteq P /\ H \subseteq C /\ C \cap Q = {}
    BY <1>p, <1>c, <1>q, <1>h DEF Classical, Urgent, classicalKeyTypes, pqcKeyTypes
  <1>4. IsFiniteSet(C) /\ IsFiniteSet(Q) /\ IsFiniteSet(H)
    <2>1. IsFiniteSet(C) /\ IsFiniteSet(Q)
      BY <1>2, <1>3, FS_Subset
    <2> QED BY <1>3, <2>1, FS_Subset
  <1>5. Cardinality(C) + Cardinality(Q) <= Cardinality(P)
    <2>1. Cardinality(C \cup Q) = Cardinality(C) + Cardinality(Q) - Cardinality(C \cap Q)
      BY <1>4, FS_Union
    <2>2. Cardinality(C \cap Q) = 0
      BY <1>3, FS_EmptySet
    <2>3. C \cup Q \subseteq P
      BY <1>3
    <2>4. Cardinality(C \cup Q) <= Cardinality(P)
      BY <1>2, <2>3, FS_Subset
    <2>5. Cardinality(C) \in Nat /\ Cardinality(Q) \in Nat
      BY <1>4, FS_CardinalityType
    <2> QED BY <2>1, <2>2, <2>4, <2>5
  <1>6. ASSUME NEW i
        PROVE  i \in U <=> /\ i \in DOMAIN objects /\ objects[i].class = "private-key" /\ Has(objects[i], "class")
                           /\ Has(objects[i], "key_type") /\ objects[i].key_type = "RSA"
                           /\ \/ Has(objects[i], "decrypt") /\ objects[i]["decrypt"] = TRUE
                              \/ Has(objects[i], "unwrap") /\ objects[i]["unwrap"] = TRUE
    <2>1. i \in FoundBy(inv, 3) <=>
              /\ i \in DOMAIN objects /\ objects[i].class = "private-key" /\ Has(objects[i], "class")
              /\ Has(objects[i], "key_type") /\ objects[i].key_type = "RSA"
              /\ Has(objects[i], "decrypt") /\ objects[i]["decrypt"] = TRUE
      <3>1. FoundBy(inv, 3) = RSAWith(objects, "decrypt")
        BY <1>o, FoundToDecryptOrUnwrap
      <3> QED BY <3>1 DEF RSAWith
    <2>2. i \in FoundBy(inv, 4) <=>
              /\ i \in DOMAIN objects /\ objects[i].class = "private-key" /\ Has(objects[i], "class")
              /\ Has(objects[i], "key_type") /\ objects[i].key_type = "RSA"
              /\ Has(objects[i], "unwrap") /\ objects[i]["unwrap"] = TRUE
      <3>1. FoundBy(inv, 4) = RSAWith(objects, "unwrap")
        BY <1>o, FoundToDecryptOrUnwrap
      <3> QED BY <3>1 DEF RSAWith
    <2> QED BY <1>u, <2>1, <2>2
  <1>7. U \subseteq H
    <2> SUFFICES ASSUME NEW i \in U PROVE i \in H
      OBVIOUS
    <2>1. Attribute(objects[i], "key_type", "none") = "RSA"
      BY <1>6 DEF Attribute
    <2>2. Holds(objects[i], "decrypt") \/ Holds(objects[i], "unwrap")
      BY <1>6 DEF Holds
    <2> QED BY <1>6, <1>h, <2>1, <2>2 DEF Urgent, Classical, classicalKeyTypes
  <1>8. ASSUME \A i \in With(objects, "key_type") : objects[i].key_type = "RSA"
        PROVE  H \subseteq U
    <2> SUFFICES ASSUME NEW i \in H PROVE i \in U
      OBVIOUS
    <2>1. i \in DOMAIN objects /\ objects[i].class = "private-key"
          /\ Attribute(objects[i], "key_type", "none") \in classicalKeyTypes
          /\ (Holds(objects[i], "decrypt") \/ Holds(objects[i], "unwrap"))
      BY <1>h DEF Urgent, Classical
    <2>2. Has(objects[i], "key_type") /\ objects[i].key_type = "RSA"
      <3>1. Has(objects[i], "key_type")
        BY <2>1 DEF Attribute, classicalKeyTypes
      <3> QED BY <1>8, <2>1, <3>1 DEF With
    <2>3. \/ Has(objects[i], "decrypt") /\ objects[i]["decrypt"] = TRUE
          \/ Has(objects[i], "unwrap") /\ objects[i]["unwrap"] = TRUE
      BY <1>o, <2>1 DEF Holds, ClassAndFlags, Flags
    <2>4. Has(objects[i], "class")
      BY <1>o, <2>1 DEF ClassAndFlags
    <2> QED BY <1>6, <2>1, <2>2, <2>3, <2>4
  <1>9. Cardinality(U) <= Cardinality(H)
    BY <1>4, <1>7, FS_Subset
  <1>10. (\A i \in With(objects, "key_type") : objects[i].key_type = "RSA") => Cardinality(U) = Cardinality(H)
    BY <1>7, <1>8
  <1> QED BY <1>1, <1>5, <1>9, <1>10, <1>o, <1>c, <1>e, <1>u

\* What Detect advertises agrees with what the migration pack misses.
LEMMA MissingDetected ==
    ASSUME NEW inv
    PROVE  LET detection == Detect(inv.mechanisms)
           IN  /\ FoundMissing(inv, 1) => "ML-DSA" \notin detection.advertised \cup detection.incomplete
               /\ FoundMissing(inv, 2) => "ML-KEM" \notin detection.advertised \cup detection.incomplete
               /\ detection.verdict = "ready" => ~FoundMissing(inv, 1) /\ ~FoundMissing(inv, 2)
  <1>m. PICK mechanisms : mechanisms = inv.mechanisms
    OBVIOUS
  <1>d. PICK detection : detection = Detect(mechanisms)
    OBVIOUS
  <1>1. ASSUME NEW n, NEW family, NEW missing, PqcmMatch[n] = [mechanism_missing |-> missing],
               n \in 1..5, family \in pqcKeyTypes, {Families[family].keyGen, Families[family].op} = missing
        PROVE  FoundMissing(inv, n) => family \notin detection.advertised \cup detection.incomplete
    <2>r. PICK rule : rule = PqcMigration.rules[n]
      OBVIOUS
    <2>1. rule.match = [mechanism_missing |-> missing]
      <3>1. DOMAIN PqcmMatch = 1..5
        BY DEF PqcmMatch
      <3>2. rule = [id |-> Pqcm(n), severity |-> "info", match |-> PqcmMatch[n]]
        BY <1>1, <2>r, <3>1 DEF PqcMigration
      <3> QED BY <1>1, <3>2
    <2>2. evalMechanismRule(mechanisms, rule) # <<>> => missing \cap mechanisms = {}
      <3>1. ~Has(rule.match, "mechanism_any_of") /\ rule.match.mechanism_missing = missing
        BY <2>1 DEF Has
      <3> QED BY <3>1 DEF evalMechanismRule
    <2>3. FoundMissing(inv, n) => missing \cap mechanisms = {}
      BY <2>2, <2>r, <1>m DEF FoundMissing
    <2>4. missing # {}
      BY <1>1
    <2>5. family \in detection.advertised => missing \subseteq mechanisms
      BY <1>1, <1>d DEF Detect
    <2>6. family \in detection.incomplete => missing \cap mechanisms # {}
      BY <1>1, <1>d DEF Detect
    <2> QED BY <2>3, <2>4, <2>5, <2>6
  <1>2. FoundMissing(inv, 1) => "ML-DSA" \notin detection.advertised \cup detection.incomplete
    <2>f. PICK family : family = "ML-DSA"
      OBVIOUS
    <2>s. PICK missing : missing = {"CKM_ML_DSA", "CKM_ML_DSA_KEY_PAIR_GEN"}
      OBVIOUS
    <2>1. {Families[family].keyGen, Families[family].op} = missing /\ family \in pqcKeyTypes
      BY <2>f, <2>s DEF Families, pqcKeyTypes
    <2>2. PqcmMatch[1] = [mechanism_missing |-> missing] /\ 1 \in 1..5
      BY <2>s DEF PqcmMatch
    <2> QED BY <1>1, <2>f, <2>1, <2>2
  <1>3. FoundMissing(inv, 2) => "ML-KEM" \notin detection.advertised \cup detection.incomplete
    <2>f. PICK family : family = "ML-KEM"
      OBVIOUS
    <2>s. PICK missing : missing = {"CKM_ML_KEM", "CKM_ML_KEM_KEY_PAIR_GEN"}
      OBVIOUS
    <2>1. {Families[family].keyGen, Families[family].op} = missing /\ family \in pqcKeyTypes
      BY <2>f, <2>s DEF Families, pqcKeyTypes
    <2>2. PqcmMatch[2] = [mechanism_missing |-> missing] /\ 2 \in 1..5
      BY <2>s DEF PqcmMatch
    <2> QED BY <1>1, <2>f, <2>1, <2>2
  <1>4. detection.verdict = "ready" => {"ML-KEM", "ML-DSA"} \subseteq detection.advertised
    <2>a. PICK advertised : advertised = {f \in pqcKeyTypes : {Families[f].keyGen, Families[f].op} \subseteq mechanisms}
      OBVIOUS
    <2>1. detection.advertised = advertised
      BY <1>d, <2>a DEF Detect
    <2>2. detection.verdict = CASE {"ML-KEM", "ML-DSA"} \subseteq advertised -> "ready"
                                [] ~({"ML-KEM", "ML-DSA"} \subseteq advertised) /\ advertised # {} -> "partial"
                                [] OTHER -> "not-ready"
      BY <1>d, <2>a DEF Detect
    <2> QED BY <2>1, <2>2
  <1> QED BY <1>2, <1>3, <1>4, <1>m, <1>d

\* What a list has at some places is in it at one of them.
LEMMA AtFromThere ==
    ASSUME NEW E, NEW list \in Seq(E), NEW places
    PROVE  \A i \in DOMAIN At(list, places) : \E k \in DOMAIN list : k \in places /\ At(list, places)[i] = list[k]
  <1>n. PICK n \in Nat : n = Len(list) /\ DOMAIN list = 1..n
    OBVIOUS
  <1>g. PICK g : Reached(g, E, list, places)
    BY AtInTurn
  <1> DEFINE There(s) == \A i \in DOMAIN s : \E k \in 1..n : k \in places /\ s[i] = list[k]
             U == {k \in 0..n : There(g[k])}
  <1>1. 0 \in U
    <2>1. g[0] = <<>> /\ DOMAIN <<>> = {}
      BY <1>g DEF Reached
    <2> QED BY <2>1
  <1>2. ASSUME NEW k \in 1..n, k - 1 \in U PROVE k \in U
    <2>s. PICK s : s = g[k - 1]
      OBVIOUS
    <2>o. PICK o : o = list[k]
      OBVIOUS
    <2>1. s \in Seq(E) /\ o \in E /\ g[k] = IF k \in places THEN Append(s, o) ELSE s
      <3>1. k - 1 \in 0..Len(list) /\ k \in 1..Len(list)
        BY <1>n
      <3> QED BY <1>g, <3>1, <2>s, <2>o DEF Reached
    <2>2. There(s)
      BY <1>2, <2>s
    <2>3. CASE k \notin places
      BY <2>1, <2>2, <2>3
    <2>4. CASE k \in places
      <3>l. PICK l \in Nat : l = Len(s) /\ DOMAIN s = 1..l
        BY <2>1
      <3>t. PICK t : t = Append(s, o)
        OBVIOUS
      <3>1. DOMAIN t = 1..l + 1 /\ t[l + 1] = o /\ \A i \in 1..l : t[i] = s[i]
        BY <2>1, <3>l, <3>t
      <3>2. ASSUME NEW i \in 1..l + 1 PROVE \E j \in 1..n : j \in places /\ t[i] = list[j]
        <4>1. CASE i \in 1..l
          BY <2>2, <3>l, <3>1, <4>1
        <4>2. CASE i = l + 1
          BY <2>4, <2>o, <3>1, <4>2
        <4>3. i \in 1..l \/ i = l + 1
          OBVIOUS
        <4> QED BY <4>1, <4>2, <4>3
      <3>3. There(t)
        BY <3>1, <3>2
      <3>4. There(g[k])
        BY <2>1, <2>4, <3>3, <3>t
      <3> QED BY <3>4
    <2> QED BY <2>3, <2>4
  <1>3. n \in U
    <2> HIDE DEF U
    <2>1. 0..n \subseteq U
      BY <1>1, <1>2, UpTo
    <2>2. n \in 0..n
      OBVIOUS
    <2> QED BY <2>1, <2>2
  <1>4. g[n] = At(list, places)
    BY <1>g, <1>n DEF Reached
  <1>5. There(g[n])
    BY <1>3
  <1> QED BY <1>4, <1>5, <1>n

-----------------------------------------------------------------------------
(* The standing of a certificate.                                           *)

CertificateTyped(cert) ==
    /\ cert.not_before \in Int /\ cert.not_after \in Int /\ cert.is_ca \in BOOLEAN /\ cert.self_signed \in BOOLEAN

\* What the monitor says of a certificate and what the rules find.
StandingAgrees(entry, facts, now, warnDays) ==
    LET o == entry.object
        says(c, want) == ConditionHolds(c, want, o, facts)
        warned(w) == w \in entry.warnings
    IN  /\ entry.status = "expired" <=> says("cert_expired", TRUE) \/ o.certificate.not_after = now
        /\ entry.status = "expiring" <=> says("cert_expires_within_days", warnDays)
        /\ warned("key mismatch") <=> says("cert_key_mismatch", TRUE)
        /\ warned("not yet valid") <=> says("cert_not_yet_valid", TRUE)
        /\ warned("CA without keyCertSign") <=> says("cert_ca_without_keycertsign", TRUE)
        /\ warned("chain unverified") <=> says("cert_chain_broken", TRUE)
        /\ warned("self-signed") <=> says("cert_self_signed", TRUE) /\ says("cert_is_ca", FALSE)
        /\ warned("weak RSA key") <=> says("cert_key_size_lt", WeakBits) /\ says("cert_pubkey_alg_in", {"RSA"})

\* The status of the monitor agrees with the conditions about the end of validity.
LEMMA StatusAgrees ==
    ASSUME NEW cert, CertificateTyped(cert), NEW now \in Int, NEW warnDays
    PROVE  /\ Status(cert, now, warnDays) = "expired" <=>
                  CertConditionHolds("cert_expired", TRUE, cert, now) \/ cert.not_after = now
           /\ Status(cert, now, warnDays) = "expiring" <=>
                  CertConditionHolds("cert_expires_within_days", warnDays, cert, now)
  <1>s. PICK status : status = Status(cert, now, warnDays)
    OBVIOUS
  <1>l. PICK left \in Int : left = cert.not_after - now
    BY DEF CertificateTyped
  <1>e. PICK end \in Int : end = cert.not_after
    BY DEF CertificateTyped
  <1>b. PICK bound : bound = warnDays * Day
    OBVIOUS
  <1>1. status = CASE left <= 0 -> "expired"
                   [] left > 0 /\ left <= bound -> "expiring"
                   [] OTHER -> "ok"
    BY <1>s, <1>l, <1>b DEF Status
  <1>2. CertConditionHolds("cert_expired", TRUE, cert, now) <=> end < now
    BY <1>e DEF CertConditionHolds
  <1>3. CertConditionHolds("cert_expires_within_days", warnDays, cert, now) <=> left > 0 /\ left <= bound
    BY <1>l, <1>b DEF CertConditionHolds
  <1>4. left <= 0 <=> end < now \/ end = now
    BY <1>l, <1>e
  <1>5. status = "expired" <=> left <= 0
    BY <1>1
  <1>6. status = "expiring" <=> left > 0 /\ left <= bound
    BY <1>1
  <1> QED BY <1>2, <1>3, <1>4, <1>5, <1>6, <1>s, <1>e

\* The conditions on a certificate, for an object that has one.
LEMMA OnCertificates ==
    ASSUME NEW o, Has(o, "certificate"), NEW facts, NEW want,
           NEW c, c \in {"cert_expired", "cert_expires_within_days", "cert_not_yet_valid", "cert_ca_without_keycertsign",
                         "cert_chain_broken", "cert_self_signed", "cert_is_ca", "cert_key_size_lt", "cert_pubkey_alg_in"}
    PROVE  ConditionHolds(c, want, o, facts) <=> CertConditionHolds(c, want, o.certificate, facts.now)
  BY DEF ConditionHolds, Flags

\* The warnings that are about the certificate alone.
WarningsStand(warnings, o, facts) ==
    LET says(c, want) == ConditionHolds(c, want, o, facts)
    IN  /\ "not yet valid" \in warnings <=> says("cert_not_yet_valid", TRUE)
        /\ "CA without keyCertSign" \in warnings <=> says("cert_ca_without_keycertsign", TRUE)
        /\ "chain unverified" \in warnings <=> says("cert_chain_broken", TRUE)
        /\ "self-signed" \in warnings <=> says("cert_self_signed", TRUE) /\ says("cert_is_ca", FALSE)
        /\ "weak RSA key" \in warnings <=> says("cert_key_size_lt", WeakBits) /\ says("cert_pubkey_alg_in", {"RSA"})

\* The warnings of the monitor agree with the conditions that ask for the same.
LEMMA WarningsAgree ==
    ASSUME NEW o, NEW objects, NEW now, NEW facts, facts.now = now,
           Has(o, "certificate"), CertificateTyped(o.certificate), now \in Int
    PROVE  WarningsStand(certWarnings(o, objects, now), o, facts)
  <1>c. PICK cert : cert = o.certificate
    OBVIOUS
  <1>w. PICK warnings : warnings = certWarnings(o, objects, now)
    OBVIOUS
  <1>t. CertificateTyped(cert)
    BY <1>c
  <1>1. "not yet valid" \in warnings <=> ConditionHolds("cert_not_yet_valid", TRUE, o, facts)
    <2>1. "not yet valid" \in warnings <=> cert.not_before > now
      BY <1>c, <1>w DEF certWarnings
    <2>2. ConditionHolds("cert_not_yet_valid", TRUE, o, facts) <=> CertConditionHolds("cert_not_yet_valid", TRUE, cert, now)
      BY <1>c, OnCertificates
    <2>3. CertConditionHolds("cert_not_yet_valid", TRUE, cert, now) <=> cert.not_before > now
      BY <1>t DEF CertConditionHolds, CertificateTyped
    <2> QED BY <2>1, <2>2, <2>3
  <1>2. "CA without keyCertSign" \in warnings <=> ConditionHolds("cert_ca_without_keycertsign", TRUE, o, facts)
    <2>1. "CA without keyCertSign" \in warnings <=> cert.is_ca /\ "keyCertSign" \notin cert.key_usage
      BY <1>c, <1>w DEF certWarnings
    <2>2. ConditionHolds("cert_ca_without_keycertsign", TRUE, o, facts)
          <=> CertConditionHolds("cert_ca_without_keycertsign", TRUE, cert, now)
      BY <1>c, OnCertificates
    <2>3. CertConditionHolds("cert_ca_without_keycertsign", TRUE, cert, now)
          <=> cert.is_ca /\ "keyCertSign" \notin cert.key_usage
      BY DEF CertConditionHolds
    <2> QED BY <2>1, <2>2, <2>3
  <1>3. "chain unverified" \in warnings <=> ConditionHolds("cert_chain_broken", TRUE, o, facts)
    <2>1. "chain unverified" \in warnings <=> Has(cert, "chain_status") /\ cert.chain_status = "unverified"
      BY <1>c, <1>w DEF certWarnings
    <2>2. ConditionHolds("cert_chain_broken", TRUE, o, facts) <=> CertConditionHolds("cert_chain_broken", TRUE, cert, now)
      BY <1>c, OnCertificates
    <2>3. CertConditionHolds("cert_chain_broken", TRUE, cert, now)
          <=> Has(cert, "chain_status") /\ cert.chain_status = "unverified"
      BY DEF CertConditionHolds
    <2> QED BY <2>1, <2>2, <2>3
  <1>4. "self-signed" \in warnings <=>
            ConditionHolds("cert_self_signed", TRUE, o, facts) /\ ConditionHolds("cert_is_ca", FALSE, o, facts)
    <2>1. "self-signed" \in warnings <=> cert.self_signed /\ ~cert.is_ca
      BY <1>c, <1>w DEF certWarnings
    <2>2. /\ ConditionHolds("cert_self_signed", TRUE, o, facts) <=> CertConditionHolds("cert_self_signed", TRUE, cert, now)
          /\ ConditionHolds("cert_is_ca", FALSE, o, facts) <=> CertConditionHolds("cert_is_ca", FALSE, cert, now)
      BY <1>c, OnCertificates
    <2>3. /\ CertConditionHolds("cert_self_signed", TRUE, cert, now) <=> cert.self_signed
          /\ CertConditionHolds("cert_is_ca", FALSE, cert, now) <=> ~cert.is_ca
      BY <1>t DEF CertConditionHolds, CertificateTyped
    <2> QED BY <2>1, <2>2, <2>3
  <1>5. "weak RSA key" \in warnings <=>
            ConditionHolds("cert_key_size_lt", WeakBits, o, facts) /\ ConditionHolds("cert_pubkey_alg_in", {"RSA"}, o, facts)
    <2>1. "weak RSA key" \in warnings <=> cert.public_key_algorithm = "RSA" /\ Has(cert, "bits") /\ cert.bits < WeakBits
      BY <1>c, <1>w DEF certWarnings
    <2>2. /\ ConditionHolds("cert_key_size_lt", WeakBits, o, facts)
             <=> CertConditionHolds("cert_key_size_lt", WeakBits, cert, now)
          /\ ConditionHolds("cert_pubkey_alg_in", {"RSA"}, o, facts)
             <=> CertConditionHolds("cert_pubkey_alg_in", {"RSA"}, cert, now)
      BY <1>c, OnCertificates
    <2>3. CertConditionHolds("cert_key_size_lt", WeakBits, cert, now) <=> Has(cert, "bits") /\ cert.bits < WeakBits
      BY DEF CertConditionHolds
    <2>4. CertConditionHolds("cert_pubkey_alg_in", {"RSA"}, cert, now) <=> cert.public_key_algorithm = "RSA"
      BY DEF CertConditionHolds
    <2> QED BY <2>1, <2>2, <2>3, <2>4
  <1> QED BY <1>1, <1>2, <1>3, <1>4, <1>5, <1>w DEF WarningsStand

\* The monitor and the rules, each with a table of its own, see the same mismatches.
LEMMA MismatchAgrees ==
    ASSUME NEW objects, NEW now, NEW i \in DOMAIN objects, NEW o, o = objects[i],
           o.class = "certificate", Has(o, "certificate")
    PROVE  "key mismatch" \in certWarnings(o, objects, now)
           <=> ConditionHolds("cert_key_mismatch", TRUE, o, buildFacts(objects, now))
  <1>f. PICK facts : facts = buildFacts(objects, now)
    OBVIOUS
  <1>p. PICK fps : fps = IF Has(o, "id") THEN keyFPs(objects, o.id) ELSE {}
    OBVIOUS
  <1>1. "key mismatch" \in certWarnings(o, objects, now) <=>
            fps # {} /\ Has(o.certificate, "fingerprint") /\ o.certificate.fingerprint \notin fps
    BY <1>p DEF certWarnings
  <1>2. ConditionHolds("cert_key_mismatch", TRUE, o, facts) <=> certKeyMismatch(o, facts)
    <2>1. ConditionHolds("cert_key_mismatch", TRUE, o, facts) <=> (certKeyMismatch(o, facts) = TRUE)
      BY DEF ConditionHolds, Flags
    <2>2. certKeyMismatch(o, facts) \in BOOLEAN
      BY DEF certKeyMismatch
    <2> QED BY <2>1, <2>2
  <1>3. Has(o, "id") => facts.keyFingerprints[o.id] = fps
    <2> SUFFICES ASSUME Has(o, "id") PROVE facts.keyFingerprints[o.id] = fps
      OBVIOUS
    <2>1. facts.keyFingerprints[o.id] = {objects[j].fingerprint : j \in KeysOfId(objects, i)}
      BY <1>f, PrintsOfId
    <2>2. KeysOfId(objects, i) = {j \in DOMAIN objects :
                /\ objects[j].class \in KeyClasses
                /\ Has(objects[j], "id") /\ objects[j].id = o.id /\ Has(objects[j], "fingerprint")}
      BY DEF KeysOfId, SameId
    <2> QED BY <1>p, <2>1, <2>2 DEF keyFPs
  <1> QED BY <1>1, <1>2, <1>3, <1>f, <1>p DEF certKeyMismatch

CertificatesTyped(objects) == \A i \in DOMAIN objects : Has(objects[i], "certificate") => CertificateTyped(objects[i].certificate)

\* The monitor and the rules agree on every certificate.
LEMMA StandingsAgree ==
    ASSUME NEW objects, IsList(objects), CertificatesTyped(objects), NEW now \in Int, NEW warnDays,
           NEW entries, entries = Classify(objects, now, warnDays), NEW k \in DOMAIN entries
    PROVE  StandingAgrees(entries[k], buildFacts(objects, now), now, warnDays)
  <1>f. PICK facts : facts = buildFacts(objects, now)
    OBVIOUS
  <1>p. PICK places : places = {i \in With(objects, "certificate") : objects[i].class = "certificate"}
    OBVIOUS
  <1>c. PICK certs : certs = At(objects, places)
    OBVIOUS
  <1>1. entries = [i \in DOMAIN certs |->
            [object |-> certs[i], status |-> Status(certs[i].certificate, now, warnDays),
             warnings |-> certWarnings(certs[i], objects, now)]]
    BY <1>p, <1>c DEF Classify
  <1>2. k \in DOMAIN certs
    BY <1>1
  <1>3. PICK i \in DOMAIN objects : i \in places /\ certs[k] = objects[i]
    <2>1. objects \in Seq(Found(objects))
      BY DEF IsList
    <2> QED BY <1>2, <1>c, <2>1, AtFromThere
  <1>o. PICK o : o = objects[i]
    OBVIOUS
  <1>e. PICK entry : entry = entries[k]
    OBVIOUS
  <1>4. /\ entry.object = o /\ entry.status = Status(o.certificate, now, warnDays)
        /\ entry.warnings = certWarnings(o, objects, now)
    BY <1>1, <1>2, <1>3, <1>o, <1>e
  <1>5. o.class = "certificate" /\ Has(o, "certificate") /\ CertificateTyped(o.certificate)
    BY <1>3, <1>o, <1>p DEF With, CertificatesTyped
  <1>6. facts.now = now
    BY <1>f DEF buildFacts
  <1>7. /\ ConditionHolds("cert_expired", TRUE, o, facts) <=> CertConditionHolds("cert_expired", TRUE, o.certificate, now)
        /\ ConditionHolds("cert_expires_within_days", warnDays, o, facts)
           <=> CertConditionHolds("cert_expires_within_days", warnDays, o.certificate, now)
    BY <1>5, <1>6, OnCertificates
  <1>8. /\ entry.status = "expired" <=> ConditionHolds("cert_expired", TRUE, o, facts) \/ o.certificate.not_after = now
        /\ entry.status = "expiring" <=> ConditionHolds("cert_expires_within_days", warnDays, o, facts)
    BY <1>4, <1>5, <1>7, StatusAgrees
  <1>9. "key mismatch" \in entry.warnings <=> ConditionHolds("cert_key_mismatch", TRUE, o, facts)
    BY <1>4, <1>5, <1>f, <1>o, MismatchAgrees
  <1>10. WarningsStand(entry.warnings, o, facts)
    BY <1>4, <1>5, <1>6, WarningsAgree
  <1>11. StandingAgrees(entry, facts, now, warnDays)
    BY <1>4, <1>8, <1>9, <1>10 DEF StandingAgrees, WarningsStand
  <1> QED BY <1>11, <1>e, <1>f

\* All answers about one inventory agree.
LEMMA AnswersConsistent ==
    ASSUME NEW inv \in Inventories, NEW now \in Times, NEW warnDays
    PROVE  Consistent(inv, now, warnDays)
  <1>o. PICK objects : objects = inv.objects
    OBVIOUS
  <1>1. IsList(objects) /\ now \in Int
    BY <1>o, InventoriesAssumption, ObjectsAssumption DEF InventoriesAssumption, ObjectsAssumption
  <1>2. ClassAndFlags(objects) /\ OneNameOfCurves(objects) /\ CertificatesTyped(objects)
    BY <1>o, ObjectsAssumption
       DEF ObjectsAssumption, ClassAndFlags, OneNameOfCurves, CertificatesTyped, CertificateTyped
  <1>b. PICK marked : marked = Cardinality(MarkedPrivate(CBOM(objects)))
    OBVIOUS
  <1>a. PICK exposure : exposure = Assess(objects)
    OBVIOUS
  <1>u. PICK urgent : urgent = FoundBy(inv, 3) \cup FoundBy(inv, 4)
    OBVIOUS
  <1>d. PICK detection : detection = Detect(inv.mechanisms)
    OBVIOUS
  <1>f. PICK facts : facts = buildFacts(objects, now)
    OBVIOUS
  <1>e. PICK entries : entries = Classify(objects, now, warnDays)
    OBVIOUS
  <1>3. /\ marked = exposure.ClassicalPrivateKeys
        /\ exposure.ClassicalPrivateKeys + exposure.PQCPrivateKeys <= exposure.TotalPrivateKeys
        /\ Cardinality(urgent) <= exposure.HarvestNowDecryptLater
        /\ (\A i \in With(objects, "key_type") : objects[i].key_type = "RSA") =>
                Cardinality(urgent) = exposure.HarvestNowDecryptLater
    <2>1. marked = Cardinality(Classical(objects))
      BY <1>1, <1>2, <1>b, BillMarksClassical
    <2>2. IsList(inv.objects) /\ ClassAndFlags(inv.objects)
      BY <1>1, <1>2, <1>o
    <2> QED BY <2>1, <2>2, <1>o, <1>a, <1>u, ExposureAgrees
  <1>4. /\ FoundMissing(inv, 1) => "ML-DSA" \notin detection.advertised \cup detection.incomplete
        /\ FoundMissing(inv, 2) => "ML-KEM" \notin detection.advertised \cup detection.incomplete
        /\ detection.verdict = "ready" => ~FoundMissing(inv, 1) /\ ~FoundMissing(inv, 2)
    BY <1>d, MissingDetected
  <1>5. \A k \in DOMAIN entries : StandingAgrees(entries[k], facts, now, warnDays)
    BY <1>1, <1>2, <1>e, <1>f, StandingsAgree
  <1>6. Consistent(inv, now, warnDays) <=>
        /\ marked = exposure.ClassicalPrivateKeys
        /\ exposure.ClassicalPrivateKeys + exposure.PQCPrivateKeys <= exposure.TotalPrivateKeys
        /\ Cardinality(urgent) <= exposure.HarvestNowDecryptLater
        /\ (\A i \in With(objects, "key_type") : objects[i].key_type = "RSA") =>
                Cardinality(urgent) = exposure.HarvestNowDecryptLater
        /\ FoundMissing(inv, 1) => "ML-DSA" \notin detection.advertised \cup detection.incomplete
        /\ FoundMissing(inv, 2) => "ML-KEM" \notin detection.advertised \cup detection.incomplete
        /\ detection.verdict = "ready" => ~FoundMissing(inv, 1) /\ ~FoundMissing(inv, 2)
        /\ \A k \in DOMAIN entries : StandingAgrees(entries[k], facts, now, warnDays)
    BY <1>o, <1>b, <1>a, <1>u, <1>d, <1>f, <1>e DEF Consistent, StandingAgrees
  <1> QED BY <1>3, <1>4, <1>5, <1>6

\* What is asked about.
PqcInv == asked.by = "pqc" => asked.inv \in Inventories /\ asked.now \in Times

\* On any inventory and at any time the bill of materials, the exposure (pqc.Assess), the
\* readiness (pqc.Detect), the migration pack and the certificate monitor
\* (certmon.Classify) do not contradict each other or the rules.
THEOREM AnswersAgree == DecisionsInit /\ [][DecisionsNext]_asked => []OneAnswer
  <1>1. DecisionsInit => PqcInv
    BY DEF DecisionsInit, Nobody, PqcInv
  <1>2. PqcInv /\ [DecisionsNext]_asked => PqcInv'
    <2> SUFFICES ASSUME PqcInv, [DecisionsNext]_asked PROVE PqcInv'
      OBVIOUS
    <2>1. CASE scan
      BY <2>1 DEF scan, Answer, PqcInv
    <2>2. CASE evidence
      BY <2>2 DEF evidence, Answer, PqcInv
    <2>3. CASE cbom
      BY <2>3 DEF cbom, Answer, PqcInv
    <2>4. CASE pqc
      BY <2>4 DEF pqc, Answer, PqcInv
    <2>5. CASE snapshotDiff
      BY <2>5 DEF snapshotDiff, Answer, PqcInv
    <2>6. CASE preflight
      BY <2>6 DEF preflight, Answer, PqcInv
    <2>7. CASE UNCHANGED asked
      BY <2>7 DEF PqcInv
    <2> QED BY <2>1, <2>2, <2>3, <2>4, <2>5, <2>6, <2>7 DEF DecisionsNext
  <1>3. PqcInv => OneAnswer
    BY AnswersConsistent DEF PqcInv, OneAnswer
  <1> QED BY <1>1, <1>2, <1>3, PTL

-----------------------------------------------------------------------------
(* The drift between two snapshots depends on how many objects a list has of *)
(* each key and on the one it has, if that is all; and neither on the order. *)

\* A list of objects, as a snapshot holds it.
List(objects) == Len(objects) \in Nat /\ DOMAIN objects = 1..Len(objects)

LEMMA DriftCounts ==
    ASSUME NEW objects, List(objects), NEW key
    PROVE  /\ IsFiniteSet(OfKey(objects, key)) /\ HowMany(objects, key) \in Nat
           /\ HowMany(objects, key) = 0 <=> key \notin KeysOf(objects)
           /\ OfKey(objects, key) = {} <=> key \notin KeysOf(objects)
           /\ \A i \in DOMAIN objects : HowMany(objects, key) = 1 /\ objectRef(objects[i]) = key
                => Earliest(objects, key) = objects[i]
  <1> DEFINE P == OfKey(objects, key)
  <1>1. P \in SUBSET (1..Len(objects)) /\ IsFiniteSet(1..Len(objects))
    BY FS_Interval DEF List, OfKey
  <1>2. IsFiniteSet(P) /\ Cardinality(P) \in Nat /\ (Cardinality(P) = 0 <=> P = {})
    BY <1>1, FS_Subset, FS_CardinalityType, FS_EmptySet
  <1>3. P = {} <=> key \notin KeysOf(objects)
    BY DEF OfKey, KeysOf
  <1>4. ASSUME NEW i \in DOMAIN objects, Cardinality(P) = 1, objectRef(objects[i]) = key
        PROVE  Earliest(objects, key) = objects[i]
    <2>1. i \in P
      BY <1>4 DEF OfKey
    <2>2. \E x : P = {x}
      BY <1>2, <1>4, FS_Singleton
    <2>3. P = {i}
      BY <2>1, <2>2
    <2>4. i \in Int
      BY DEF List
    <2>5. Min(P) = i
      <3>1. \A y \in P : i <= y
        BY <2>3, <2>4
      <3>2. \A x \in P : (\A y \in P : x <= y) => x = i
        BY <2>3
      <3> QED BY <2>1, <3>1, <3>2 DEF Min
    <2> QED BY <2>5 DEF Earliest
  <1>5. HowMany(objects, key) = Cardinality(P)
    BY DEF HowMany
  <1> HIDE DEF P
  <1>6. HowMany(objects, key) = 0 <=> key \notin KeysOf(objects)
    BY <1>2, <1>3, <1>5
  <1> QED BY <1>2, <1>3, <1>4, <1>5, <1>6 DEF P

\* Two lists that hold the same for a comparison.
AlikeLists(a, b) ==
    /\ KeysOf(a) = KeysOf(b)
    /\ \A key : HowMany(a, key) = HowMany(b, key)
    /\ \A key \in KeysOf(a) : HowMany(a, key) = 1 => Earliest(a, key) = Earliest(b, key)

LEMMA ReversedIsAlike ==
    ASSUME NEW a, List(a)
    PROVE  List(Reverse(a)) /\ AlikeLists(Reverse(a), a)
  <1> PICK n \in Nat : n = Len(a)
    BY DEF List
  <1> PICK b : b = Reverse(a)
    OBVIOUS
  <1>1. DOMAIN a = 1..n /\ DOMAIN b = 1..n /\ \A i \in 1..n : b[i] = a[(n - i) + 1]
    BY DEF List, Reverse
  <1>2. b \in Seq({b[i] : i \in 1..n}) /\ Len(b) = n
    <2>1. b = [i \in 1..n |-> a[(n - i) + 1]]
      BY DEF Reverse
    <2>2. b \in [1..n -> {b[j] : j \in 1..n}]
      BY <2>1
    <2> QED BY <2>2, FunctionsAreLists
  <1>3. List(b)
    BY <1>1, <1>2 DEF List
  <1>4. \A i \in 1..n : (n - i) + 1 \in 1..n /\ (n - ((n - i) + 1)) + 1 = i /\ a[i] = b[(n - i) + 1]
    <2> TAKE i \in 1..n
    <2>1. (n - i) + 1 \in 1..n /\ (n - ((n - i) + 1)) + 1 = i
      OBVIOUS
    <2> QED BY <1>1, <2>1
  <1>5. KeysOf(b) = KeysOf(a)
    <2>1. \A i \in 1..n : objectRef(a[i]) \in KeysOf(a) /\ objectRef(b[i]) \in KeysOf(b)
      BY <1>1 DEF KeysOf
    <2>2. \A i \in 1..n : objectRef(b[i]) \in KeysOf(a)
      BY <1>1, <1>4, <2>1
    <2>3. \A i \in 1..n : objectRef(a[i]) \in KeysOf(b)
      BY <1>4, <2>1
    <2>4. KeysOf(a) = {objectRef(a[i]) : i \in 1..n} /\ KeysOf(b) = {objectRef(b[i]) : i \in 1..n}
      BY <1>1 DEF KeysOf
    <2> QED BY <2>2, <2>3, <2>4
  <1>6. ASSUME NEW key PROVE HowMany(b, key) = HowMany(a, key)
    <2> DEFINE f == [i \in OfKey(a, key) |-> (n - i) + 1]
    <2>1. OfKey(a, key) \subseteq 1..n /\ OfKey(b, key) \subseteq 1..n
      BY <1>1 DEF OfKey
    <2>2. \A i \in OfKey(a, key) : (n - i) + 1 \in OfKey(b, key)
      BY <1>1, <1>4, <2>1 DEF OfKey
    <2>3. \A i \in OfKey(b, key) : (n - i) + 1 \in OfKey(a, key)
      BY <1>1, <1>4, <2>1 DEF OfKey
    <2>4. f \in [OfKey(a, key) -> OfKey(b, key)]
      BY <2>2
    <2>5. \A i, j \in OfKey(a, key) : f[i] = f[j] => i = j
      BY <2>1
    <2>6. \A j \in OfKey(b, key) : \E i \in OfKey(a, key) : f[i] = j
      <3> TAKE j \in OfKey(b, key)
      <3>1. (n - j) + 1 \in OfKey(a, key) /\ j \in 1..n
        BY <2>1, <2>3
      <3>2. f[(n - j) + 1] = j
        BY <1>4, <3>1
      <3> QED BY <3>1, <3>2
    <2> HIDE DEF f
    <2>7. f \in Bijection(OfKey(a, key), OfKey(b, key))
      BY <2>4, <2>5, <2>6 DEF Bijection, Injection, Surjection, IsInjective
    <2>8. IsFiniteSet(OfKey(a, key))
      BY DriftCounts
    <2> QED BY <2>7, <2>8, FS_Bijection DEF ExistsBijection, HowMany
  <1>7. ASSUME NEW key \in KeysOf(b), HowMany(b, key) = 1 PROVE Earliest(b, key) = Earliest(a, key)
    <2>1. PICK i \in 1..n : objectRef(a[i]) = key
      BY <1>1, <1>5 DEF KeysOf
    <2>2. (n - i) + 1 \in 1..n /\ b[(n - i) + 1] = a[i]
      BY <1>4
    <2>3. HowMany(a, key) = 1
      BY <1>6, <1>7
    <2>4. Earliest(a, key) = a[i]
      BY <1>1, <2>1, <2>3, DriftCounts
    <2>5. Earliest(b, key) = b[(n - i) + 1]
      BY <1>1, <1>3, <1>7, <2>1, <2>2, DriftCounts
    <2> QED BY <2>2, <2>4, <2>5
  <1> QED BY <1>3, <1>5, <1>6, <1>7 DEF AlikeLists

LEMMA AlikeDrift ==
    ASSUME NEW a, NEW b, List(a), List(b), AlikeLists(a, b), NEW c
    PROVE  /\ Surplus(a, c) = Surplus(b, c) /\ Surplus(c, a) = Surplus(c, b)
           /\ Changes(a, c) = Changes(b, c) /\ Changes(c, a) = Changes(c, b)
  <1>1. KeysOf(a) = KeysOf(b) /\ \A key : HowMany(a, key) = HowMany(b, key)
    BY DEF AlikeLists
  <1>2. \A key : OfKey(a, key) # {} <=> OfKey(b, key) # {}
    BY <1>1, DriftCounts
  <1>3. \A key \in KeysOf(a) : HowMany(a, key) = 1 => Earliest(a, key) = Earliest(b, key)
    BY DEF AlikeLists
  <1>4. Surplus(a, c) = Surplus(b, c)
    BY <1>1, <1>2 DEF Surplus
  <1>5. Surplus(c, a) = Surplus(c, b)
    BY <1>1 DEF Surplus
  <1> DEFINE K == {key \in KeysOf(a) \cap KeysOf(c) : HowMany(a, key) = 1 /\ HowMany(c, key) = 1}
  <1>6. \A key \in K : Earliest(a, key) = Earliest(b, key)
    BY <1>3
  <1>7. /\ K = {key \in KeysOf(b) \cap KeysOf(c) : HowMany(b, key) = 1 /\ HowMany(c, key) = 1}
        /\ K = {key \in KeysOf(c) \cap KeysOf(b) : HowMany(c, key) = 1 /\ HowMany(b, key) = 1}
        /\ K = {key \in KeysOf(c) \cap KeysOf(a) : HowMany(c, key) = 1 /\ HowMany(a, key) = 1}
    BY <1>1
  <1>8. /\ Changes(a, c) = UNION {{[object |-> k, field |-> f] : f \in compareAttrs(Earliest(a, k), Earliest(c, k))} : k \in K}
        /\ Changes(b, c) = UNION {{[object |-> k, field |-> f] : f \in compareAttrs(Earliest(b, k), Earliest(c, k))} : k \in K}
        /\ Changes(c, a) = UNION {{[object |-> k, field |-> f] : f \in compareAttrs(Earliest(c, k), Earliest(a, k))} : k \in K}
        /\ Changes(c, b) = UNION {{[object |-> k, field |-> f] : f \in compareAttrs(Earliest(c, k), Earliest(b, k))} : k \in K}
    BY <1>7 DEF Changes
  <1> HIDE DEF K
  <1> QED BY <1>4, <1>5, <1>6, <1>8

LEMMA DriftSymmetric ==
    ASSUME NEW a, NEW b
    PROVE  Changes(a, b) = Changes(b, a)
  <1>1. \A o, n, attributes : Differ(o, n, attributes) = Differ(n, o, attributes)
    BY DEF Differ
  <1>2. \A o, n : compareAttrs(o, n) = compareAttrs(n, o)
    BY <1>1 DEF compareAttrs
  <1> DEFINE K == {key \in KeysOf(a) \cap KeysOf(b) : HowMany(a, key) = 1 /\ HowMany(b, key) = 1}
  <1>3. K = {key \in KeysOf(b) \cap KeysOf(a) : HowMany(b, key) = 1 /\ HowMany(a, key) = 1}
    OBVIOUS
  <1>4. /\ Changes(a, b) = UNION {{[object |-> k, field |-> f] : f \in compareAttrs(Earliest(a, k), Earliest(b, k))} : k \in K}
        /\ Changes(b, a) = UNION {{[object |-> k, field |-> f] : f \in compareAttrs(Earliest(b, k), Earliest(a, k))} : k \in K}
    BY <1>3 DEF Changes
  <1> HIDE DEF K
  <1> QED BY <1>2, <1>4

LEMMA SurplusCounts ==
    ASSUME NEW a, NEW b, List(a), List(b), NEW key
    PROVE  TimesIn(Surplus(a, b), key) =
             IF HowMany(b, key) > HowMany(a, key) THEN HowMany(b, key) - HowMany(a, key) ELSE 0
  <1> DEFINE S == Surplus(a, b)
             entry == [object |-> key, times |-> HowMany(b, key) - HowMany(a, key), duplicate |-> OfKey(a, key) # {}]
             of == {s \in S : s.object = key}
  <1>1. HowMany(a, key) \in Nat /\ HowMany(b, key) \in Nat /\ (HowMany(b, key) = 0 <=> key \notin KeysOf(b))
    BY DriftCounts
  <1>2. CASE HowMany(b, key) > HowMany(a, key)
    <2>1. key \in KeysOf(b)
      BY <1>1, <1>2
    <2>2. entry \in S
      BY <1>2, <2>1 DEF Surplus
    <2>3. \A s \in S : s.object = key => s = entry
      BY DEF Surplus
    <2>4. of = {entry}
      BY <2>2, <2>3
    <2> HIDE DEF S
    <2>5. TimesIn(S, key) = (CHOOSE s \in {entry} : TRUE).times
      BY <2>4 DEF TimesIn
    <2>6. (CHOOSE s \in {entry} : TRUE) = entry
      OBVIOUS
    <2> QED BY <1>2, <2>5, <2>6 DEF S
  <1>3. CASE ~(HowMany(b, key) > HowMany(a, key))
    <2>1. \A s \in S : s.object # key
      BY <1>3 DEF Surplus
    <2> QED BY <1>3, <2>1 DEF TimesIn
  <1> QED BY <1>2, <1>3

\* A list has no surplus over itself and has not changed.
LEMMA NoDrift ==
    ASSUME NEW a, List(a)
    PROVE  Surplus(a, a) = {} /\ Changes(a, a) = {}
  <1>1. \A key : ~(HowMany(a, key) > HowMany(a, key))
    BY DriftCounts
  <1>2. Surplus(a, a) = {}
    BY <1>1 DEF Surplus
  <1>3. \A o, attributes : Differ(o, o, attributes) = {}
    BY DEF Differ
  <1>4. \A o : compareAttrs(o, o) = {}
    BY <1>3 DEF compareAttrs
  <1> QED BY <1>2, <1>4 DEF Changes

\* Of an object that both lists have once, what is not in the drift has not changed.
LEMMA UnchangedIsEqual ==
    ASSUME NEW a, NEW b, List(a), List(b), NEW i \in DOMAIN a, NEW j \in DOMAIN b,
           objectRef(b[j]) = objectRef(a[i]), HowMany(a, objectRef(a[i])) = 1, HowMany(b, objectRef(a[i])) = 1,
           \A f \in ComparedAttributes : [object |-> objectRef(a[i]), field |-> f] \notin Changes(a, b)
    PROVE  \A f \in ComparedAttributes : Differ(a[i], b[j], {f}) = {}
  <1> PICK key : key = objectRef(a[i])
    OBVIOUS
  <1>1. key \in KeysOf(a) /\ key \in KeysOf(b)
    BY DEF KeysOf
  <1>2. Earliest(a, key) = a[i] /\ Earliest(b, key) = b[j]
    BY DriftCounts
  <1>3. \A f \in compareAttrs(a[i], b[j]) : [object |-> key, field |-> f] \in Changes(a, b)
    BY <1>1, <1>2 DEF Changes
  <1>4. \A f \in ComparedAttributes : f \notin compareAttrs(a[i], b[j])
    BY <1>3
  <1>5. \A f \in ComparedAttributes : f \notin Differ(a[i], b[j], ComparedAttributes)
    BY <1>4 DEF compareAttrs
  <1> QED BY <1>5 DEF Differ

LEMMA DriftTells ==
    ASSUME NEW old \in OldInventories \cup NewInventories, NEW new \in OldInventories \cup NewInventories
    PROVE  TellsTheDifference(old, new)
  <1> PICK a : a = old.objects
    OBVIOUS
  <1> PICK b : b = new.objects
    OBVIOUS
  <1> PICK there : there = Compare(old, new)
    OBVIOUS
  <1> PICK back : back = Compare(new, old)
    OBVIOUS
  <1>1. List(a) /\ List(b)
    BY SnapshotsAssumption DEF List
  <1>2. /\ there.TokenChanges = compareToken(old.token, new.token)
        /\ there.MechanismsAdded = new.mechanisms \ old.mechanisms
        /\ there.MechanismsRemoved = old.mechanisms \ new.mechanisms
        /\ there.ObjectsAdded = Surplus(a, b) /\ there.ObjectsRemoved = Surplus(b, a)
        /\ there.ObjectChanges = Changes(a, b)
    BY DEF Compare
  <1>3. /\ back.TokenChanges = compareToken(new.token, old.token)
        /\ back.ObjectsAdded = Surplus(b, a) /\ back.ObjectsRemoved = Surplus(a, b)
        /\ back.ObjectChanges = Changes(b, a)
    BY DEF Compare
  <1>4. ASSUME NEW k
        PROVE  /\ HowMany(a, k) + TimesIn(there.ObjectsAdded, k) = HowMany(b, k) + TimesIn(there.ObjectsRemoved, k)
               /\ TimesIn(there.ObjectsAdded, k) = 0 \/ TimesIn(there.ObjectsRemoved, k) = 0
    <2>1. HowMany(a, k) \in Nat /\ HowMany(b, k) \in Nat
      BY <1>1, DriftCounts
    <2>2. TimesIn(Surplus(a, b), k) = IF HowMany(b, k) > HowMany(a, k) THEN HowMany(b, k) - HowMany(a, k) ELSE 0
      BY <1>1, SurplusCounts
    <2>3. TimesIn(Surplus(b, a), k) = IF HowMany(a, k) > HowMany(b, k) THEN HowMany(a, k) - HowMany(b, k) ELSE 0
      BY <1>1, SurplusCounts
    <2> QED BY <1>2, <2>1, <2>2, <2>3
  <1>5. new.mechanisms = (old.mechanisms \cup there.MechanismsAdded) \ there.MechanismsRemoved
    <2>1. (old.mechanisms \cup (new.mechanisms \ old.mechanisms)) \ (old.mechanisms \ new.mechanisms) = new.mechanisms
      OBVIOUS
    <2> QED BY <1>2, <2>1
  <1>6. /\ back.ObjectsAdded = there.ObjectsRemoved /\ back.ObjectsRemoved = there.ObjectsAdded
        /\ back.TokenChanges = there.TokenChanges /\ back.ObjectChanges = there.ObjectChanges
    <2>1. compareToken(new.token, old.token) = compareToken(old.token, new.token)
      BY DEF compareToken, Differ
    <2> QED BY <1>2, <1>3, <2>1, DriftSymmetric
  <1>7. ASSUME NEW inv \in OldInventories \cup NewInventories
        PROVE  /\ Enumerated(inv).token = inv.token /\ Enumerated(inv).mechanisms = inv.mechanisms
               /\ Enumerated(inv).objects = Reverse(inv.objects)
    BY SnapshotsAssumption DEF Enumerated
  <1>8. Compare(Enumerated(old), new) = there
    <2>1. List(Reverse(a)) /\ AlikeLists(Reverse(a), a)
      BY <1>1, ReversedIsAlike
    <2>2. /\ Surplus(Reverse(a), b) = Surplus(a, b) /\ Surplus(b, Reverse(a)) = Surplus(b, a)
          /\ Changes(Reverse(a), b) = Changes(a, b)
      BY <1>1, <2>1, AlikeDrift
    <2> QED BY <1>7, <2>2 DEF Compare
  <1>9. \A token : compareToken(token, token) = {}
    BY DEF compareToken, Differ
  <1>10. old.token = new.token => there.TokenChanges = {}
    BY <1>2, <1>9
  <1>11. Empty(Compare(new, Enumerated(new)))
    <2>1. List(Reverse(b)) /\ AlikeLists(Reverse(b), b)
      BY <1>1, ReversedIsAlike
    <2>2. /\ Surplus(b, Reverse(b)) = Surplus(b, b) /\ Surplus(Reverse(b), b) = Surplus(b, b)
          /\ Changes(b, Reverse(b)) = Changes(b, b)
      BY <1>1, <2>1, AlikeDrift
    <2>3. Surplus(b, b) = {} /\ Changes(b, b) = {}
      BY <1>1, NoDrift
    <2>4. new.mechanisms \ new.mechanisms = {}
      OBVIOUS
    <2> QED BY <1>7, <1>9, <2>2, <2>3, <2>4 DEF Compare, Empty
  <1>12. ASSUME NEW i \in DOMAIN a, NEW j \in DOMAIN b,
                objectRef(b[j]) = objectRef(a[i]), HowMany(a, objectRef(a[i])) = 1, HowMany(b, objectRef(a[i])) = 1,
                \A f \in ComparedAttributes : [object |-> objectRef(a[i]), field |-> f] \notin there.ObjectChanges
         PROVE  \A f \in ComparedAttributes : Differ(a[i], b[j], {f}) = {}
    BY <1>1, <1>2, <1>12, UnchangedIsEqual
  <1> QED BY <1>4, <1>5, <1>6, <1>8, <1>10, <1>11, <1>12 DEF TellsTheDifference

\* What is compared are two of the snapshots.
DiffInv == asked.by = "diff" => asked.old \in OldInventories /\ asked.new \in NewInventories

\* The drift between two snapshots (snapshot.Compare) is their difference, whatever the
\* order in which the token lists its objects and however many of them look the same.
THEOREM DriftIsTheDifference == DecisionsInit /\ [][DecisionsNext]_asked => []DriftIsDifference
  <1>1. DecisionsInit => DiffInv
    BY DEF DecisionsInit, Nobody, DiffInv
  <1>2. DiffInv /\ [DecisionsNext]_asked => DiffInv'
    <2> SUFFICES ASSUME DiffInv, [DecisionsNext]_asked PROVE DiffInv'
      OBVIOUS
    <2>1. CASE scan
      BY <2>1 DEF scan, Answer, DiffInv
    <2>2. CASE evidence
      BY <2>2 DEF evidence, Answer, DiffInv
    <2>3. CASE cbom
      BY <2>3 DEF cbom, Answer, DiffInv
    <2>4. CASE pqc
      BY <2>4 DEF pqc, Answer, DiffInv
    <2>5. CASE snapshotDiff
      BY <2>5 DEF snapshotDiff, Answer, DiffInv
    <2>6. CASE preflight
      BY <2>6 DEF preflight, Answer, DiffInv
    <2>7. CASE UNCHANGED asked
      BY <2>7 DEF DiffInv
    <2> QED BY <2>1, <2>2, <2>3, <2>4, <2>5, <2>6, <2>7 DEF DecisionsNext
  <1>3. DiffInv => DriftIsDifference
    BY DriftTells DEF DiffInv, DriftIsDifference
  <1> QED BY <1>1, <1>2, <1>3, PTL

-----------------------------------------------------------------------------
(* The gate before a renewal.                                               *)

CheckNames == {"token", "login", "mechanisms", "sessions", "probe", "tamper", "ha"}
Checks == Seq([name : CheckNames, level : {"ok", "warn", "fail"}])
Unfailed(checks) == \A i \in DOMAIN checks : checks[i].level # "fail"

LEMMA UnfailedJoined ==
    ASSUME NEW s \in Checks, NEW t \in Checks
    PROVE  s \o t \in Checks /\ (Unfailed(s \o t) <=> Unfailed(s) /\ Unfailed(t))
  <1>1. /\ Len(s) \in Nat /\ Len(t) \in Nat /\ DOMAIN s = 1..Len(s) /\ DOMAIN t = 1..Len(t)
        /\ DOMAIN (s \o t) = 1..Len(s) + Len(t)
        /\ \A i \in 1..Len(s) + Len(t) : (s \o t)[i] = IF i <= Len(s) THEN s[i] ELSE t[i - Len(s)]
    BY DEF Checks
  <1>2. s \o t \in Checks
    BY DEF Checks
  <1>3. ASSUME Unfailed(s \o t) PROVE Unfailed(s) /\ Unfailed(t)
    <2>1. \A i \in DOMAIN s : i \in DOMAIN (s \o t) /\ (s \o t)[i] = s[i]
      BY <1>1
    <2>2. \A i \in DOMAIN t : i + Len(s) \in DOMAIN (s \o t) /\ (s \o t)[i + Len(s)] = t[i]
      BY <1>1
    <2> QED BY <1>3, <2>1, <2>2 DEF Unfailed
  <1>4. ASSUME Unfailed(s), Unfailed(t) PROVE Unfailed(s \o t)
    BY <1>1, <1>4 DEF Unfailed
  <1> QED BY <1>2, <1>3, <1>4

LEMMA UnfailedAlone ==
    /\ Skipped \in Checks /\ Unfailed(Skipped)
    /\ \A name \in CheckNames, level \in {"ok", "warn", "fail"} :
          Check(name, level) \in Checks /\ (Unfailed(Check(name, level)) <=> level # "fail")
  <1>1. Skipped \in Checks /\ Unfailed(Skipped)
    BY DEF Skipped, Checks, Unfailed
  <1>2. ASSUME NEW name \in CheckNames, NEW level \in {"ok", "warn", "fail"}
        PROVE  Check(name, level) \in Checks /\ (Unfailed(Check(name, level)) <=> level # "fail")
    BY DEF Check, Checks, Unfailed
  <1> QED BY <1>1, <1>2

LEMMA WordsAreNumbers ==
    /\ Unavailable \in Nat
    /\ \A a, b \in 0..Unavailable : b < a => Minus(a, b) = a - b
  <1>1. Word \in Nat /\ Unavailable = Word - 1 /\ Unavailable \in Nat
    BY DEF Word, Unavailable
  <1>2. ASSUME NEW n \in Nat, NEW a \in 0..n - 1, NEW b \in 0..n - 1, b < a
        PROVE  (a - b + n) % n = a - b
    <2>1. PICK d \in Nat : d = a - b /\ d < n
      BY <1>2
    <2>2. (d + n) % n = d
      BY <2>1
    <2> QED BY <2>1, <2>2
  <1>3. ASSUME NEW a \in 0..Unavailable, NEW b \in 0..Unavailable, b < a PROVE Minus(a, b) = a - b
    BY <1>1, <1>2, <1>3 DEF Minus
  <1> QED BY <1>1, <1>3

\* The number of free sessions, an unsigned difference, is compared as it was meant.

\* The number of free sessions, an unsigned difference, is compared as it was meant.
LEMMA SessionsCounted ==
    ASSUME NEW token, token.max \in 0..Unavailable, token.count \in 0..Unavailable, NEW minFree \in Nat
    PROVE  /\ sessionCheck(token, minFree) \in Checks
           /\ Unfailed(sessionCheck(token, minFree)) <=>
                ~(/\ minFree > 0 /\ token.max > 0
                  /\ Unavailable \notin {token.max, token.count}
                  /\ token.count + minFree > token.max)
  <1>1. SessionCapacity(token).known <=> token.max # 0 /\ Unavailable \notin {token.max, token.count}
    BY DEF SessionCapacity
  <1>2. token.count >= token.max => SessionCapacity(token).free = 0
    BY DEF SessionCapacity
  <1>3. token.count < token.max => SessionCapacity(token).free = token.max - token.count
    BY WordsAreNumbers DEF SessionCapacity
  <1>4. Unavailable \in Nat
    BY WordsAreNumbers
  <1>5. CASE minFree = 0
    BY <1>5, UnfailedAlone DEF sessionCheck, CheckNames
  <1>6. CASE minFree > 0 /\ ~SessionCapacity(token).known
    <2>1. sessionCheck(token, minFree) = Check("sessions", "warn")
      BY <1>6 DEF sessionCheck
    <2>2. ~(token.max > 0 /\ Unavailable \notin {token.max, token.count})
      BY <1>1, <1>6
    <2>3. Check("sessions", "warn") \in Checks /\ Unfailed(Check("sessions", "warn"))
      BY UnfailedAlone DEF CheckNames
    <2>4. sessionCheck(token, minFree) \in Checks /\ Unfailed(sessionCheck(token, minFree))
      BY <2>1, <2>3
    <2> QED BY <2>2, <2>4
  <1>7. CASE minFree > 0 /\ SessionCapacity(token).known
    <2>1. token.max \in Nat /\ token.count \in Nat
      BY <1>4
    <2>2. token.max # 0 /\ Unavailable \notin {token.max, token.count}
      BY <1>1, <1>7
    <2>3. token.max > 0
      BY <2>1, <2>2
    <2>4. SessionCapacity(token).free < minFree <=> token.count + minFree > token.max
      BY <1>2, <1>3, <1>7, <2>1
    <2>5. CASE SessionCapacity(token).free < minFree
      <3>1. sessionCheck(token, minFree) = Check("sessions", "fail")
        BY <1>7, <2>5 DEF sessionCheck
      <3>2. Check("sessions", "fail") \in Checks /\ ~Unfailed(Check("sessions", "fail"))
        BY UnfailedAlone DEF CheckNames
      <3>3. sessionCheck(token, minFree) \in Checks /\ ~Unfailed(sessionCheck(token, minFree))
        BY <3>1, <3>2
      <3> QED BY <1>7, <2>2, <2>3, <2>4, <2>5, <3>3
    <2>6. CASE ~(SessionCapacity(token).free < minFree)
      <3>1. sessionCheck(token, minFree) = Check("sessions", "ok")
        BY <1>7, <2>6 DEF sessionCheck
      <3>2. Check("sessions", "ok") \in Checks /\ Unfailed(Check("sessions", "ok"))
        BY UnfailedAlone DEF CheckNames
      <3>3. sessionCheck(token, minFree) \in Checks /\ Unfailed(sessionCheck(token, minFree))
        BY <3>1, <3>2
      <3> QED BY <2>4, <2>6, <3>3
    <2> QED BY <2>5, <2>6
  <1>8. minFree = 0 \/ (minFree > 0 /\ ~SessionCapacity(token).known)
                    \/ (minFree > 0 /\ SessionCapacity(token).known)
    OBVIOUS
  <1> QED BY <1>5, <1>6, <1>7, <1>8

LEMMA TokenChecked ==
    ASSUME NEW token, token # <<>> => token[1].initialized \in BOOLEAN
    PROVE  /\ tokenCheck(token) \in Checks
           /\ Unfailed(tokenCheck(token)) <=> token # <<>> /\ token[1].initialized
  <1>1. /\ Check("token", "ok") \in Checks /\ Unfailed(Check("token", "ok"))
        /\ Check("token", "fail") \in Checks /\ ~Unfailed(Check("token", "fail"))
    BY UnfailedAlone DEF CheckNames
  <1>2. CASE token # <<>> /\ token[1].initialized
    <2>1. tokenCheck(token) = Check("token", "ok")
      BY <1>2 DEF tokenCheck
    <2> QED BY <1>1, <1>2, <2>1
  <1>3. CASE ~(token # <<>> /\ token[1].initialized)
    <2>1. tokenCheck(token) = Check("token", "fail")
      BY <1>3 DEF tokenCheck
    <2> QED BY <1>1, <1>3, <2>1
  <1> QED BY <1>2, <1>3

LoginFails(token, pin) == IF pin = "none" THEN token.login ELSE pin # "right"

LEMMA LoginChecked ==
    ASSUME NEW token, NEW pin \in {"none", "right", "wrong"}
    PROVE  token.login \in BOOLEAN =>
               /\ loginCheck(token, pin) \in Checks
               /\ Unfailed(loginCheck(token, pin)) <=> ~LoginFails(token, pin)
  <1>1. /\ Check("login", "ok") \in Checks /\ Unfailed(Check("login", "ok"))
        /\ Check("login", "warn") \in Checks /\ Unfailed(Check("login", "warn"))
        /\ Check("login", "fail") \in Checks /\ ~Unfailed(Check("login", "fail"))
    BY UnfailedAlone DEF CheckNames
  <1>2. CASE pin = "right"
    <2>1. loginCheck(token, pin) = Check("login", "ok")
      BY <1>2 DEF loginCheck
    <2> QED BY <1>1, <1>2, <2>1 DEF LoginFails
  <1>3. CASE pin = "wrong"
    <2>1. loginCheck(token, pin) = Check("login", "fail")
      BY <1>3 DEF loginCheck
    <2> QED BY <1>1, <1>3, <2>1 DEF LoginFails
  <1>4. CASE pin = "none" /\ token.login
    <2>1. loginCheck(token, pin) = Check("login", "fail")
      BY <1>4 DEF loginCheck
    <2> QED BY <1>1, <1>4, <2>1 DEF LoginFails
  <1>5. CASE pin = "none" /\ ~token.login
    <2>1. loginCheck(token, pin) = Check("login", "warn")
      BY <1>5 DEF loginCheck
    <2> QED BY <1>1, <1>5, <2>1 DEF LoginFails
  <1> QED BY <1>2, <1>3, <1>4, <1>5

LEMMA MechanismsChecked ==
    ASSUME NEW required, NEW listing
    PROVE  /\ mechanismCheck(required, listing) \in Checks
           /\ Unfailed(mechanismCheck(required, listing))
                <=> ~(listing # Unlisted /\ ~(required \subseteq listing))
  <1>1. /\ Check("mechanisms", "ok") \in Checks /\ Unfailed(Check("mechanisms", "ok"))
        /\ Check("mechanisms", "warn") \in Checks /\ Unfailed(Check("mechanisms", "warn"))
        /\ Check("mechanisms", "fail") \in Checks /\ ~Unfailed(Check("mechanisms", "fail"))
    BY UnfailedAlone DEF CheckNames
  <1>2. CASE required = {}
    <2>1. mechanismCheck(required, listing) = Skipped
      BY <1>2 DEF mechanismCheck
    <2>2. required \subseteq listing
      BY <1>2
    <2> QED BY <2>1, <2>2, UnfailedAlone
  <1>3. CASE required # {} /\ listing = Unlisted
    <2>1. mechanismCheck(required, listing) = Check("mechanisms", "warn")
      BY <1>3 DEF mechanismCheck
    <2> QED BY <1>1, <1>3, <2>1
  <1>4. CASE required # {} /\ listing # Unlisted /\ required \subseteq listing
    <2>1. mechanismCheck(required, listing) = Check("mechanisms", "ok")
      BY <1>4 DEF mechanismCheck
    <2> QED BY <1>1, <1>4, <2>1
  <1>5. CASE required # {} /\ listing # Unlisted /\ ~(required \subseteq listing)
    <2>1. mechanismCheck(required, listing) = Check("mechanisms", "fail")
      BY <1>5 DEF mechanismCheck
    <2> QED BY <1>1, <1>5, <2>1
  <1> QED BY <1>2, <1>3, <1>4, <1>5

LEMMA ProbeChecked ==
    ASSUME NEW probe \in {"off", "passes", "fails", "does not run"}
    PROVE  /\ probeCheck(probe) \in Checks
           /\ Unfailed(probeCheck(probe)) <=> probe \notin {"fails", "does not run"}
  <1>1. /\ Check("probe", "ok") \in Checks /\ Unfailed(Check("probe", "ok"))
        /\ Check("probe", "fail") \in Checks /\ ~Unfailed(Check("probe", "fail"))
    BY UnfailedAlone DEF CheckNames
  <1>2. CASE probe = "off"
    BY <1>2, UnfailedAlone DEF probeCheck
  <1>3. CASE probe = "passes"
    <2>1. probeCheck(probe) = Check("probe", "ok")
      BY <1>3 DEF probeCheck
    <2> QED BY <1>1, <1>3, <2>1
  <1>4. CASE probe \in {"fails", "does not run"}
    <2>1. probeCheck(probe) = Check("probe", "fail")
      BY <1>4 DEF probeCheck
    <2> QED BY <1>1, <1>4, <2>1
  <1> QED BY <1>2, <1>3, <1>4

VendorFails(told) == told.tampered \/ FALSE \in told.members \/ told.inSync = "no"

LEMMA VendorChecked ==
    ASSUME NEW told, told.tampered \in BOOLEAN, told.members \subseteq BOOLEAN,
           told.inSync \in {"no", "yes", "unknown"}
    PROVE  /\ checkVendor(told) \in Checks
           /\ Unfailed(checkVendor(told))
                <=> ~VendorFails(told)
  <1>1. /\ Check("tamper", "fail") \in Checks /\ ~Unfailed(Check("tamper", "fail"))
        /\ Check("ha", "ok") \in Checks /\ Unfailed(Check("ha", "ok"))
        /\ Check("ha", "fail") \in Checks /\ ~Unfailed(Check("ha", "fail"))
    BY UnfailedAlone DEF CheckNames
  <1> DEFINE tamper == IF told.tampered THEN Check("tamper", "fail") ELSE Skipped
             broken == FALSE \in told.members \/ told.inSync = "no"
             ha == CASE broken -> Check("ha", "fail")
                     [] told.members = {TRUE} /\ told.inSync # "no" -> Check("ha", "ok")
                     [] OTHER -> Skipped
  <1>2. tamper \in Checks /\ (Unfailed(tamper) <=> ~told.tampered)
    BY <1>1, UnfailedAlone
  <1>3. ha \in Checks /\ (Unfailed(ha) <=> ~broken)
    <2>1. CASE broken
      <3>1. ~(told.members = {TRUE} /\ told.inSync # "no")
        BY <2>1
      <3>2. ha = Check("ha", "fail")
        BY <2>1, <3>1
      <3> QED BY <1>1, <2>1, <3>2
    <2>2. CASE ~broken /\ told.members = {TRUE} /\ told.inSync # "no"
      <3>1. ha = Check("ha", "ok")
        BY <2>2
      <3> QED BY <1>1, <2>2, <3>1
    <2>3. CASE ~broken /\ ~(told.members = {TRUE} /\ told.inSync # "no")
      <3>1. ha = Skipped
        BY <2>3
      <3> QED BY UnfailedAlone, <2>3, <3>1
    <2> QED BY <2>1, <2>2, <2>3
  <1>4. checkVendor(told) = tamper \o ha
    BY DEF checkVendor
  <1> HIDE DEF tamper, ha
  <1>5. tamper \o ha \in Checks /\ (Unfailed(tamper \o ha) <=> Unfailed(tamper) /\ Unfailed(ha))
    BY <1>2, <1>3, UnfailedJoined
  <1> QED BY <1>2, <1>3, <1>4, <1>5 DEF VendorFails

\* The checks of a question, joined, are all passed exactly if nothing obstructs.
LEMMA PreflightAgrees ==
    ASSUME NEW q \in Questions
    PROVE  PreflightExit(q) = 0 <=> ~Obstructed(q)
  <1> DEFINE t == q.token[1]
             login == loginCheck(t, q.pin)
             mechanisms == mechanismCheck(q.required, q.listing)
             sessions == sessionCheck(t, q.minFree)
             probe == probeCheck(q.probe)
             one == login \o mechanisms
             two == one \o sessions
             three == two \o probe
             ofToken == IF q.token = <<>> THEN Skipped ELSE three
             ofVendor == IF q.vendor = <<>> THEN Skipped ELSE checkVendor(q.vendor[1])
             four == tokenCheck(q.token) \o ofToken
             obstructing == \/ LoginFails(t, q.pin)
                            \/ q.listing # Unlisted /\ ~(q.required \subseteq q.listing)
                            \/ /\ q.minFree > 0 /\ t.max > 0
                               /\ Unavailable \notin {t.max, t.count}
                               /\ t.count + q.minFree > t.max
                            \/ q.probe \in {"fails", "does not run"}
  <1>1. tokenCheck(q.token) \in Checks
        /\ (Unfailed(tokenCheck(q.token)) <=> q.token # <<>> /\ q.token[1].initialized)
    BY QuestionsAssumption, TokenChecked
  <1>2. ofToken \in Checks /\ (Unfailed(ofToken) <=> q.token = <<>> \/ ~obstructing)
    <2>1. CASE q.token = <<>>
      BY <2>1, UnfailedAlone
    <2>2. CASE q.token # <<>>
      <3>1. /\ t.login \in BOOLEAN /\ t.max \in 0..Unavailable /\ t.count \in 0..Unavailable
            /\ q.pin \in {"none", "right", "wrong"} /\ q.minFree \in Nat
            /\ q.probe \in {"off", "passes", "fails", "does not run"}
        BY <2>2, QuestionsAssumption
      <3>2. login \in Checks /\ (Unfailed(login) <=> ~LoginFails(t, q.pin))
        BY <3>1, LoginChecked
      <3>3. mechanisms \in Checks
            /\ (Unfailed(mechanisms) <=> ~(q.listing # Unlisted /\ ~(q.required \subseteq q.listing)))
        BY MechanismsChecked
      <3>4. sessions \in Checks
            /\ (Unfailed(sessions) <=> ~(/\ q.minFree > 0 /\ t.max > 0
                                         /\ Unavailable \notin {t.max, t.count}
                                         /\ t.count + q.minFree > t.max))
        BY <3>1, SessionsCounted
      <3>5. probe \in Checks /\ (Unfailed(probe) <=> q.probe \notin {"fails", "does not run"})
        BY <3>1, ProbeChecked
      <3> HIDE DEF login, mechanisms, sessions, probe
      <3>6. one \in Checks /\ (Unfailed(one) <=> Unfailed(login) /\ Unfailed(mechanisms))
        BY <3>2, <3>3, UnfailedJoined
      <3> HIDE DEF one
      <3>7. two \in Checks /\ (Unfailed(two) <=> Unfailed(one) /\ Unfailed(sessions))
        BY <3>4, <3>6, UnfailedJoined
      <3> HIDE DEF two
      <3>8. three \in Checks /\ (Unfailed(three) <=> Unfailed(two) /\ Unfailed(probe))
        BY <3>5, <3>7, UnfailedJoined
      <3> HIDE DEF three
      <3>9. ofToken = three
        BY <2>2
      <3>10. Unfailed(three) <=> ~obstructing
        BY <3>2, <3>3, <3>4, <3>5, <3>6, <3>7, <3>8
      <3> QED BY <2>2, <3>8, <3>9, <3>10
    <2> QED BY <2>1, <2>2
  <1>3. ofVendor \in Checks /\ (Unfailed(ofVendor) <=>
            ~(q.vendor # <<>> /\ VendorFails(q.vendor[1])))
    <2>1. CASE q.vendor = <<>>
      BY <2>1, UnfailedAlone
    <2>2. CASE q.vendor # <<>>
      <3>1. /\ q.vendor[1].tampered \in BOOLEAN /\ q.vendor[1].members \subseteq BOOLEAN
            /\ q.vendor[1].inSync \in {"no", "yes", "unknown"}
        BY <2>2, QuestionsAssumption
      <3>2. checkVendor(q.vendor[1]) \in Checks
            /\ (Unfailed(checkVendor(q.vendor[1])) <=>
                ~VendorFails(q.vendor[1]))
        BY <3>1, VendorChecked
      <3> QED BY <2>2, <3>2
    <2> QED BY <2>1, <2>2
  <1>4. Preflight(q).checks = four \o ofVendor
    BY DEF Preflight
  <1>5. Preflight(q).ready <=> Unfailed(Preflight(q).checks)
    BY DEF Preflight, Unfailed
  <1>6. Obstructed(q) <=>
            \/ ~(q.token # <<>> /\ q.token[1].initialized)
            \/ q.token # <<>> /\ obstructing
            \/ q.vendor # <<>> /\ VendorFails(q.vendor[1])
    BY DEF Obstructed, LoginFails, VendorFails
  <1> HIDE DEF ofToken, ofVendor, obstructing
  <1>7. four \in Checks /\ (Unfailed(four) <=> Unfailed(tokenCheck(q.token)) /\ Unfailed(ofToken))
    BY <1>1, <1>2, UnfailedJoined
  <1> HIDE DEF four
  <1>8. Unfailed(four \o ofVendor) <=> Unfailed(four) /\ Unfailed(ofVendor)
    BY <1>3, <1>7, UnfailedJoined
  <1>9. PreflightExit(q) = 0 <=> Preflight(q).ready
    BY DEF PreflightExit, exitPostpone
  <1> QED BY <1>1, <1>2, <1>3, <1>4, <1>5, <1>6, <1>7, <1>8, <1>9

\* What is answered is the answer to what was asked.
AnswerInv == asked.by = "preflight" => asked.q \in Questions /\ asked.exit = PreflightExit(asked.q)

\* The gate before a renewal (preflight.Run, finalize): ready is said exactly if nothing
\* the library or the appliance said stands against it, whatever was asked.
THEOREM ReadyExactlyIfUnobstructed == DecisionsInit /\ [][DecisionsNext]_asked => []ReadyUnlessObstructed
  <1>1. DecisionsInit => AnswerInv
    BY DEF DecisionsInit, Nobody, AnswerInv
  <1>2. AnswerInv /\ [DecisionsNext]_asked => AnswerInv'
    <2> SUFFICES ASSUME AnswerInv, [DecisionsNext]_asked PROVE AnswerInv'
      OBVIOUS
    <2>1. CASE scan
      BY <2>1 DEF scan, Answer, AnswerInv
    <2>2. CASE evidence
      BY <2>2 DEF evidence, Answer, AnswerInv
    <2>3. CASE cbom
      BY <2>3 DEF cbom, Answer, AnswerInv
    <2>4. CASE pqc
      BY <2>4 DEF pqc, Answer, AnswerInv
    <2>5. CASE snapshotDiff
      BY <2>5 DEF snapshotDiff, Answer, AnswerInv
    <2>6. CASE preflight
      BY <2>6 DEF preflight, Answer, AnswerInv
    <2>7. CASE UNCHANGED asked
      BY <2>7 DEF AnswerInv
    <2> QED BY <2>1, <2>2, <2>3, <2>4, <2>5, <2>6, <2>7 DEF DecisionsNext
  <1>3. AnswerInv => ReadyUnlessObstructed
    BY PreflightAgrees DEF AnswerInv, ReadyUnlessObstructed
  <1> QED BY <1>1, <1>2, <1>3, PTL

=============================================================================
