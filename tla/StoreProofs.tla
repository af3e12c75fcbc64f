------------------------------ MODULE StoreProofs ------------------------------
(***************************************************************************)
(* What opens the database and what writes into it, for every number of     *)
(* processes, releases, calls, HSMs and reports.                            *)
(*                                                                          *)
(* ScanHistory: IInv adds to the properties what a call in flight knows of  *)
(* its own row and of the row it compares with; MissInv says of each pair   *)
(* of scans worth an event which call is still to compare them, or what     *)
(* kept it from it.                                                         *)
(*                                                                          *)
(* Migration: the recorded version is never ahead of the schema, and no     *)
(* process serves without its schema, whoever races, dies or loses its      *)
(* connection, on both databases.                                           *)
(***************************************************************************)
EXTENDS ScanHistory, Migration, TLAPS

--------------------------------------------------------------------------------
(* The scan history.                                                        *)

\* Every value keeps its type, through errors and crashes.
THEOREM TypeCorrect == Spec => []TypeOK
<1>1. Init => TypeOK
  BY BoundsAssumption DEF Init, TypeOK, Idle, Scan
<1>2. TypeOK /\ [Next]_vars => TypeOK'
  <2> SUFFICES ASSUME TypeOK, [Next]_vars PROVE TypeOK'
    OBVIOUS
  <2> USE DEF TypeOK, Idle, Running, Stages, Active
  <2>1. ASSUME NEW p \in Calls, NEW h \in HSMs, NEW r \in Reports, PersistScan(p, h, r)
        PROVE TypeOK'
    BY <2>1 DEF PersistScan, NoScan
  <2>2. ASSUME NEW p \in Calls, UpsertHSM(p) PROVE TypeOK'
    BY <2>2, BoundsAssumption DEF UpsertHSM, Goto, Return, Fault, NoFault
  <2>3. ASSUME NEW p \in Calls, NotifyCertExpiry(p) PROVE TypeOK'
    BY <2>3 DEF NotifyCertExpiry, Goto
  <2>4. ASSUME NEW p \in Calls, LatestScan(p) PROVE TypeOK'
    BY <2>4, BoundsAssumption DEF LatestScan, Fault, NoFault, Latest, IdsOf, NoScan
  <2>5. ASSUME NEW p \in Calls, InsertScan(p) PROVE TypeOK'
    <3> DEFINE c == call[p]
               id == Len(scans) + 1
    <3>1. c \in Running /\ c.at = "insert" /\ id \in Nat
      BY <2>5 DEF InsertScan
    <3>2. Append(scans, [hsm |-> c.hsm, report |-> c.report]) \in Seq(Scan)
      BY <3>1 DEF Scan
    <3>3. [[call EXCEPT ![p].at = "regression"] EXCEPT ![p].new = id] \in [Calls -> Running \cup {Idle}]
      BY <3>1
    <3>4. missed \cup [kind : Kinds, new : {id}] \subseteq Alert
      BY <3>1 DEF Alert
    <3>5. scans' \in Seq(Scan)
      BY <2>5, <3>2 DEF InsertScan
    <3>6. call' \in [Calls -> Running \cup {Idle}]
      BY <2>5, <3>3 DEF InsertScan, Return
    <3>7. missed' \subseteq Alert
      BY <2>5, <3>4 DEF InsertScan
    <3>8. faults' \in 0..MaxFaults
      BY <2>5, BoundsAssumption DEF InsertScan, Fault, NoFault
    <3>9. QED
      BY <2>5, <3>5, <3>6, <3>7, <3>8 DEF InsertScan
  <2>6. ASSUME NEW p \in Calls, CheckRegression(p) PROVE TypeOK'
    BY <2>6, BoundsAssumption
       DEF CheckRegression, Compare, AlertStage, Goto, Return, Fault, NoFault, Event, Alert, Kinds
  <2>7. ASSUME NEW p \in Calls, CheckDrift(p) PROVE TypeOK'
    BY <2>7, BoundsAssumption
       DEF CheckDrift, Compare, AlertStage, Goto, Return, Fault, NoFault, Event, Alert, Kinds
  <2>8. ASSUME NEW p \in Calls, NEW k \in Kinds, StartAlert(p, k) PROVE TypeOK'
    BY <2>8 DEF StartAlert, AlertStage, MailStage, Goto, Alert, Kinds
  <2>9. ASSUME NEW p \in Calls, MailReturns(p) PROVE TypeOK'
    BY <2>9 DEF MailReturns, Goto, Return
  <2>10. ASSUME Crash PROVE TypeOK'
    BY <2>10, BoundsAssumption DEF Crash, Fault, Alert, Kinds
  <2>11. ASSUME NEW p \in Calls, PreviousUnreadable(p) PROVE TypeOK'
    <3>1. call[p] \in Running
      BY <2>11 DEF PreviousUnreadable
    <3> QED BY <2>11, <3>1, BoundsAssumption DEF PreviousUnreadable, Return, Fault, Alert
  <2>12. CASE UNCHANGED vars
    BY <2>12 DEF vars
  <2>13. QED
    BY <2>1, <2>2, <2>3, <2>4, <2>5, <2>6, <2>7, <2>8, <2>9, <2>10, <2>11, <2>12
       DEF Next, Step, Mail
<1>3. QED
  BY <1>1, <1>2, PTL DEF Spec
--------------------------------------------------------------------------------
\* A call that only moves, to a stage past nothing it was before, and leaves the
\* tables alone disturbs no part of IInv.
LEMMA Quiet ==
    ASSUME IInv, TypeOK', UNCHANGED <<scans, events, alerts>>,
           NEW p \in Calls,
           \A q \in Calls \ {p} : call'[q] = call[q],
           \/ /\ call'[p].at \in Early \cup {"idle"}
              /\ call'[p].at \in Early => call'[p].prev = NoScan
           \/ /\ call[p].at \in Stored /\ call'[p].at \in Stored
              /\ call'[p].prev = call[p].prev /\ call'[p].new = call[p].new
              /\ call'[p].hsm = call[p].hsm /\ call'[p].report = call[p].report
              /\ \A k \in Kinds : call'[p].at # AlertStage(k)
              /\ \A k \in Kinds : call'[p].at \in Pending(k) => call[p].at \in Pending(k)
    PROVE  IInv'
<1> USE DEF IInv, CallInv
<1>1. EventsTruthful' /\ OneEventPerScan' /\ AlertsBacked'
  BY DEF EventsTruthful, OneEventPerScan, AlertsBacked
<1>2. PrevInv'
  BY DEF PrevInv, NewInv, IdsOf, Early, Stored
<1>3. NewInv'
  BY DEF NewInv, Early, Stored
<1>4. OwnInv'
  BY DEF OwnInv, Early, Stored
<1>5. PendingInv'
  BY DEF PendingInv, Pending, Early, Stored, TypeOK, Event
<1>6. AlertInv'
  BY DEF AlertInv, AlertStage, Early, Stored, Kinds
<1>7. QED
  BY <1>1, <1>2, <1>3, <1>4, <1>5, <1>6

LEMMA InductiveInit == Init => IInv
BY BoundsAssumption
   DEF Init, IInv, TypeOK, Idle, Scan, EventsTruthful, OneEventPerScan, AlertsBacked,
       CallInv, PrevInv, NewInv, OwnInv, PendingInv, AlertInv, AlertStage, Early, Stored
\* InsertScan: the new row is nobody's yet, and no event names it.
LEMMA InsertKeeps ==
    ASSUME IInv, TypeOK', NEW p \in Calls, InsertScan(p)
    PROVE  IInv'
<1> USE DEF IInv, CallInv
<1> DEFINE c == call[p]
           id == Len(scans) + 1
           row == [hsm |-> c.hsm, report |-> c.report]
<1>0. c \in Running /\ c.at = "insert" /\ scans \in Seq(Scan) /\ UNCHANGED <<events, alerts>>
  BY DEF InsertScan, TypeOK, Idle
<1>1. CASE UNCHANGED scans
  <2>1. Len(scans) \in Nat /\ ~(scans' = Append(scans, row))
    BY <1>0, <1>1
  <2>2. Return(p)
    BY <2>1 DEF InsertScan
  <2>3. QED
    BY <1>0, <1>1, <2>2, Quiet DEF Return, TypeOK, Idle, Early, Stored
<1>2. CASE scans' = Append(scans, row)
  <2>1. /\ id \in Nat /\ DOMAIN scans = 1..(id - 1) /\ DOMAIN scans' = 1..id
        /\ scans'[id] = row /\ \A i \in DOMAIN scans : scans'[i] = scans[i]
    BY <1>0, <1>2 DEF Scan
  <2>2. /\ \A q \in Calls \ {p} : call'[q] = call[q]
        /\ \/ call'[p] = Idle
           \/ /\ c.prev # NoScan /\ call'[p].at = "regression"
              /\ call'[p].new = id /\ call'[p].prev = c.prev
              /\ call'[p].hsm = c.hsm /\ call'[p].report = c.report
    <3>1. CASE Return(p)
      BY <3>1 DEF Return, TypeOK
    <3>2. CASE /\ c.prev # NoScan
               /\ call' = [call EXCEPT ![p].at = "regression", ![p].new = id]
      BY <1>0, <3>2 DEF TypeOK, Running
    <3>3. QED
      BY <3>1, <3>2 DEF InsertScan
  <2>3. EventsTruthful'
    BY <1>0, <2>1 DEF EventsTruthful, Truthful
  <2>4. OneEventPerScan' /\ AlertsBacked'
    BY <1>0 DEF OneEventPerScan, AlertsBacked
  <2>5. \A e \in events : e.new \in 1..(id - 1)
    BY <2>1 DEF EventsTruthful, Truthful
  <2>6. PrevInv'
    <3>0. \A q \in Calls : call'[q].at \in Early => call[q].at \in Early /\ call'[q].prev = call[q].prev
      BY <2>2 DEF Idle, Early
    <3>1. \A q \in Calls : call'[q].at \in {"insert"} \cup Stored =>
             call[q].at \in {"insert"} \cup Stored /\ call'[q].prev = call[q].prev /\ call'[q].hsm = call[q].hsm
      BY <1>0, <2>2 DEF Idle, Stored
    <3>2. QED
      BY <3>0, <3>1, <2>1 DEF PrevInv, IdsOf
  <2>7. NewInv'
    <3>1. ASSUME NEW q \in Calls, call'[q].at \in Stored
          PROVE  /\ call'[q].prev # NoScan /\ call'[q].prev < call'[q].new
                 /\ call'[q].new \in DOMAIN scans'
                 /\ scans'[call'[q].new] = [hsm |-> call'[q].hsm, report |-> call'[q].report]
      <4>1. CASE q = p
        <5>1. /\ c.prev # NoScan /\ call'[p].new = id /\ call'[p].prev = c.prev
              /\ call'[p].hsm = c.hsm /\ call'[p].report = c.report
          BY <3>1, <4>1, <2>2 DEF Idle, Stored
        <5>2. c.prev \in 1..(id - 1)
          BY <5>1, <1>0, <2>1 DEF PrevInv, IdsOf
        <5>3. QED
          BY <4>1, <5>1, <5>2, <2>1
      <4>2. CASE q # p
        <5>1. call'[q] = call[q]
          BY <4>2, <2>2
        <5>2. QED
          BY <3>1, <5>1, <2>1 DEF NewInv
      <4>3. QED
        BY <4>1, <4>2
    <3>2. QED
      BY <3>1 DEF NewInv
  <2>8. OwnInv'
    <3>1. ASSUME NEW q \in Calls \ {p}, call'[q].at \in Stored PROVE call'[q].new # id
      <4>1. call'[q] = call[q]
        BY <2>2
      <4>2. call[q].new \in 1..(id - 1)
        BY <3>1, <4>1, <2>1 DEF NewInv
      <4>3. QED
        BY <4>1, <4>2, <2>1
    <3>2. call'[p].at \in Stored => call'[p].new = id
      BY <2>2 DEF Idle, Stored
    <3>3. ASSUME NEW q \in Calls, NEW r \in Calls,
                 call'[q].at \in Stored, call'[r].at \in Stored, call'[q].new = call'[r].new
          PROVE  q = r
      <4>1. CASE q = p \/ r = p
        BY <3>1, <3>2, <3>3, <4>1
      <4>2. CASE q # p /\ r # p
        <5>1. call'[q] = call[q] /\ call'[r] = call[r]
          BY <4>2, <2>2
        <5>2. QED
          BY <3>3, <5>1 DEF OwnInv
      <4>3. QED
        BY <4>1, <4>2
    <3>4. QED
      BY <3>3 DEF OwnInv
  <2>9. PendingInv'
    <3>1. ASSUME NEW q \in Calls, NEW e \in events, call'[q].at \in Pending(e.kind)
          PROVE e.new # call'[q].new
      <4>1. CASE q = p
        BY <3>1, <4>1, <1>0, <2>1, <2>2, <2>5 DEF Idle, Pending
      <4>2. CASE q # p
        BY <3>1, <4>2, <2>2 DEF PendingInv
      <4>3. QED
        BY <4>1, <4>2
    <3>2. QED
      BY <3>1, <1>0 DEF PendingInv
  <2>10. AlertInv'
    BY <1>0, <2>2 DEF AlertInv, AlertStage, Idle, Kinds
  <2>11. QED
    BY <2>3, <2>4, <2>6, <2>7, <2>8, <2>9, <2>10
<1>3. QED
  BY <1>1, <1>2 DEF InsertScan
\* A comparison adds at most the one event its call has been waiting to add, and
\* goes on to the alert only if it did.
LEMMA CompareKeeps ==
    ASSUME IInv, TypeOK', NEW p \in Calls, NEW kind \in Kinds, NEW next \in {"drift", "idle"},
           call[p].at = kind, kind = "drift" => next = "idle",
           \/ /\ UNCHANGED events
              /\ \/ call' = [call EXCEPT ![p].at = "drift"] /\ next = "drift"
                 \/ call' = [call EXCEPT ![p] = Idle] /\ next = "idle"
           \/ /\ Worth(kind, scans[call[p].prev].report, call[p].report)
              /\ events' = events \cup {[kind |-> kind, old |-> call[p].prev, new |-> call[p].new]}
              /\ call' = [call EXCEPT ![p].at = AlertStage(kind)],
           UNCHANGED <<scans, alerts>>
    PROVE  IInv'
<1> USE DEF IInv, CallInv
<1> DEFINE c == call[p]
           e == [kind |-> kind, old |-> c.prev, new |-> c.new]
<1>0. c \in Running /\ c.at \in Stored
  BY DEF TypeOK, Idle, Kinds, Stored
<1>1. CASE /\ UNCHANGED events
           /\ \/ call' = [call EXCEPT ![p].at = "drift"] /\ next = "drift"
              \/ call' = [call EXCEPT ![p] = Idle] /\ next = "idle"
  <2>1. \A q \in Calls \ {p} : call'[q] = call[q]
    BY <1>1, <1>0 DEF TypeOK
  <2>2. CASE call' = [call EXCEPT ![p].at = "drift"] /\ next = "drift"
    <3>1. kind = "regression"
      BY <2>2 DEF Kinds
    <3>2. /\ call'[p].at = "drift" /\ call'[p].prev = c.prev /\ call'[p].new = c.new
          /\ call'[p].hsm = c.hsm /\ call'[p].report = c.report
      BY <2>2, <1>0 DEF TypeOK, Running
    <3>3. QED
      BY <1>0, <1>1, <2>1, <3>1, <3>2, Quiet DEF Stored, Pending, AlertStage, Kinds
  <2>3. CASE call' = [call EXCEPT ![p] = Idle]
    BY <1>0, <1>1, <2>1, <2>3, Quiet DEF TypeOK, Idle, Early, Stored
  <2>4. QED
    BY <1>1, <2>2, <2>3
<1>2. CASE /\ Worth(kind, scans[c.prev].report, c.report)
           /\ events' = events \cup {e}
           /\ call' = [call EXCEPT ![p].at = AlertStage(kind)]
  <2>1. /\ \A q \in Calls \ {p} : call'[q] = call[q]
        /\ call'[p].at = AlertStage(kind) /\ call'[p].prev = c.prev /\ call'[p].new = c.new
        /\ call'[p].hsm = c.hsm /\ call'[p].report = c.report
    BY <1>0, <1>2 DEF TypeOK, Running
  <2>2. Truthful(scans, e)
    <3>1. c.prev \in IdsOf(c.hsm) /\ c.new \in DOMAIN scans /\ c.prev < c.new
          /\ scans[c.new] = [hsm |-> c.hsm, report |-> c.report]
      BY <1>0 DEF PrevInv, NewInv
    <3>2. QED
      BY <1>2, <3>1 DEF Truthful, IdsOf
  <2>3. \A f \in events : ~(f.kind = kind /\ f.new = c.new)
    BY <1>0 DEF PendingInv, Pending, Kinds
  <2>4. EventsTruthful'
    BY <1>2, <2>2 DEF EventsTruthful, Truthful
  <2>5. OneEventPerScan'
    BY <1>2, <2>3 DEF OneEventPerScan
  <2>6. AlertsBacked'
    BY <1>2 DEF AlertsBacked
  <2>7. PrevInv' /\ NewInv'
    BY <1>0, <2>1 DEF PrevInv, NewInv, IdsOf, AlertStage, Early, Stored
  <2>8. OwnInv'
    BY <1>0, <2>1 DEF OwnInv, AlertStage, Stored
  <2>9. PendingInv'
    <3>1. ASSUME NEW q \in Calls, NEW f \in events', call'[q].at \in Pending(f.kind)
          PROVE  f.new # call'[q].new
      <4>1. CASE f = e
        BY <3>1, <4>1, <1>0, <2>1 DEF OwnInv, Pending, AlertStage, Kinds, Stored
      <4>2. CASE f \in events
        BY <3>1, <4>2, <1>0, <2>1, <2>3 DEF PendingInv, Pending, AlertStage, Kinds
      <4>3. QED
        BY <1>2, <3>1, <4>1, <4>2
    <3>2. QED
      BY <3>1 DEF PendingInv
  <2>10. AlertInv'
    <3>1. ASSUME NEW q \in Calls, NEW k \in Kinds, call'[q].at = AlertStage(k)
          PROVE  \E f \in events' : f.kind = k /\ f.new = call'[q].new
      <4>1. CASE q = p
        <5>1. k = kind
          BY <3>1, <4>1, <2>1 DEF AlertStage, Kinds
        <5>2. e \in events' /\ e.kind = k /\ e.new = call'[q].new
          BY <4>1, <5>1, <1>2, <2>1
        <5>3. QED
          BY <5>2
      <4>2. CASE q # p
        <5>1. PICK f \in events : f.kind = k /\ f.new = call[q].new
          BY <3>1, <4>2, <2>1 DEF AlertInv
        <5>2. QED
          BY <4>2, <5>1, <1>2, <2>1
      <4>3. QED
        BY <4>1, <4>2
    <3>2. QED
      BY <3>1 DEF AlertInv
  <2>11. QED
    BY <2>4, <2>5, <2>6, <2>7, <2>8, <2>9, <2>10
<1>3. QED
  BY <1>1, <1>2
LEMMA AlertKeeps ==
    ASSUME IInv, TypeOK', NEW p \in Calls, NEW k \in Kinds, StartAlert(p, k)
    PROVE  IInv'
<1> USE DEF IInv, CallInv
<1>1. /\ \A q \in Calls \ {p} : call'[q] = call[q]
      /\ call[p].at = AlertStage(k) /\ call'[p].at = MailStage(k)
      /\ call'[p].prev = call[p].prev /\ call'[p].new = call[p].new
      /\ call'[p].hsm = call[p].hsm /\ call'[p].report = call[p].report
      /\ alerts' = alerts \cup {[kind |-> k, new |-> call[p].new]}
      /\ UNCHANGED <<scans, events>>
  BY DEF StartAlert, Goto, TypeOK, Running, Idle, AlertStage
<1>2. PICK e \in events : e.kind = k /\ e.new = call[p].new
  BY <1>1 DEF AlertInv
<1>3. AlertsBacked'
  BY <1>1, <1>2 DEF AlertsBacked
<1>4. EventsTruthful' /\ OneEventPerScan'
  BY <1>1 DEF EventsTruthful, OneEventPerScan
<1>5. PrevInv' /\ NewInv'
  BY <1>1 DEF PrevInv, NewInv, IdsOf, AlertStage, MailStage, Early, Stored
<1>6. OwnInv'
  BY <1>1 DEF OwnInv, AlertStage, MailStage, Stored
<1>7. PendingInv'
  BY <1>1 DEF PendingInv, Pending, AlertStage, MailStage, Kinds, TypeOK, Event
<1>8. AlertInv'
  BY <1>1 DEF AlertInv, AlertStage, MailStage, Kinds
<1>9. QED
  BY <1>3, <1>4, <1>5, <1>6, <1>7, <1>8

LEMMA InductiveStep == IInv /\ TypeOK' /\ [Next]_vars => IInv'
<1> SUFFICES ASSUME IInv, TypeOK', [Next]_vars PROVE IInv'
  OBVIOUS
<1>1. ASSUME NEW p \in Calls, NEW h \in HSMs, NEW r \in Reports, PersistScan(p, h, r)
      PROVE IInv'
  BY <1>1, Quiet DEF PersistScan, IInv, TypeOK, Early, Stored
<1>2. ASSUME NEW p \in Calls, UpsertHSM(p) PROVE IInv'
  BY <1>2, Quiet DEF UpsertHSM, Goto, Return, IInv, CallInv, PrevInv, TypeOK, Running, Idle, Early, Stored
<1>3. ASSUME NEW p \in Calls, NotifyCertExpiry(p) PROVE IInv'
  BY <1>3, Quiet DEF NotifyCertExpiry, Goto, IInv, CallInv, PrevInv, TypeOK, Running, Idle, Early, Stored
<1>4. ASSUME NEW p \in Calls, LatestScan(p) PROVE IInv'
  <2> DEFINE ids == IdsOf(call[p].hsm)
  <2>1. /\ \A q \in Calls \ {p} : call'[q] = call[q]
        /\ call'[p].at = "insert" /\ call'[p].hsm = call[p].hsm
        /\ \/ call'[p].prev = call[p].prev /\ call[p].at = "latest"
           \/ call'[p].prev \in {NoScan} \cup ids
        /\ UNCHANGED <<scans, events, alerts>>
    BY <1>4 DEF LatestScan, Latest, IInv, TypeOK, Running, Idle, NoScan
  <2>2. PrevInv'
    BY <1>4, <2>1 DEF LatestScan, PrevInv, IInv, CallInv, IdsOf, Early
  <2>3. QED
    BY <2>1, <2>2 DEF IInv, CallInv, NewInv, OwnInv, PendingInv, Pending, AlertInv, AlertStage,
      Kinds, Stored, EventsTruthful, OneEventPerScan, AlertsBacked
<1>5. ASSUME NEW p \in Calls, InsertScan(p) PROVE IInv'
  BY <1>5, InsertKeeps
<1>6. ASSUME NEW p \in Calls, CheckRegression(p) PROVE IInv'
  BY <1>6, CompareKeeps DEF CheckRegression, Compare, Goto, Kinds
<1>7. ASSUME NEW p \in Calls, CheckDrift(p) PROVE IInv'
  BY <1>7, CompareKeeps DEF CheckDrift, Compare, Goto, Return, Kinds
<1>8. ASSUME NEW p \in Calls, NEW k \in Kinds, StartAlert(p, k) PROVE IInv'
  BY <1>8, AlertKeeps
<1>9. ASSUME NEW p \in Calls, MailReturns(p) PROVE IInv'
  <2>1. CASE call[p].at = "regressionMail" /\ Goto(p, "drift")
    <3>1. /\ \A q \in Calls \ {p} : call'[q] = call[q]
          /\ call'[p].at = "drift" /\ call'[p].prev = call[p].prev /\ call'[p].new = call[p].new
          /\ call'[p].hsm = call[p].hsm /\ call'[p].report = call[p].report
          /\ UNCHANGED <<scans, events, alerts>>
      BY <1>9, <2>1 DEF MailReturns, Goto, IInv, TypeOK, Running, Idle
    <3>2. QED
      BY <2>1, <3>1, Quiet DEF Stored, Pending, AlertStage, Kinds
  <2>2. CASE call[p].at = "driftMail" /\ Return(p)
    BY <1>9, <2>2, Quiet DEF MailReturns, Return, IInv, TypeOK, Idle, Early, Stored
  <2>3. QED
    BY <1>9, <2>1, <2>2 DEF MailReturns
<1>10. ASSUME Crash PROVE IInv'
  <2>1. /\ \A q \in Calls : call'[q].at = "idle"
        /\ UNCHANGED <<scans, events, alerts>>
    BY <1>10 DEF Crash, Idle
  <2>2. QED
    BY <2>1 DEF IInv, EventsTruthful, OneEventPerScan, AlertsBacked, CallInv, PrevInv,
                NewInv, OwnInv, PendingInv, AlertInv, Pending, AlertStage, Early, Stored
<1>11. ASSUME NEW p \in Calls, PreviousUnreadable(p) PROVE IInv'
  BY <1>11, Quiet DEF PreviousUnreadable, Return, IInv, TypeOK, Idle, Early, Stored
<1>12. CASE UNCHANGED vars
  BY <1>12 DEF vars, IInv, TypeOK, EventsTruthful, OneEventPerScan, AlertsBacked, CallInv,
               PrevInv, NewInv, OwnInv, PendingInv, AlertInv, IdsOf
<1>13. QED
  BY <1>1, <1>2, <1>3, <1>4, <1>5, <1>6, <1>7, <1>8, <1>9, <1>10, <1>11, <1>12
     DEF Next, Step, Mail
LEMMA Inductive == Spec => []IInv
<1>1. Init => IInv
  BY InductiveInit
<1>2. IInv /\ TypeOK' /\ [Next]_vars => IInv'
  BY InductiveStep
<1>3. QED
  BY <1>1, <1>2, TypeCorrect, PTL DEF Spec

\* Every drift and regression event relates two stored scans of one HSM, the
\* older row first, that differ as the event says.
THEOREM EventsAreTruthful == Spec => []EventsTruthful
<1>1. IInv => EventsTruthful
  BY DEF IInv
<1>2. QED
  BY <1>1, Inductive, PTL

\* No two concurrent calls, and no repetition, give a scan two events of a kind.
THEOREM OneEvent == Spec => []OneEventPerScan
<1>1. IInv => OneEventPerScan
  BY DEF IInv
<1>2. QED
  BY <1>1, Inductive, PTL

\* An alert is started only for an event that is in the history.
THEOREM AlertsAreBacked == Spec => []AlertsBacked
<1>1. IInv => AlertsBacked
  BY DEF IInv
<1>2. QED
  BY <1>1, Inductive, PTL

--------------------------------------------------------------------------------
\* The server implements ScanLog: whatever its calls, errors and crashes do to
\* the tables is the append of a row, or of one truthful new event, or nothing.
THEOREM ImplementsLog == Spec => LogSpec
<1>1. Init => Log!Init
  BY DEF Init, Log!Init
<1>2. IInv /\ [Next]_vars => [Log!Next]_<<scans, events>>
  <2> SUFFICES ASSUME IInv, [Next]_vars PROVE [Log!Next]_<<scans, events>>
    OBVIOUS
  <2>1. ASSUME NEW p \in Calls, InsertScan(p) PROVE [Log!Next]_<<scans, events>>
    <3>1. call[p] \in Running
      BY <2>1 DEF InsertScan, IInv, TypeOK, Idle
    <3>2. [hsm |-> call[p].hsm, report |-> call[p].report] \in Scan
      BY <3>1 DEF Running, Scan
    <3>3. QED
      BY <2>1, <3>2 DEF InsertScan, Scan, Log!Next, Log!Record, Log!Scan
  <2>2. ASSUME NEW p \in Calls, NEW kind \in Kinds, call[p].at = kind,
               Worth(kind, scans[call[p].prev].report, call[p].report),
               events' = events \cup {[kind |-> kind, old |-> call[p].prev, new |-> call[p].new]},
               UNCHANGED scans
        PROVE  Log!Announce
    <3> DEFINE c == call[p]
               e == [kind |-> kind, old |-> c.prev, new |-> c.new]
    <3>1. /\ c.prev \in IdsOf(c.hsm) /\ c.new \in DOMAIN scans /\ c.prev < c.new
          /\ scans[c.new] = [hsm |-> c.hsm, report |-> c.report]
      BY <2>2 DEF IInv, CallInv, PrevInv, NewInv, Stored, Kinds
    <3>2. c.prev \in DOMAIN scans /\ Truthful(scans, e)
      BY <2>2, <3>1 DEF Truthful, IdsOf
    <3>3. \A f \in events : ~(f.kind = e.kind /\ f.new = e.new)
      BY <2>2 DEF IInv, CallInv, PendingInv, Pending, Kinds
    <3>4. Log!Truthful(scans, e)
      BY <3>2 DEF Truthful, Worth, Regressed, Drifted, ScoreDrop, Log!Truthful, Log!Worth,
                  Log!Regressed, Log!Drifted, Log!ScoreDrop
    <3>5. kind \in Log!Kinds
      BY DEF Kinds, Log!Kinds
    <3>6. QED
      BY <2>2, <3>1, <3>2, <3>3, <3>4, <3>5 DEF Log!Announce
  <2>3. ASSUME NEW p \in Calls, CheckRegression(p) PROVE [Log!Next]_<<scans, events>>
    BY <2>2, <2>3 DEF CheckRegression, Compare, Kinds, Log!Next
  <2>4. ASSUME NEW p \in Calls, CheckDrift(p) PROVE [Log!Next]_<<scans, events>>
    BY <2>2, <2>4 DEF CheckDrift, Compare, Kinds, Log!Next
  <2>5. ASSUME NEW p \in Calls,
               UpsertHSM(p) \/ LatestScan(p) \/ NotifyCertExpiry(p) \/ MailReturns(p)
               \/ PreviousUnreadable(p)
               \/ \E k \in Kinds : StartAlert(p, k)
        PROVE  UNCHANGED <<scans, events>>
    BY <2>5 DEF UpsertHSM, LatestScan, NotifyCertExpiry, MailReturns, PreviousUnreadable, StartAlert
  <2>6. ASSUME NEW p \in Calls, NEW h \in HSMs, NEW r \in Reports, PersistScan(p, h, r)
        PROVE  UNCHANGED <<scans, events>>
    BY <2>6 DEF PersistScan
  <2>7. QED
    BY <2>1, <2>3, <2>4, <2>5, <2>6 DEF Next, Step, Mail, Crash, vars
<1>3. QED
  BY <1>1, <1>2, Inductive, PTL DEF Spec, LogSpec, Log!Spec

\* The events of the history are truthful, single and stored before their alerts, for
\* any number of overlapping calls, storage errors and crashes.
THEOREM HistoryIsSound == Spec => []EventsSound
  <1> QED BY EventsAreTruthful, OneEvent, AlertsAreBacked, PTL DEF EventsSound
--------------------------------------------------------------------------------
(* What is not missed.                                                      *)

\* The older scans of the HSM of row n.
Earlier(n) == IdsOf(scans[n].hsm) \cap 1..(n - 1)
Missed(kind, n) == [kind |-> kind, new |-> n] \in missed

\* A comparison still to be made that nothing has spoiled will be made with the scan
\* that was the latest when the row was stored; one that was made was made with it;
\* and a pair of scans worth an event has it, or waits for it, or is missed.
PendingLatest == \A p \in Calls, kind \in Kinds :
    call[p].at \in Pending(kind) /\ ~Missed(kind, call[p].new)
        => call[p].prev \in Latest(Earlier(call[p].new))
EventsLatest == \A e \in events : ~Missed(e.kind, e.new) => e.old \in Latest(Earlier(e.new))
WorthHeeded == \A n \in DOMAIN scans, kind \in Kinds : \A o \in Latest(Earlier(n)) :
    Worth(kind, scans[o].report, scans[n].report) =>
        \/ [kind |-> kind, old |-> o, new |-> n] \in events
        \/ Missed(kind, n)
        \/ \E p \in Calls : call[p].at \in Pending(kind) /\ call[p].new = n /\ call[p].prev = o
MissInv == PendingLatest /\ EventsLatest /\ WorthHeeded

\* The clock and the id of the row order the scans: one of them is the latest.
LEMMA LatestUnique ==
    ASSUME scans \in Seq(Scan), NEW ids \in SUBSET DOMAIN scans,
           NEW o \in Latest(ids), NEW i \in Latest(ids)
    PROVE  o = i
<1>1. o \in DOMAIN scans /\ i \in DOMAIN scans /\ o \in ids /\ i \in ids
  BY DEF Latest
<1>2. o \in Nat /\ i \in Nat /\ scans[o] \in Scan /\ scans[i] \in Scan
  BY <1>1
<1>3. scans[o].report.taken \in Nat /\ scans[i].report.taken \in Nat
  BY <1>2, ReportsAssumption DEF Scan
<1>4. /\ \/ scans[i].report.taken < scans[o].report.taken
         \/ scans[o].report.taken = scans[i].report.taken /\ i <= o
      /\ \/ scans[o].report.taken < scans[i].report.taken
         \/ scans[o].report.taken = scans[i].report.taken /\ o <= i
  BY <1>1 DEF Latest
<1>5. QED
  BY <1>2, <1>3, <1>4

\* What came before a row is not changed by the rows that come after it.
LEMMA EarlierKept ==
    ASSUME scans \in Seq(Scan), NEW row, scans' = Append(scans, row),
           NEW n \in DOMAIN scans
    PROVE  /\ scans'[n] = scans[n]
           /\ Earlier(n)' = Earlier(n)
           /\ Latest(Earlier(n))' = Latest(Earlier(n))
<1>1. /\ Len(scans) \in Nat /\ DOMAIN scans = 1..Len(scans) /\ DOMAIN scans' = 1..(Len(scans) + 1)
      /\ \A i \in DOMAIN scans : scans'[i] = scans[i]
  OBVIOUS
<1>2. Earlier(n)' = Earlier(n)
  BY <1>1 DEF Earlier, IdsOf
<1>3. Earlier(n) \subseteq DOMAIN scans
  BY DEF Earlier, IdsOf
<1>4. Latest(Earlier(n))' = Latest(Earlier(n))
  BY <1>1, <1>2, <1>3 DEF Latest
<1>5. QED
  BY <1>1, <1>2, <1>4

\* A step of one call that inserts no scan: the comparisons it makes or abandons leave
\* their event, or their trace in the history variable, or were not worth one.
LEMMA ComparisonsKept ==
    ASSUME TypeOK, MissInv, UNCHANGED scans, missed \subseteq missed', events \subseteq events',
           NEW p \in Calls,
           \A q \in Calls \ {p} : call'[q] = call[q],
           \A e \in events' \ events : /\ call[p].at \in Pending(e.kind) /\ e.kind \in Kinds
                                       /\ e.old = call[p].prev /\ e.new = call[p].new,
           \A k \in Kinds : call'[p].at \in Pending(k) =>
               /\ call[p].at \in Pending(k)
               /\ call'[p].prev = call[p].prev /\ call'[p].new = call[p].new,
           \A k \in Kinds : call[p].at \in Pending(k) =>
               \/ call'[p].at \in Pending(k)
               \/ [kind |-> k, new |-> call[p].new] \in missed'
               \/ [kind |-> k, old |-> call[p].prev, new |-> call[p].new] \in events'
               \/ ~Worth(k, scans[call[p].prev].report, scans[call[p].new].report)
    PROVE  MissInv'
<1>1. \A n : Latest(Earlier(n))' = Latest(Earlier(n))
  BY DEF Latest, Earlier, IdsOf
<1>2. \A k, n : Missed(k, n) => Missed(k, n)'
  BY DEF Missed
<1>3. \A e \in events : e.kind \in Kinds
  BY DEF TypeOK, Event
<1>4. PendingLatest'
  <2>1. ASSUME NEW q \in Calls, NEW k \in Kinds, (call[q].at \in Pending(k))', ~Missed(k, call[q].new)'
        PROVE  (call[q].prev \in Latest(Earlier(call[q].new)))'
    <3>1. /\ call[q].at \in Pending(k)
          /\ call'[q].prev = call[q].prev /\ call'[q].new = call[q].new
      BY <2>1
    <3>2. ~Missed(k, call[q].new)
      BY <2>1, <3>1 DEF Missed
    <3>3. call[q].prev \in Latest(Earlier(call[q].new))
      BY <3>1, <3>2 DEF MissInv, PendingLatest
    <3>4. QED
      BY <3>1, <3>3 DEF Latest, Earlier, IdsOf
  <2>2. QED
    BY <2>1 DEF PendingLatest, Pending
<1>5. EventsLatest'
  <2>1. ASSUME NEW e \in events', ~Missed(e.kind, e.new)'
        PROVE  e.old \in Latest(Earlier(e.new))'
    <3>1. ~Missed(e.kind, e.new)
      BY <2>1, <1>2
    <3>2. e.old \in Latest(Earlier(e.new))
      BY <3>1 DEF MissInv, EventsLatest, PendingLatest
    <3>3. QED
      BY <3>2, <1>1
  <2>2. QED
    BY <2>1 DEF EventsLatest
<1>6. WorthHeeded'
  <2>1. ASSUME NEW n \in DOMAIN scans, NEW k \in Kinds, NEW o \in Latest(Earlier(n)),
               Worth(k, scans[o].report, scans[n].report)
        PROVE  \/ [kind |-> k, old |-> o, new |-> n] \in events'
               \/ Missed(k, n)'
               \/ \E q \in Calls : call'[q].at \in Pending(k) /\ call'[q].new = n /\ call'[q].prev = o
    <3>1. CASE [kind |-> k, old |-> o, new |-> n] \in events
      BY <3>1
    <3>2. CASE Missed(k, n)
      BY <3>2, <1>2
    <3>3. ASSUME NEW q \in Calls, call[q].at \in Pending(k), call[q].new = n, call[q].prev = o
          PROVE  \/ [kind |-> k, old |-> o, new |-> n] \in events'
                 \/ Missed(k, n)'
                 \/ call'[q].at \in Pending(k) /\ call'[q].new = n /\ call'[q].prev = o
      <4>1. CASE q = p
        BY <2>1, <3>3, <4>1 DEF Missed
      <4>2. CASE q # p
        BY <3>3, <4>2
      <4>3. QED
        BY <4>1, <4>2
    <3>4. QED
      BY <2>1, <3>1, <3>2, <3>3 DEF MissInv, WorthHeeded
  <2>2. QED
    BY <2>1, <1>1 DEF WorthHeeded, Missed
<1>7. QED
  BY <1>4, <1>5, <1>6 DEF MissInv

\* The new row is compared with what was the latest when it came, or is missed.
LEMMA InsertHeeds ==
    ASSUME IInv, MissInv, NEW p \in Calls, InsertScan(p),
           NEW id, id = Len(scans) + 1,
           scans' = Append(scans, [hsm |-> call[p].hsm, report |-> call[p].report])
    PROVE  MissInv'
<1> DEFINE c == call[p]
           row == [hsm |-> c.hsm, report |-> c.report]
           latest == Latest(IdsOf(c.hsm))
<1>0. c \in Running /\ c.at = "insert" /\ scans \in Seq(Scan) /\ UNCHANGED events
  BY DEF InsertScan, IInv, TypeOK, Idle
<1>1. /\ id \in Nat /\ DOMAIN scans = 1..(id - 1)
      /\ DOMAIN scans' = 1..id /\ id \in DOMAIN scans' /\ id \notin DOMAIN scans /\ NoScan \notin DOMAIN scans
      /\ scans'[id] = row /\ \A i \in DOMAIN scans : scans'[i] = scans[i]
  BY <1>0 DEF Scan, NoScan
<1>2. \A n \in DOMAIN scans : scans'[n] = scans[n] /\ Latest(Earlier(n))' = Latest(Earlier(n))
  BY <1>0, EarlierKept
<1>3. Latest(Earlier(id))' = latest
  <2>1. Earlier(id)' = IdsOf(c.hsm)
    BY <1>1 DEF Earlier, IdsOf
  <2>2. IdsOf(c.hsm) \subseteq DOMAIN scans
    BY DEF IdsOf
  <2>3. QED
    BY <1>1, <2>1, <2>2 DEF Latest
<1>4. /\ \A q \in Calls \ {p} : call'[q] = call[q]
      /\ \/ call'[p] = Idle /\ c.prev = NoScan
         \/ /\ c.prev # NoScan /\ call'[p].at = "regression"
            /\ call'[p].new = id /\ call'[p].prev = c.prev
  <2>1. \/ Return(p) /\ c.prev = NoScan
        \/ c.prev # NoScan /\ call' = [call EXCEPT ![p].at = "regression", ![p].new = id]
    <3>1. DOMAIN scans' # DOMAIN scans
      BY <1>1
    <3>2. QED
      BY <3>1 DEF InsertScan
  <2>2. CASE Return(p) /\ c.prev = NoScan
    BY <2>2 DEF Return, IInv, TypeOK
  <2>3. CASE c.prev # NoScan /\ call' = [call EXCEPT ![p].at = "regression", ![p].new = id]
    BY <1>0, <2>3 DEF IInv, TypeOK, Running
  <2>4. QED
    BY <2>1, <2>2, <2>3
<1>5. /\ missed \subseteq missed'
      /\ c.prev \notin LatestOf(c.hsm) => \A k \in Kinds : [kind |-> k, new |-> id] \in missed'
  <2>1. DOMAIN scans' # DOMAIN scans
    BY <1>1
  <2>2. QED
    BY <2>1 DEF InsertScan
<1>6. c.prev \in LatestOf(c.hsm) => \/ c.prev = NoScan /\ latest = {}
                                    \/ c.prev # NoScan /\ c.prev \in latest
  BY <1>1 DEF LatestOf, Latest, IdsOf
<1>7. \A q \in Calls, k \in Kinds : q # p /\ call[q].at \in Pending(k) => call[q].new \in DOMAIN scans
  BY DEF IInv, CallInv, NewInv, Pending, Stored
<1>8. PendingLatest'
  <2>1. ASSUME NEW q \in Calls, NEW k \in Kinds, (call[q].at \in Pending(k))', ~Missed(k, call[q].new)'
        PROVE  (call[q].prev \in Latest(Earlier(call[q].new)))'
    <3>1. CASE q = p
      <4>1. call'[p].new = id /\ call'[p].prev = c.prev /\ c.prev # NoScan
        BY <1>4, <2>1, <3>1 DEF Idle, Pending
      <4>2. c.prev \in latest
        BY <1>5, <1>6, <2>1, <3>1, <4>1 DEF Missed
      <4>3. (Latest(Earlier(call[p].new)))' = latest
        BY <1>3, <4>1
      <4>4. QED
        BY <3>1, <4>1, <4>2, <4>3
    <3>2. CASE q # p
      <4>1. call'[q] = call[q]
        BY <1>4, <3>2
      <4>2. call[q].new \in DOMAIN scans
        BY <1>7, <2>1, <3>2, <4>1
      <4>3. ~Missed(k, call[q].new)
        BY <1>5, <2>1, <4>1 DEF Missed
      <4>4. call[q].prev \in Latest(Earlier(call[q].new))
        BY <2>1, <4>1, <4>3 DEF MissInv, PendingLatest
      <4>5. (Latest(Earlier(call[q].new)))' = Latest(Earlier(call[q].new))
        BY <1>2, <4>1, <4>2
      <4>6. QED
        BY <4>1, <4>4, <4>5
    <3>3. QED
      BY <3>1, <3>2
  <2>2. QED
    BY <2>1 DEF PendingLatest, Pending
<1>9. EventsLatest'
  <2>1. ASSUME NEW e \in events, ~Missed(e.kind, e.new)'
        PROVE  e.old \in Latest(Earlier(e.new))'
    <3>1. ~Missed(e.kind, e.new)
      BY <1>5, <2>1 DEF Missed
    <3>2. e.old \in Latest(Earlier(e.new))
      BY <3>1 DEF MissInv, EventsLatest
    <3>3. e.new \in DOMAIN scans
      BY DEF IInv, EventsTruthful, Truthful
    <3>4. QED
      BY <1>2, <3>2, <3>3
  <2>2. QED
    BY <1>0, <2>1 DEF EventsLatest
<1>10. WorthHeeded'
  <2>1. ASSUME NEW n \in DOMAIN scans', NEW k \in Kinds, NEW o \in Latest(Earlier(n))',
               Worth(k, scans'[o].report, scans'[n].report)
        PROVE  \/ [kind |-> k, old |-> o, new |-> n] \in events'
               \/ Missed(k, n)'
               \/ \E q \in Calls : call'[q].at \in Pending(k) /\ call'[q].new = n /\ call'[q].prev = o
    <3>1. CASE n = id
      <4>1. o \in latest
        BY <1>3, <2>1, <3>1
      <4>2. ASSUME [kind |-> k, new |-> id] \notin missed'
            PROVE  c.prev # NoScan /\ c.prev \in latest
        BY <1>5, <1>6, <4>1, <4>2
      <4>3. ASSUME c.prev # NoScan, c.prev \in latest
            PROVE  call'[p].at \in Pending(k) /\ call'[p].new = id /\ call'[p].prev = o
        <5>1. IdsOf(c.hsm) \in SUBSET DOMAIN scans
          BY DEF IdsOf
        <5>2. c.prev = o
          BY <1>0, <4>1, <4>3, <5>1, LatestUnique
        <5>3. QED
          BY <1>4, <4>3, <5>2 DEF Pending
      <4>4. QED
        BY <3>1, <4>2, <4>3 DEF Missed
    <3>2. CASE n \in DOMAIN scans
      <4>1. o \in Latest(Earlier(n))
        BY <1>2, <2>1, <3>2
      <4>2. o \in DOMAIN scans
        BY <4>1 DEF Latest, Earlier, IdsOf
      <4>3. Worth(k, scans[o].report, scans[n].report)
        BY <1>2, <2>1, <3>2, <4>2
      <4>4. \/ [kind |-> k, old |-> o, new |-> n] \in events
            \/ [kind |-> k, new |-> n] \in missed
            \/ \E q \in Calls : call[q].at \in Pending(k) /\ call[q].new = n /\ call[q].prev = o
        BY <3>2, <4>1, <4>3 DEF MissInv, WorthHeeded, Missed
      <4>5. \A q \in Calls : call[q].at \in Pending(k) => call'[q] = call[q]
        BY <1>0, <1>4 DEF Pending
      <4>6. QED
        BY <1>0, <1>5, <4>4, <4>5 DEF Missed
    <3>3. QED
      BY <1>1, <3>1, <3>2
  <2>2. QED
    BY <2>1 DEF WorthHeeded
<1>11. QED
  BY <1>8, <1>9, <1>10 DEF MissInv

\* A crash ends every call, and each comparison it cuts short is missed.
LEMMA CrashMisses ==
    ASSUME TypeOK, MissInv, Crash
    PROVE  MissInv'
<1>1. /\ \A q \in Calls : call'[q].at = "idle"
      /\ missed \subseteq missed' /\ UNCHANGED <<scans, events>>
  BY DEF Crash, Idle
<1>2. ASSUME NEW q \in Calls, NEW k \in Kinds, call[q].at \in Pending(k)
      PROVE  [kind |-> k, new |-> call[q].new] \in missed'
  <2> DEFINE cut(r) == IF call[r].at = "regression" THEN [kind : Kinds, new : {call[r].new}]
                       ELSE IF call[r].at \in {"regressionAlert", "regressionMail", "drift"}
                            THEN {[kind |-> "drift", new |-> call[r].new]} ELSE {}
  <2>1. missed' = missed \cup UNION {cut(r) : r \in Calls}
    BY DEF Crash
  <2>2. cut(q) \subseteq missed'
    BY <2>1
  <2>3. CASE call[q].at = "regression"
    <3>1. [kind |-> k, new |-> call[q].new] \in cut(q)
      BY <2>3
    <3>2. QED
      BY <2>2, <3>1
  <2>4. CASE call[q].at # "regression"
    <3>1. k = "drift" /\ call[q].at \in {"regressionAlert", "regressionMail", "drift"}
      BY <1>2, <2>4 DEF Pending, Kinds
    <3>2. [kind |-> k, new |-> call[q].new] \in cut(q)
      BY <2>4, <3>1
    <3>3. QED
      BY <2>2, <3>2
  <2>5. QED
    BY <2>3, <2>4
<1>3. \A n : Latest(Earlier(n))' = Latest(Earlier(n))
  BY <1>1 DEF Latest, Earlier, IdsOf
<1>4. PendingLatest'
  BY <1>1 DEF PendingLatest, Pending
<1>5. EventsLatest'
  <2>1. ASSUME NEW e \in events', ~Missed(e.kind, e.new)'
        PROVE  e.old \in Latest(Earlier(e.new))'
    BY <1>1, <1>3, <2>1 DEF MissInv, EventsLatest, Missed
  <2>2. QED
    BY <2>1 DEF EventsLatest
<1>6. WorthHeeded'
  <2>1. ASSUME NEW n \in DOMAIN scans, NEW k \in Kinds, NEW o \in Latest(Earlier(n)),
               Worth(k, scans[o].report, scans[n].report)
        PROVE  [kind |-> k, old |-> o, new |-> n] \in events' \/ Missed(k, n)'
    BY <1>1, <1>2, <2>1 DEF MissInv, WorthHeeded, Missed
  <2>2. QED
    BY <1>1, <1>3, <2>1 DEF WorthHeeded
<1>7. QED
  BY <1>4, <1>5, <1>6 DEF MissInv

\* A comparison writes its event, or finds nothing worth one, or is missed.
LEMMA CompareHeeds ==
    ASSUME IInv, MissInv, NEW p \in Calls, NEW kind \in Kinds,
           \/ kind = "regression" /\ CheckRegression(p)
           \/ kind = "drift" /\ CheckDrift(p)
    PROVE  MissInv'
<1> DEFINE c == call[p]
           e == [kind |-> kind, old |-> c.prev, new |-> c.new]
           stage == call'[p].at
<1>1. /\ c \in Running /\ c.at = kind /\ c.at \in Stored /\ UNCHANGED scans
      /\ missed \subseteq missed' /\ events \subseteq events' /\ events' \subseteq events \cup {e}
      /\ \/ ~Worth(kind, scans[c.prev].report, c.report)
         \/ e \in events'
         \/ [kind |-> kind, new |-> c.new] \in missed'
  BY DEF CheckRegression, CheckDrift, Compare, IInv, TypeOK, Idle, Kinds, Stored
<1>2. /\ \A q \in Calls \ {p} : call'[q] = call[q]
      /\ \/ call'[p] = Idle /\ kind = "drift"
         \/ /\ call'[p].at \in {AlertStage(kind)} \cup {"drift" : k \in {"regression"} \cap {kind}}
            /\ call'[p].prev = c.prev /\ call'[p].new = c.new
  <2>1. \/ Return(p) /\ kind = "drift"
        \/ Goto(p, "drift") /\ kind = "regression"
        \/ Goto(p, AlertStage(kind))
    BY DEF CheckRegression, CheckDrift, Compare
  <2>2. CASE Return(p) /\ kind = "drift"
    BY <2>2 DEF Return, IInv, TypeOK
  <2>3. CASE Goto(p, "drift") /\ kind = "regression"
    BY <1>1, <2>3 DEF Goto, IInv, TypeOK, Running
  <2>4. CASE Goto(p, AlertStage(kind))
    BY <1>1, <2>4 DEF Goto, IInv, TypeOK, Running
  <2>5. QED
    BY <2>1, <2>2, <2>3, <2>4
<1>3. scans[c.new].report = c.report
  <2>1. scans[c.new] = [hsm |-> c.hsm, report |-> c.report]
    BY <1>1 DEF IInv, CallInv, NewInv
  <2>2. QED
    BY <2>1
<1>4. ASSUME NEW k \in Kinds, stage \in Pending(k)
      PROVE  c.at \in Pending(k) /\ call'[p].prev = c.prev /\ call'[p].new = c.new
  BY <1>1, <1>2, <1>4 DEF Kinds, Pending, AlertStage, Idle
<1>5. ASSUME NEW k \in Kinds, c.at \in Pending(k)
      PROVE  k = kind \/ stage \in Pending(k)
  BY <1>1, <1>2, <1>5 DEF Kinds, Pending, AlertStage, Idle
<1>6. TypeOK
  BY DEF IInv
<1>7. \A f \in events' \ events : c.at \in Pending(f.kind) /\ f.kind \in Kinds /\ f.old = c.prev /\ f.new = c.new
  BY <1>1 DEF Pending, Kinds
<1>8. \A k \in Kinds : c.at \in Pending(k) =>
        \/ stage \in Pending(k)
        \/ [kind |-> k, new |-> c.new] \in missed'
        \/ [kind |-> k, old |-> c.prev, new |-> c.new] \in events'
        \/ ~Worth(k, scans[c.prev].report, scans[c.new].report)
  BY <1>1, <1>3, <1>5
<1>9. QED
  BY <1>1, <1>2, <1>4, <1>6, <1>7, <1>8, ComparisonsKept

\* A previous report that cannot be read: both comparisons are missed.
LEMMA UnreadableMisses ==
    ASSUME IInv, MissInv, NEW p \in Calls, PreviousUnreadable(p)
    PROVE  MissInv'
<1> DEFINE c == call[p]
<1>1. /\ c \in Running /\ c.at = "regression" /\ UNCHANGED <<scans, events>>
      /\ missed \subseteq missed' /\ TypeOK
      /\ \A k \in Kinds : [kind |-> k, new |-> c.new] \in missed'
  BY DEF PreviousUnreadable, IInv, TypeOK, Idle
<1>2. call'[p] = Idle /\ \A q \in Calls \ {p} : call'[q] = call[q]
  BY DEF PreviousUnreadable, Return, IInv, TypeOK
<1>3. \A k \in Kinds : call'[p].at \notin Pending(k)
  BY <1>2 DEF Pending, Idle
<1>4. QED
  BY <1>1, <1>2, <1>3, ComparisonsKept

\* A call that moves on without a comparison being made or given up.
LEMMA MovesHeed ==
    ASSUME TypeOK, MissInv, UNCHANGED <<scans, events, missed>>, NEW p \in Calls,
           \A q \in Calls \ {p} : call'[q] = call[q],
           \/ /\ \A k \in Kinds : call[p].at \notin Pending(k)
              /\ \A k \in Kinds : call'[p].at \notin Pending(k)
           \/ /\ call'[p].prev = call[p].prev /\ call'[p].new = call[p].new
              /\ \A k \in Kinds : call'[p].at \in Pending(k) <=> call[p].at \in Pending(k)
    PROVE  MissInv'
BY ComparisonsKept

LEMMA MissStep == IInv /\ MissInv /\ [Next]_vars => MissInv'
<1> SUFFICES ASSUME IInv, MissInv, [Next]_vars PROVE MissInv'
  OBVIOUS
<1>0. TypeOK
  BY DEF IInv
<1>1. ASSUME NEW p \in Calls, NEW h \in HSMs, NEW r \in Reports, PersistScan(p, h, r)
      PROVE MissInv'
  <2>1. /\ \A q \in Calls \ {p} : call'[q] = call[q]
        /\ call[p].at = "idle" /\ call'[p].at = "upsert" /\ UNCHANGED <<scans, events, missed>>
    BY <1>0, <1>1 DEF PersistScan, Active, TypeOK
  <2>2. QED
    BY <1>0, <2>1, MovesHeed DEF Pending
<1>2. ASSUME NEW p \in Calls, UpsertHSM(p) \/ NotifyCertExpiry(p) \/ LatestScan(p)
      PROVE MissInv'
  <2>1. /\ \A q \in Calls \ {p} : call'[q] = call[q]
        /\ call[p].at \in Early /\ UNCHANGED <<scans, events, missed>>
    BY <1>0, <1>2 DEF UpsertHSM, NotifyCertExpiry, LatestScan, Goto, Return, TypeOK, Early
  <2>2. call'[p].at \in {"idle", "certs", "latest", "insert"}
    BY <1>0, <1>2 DEF UpsertHSM, NotifyCertExpiry, LatestScan, Goto, Return, TypeOK, Running, Idle
  <2>3. QED
    BY <1>0, <2>1, <2>2, MovesHeed DEF Pending, Early
<1>3. ASSUME NEW p \in Calls, InsertScan(p) PROVE MissInv'
  <2>1. CASE scans' = Append(scans, [hsm |-> call[p].hsm, report |-> call[p].report])
    <3>1. \E id : id = Len(scans) + 1
      OBVIOUS
    <3>2. QED
      BY <1>3, <2>1, <3>1, InsertHeeds
  <2>2. CASE scans' # Append(scans, [hsm |-> call[p].hsm, report |-> call[p].report])
    <3>1. /\ Return(p) /\ UNCHANGED <<scans, events, missed>> /\ call[p].at = "insert"
      BY <1>3, <2>2 DEF InsertScan
    <3>2. call'[p] = Idle /\ \A q \in Calls \ {p} : call'[q] = call[q]
      BY <1>0, <3>1 DEF Return, TypeOK
    <3>3. QED
      BY <1>0, <3>1, <3>2, MovesHeed DEF Pending, Idle
  <2>3. QED
    BY <2>1, <2>2
<1>4. ASSUME NEW p \in Calls, CheckRegression(p) PROVE MissInv'
  BY <1>4, CompareHeeds DEF Kinds
<1>5. ASSUME NEW p \in Calls, CheckDrift(p) PROVE MissInv'
  BY <1>5, CompareHeeds DEF Kinds
<1>6. ASSUME NEW p \in Calls, NEW k \in Kinds, StartAlert(p, k) PROVE MissInv'
  <2>1. /\ \A q \in Calls \ {p} : call'[q] = call[q]
        /\ call[p].at = AlertStage(k) /\ call'[p].at = MailStage(k)
        /\ call'[p].prev = call[p].prev /\ call'[p].new = call[p].new
        /\ UNCHANGED <<scans, events, missed>>
    BY <1>0, <1>6 DEF StartAlert, Goto, TypeOK, Running, Idle, AlertStage
  <2>2. \A i \in Kinds : call'[p].at \in Pending(i) <=> call[p].at \in Pending(i)
    BY <2>1 DEF AlertStage, MailStage, Pending, Kinds
  <2>3. QED
    BY <1>0, <2>1, <2>2, MovesHeed
<1>7. ASSUME NEW p \in Calls, MailReturns(p) PROVE MissInv'
  <2>1. CASE call[p].at = "regressionMail" /\ Goto(p, "drift")
    <3>1. /\ \A q \in Calls \ {p} : call'[q] = call[q]
          /\ call'[p].at = "drift" /\ call'[p].prev = call[p].prev /\ call'[p].new = call[p].new
          /\ UNCHANGED <<scans, events, missed>>
      BY <1>0, <1>7, <2>1 DEF MailReturns, Goto, TypeOK, Running, Idle
    <3>2. QED
      BY <1>0, <2>1, <3>1, MovesHeed DEF Pending
  <2>2. CASE call[p].at = "driftMail" /\ Return(p)
    <3>1. /\ \A q \in Calls \ {p} : call'[q] = call[q]
          /\ call'[p].at = "idle" /\ UNCHANGED <<scans, events, missed>>
      BY <1>0, <1>7, <2>2 DEF MailReturns, Return, TypeOK, Idle
    <3>2. QED
      BY <1>0, <2>2, <3>1, MovesHeed DEF Pending
  <2>3. QED
    BY <1>7, <2>1, <2>2 DEF MailReturns
<1>8. ASSUME Crash PROVE MissInv'
  BY <1>0, <1>8, CrashMisses
<1>9. ASSUME NEW p \in Calls, PreviousUnreadable(p) PROVE MissInv'
  BY <1>9, UnreadableMisses
<1>10. CASE UNCHANGED vars
  BY <1>10 DEF vars, MissInv, PendingLatest, EventsLatest, WorthHeeded, Missed, Latest, Earlier, IdsOf
<1>11. QED
  BY <1>1, <1>2, <1>3, <1>4, <1>5, <1>6, <1>7, <1>8, <1>9, <1>10 DEF Next, Step, Mail

LEMMA MissInvariant == Spec => []MissInv
<1>1. Init => MissInv
  BY DEF Init, MissInv, PendingLatest, EventsLatest, WorthHeeded, Idle, Pending
<1>2. QED
  BY <1>1, MissStep, Inductive, PTL DEF Spec

\* A scan that differs from the latest of its HSM when it was stored has its event once
\* its call is past the comparison, unless an error, a crash or another call's insert is
\* to blame: no interleaving of calls loses one.
THEOREM NothingIsOverlooked == Spec => []NothingOverlooked
<1>1. IInv /\ MissInv => NothingOverlooked
  <2> SUFFICES ASSUME IInv, MissInv, NEW n \in DOMAIN scans, NEW kind \in Kinds,
                      NEW o \in Latest(Earlier(n)),
                      Worth(kind, scans[o].report, scans[n].report),
                      Settled(n, kind), ~Missed(kind, n)
               PROVE  [kind |-> kind, old |-> o, new |-> n] \in events
    BY DEF NothingOverlooked, Earlier, Missed
  <2>1. \A p \in Calls : ~(call[p].at \in Pending(kind) /\ call[p].new = n)
    BY DEF Settled, Active, Pending, Kinds
  <2>2. QED
    BY <2>1 DEF MissInv, WorthHeeded
<1>2. QED
  BY <1>1, Inductive, MissInvariant, PTL

\* As long as scans arrive in the order of their clocks, an event compares two
\* consecutive scans of its HSM, unless another call stored one in between.
THEOREM EventsAreConsecutive == Spec => []ConsecutiveUnlessOvertaken
<1>1. IInv /\ MissInv => ConsecutiveUnlessOvertaken
  <2> SUFFICES ASSUME IInv, MissInv, ClocksInOrder, NEW e \in events, ~Missed(e.kind, e.new),
                      NEW i \in IdsOf(scans[e.new].hsm), e.old < i, i < e.new
               PROVE  FALSE
    BY DEF ConsecutiveUnlessOvertaken, Missed
  <2>1. e.old \in Latest(Earlier(e.new))
    BY DEF MissInv, EventsLatest
  <2>2. /\ i \in DOMAIN scans /\ i \in Nat /\ e.old \in DOMAIN scans /\ e.old \in Nat /\ e.new \in Nat
        /\ scans[i].hsm = scans[e.new].hsm /\ scans[e.old].hsm = scans[e.new].hsm
        /\ scans[i] \in Scan /\ scans[e.old] \in Scan
    BY DEF IInv, TypeOK, EventsTruthful, Truthful, IdsOf, Event
  <2>3. i \in Earlier(e.new)
    BY <2>2 DEF Earlier, IdsOf
  <2>4. \/ scans[i].report.taken < scans[e.old].report.taken
        \/ scans[e.old].report.taken = scans[i].report.taken /\ i <= e.old
    BY <2>1, <2>3 DEF Latest
  <2>5. scans[e.old].report.taken <= scans[i].report.taken
    BY <2>2 DEF ClocksInOrder
  <2>6. scans[i].report.taken \in Nat /\ scans[e.old].report.taken \in Nat
    BY <2>2, ReportsAssumption DEF Scan
  <2>7. QED
    BY <2>2, <2>4, <2>5, <2>6
<1>2. QED
  BY <1>1, Inductive, MissInvariant, PTL

--------------------------------------------------------------------------------
(* The migrations.                                                          *)

USE MigrationAssumption

\* What a process has seen created by the time it reaches each place: objects are
\* never removed, so what it once found or made stays.
Progress(s) ==
    /\ at[s] \in {"loop", "record", "unlock"} => Upto(doing[s]) \subseteq objects
    /\ at[s] = "exec" =>
          /\ doing[s] \in 1..Len(Statements)
          /\ stmt[s] \in 1..Statements[doing[s]]
          /\ Upto(doing[s] - 1) \subseteq objects
          /\ \A n \in 1..Statements[doing[s]] : n < stmt[s] => <<doing[s], n>> \in objects
    /\ at[s] \in {"unlock", "ready"} => Upto(Known[s]) \subseteq objects

MigrationIInv == MigrationTypeOK /\ VersionBacked /\ \A s \in Servers : Progress(s)

LEMMA UptoStep ==
    ASSUME NEW i \in 1..Len(Statements)
    PROVE  Upto(i) = Upto(i - 1) \cup {<<i, n>> : n \in 1..Statements[i]}
  <1> DEFINE Of(j) == {<<j, n>> : n \in 1..Statements[j]}
  <1>1. ASSUME NEW o \in Upto(i) PROVE o \in Upto(i - 1) \cup Of(i)
    <2>1. PICK j \in 1..Len(Statements) : \E n \in 1..Statements[j] : o = <<j, n>>
      BY <1>1 DEF Upto, Object
    <2>2. j <= i
      BY <1>1, <2>1 DEF Upto
    <2>3. CASE j = i
      BY <2>1, <2>3
    <2>4. CASE j < i
      <3>1. o \in Object
        BY <1>1 DEF Upto
      <3>2. o[1] <= i - 1
        BY <2>1, <2>4
      <3>3. QED
        BY <3>1, <3>2 DEF Upto
    <2>5. QED
      BY <2>2, <2>3, <2>4
  <1>2. ASSUME NEW o \in Upto(i - 1) PROVE o \in Upto(i)
    <2>1. PICK j \in 1..Len(Statements) : \E n \in 1..Statements[j] : o = <<j, n>>
      BY <1>2 DEF Upto, Object
    <2>2. o \in Object /\ o[1] <= i - 1
      BY <1>2 DEF Upto
    <2>3. o[1] <= i
      BY <2>1, <2>2
    <2>4. QED
      BY <2>2, <2>3 DEF Upto
  <1>3. ASSUME NEW o \in Of(i) PROVE o \in Upto(i)
    <2>1. o[1] = i
      BY <1>3
    <2>2. o \in Object
      BY <1>3 DEF Object
    <2>3. o[1] <= i
      BY <2>1
    <2>4. QED
      BY <2>2, <2>3 DEF Upto
  <1>4. QED
    BY <1>1, <1>2, <1>3

LEMMA UptoMonotone ==
    ASSUME NEW i \in 0..Len(Statements), NEW j \in 0..Len(Statements), i <= j
    PROVE  Upto(i) \subseteq Upto(j)
  <1>1. ASSUME NEW o \in Upto(i) PROVE o \in Upto(j)
    <2>1. PICK k \in 1..Len(Statements) : \E n \in 1..Statements[k] : o = <<k, n>>
      BY <1>1 DEF Upto, Object
    <2>2. o \in Object /\ k <= i
      BY <1>1, <2>1 DEF Upto
    <2>3. k <= j
      BY <2>2
    <2>4. QED
      BY <2>1, <2>2, <2>3 DEF Upto
  <1>2. QED
    BY <1>1

\* Objects are never removed: whatever a process knew stays true.
LEMMA ProgressKept ==
    ASSUME MigrationTypeOK, NEW s \in Servers, Progress(s), objects \subseteq objects',
           at'[s] = at[s], doing'[s] = doing[s], stmt'[s] = stmt[s]
    PROVE  Progress(s)'
  BY DEF Progress

LEMMA InitIInv == MigrationInit => MigrationIInv
  <1> SUFFICES ASSUME MigrationInit PROVE MigrationIInv
    OBVIOUS
  <1>1. MigrationTypeOK
    BY DEF MigrationInit, MigrationTypeOK, Places, Upto
  <1>2. VersionBacked
    BY DEF MigrationInit, VersionBacked
  <1>3. \A s \in Servers : Progress(s)
    BY DEF MigrationInit, Progress
  <1>4. QED
    BY <1>1, <1>2, <1>3 DEF MigrationIInv

\* Every object of a batch is one of the migration.
LEMMA BatchObjects ==
    ASSUME MigrationTypeOK, NEW s \in Servers, Progress(s), at[s] = "exec"
    PROVE  Batch(s) \subseteq Object
  BY DEF Batch, Progress, Object

LEMMA TypeStep == MigrationIInv /\ [MigrationNext]_migrationVars => MigrationTypeOK'
  <1> SUFFICES ASSUME MigrationIInv, [MigrationNext]_migrationVars PROVE MigrationTypeOK'
    OBVIOUS
  <1> USE DEF MigrationIInv, MigrationTypeOK, Places, Reach, others
  <1>0. \A s \in Servers : Known[s] \in 0..Len(Statements)
    OBVIOUS
  <1>1. CASE UNCHANGED migrationVars
    BY <1>1 DEF migrationVars
  <1>2. ASSUME NEW s \in Servers, Start(s) PROVE MigrationTypeOK'
    BY <1>2 DEF Start
  <1>3. ASSUME NEW s \in Servers, Lock(s) PROVE MigrationTypeOK'
    BY <1>3 DEF Lock
  <1>4. ASSUME NEW s \in Servers, Read(s) PROVE MigrationTypeOK'
    BY <1>4 DEF Read
  <1>5. ASSUME NEW s \in Servers, Loop(s) PROVE MigrationTypeOK'
    <2>1. ASSUME doing[s] < Known[s] PROVE doing[s] + 1 \in 0..Len(Statements)
      <3>1. doing[s] \in 0..Len(Statements) /\ Known[s] \in 0..Len(Statements)
        BY <1>0
      <3>2. Len(Statements) \in Nat
        OBVIOUS
      <3>3. QED
        BY <2>1, <3>1, <3>2
    <2>2. doing' \in [Servers -> 0..Len(Statements)]
      <3>1. doing' = doing \/ (doing[s] < Known[s] /\ doing' = [doing EXCEPT ![s] = @ + 1])
        BY <1>5 DEF Loop
      <3>2. QED
        BY <2>1, <3>1
    <2>2a. stmt' \in [Servers -> Nat]
      BY <1>5 DEF Loop
    <2>3. at' \in [Servers -> Places]
      BY <1>5 DEF Loop
    <2>4. QED
      BY <1>5, <2>2, <2>2a, <2>3 DEF Loop
  <1>6. ASSUME NEW s \in Servers, Exec(s) PROVE MigrationTypeOK'
    <2>1. objects' \subseteq Object
      <3>1. at[s] = "exec" /\ (objects' = objects \/ objects' = objects \cup Batch(s))
        BY <1>6 DEF Exec
      <3>2. MigrationTypeOK /\ Progress(s)
        OBVIOUS
      <3>3. Batch(s) \subseteq Object
        BY <3>1, <3>2, BatchObjects
      <3>4. QED
        BY <3>1, <3>3
    <2>2. stmt' \in [Servers -> Nat]
      <3>1. stmt' = stmt \/ stmt' = [stmt EXCEPT ![s] = @ + 1]
        BY <1>6 DEF Exec
      <3>2. stmt \in [Servers -> Nat] /\ stmt[s] + 1 \in Nat
        OBVIOUS
      <3>3. QED
        BY <3>1, <3>2
    <2>2a. at' \in [Servers -> Places]
      <3>1. at' = at \/ \E place \in Places : at' = [at EXCEPT ![s] = place]
        BY <1>6 DEF Exec
      <3>2. QED
        BY <3>1
    <2>3. lock' \in Servers \cup {NoOne}
      BY <1>6 DEF Exec
    <2>4. QED
      BY <1>6, <2>1, <2>2, <2>2a, <2>3 DEF Exec
  <1>7. ASSUME NEW s \in Servers, Record(s) PROVE MigrationTypeOK'
    BY <1>7 DEF Record
  <1>8. ASSUME NEW s \in Servers, Unlock(s) PROVE MigrationTypeOK'
    BY <1>8 DEF Unlock
  <1>9. ASSUME NEW s \in Servers, Stop(s) PROVE MigrationTypeOK'
    <2>1. at' \in [Servers -> Places] /\ lock' \in Servers \cup {NoOne}
      BY <1>9 DEF Stop
    <2>2. crashes' \in 0..MaxCrashes
      BY <1>9 DEF Stop
    <2>3. QED
      BY <1>9, <2>1, <2>2 DEF Stop
  <1>10. ASSUME NEW s \in Servers, Drop(s) PROVE MigrationTypeOK'
    BY <1>10 DEF Drop
  <1>11. QED
    BY <1>1, <1>2, <1>3, <1>4, <1>5, <1>6, <1>7, <1>8, <1>9, <1>10 DEF MigrationNext, Migrate

LEMMA VersionStep == MigrationIInv /\ [MigrationNext]_migrationVars => VersionBacked'
  <1> SUFFICES ASSUME MigrationIInv, [MigrationNext]_migrationVars PROVE VersionBacked'
    OBVIOUS
  <1> USE DEF MigrationIInv, VersionBacked
  <1>1. objects \subseteq objects'
    BY DEF migrationVars, MigrationNext, Migrate, Start, Lock, Read, Loop, Exec, Record, Unlock, Stop, Drop
  <1>2. CASE version' = version
    <2>1. Upto(version') \subseteq objects
      BY <1>2
    <2>2. QED
      BY <1>1, <2>1 DEF Upto
  <1>3. ASSUME NEW s \in Servers, Record(s) PROVE VersionBacked'
    <2>1. Upto(doing[s]) \subseteq objects
      BY <1>3 DEF Record, Progress
    <2>2. QED
      BY <1>3, <2>1 DEF Record, Upto
  <1>4. version' = version \/ \E s \in Servers : Record(s)
    BY DEF migrationVars, MigrationNext, Migrate, Start, Lock, Read, Loop, Exec, Unlock, Stop, Drop
  <1>5. QED
    BY <1>2, <1>3, <1>4

LEMMA ProgressStep == MigrationIInv /\ [MigrationNext]_migrationVars => \A p \in Servers : Progress(p)'
  <1> SUFFICES ASSUME MigrationIInv, [MigrationNext]_migrationVars, NEW p \in Servers PROVE Progress(p)'
    OBVIOUS
  <1>0. MigrationTypeOK /\ Progress(p) /\ VersionBacked
    BY DEF MigrationIInv
  <1>1. objects \subseteq objects'
    BY DEF migrationVars, MigrationNext, Migrate, Start, Lock, Read, Loop, Exec, Record, Unlock, Stop, Drop
  <1>2. CASE at'[p] = at[p] /\ doing'[p] = doing[p] /\ stmt'[p] = stmt[p]
    BY <1>0, <1>1, <1>2, ProgressKept
  <1>3. ASSUME NEW s \in Servers, s # p, MigrationNext, Start(s) \/ Migrate(s) \/ Stop(s) \/ Drop(s)
        PROVE  at'[p] = at[p] /\ doing'[p] = doing[p] /\ stmt'[p] = stmt[p]
    BY <1>0, <1>3 DEF MigrationTypeOK, Reach, Migrate, Start, Lock, Read, Loop, Exec, Record, Unlock, Stop, Drop
  <1>4. CASE Start(p) \/ Lock(p) \/ Stop(p) \/ Drop(p)
    <2>1. CASE Drop(p)
      BY <2>1, <1>2 DEF Drop
    <2>2. CASE Start(p) \/ Lock(p) \/ Stop(p)
      <3>1. at'[p] \in {"open", "read", "off"}
        BY <1>0, <2>2 DEF MigrationTypeOK, Reach, Start, Lock, Stop
      <3>2. QED
        BY <3>1 DEF Progress
    <2>3. QED
      BY <1>4, <2>1, <2>2
  <1>5. CASE Read(p)
    <2>1. at'[p] = "loop" /\ doing'[p] = version /\ objects' = objects
      BY <1>0, <1>5 DEF MigrationTypeOK, Reach, Read
    <2>2. QED
      BY <1>0, <2>1 DEF Progress, VersionBacked
  <1>6. CASE Loop(p)
    <2>0. Known[p] \in 0..Len(Statements) /\ doing[p] \in 0..Len(Statements)
      BY <1>0 DEF MigrationTypeOK
    <2>1. at[p] = "loop" /\ objects' = objects /\ Upto(doing[p]) \subseteq objects
      BY <1>0, <1>6 DEF Loop, Progress
    <2>2. CASE doing[p] < Known[p]
      <3>1. at'[p] = "exec" /\ doing'[p] = doing[p] + 1 /\ stmt'[p] = 1
        BY <1>0, <1>6, <2>2 DEF MigrationTypeOK, Reach, Loop
      <3>2. doing'[p] \in 1..Len(Statements)
        BY <2>0, <2>2, <3>1
      <3>3. Statements[doing'[p]] \in Nat \ {0}
        BY <3>2
      <3>4. Upto(doing'[p] - 1) \subseteq objects'
        <4>1. doing'[p] - 1 = doing[p]
          BY <2>0, <3>1
        <4>2. QED
          BY <2>1, <4>1
      <3>5. stmt'[p] \in 1..Statements[doing'[p]]
        BY <3>1, <3>3
      <3>6. \A n \in 1..Statements[doing'[p]] : ~(n < stmt'[p])
        BY <3>1, <3>3
      <3>7. QED
        BY <3>1, <3>2, <3>4, <3>5, <3>6 DEF Progress
    <2>3. CASE ~(doing[p] < Known[p])
      <3>1. at'[p] = "unlock" /\ doing'[p] = doing[p]
        BY <1>0, <1>6, <2>3 DEF MigrationTypeOK, Reach, Loop
      <3>2. Upto(Known[p]) \subseteq Upto(doing[p])
        BY <2>0, <2>3, UptoMonotone
      <3>3. QED
        BY <2>1, <3>1, <3>2 DEF Progress, Upto
    <2>4. QED
      BY <2>2, <2>3
  <1>7. CASE Exec(p)
    <2>0. /\ at[p] = "exec" /\ doing'[p] = doing[p]
          /\ doing[p] \in 1..Len(Statements) /\ stmt[p] \in 1..Statements[doing[p]]
          /\ Statements[doing[p]] \in Nat \ {0}
          /\ Upto(doing[p] - 1) \subseteq objects
          /\ \A n \in 1..Statements[doing[p]] : n < stmt[p] => <<doing[p], n>> \in objects
      BY <1>0, <1>7 DEF Exec, Progress
    <2>1. CASE Batch(p) \cap objects # {}
      <3>1. at'[p] = "failed"
        BY <1>0, <1>7, <2>1 DEF MigrationTypeOK, Reach, Exec
      <3>2. QED
        BY <3>1 DEF Progress
    <2>2. CASE Batch(p) \cap objects = {}
      <3>1. objects' = objects \cup Batch(p)
        BY <1>7, <2>2 DEF Exec
      <3>2. CASE postgres \/ stmt[p] = Statements[doing[p]]
        <4>1. at'[p] = "record" /\ stmt'[p] = stmt[p]
          BY <1>0, <1>7, <2>2, <3>2 DEF MigrationTypeOK, Reach, Exec
        <4>2. \A n \in 1..Statements[doing[p]] : <<doing[p], n>> \in objects'
          BY <2>0, <3>1, <3>2 DEF Batch
        <4>3. Upto(doing[p]) \subseteq objects'
          BY <2>0, <3>1, <4>2, UptoStep
        <4>4. QED
          BY <2>0, <4>1, <4>3 DEF Progress, Upto
      <3>3. CASE ~postgres /\ stmt[p] # Statements[doing[p]]
        <4>1. at'[p] = at[p] /\ stmt'[p] = stmt[p] + 1
          BY <1>0, <1>7, <2>2, <3>3 DEF MigrationTypeOK, Reach, Exec
        <4>2. stmt'[p] \in 1..Statements[doing[p]]
          BY <2>0, <3>3, <4>1
        <4>3. <<doing[p], stmt[p]>> \in objects'
          BY <3>1, <3>3 DEF Batch
        <4>4. \A n \in 1..Statements[doing[p]] : n < stmt'[p] => <<doing[p], n>> \in objects'
          <5> TAKE n \in 1..Statements[doing[p]]
          <5>1. CASE n = stmt[p]
            BY <4>3, <5>1
          <5>2. CASE n # stmt[p]
            <6>1. n < stmt'[p] => n < stmt[p]
              BY <2>0, <4>1, <5>2
            <6>2. QED
              BY <2>0, <3>1, <6>1
          <5>3. QED
            BY <5>1, <5>2
        <4>5. Upto(doing[p] - 1) \subseteq objects'
          BY <2>0, <3>1
        <4>6. QED
          BY <2>0, <4>1, <4>2, <4>4, <4>5 DEF Progress, Upto
      <3>4. QED
        BY <3>2, <3>3
    <2>3. QED
      BY <2>1, <2>2
  <1>8. CASE Record(p)
    <2>1. at'[p] = "loop" /\ doing'[p] = doing[p] /\ objects' = objects /\ at[p] = "record"
      BY <1>0, <1>8 DEF MigrationTypeOK, Reach, Record
    <2>2. QED
      BY <1>0, <2>1 DEF Progress, Upto
  <1>9. CASE Unlock(p)
    <2>1. at'[p] = "ready" /\ objects' = objects /\ at[p] = "unlock"
      BY <1>0, <1>9 DEF MigrationTypeOK, Reach, Unlock
    <2>2. QED
      BY <1>0, <2>1 DEF Progress
  <1>10. CASE UNCHANGED migrationVars
    BY <1>10, <1>2 DEF migrationVars
  <1>11. QED
    BY <1>2, <1>3, <1>4, <1>5, <1>6, <1>7, <1>8, <1>9, <1>10 DEF MigrationNext, Migrate

LEMMA SpecIInv == MigrationSpec => []MigrationIInv
  <1>1. MigrationIInv /\ [MigrationNext]_migrationVars => MigrationIInv'
    BY TypeStep, VersionStep, ProgressStep DEF MigrationIInv
  <1>2. QED
    BY InitIInv, <1>1, PTL DEF MigrationSpec

\* Type correctness for any number of processes, migrations and statements.
THEOREM MigrationTypeCorrect == MigrationSpec => []MigrationTypeOK
  <1>1. MigrationIInv => MigrationTypeOK
    BY DEF MigrationIInv
  <1>2. QED
    BY SpecIInv, <1>1, PTL

\* The version recorded by migrate never claims a table or index that the database
\* lacks, on SQLite without a lock as on PostgreSQL, however processes race and die.
THEOREM VersionIsBacked == MigrationSpec => []VersionBacked
  <1>1. MigrationIInv => VersionBacked
    BY DEF MigrationIInv
  <1>2. QED
    BY SpecIInv, <1>1, PTL

\* A process whose store opened has every object its release knows of: queries
\* never meet a missing table.
THEOREM ServesOnItsSchema == MigrationSpec => []ReadyHasSchema
  <1>1. MigrationIInv => ReadyHasSchema
    BY DEF MigrationIInv, Progress, ReadyHasSchema
  <1>2. QED
    BY SpecIInv, <1>1, PTL

\* What is recorded and what is served is in the database, whoever races or dies.
THEOREM ServesWhatIsMigrated == MigrationSpec => []ServesMigrated
  <1> QED BY VersionIsBacked, ServesOnItsSchema, PTL DEF ServesMigrated
--------------------------------------------------------------------------------
(* The version climbs one by one.                                           *)

\* The process has made some object of the migration it applies.
Making(s) == at[s] = "record" \/ (at[s] = "exec" /\ stmt[s] > 1)

\* A process is never more than one migration ahead of the recorded version.  The
\* first CREATE of a migration succeeds for one process only, and only if no version
\* that contains it is recorded: whoever makes a migration makes the next one, alone.
ClimbInv ==
    /\ \A s \in Servers : at[s] = "loop" => doing[s] <= version
    /\ \A s \in Servers : at[s] = "exec" => doing[s] <= version + 1
    /\ \A s \in Servers : Making(s) => doing[s] = version + 1
    /\ \A s, q \in Servers : Making(s) /\ Making(q) => s = q

\* A step of one process leaves the places of the others.
LEMMA OthersStay ==
    ASSUME MigrationTypeOK, NEW s \in Servers, NEW q \in Servers \ {s},
           Start(s) \/ Migrate(s) \/ Stop(s) \/ Drop(s)
    PROVE  at'[q] = at[q] /\ doing'[q] = doing[q] /\ stmt'[q] = stmt[q]
  BY DEF MigrationTypeOK, Reach, Migrate, Start, Lock, Read, Loop, Exec, Record, Unlock, Stop, Drop

\* Objects of the migration a process makes are there.
LEMMA MakingMade ==
    ASSUME MigrationIInv, ClimbInv, NEW s \in Servers, Making(s)
    PROVE  <<doing[s], 1>> \in objects /\ doing[s] \in 1..Len(Statements)
  <1>1. doing[s] \in 1..Len(Statements)
    BY DEF MigrationIInv, MigrationTypeOK, ClimbInv
  <1>2. Statements[doing[s]] \in Nat \ {0}
    BY <1>1
  <1>3. CASE at[s] = "record"
    <2>1. Upto(doing[s]) \subseteq objects
      BY <1>3 DEF MigrationIInv, Progress
    <2>2. <<doing[s], 1>> \in Upto(doing[s])
      BY <1>1, <1>2, UptoStep
    <2> QED BY <1>1, <2>1, <2>2
  <1>4. CASE at[s] = "exec" /\ stmt[s] > 1
    BY <1>1, <1>2, <1>4 DEF MigrationIInv, Progress
  <1> QED BY <1>3, <1>4 DEF Making

\* Without a first object of its migration in the database, nobody makes it, and it is
\* the one after the recorded version.
LEMMA FirstIsNext ==
    ASSUME MigrationIInv, ClimbInv, NEW s \in Servers, at[s] = "exec", <<doing[s], 1>> \notin objects
    PROVE  doing[s] = version + 1 /\ \A q \in Servers : ~Making(q)
  <1>1. /\ doing[s] \in 1..Len(Statements) /\ doing[s] <= version + 1
        /\ Statements[doing[s]] \in Nat \ {0} /\ version \in 0..Len(Statements)
    BY DEF MigrationIInv, MigrationTypeOK, Progress, ClimbInv
  <1>2. ~(doing[s] <= version)
    <2>1. <<doing[s], 1>> \in Upto(doing[s])
      BY <1>1, UptoStep
    <2>2. doing[s] <= version => Upto(doing[s]) \subseteq Upto(version)
      BY <1>1, UptoMonotone
    <2> QED BY <2>1, <2>2 DEF MigrationIInv, VersionBacked
  <1>3. doing[s] = version + 1
    BY <1>1, <1>2
  <1>4. \A q \in Servers : Making(q) => doing[q] = version + 1 /\ <<doing[q], 1>> \in objects
    BY MakingMade DEF ClimbInv
  <1> QED BY <1>3, <1>4

\* An Exec that succeeds makes the migration after the recorded version, alone.
LEMMA ExecMakes ==
    ASSUME MigrationIInv, ClimbInv, NEW s \in Servers, Exec(s), Batch(s) \cap objects = {}
    PROVE  doing[s] = version + 1 /\ \A q \in Servers \ {s} : ~Making(q)
  <1>1. at[s] = "exec" /\ doing[s] \in 1..Len(Statements) /\ Statements[doing[s]] \in Nat \ {0}
        /\ stmt[s] \in 1..Statements[doing[s]]
    BY DEF Exec, MigrationIInv, Progress
  <1>2. CASE Making(s)
    BY <1>2 DEF ClimbInv
  <1>3. CASE ~Making(s)
    <2>1. stmt[s] = 1
      BY <1>1, <1>3 DEF Making
    <2>2. <<doing[s], 1>> \in Batch(s)
      BY <1>1, <2>1 DEF Batch
    <2> QED BY <1>1, <2>2, FirstIsNext
  <1> QED BY <1>2, <1>3

LEMMA ClimbStep ==
    ASSUME MigrationIInv, ClimbInv, [MigrationNext]_migrationVars
    PROVE  ClimbInv' /\ (version' = version \/ version' = version + 1)
  <1>0. MigrationTypeOK /\ version \in Nat /\ \A s \in Servers : doing[s] \in Nat
    BY DEF MigrationIInv, MigrationTypeOK
  <1>1. CASE UNCHANGED migrationVars
    BY <1>1 DEF migrationVars, ClimbInv, Making
  <1>2. ASSUME NEW s \in Servers, Start(s) \/ Migrate(s) \/ Stop(s) \/ Drop(s)
        PROVE  ClimbInv' /\ (version' = version \/ version' = version + 1)
    <2>0. \A q \in Servers \ {s} : at'[q] = at[q] /\ doing'[q] = doing[q] /\ stmt'[q] = stmt[q]
      BY <1>0, <1>2, OthersStay
    <2>a. \A q \in Servers \ {s} : Making(q)' <=> Making(q)
      BY <2>0 DEF Making
    <2>1. ASSUME version' = version, ~Making(s)',
                 at'[s] = "loop" => doing'[s] <= version,
                 at'[s] = "exec" => doing'[s] <= version + 1
          PROVE  ClimbInv'
      <3>1. \A q \in Servers : at'[q] = "loop" => doing'[q] <= version'
        BY <2>0, <2>1 DEF ClimbInv
      <3>2. \A q \in Servers : at'[q] = "exec" => doing'[q] <= version' + 1
        BY <2>0, <2>1 DEF ClimbInv
      <3>3. \A q \in Servers : Making(q)' => Making(q) /\ q # s
        BY <2>a, <2>1
      <3>4. \A q \in Servers : Making(q)' => doing'[q] = version' + 1
        BY <2>0, <2>1, <3>3 DEF ClimbInv
      <3>5. \A p, q \in Servers : Making(p)' /\ Making(q)' => p = q
        BY <3>3 DEF ClimbInv
      <3> QED BY <3>1, <3>2, <3>4, <3>5 DEF ClimbInv
    <2>2. CASE Start(s) \/ Lock(s) \/ Unlock(s) \/ Stop(s)
      <3>1. version' = version /\ at'[s] \notin {"loop", "exec", "record"}
        BY <1>0, <2>2 DEF MigrationTypeOK, Reach, Start, Lock, Unlock, Stop
      <3> QED BY <2>1, <3>1 DEF Making
    <2>3. CASE Drop(s)
      BY <2>3 DEF Drop, ClimbInv, Making
    <2>4. CASE Read(s)
      <3>1. version' = version /\ at'[s] = "loop" /\ doing'[s] = version
        BY <1>0, <2>4 DEF MigrationTypeOK, Reach, Read
      <3> QED BY <1>0, <2>1, <3>1 DEF Making
    <2>5. CASE Loop(s)
      <3>1. CASE doing[s] < Known[s]
        <4>1. /\ version' = version /\ at[s] = "loop" /\ at'[s] = "exec"
              /\ doing'[s] = doing[s] + 1 /\ stmt'[s] = 1
          BY <1>0, <2>5, <3>1 DEF MigrationTypeOK, Reach, Loop
        <4>2. doing'[s] <= version + 1 /\ ~Making(s)'
          BY <1>0, <4>1 DEF ClimbInv, Making
        <4> QED BY <2>1, <4>1, <4>2
      <3>2. CASE ~(doing[s] < Known[s])
        <4>1. version' = version /\ at'[s] = "unlock"
          BY <1>0, <2>5, <3>2 DEF MigrationTypeOK, Reach, Loop
        <4> QED BY <2>1, <4>1 DEF Making
      <3> QED BY <3>1, <3>2
    <2>6. CASE Exec(s)
      <3>1. CASE Batch(s) \cap objects # {}
        <4>1. version' = version /\ at'[s] = "failed"
          BY <1>0, <2>6, <3>1 DEF MigrationTypeOK, Reach, Exec
        <4> QED BY <2>1, <4>1 DEF Making
      <3>2. CASE Batch(s) \cap objects = {}
        <4>1. doing[s] = version + 1 /\ \A q \in Servers \ {s} : ~Making(q)
          BY <2>6, <3>2, ExecMakes
        <4>2. version' = version /\ doing'[s] = doing[s] /\ at'[s] \in {"exec", "record"}
          BY <1>0, <2>6, <3>2 DEF MigrationTypeOK, Reach, Exec
        <4>3. \A q \in Servers \ {s} : ~Making(q)'
          BY <2>0, <4>1 DEF Making
        <4>4. version' \in Nat /\ doing'[s] <= version' + 1 /\ doing'[s] = version' + 1
          BY <1>0, <4>1, <4>2
        <4>5. \A q \in Servers : at'[q] = "exec" => doing'[q] <= version' + 1
          BY <2>0, <4>2, <4>4 DEF ClimbInv
        <4> QED BY <2>0, <4>2, <4>3, <4>4, <4>5 DEF ClimbInv
      <3> QED BY <3>1, <3>2
    <2>7. CASE Record(s)
      <3>1. Making(s)
        BY <2>7 DEF Record, Making
      <3>2. doing[s] = version + 1 /\ \A q \in Servers \ {s} : ~Making(q)
        BY <3>1 DEF ClimbInv
      <3>3. version' = version + 1 /\ at'[s] = "loop" /\ doing'[s] = version'
        BY <1>0, <2>7, <3>2 DEF MigrationTypeOK, Reach, Record
      <3>4. \A q \in Servers : ~Making(q)'
        BY <2>0, <3>2, <3>3 DEF Making
      <3>5. \A q \in Servers : at'[q] = "loop" => doing'[q] <= version'
        BY <1>0, <2>0, <3>3 DEF ClimbInv
      <3>6. \A q \in Servers : at'[q] = "exec" => doing'[q] <= version' + 1
        BY <1>0, <2>0, <3>3 DEF ClimbInv
      <3> QED BY <3>3, <3>4, <3>5, <3>6 DEF ClimbInv
    <2> QED BY <1>0, <1>2, <2>2, <2>3, <2>4, <2>5, <2>6, <2>7 DEF Migrate,
         Start, Lock, Unlock, Stop, Drop, Read, Loop, Exec, Record
  <1> QED BY <1>1, <1>2 DEF MigrationNext

\* Processes that race to record a version, die between the statements and the record,
\* or come from an older release never skip or take back a version: PRAGMA user_version
\* and schema_version go up one by one.
THEOREM VersionClimbsByOne == MigrationSpec => VersionClimbs
  <1>1. MigrationInit => ClimbInv
    BY DEF MigrationInit, ClimbInv, Making
  <1>2. MigrationIInv /\ ClimbInv /\ [MigrationNext]_migrationVars => ClimbInv'
    BY ClimbStep
  <1>3. MigrationIInv /\ ClimbInv /\ [MigrationNext]_migrationVars => [version' = version + 1]_version
    BY ClimbStep
  <1> QED BY SpecIInv, <1>1, <1>2, <1>3, PTL DEF MigrationSpec, VersionClimbs
--------------------------------------------------------------------------------
(* The advisory lock, as long as nothing takes it from its holder.          *)

Undisturbed == postgres /\ crashes = 0 /\ drops = 0
Holding == {"read", "loop", "exec", "record", "unlock"}

\* LockPreventsRaces says nothing of who holds the lock.  It is kept because the
\* holder alone is between the lock and the unlock, works from the version that is
\* recorded, and leaves no migration behind half made.
LockInv == Undisturbed =>
    /\ \A s \in Servers : at[s] # "failed"
    /\ \A s \in Servers : at[s] \in Holding => lock = s
    /\ \A s \in Servers : at[s] = "loop" => doing[s] = version
    /\ \A s \in Servers : at[s] \in {"exec", "record"} => doing[s] = version + 1
    /\ (\A s \in Servers : at[s] # "record") => objects \subseteq Upto(version)
    /\ \A s \in Servers : at[s] = "record" => objects \subseteq Upto(doing[s])

\* What is created up to a version holds no object of the next migration.
LEMMA UptoBelow ==
    ASSUME NEW v \in Nat, NEW n
    PROVE  <<v + 1, n>> \notin Upto(v)
  BY DEF Upto

LEMMA LockStep == ASSUME MigrationIInv, LockInv, [MigrationNext]_migrationVars PROVE LockInv'
  <1>0. /\ MigrationTypeOK /\ version \in 0..Len(Statements) /\ \A s \in Servers : doing[s] \in Nat
        /\ crashes \in Nat /\ drops \in Nat
    BY DEF MigrationIInv, MigrationTypeOK
  <1>1. CASE UNCHANGED migrationVars
    BY <1>1 DEF migrationVars, LockInv, Undisturbed
  <1>2. ASSUME NEW s \in Servers, Start(s) \/ Migrate(s) \/ Stop(s) \/ Drop(s), Undisturbed'
        PROVE  LockInv'
    <2>0. \A q \in Servers \ {s} : at'[q] = at[q] /\ doing'[q] = doing[q]
      BY <1>0, <1>2, OthersStay
    <2>1. Undisturbed
      <3>1. postgres' = postgres /\ crashes' \in {crashes, crashes + 1} /\ drops' \in {drops, drops + 1}
        BY <1>2 DEF Migrate, Start, Lock, Read, Loop, Exec, Record, Unlock, Stop, Drop, others
      <3> QED BY <1>0, <1>2, <3>1 DEF Undisturbed
    <2>2. /\ \A q \in Servers : at[q] # "failed"
          /\ \A q \in Servers : at[q] \in Holding => lock = q
          /\ \A q \in Servers : at[q] = "loop" => doing[q] = version
          /\ \A q \in Servers : at[q] \in {"exec", "record"} => doing[q] = version + 1
          /\ (\A q \in Servers : at[q] # "record") => objects \subseteq Upto(version)
          /\ \A q \in Servers : at[q] = "record" => objects \subseteq Upto(doing[q])
      BY <2>1 DEF LockInv
    <2>3. ASSUME at[s] \in Holding PROVE \A q \in Servers \ {s} : at[q] \notin Holding
      BY <2>2, <2>3
    <2>4. ASSUME UNCHANGED <<objects, version>>, at[s] \notin Holding, at'[s] \notin Holding \cup {"failed"},
                 UNCHANGED lock
          PROVE  LockInv'
      BY <2>0, <2>2, <2>4 DEF LockInv, Holding
    <2>5. CASE Start(s)
      <3>1. at'[s] = "open" /\ at[s] = "off"
        BY <1>0, <2>1, <2>5 DEF MigrationTypeOK, Start, Reach, Undisturbed
      <3> QED BY <2>4, <2>5, <3>1 DEF Start, Holding
    <2>6. CASE Stop(s)
      <3>1. at'[s] = "off" /\ at[s] \in {"ready", "failed"}
        BY <1>0, <1>2, <2>1, <2>6 DEF MigrationTypeOK, Stop, Reach, Undisturbed
      <3>2. \A q \in Servers : at'[q] = at[q] \/ (q = s /\ at'[q] = "off")
        BY <2>0, <3>1
      <3>3. \A q \in Servers : at'[q] \in Holding => q # s /\ lock = q /\ lock' = q
        BY <2>0, <2>2, <2>6, <3>1 DEF Stop, Holding
      <3> QED BY <2>0, <2>2, <2>6, <3>1, <3>2, <3>3 DEF LockInv, Stop, Holding
    <2>7. CASE Drop(s)
      BY <1>0, <1>2, <2>1, <2>7 DEF Drop, Undisturbed
    <2>8. CASE Lock(s)
      <3>1. at'[s] = "read" /\ lock' = s /\ UNCHANGED <<objects, version>>
        BY <1>0, <2>8 DEF MigrationTypeOK, Lock, Reach
      <3>2. \A q \in Servers : at[q] \notin Holding
        BY <2>2, <2>8, MigrationAssumption DEF Lock
      <3> QED BY <2>0, <2>2, <3>1, <3>2 DEF LockInv, Holding
    <2>9. CASE Read(s)
      <3>1. /\ at[s] = "read" /\ at'[s] = "loop" /\ doing'[s] = version
            /\ UNCHANGED <<objects, version, lock>>
        BY <1>0, <2>9 DEF MigrationTypeOK, Read, Reach
      <3>2. \A q \in Servers \ {s} : at[q] \notin Holding
        BY <2>3, <3>1 DEF Holding
      <3> QED BY <2>0, <2>2, <3>1, <3>2 DEF LockInv, Holding
    <2>10. CASE Loop(s)
      <3>1. /\ at[s] = "loop" /\ UNCHANGED <<objects, version, lock>>
            /\ \/ at'[s] = "exec" /\ doing'[s] = doing[s] + 1
               \/ at'[s] = "unlock"
        BY <1>0, <2>10 DEF MigrationTypeOK, Loop, Reach
      <3>2. \A q \in Servers \ {s} : at[q] \notin Holding
        BY <2>3, <3>1 DEF Holding
      <3> QED BY <2>0, <2>2, <3>1, <3>2 DEF LockInv, Holding
    <2>11. CASE Exec(s)
      <3>1. at[s] = "exec" /\ doing[s] = version + 1 /\ lock = s
        BY <2>2, <2>11 DEF Exec, Holding
      <3>2. \A q \in Servers \ {s} : at[q] \notin Holding
        BY <2>3, <3>1 DEF Holding
      <3>3. objects \subseteq Upto(version)
        BY <2>2, <3>1, <3>2 DEF Holding
      <3>4. Batch(s) \cap objects = {}
        BY <1>0, <2>1, <3>1, <3>3, UptoBelow DEF Batch, Undisturbed
      <3>5. /\ at'[s] = "record" /\ doing'[s] = doing[s] /\ UNCHANGED <<version, lock>>
            /\ objects' = objects \cup Batch(s)
        BY <1>0, <2>1, <2>11, <3>4 DEF MigrationTypeOK, Exec, Reach, Undisturbed
      <3>6. objects' \subseteq Upto(doing'[s])
        <4>1. doing[s] \in 1..Len(Statements)
          BY <2>11 DEF Exec, MigrationIInv, Progress
        <4>2. Upto(doing[s]) = Upto(version) \cup Batch(s)
          <5>1. doing[s] - 1 = version
            BY <1>0, <3>1
          <5> QED BY <2>1, <4>1, <5>1, UptoStep DEF Batch, Undisturbed
        <4> QED BY <3>3, <3>5, <4>2
      <3>7. \A q \in Servers : at'[q] = "record" => q = s
        BY <2>0, <3>2 DEF Holding
      <3>8. \A q \in Servers : at'[q] # "failed" /\ (at'[q] \in Holding => q = s)
        BY <2>0, <2>2, <3>2, <3>5
      <3> QED BY <3>1, <3>5, <3>6, <3>7, <3>8 DEF LockInv, Holding
    <2>12. CASE Record(s)
      <3>1. at[s] = "record" /\ doing[s] = version + 1 /\ lock = s /\ objects \subseteq Upto(doing[s])
        BY <2>2, <2>12 DEF Record, Holding
      <3>2. \A q \in Servers \ {s} : at[q] \notin Holding
        BY <2>3, <3>1 DEF Holding
      <3>3. /\ at'[s] = "loop" /\ doing'[s] = doing[s] /\ version' = doing[s]
            /\ UNCHANGED <<objects, lock>>
        BY <1>0, <2>12 DEF MigrationTypeOK, Record, Reach
      <3>4. Upto(version)' = Upto(doing[s])
        BY <3>3 DEF Upto
      <3>5. \A q \in Servers : at'[q] # "failed" /\ (at'[q] \in Holding => q = s)
        BY <2>0, <2>2, <3>2, <3>3
      <3> QED BY <3>1, <3>3, <3>4, <3>5 DEF LockInv, Holding
    <2>13. CASE Unlock(s)
      <3>1. at[s] = "unlock" /\ at'[s] = "ready" /\ UNCHANGED <<objects, version>>
        BY <1>0, <2>13 DEF MigrationTypeOK, Unlock, Reach
      <3>2. \A q \in Servers \ {s} : at[q] \notin Holding
        BY <2>3, <3>1 DEF Holding
      <3>3. \A q \in Servers : at'[q] \notin Holding \cup {"failed"}
        BY <2>0, <2>2, <3>1, <3>2 DEF Holding
      <3>4. objects \subseteq Upto(version)
        BY <2>2, <3>1, <3>2 DEF Holding
      <3> QED BY <3>1, <3>3, <3>4 DEF LockInv, Holding, Upto
    <2> QED BY <1>2, <2>5, <2>6, <2>7, <2>8, <2>9, <2>10, <2>11, <2>12, <2>13 DEF Migrate
  <1>3. ~Undisturbed' => LockInv'
    BY DEF LockInv
  <1> QED BY <1>1, <1>2, <1>3 DEF MigrationNext

\* On PostgreSQL, as long as no process dies and no connection drops, migrate refuses
\* no process of any release, however many race: pg_advisory_lock serialises them.
THEOREM LockServes == MigrationSpec => []LockPreventsRaces
  <1>1. MigrationInit => LockInv
    BY DEF MigrationInit, LockInv, Holding
  <1>2. MigrationIInv /\ LockInv /\ [MigrationNext]_migrationVars => LockInv'
    BY LockStep
  <1>3. LockInv => LockPreventsRaces
    BY DEF LockInv, Undisturbed, LockPreventsRaces, NobodyRefused
  <1> QED BY SpecIInv, <1>1, <1>2, <1>3, PTL DEF MigrationSpec
================================================================================
