------------------------------ MODULE ScanHistory ------------------------------
(***************************************************************************)
(* Server.persistScan and checkRegression (internal/server/history.go) over *)
(* the tables hsms, scans, drift_events and regression_events.  Calls run   *)
(* concurrently: one per HTTP request that scans or ingests a report, and   *)
(* the scheduler's.  Each statement on the store is a step of its own, for  *)
(* no transaction spans two of them; each may fail, and the process may     *)
(* die between any two.                                                     *)
(*                                                                          *)
(* Three things a call does write state that no step here reads: the        *)
(* certificate ledger (CertNotify), the delivery of a webhook once its      *)
(* goroutine is started, and the Prometheus gauges.  Where they can block,  *)
(* their calls keep their place here, as steps that may take for ever.      *)
(***************************************************************************)
EXTENDS ScanRecords, FiniteSets

CONSTANTS Calls,       \* concurrent activations of persistScan
          MaxScans,    \* bound: scans stored or on their way
          MaxFaults,   \* bound: storage errors and crashes
          ClockSkew    \* TRUE when scans may arrive out of the order of their clocks

ASSUME BoundsAssumption ==
    MaxScans \in Nat /\ MaxFaults \in Nat /\ ClockSkew \in BOOLEAN

VARIABLES
    scans,     \* the table scans: the row with id i is scans[i]
    events,    \* the tables drift_events and regression_events
    hsms,      \* the rows of table hsms
    alerts,    \* webhook deliveries started and mails attempted: [kind, new]
    call,      \* one record per activation: where it is and its local variables
    missed,    \* history: comparisons given up on an error or in a crash, or
               \* made with a scan that was the latest no more
    faults     \* storage errors and crashes so far

vars == <<scans, events, hsms, alerts, call, missed, faults>>

NoScan == 0       \* prev == nil
Stages == {"idle", "upsert", "certs", "latest", "insert",
           "regression", "regressionAlert", "regressionMail",
           "drift", "driftAlert", "driftMail"}
Idle == [at |-> "idle"]
Active(p) == call[p].at # "idle"
Alert == [kind : Kinds, new : Nat]

\* A call in flight: the report it stores, LatestScan's answer (prev), its own
\* row (new), and whether LatestScan failed (blind).
Running == [at : Stages \ {"idle"}, hsm : HSMs, report : Reports,
            prev : Nat, new : Nat, blind : BOOLEAN]

TypeOK ==
    /\ scans \in Seq(Scan)
    /\ events \subseteq Event
    /\ hsms \subseteq HSMs
    /\ alerts \subseteq Alert
    /\ call \in [Calls -> Running \cup {Idle}]
    /\ missed \subseteq Alert
    /\ faults \in 0..MaxFaults

\* Mutant: the query forgets WHERE hsm_id.
IdsOfAnyHSM(h) == DOMAIN scans

IdsOf(h) == {i \in DOMAIN scans : scans[i].hsm = h}

\* Mutant: the query orders ascending.
Oldest(ids) == {i \in ids : \A j \in ids :
    \/ scans[i].report.taken < scans[j].report.taken
    \/ scans[j].report.taken = scans[i].report.taken /\ i <= j}

\* ORDER BY taken_at DESC, id DESC LIMIT 1
Latest(ids) == {i \in ids : \A j \in ids :
    \/ scans[j].report.taken < scans[i].report.taken
    \/ scans[j].report.taken = scans[i].report.taken /\ j <= i}

Init ==
    /\ scans = <<>> /\ events = {} /\ hsms = {} /\ alerts = {}
    /\ call = [p \in Calls |-> Idle]
    /\ missed = {} /\ faults = 0

Goto(p, stage) == call' = [call EXCEPT ![p].at = stage]
Return(p) == call' = [call EXCEPT ![p] = Idle]
Fault == faults < MaxFaults /\ faults' = faults + 1
NoFault == UNCHANGED faults

\* A report with a serial number reaches persistScan: from ScanSlot with source
\* "local", from handleIngestReport with the agent's name.  Nothing stops a
\* second report of the same HSM while the first is being stored: two pages, the
\* schedule, an agent's next round after a request that timed out.
PersistScan(p, h, r) ==
    /\ ~Active(p)
    /\ Len(scans) + Cardinality({q \in Calls : Active(q)}) < MaxScans
    /\ ClockSkew \/ \A i \in IdsOf(h) : scans[i].report.taken <= r.taken
    /\ call' = [call EXCEPT ![p] = [at |-> "upsert", hsm |-> h, report |-> r,
                                    prev |-> NoScan, new |-> 0, blind |-> FALSE]]
    /\ UNCHANGED <<scans, events, hsms, alerts, missed, faults>>

\* INSERT ... ON CONFLICT (serial, source) DO UPDATE ... RETURNING id; an error
\* abandons the scan.
UpsertHSM(p) ==
    /\ call[p].at = "upsert"
    /\ \/ hsms' = hsms \cup {call[p].hsm} /\ Goto(p, "certs") /\ NoFault
       \/ Fault /\ Return(p) /\ UNCHANGED hsms
    /\ UNCHANGED <<scans, events, alerts, missed>>

\* notifyCertExpiry returns: its mails go out, one after the other, before the
\* scan is stored.
NotifyCertExpiry(p) ==
    /\ call[p].at = "certs"
    /\ Goto(p, "latest")
    /\ UNCHANGED <<scans, events, hsms, alerts, missed, faults>>

\* What LatestScan answers.
LatestOf(h) == IF IdsOf(h) = {} THEN {NoScan} ELSE Latest(IdsOf(h))

\* The scan to compare with.  An error is logged and leaves prev nil, as if
\* this were the HSM's first scan.
LatestScan(p) ==
    /\ call[p].at = "latest"
    /\ \/ /\ \E i \in LatestOf(call[p].hsm) :
                call' = [call EXCEPT ![p].at = "insert", ![p].prev = i]
          /\ NoFault
       \/ /\ Fault
          /\ call' = [call EXCEPT ![p].at = "insert", ![p].blind = TRUE]
    /\ UNCHANGED <<scans, events, hsms, alerts, missed>>

\* The row is inserted; without a previous scan the call is over.  Since LatestScan
\* answered, another call may have stored a scan of the HSM.
InsertScan(p) ==
    LET c == call[p]
        id == Len(scans) + 1
        overtaken == c.prev \notin LatestOf(c.hsm)
    IN
    /\ c.at = "insert"
    /\ \/ /\ scans' = Append(scans, [hsm |-> c.hsm, report |-> c.report])
          /\ IF c.prev = NoScan
             THEN Return(p)
             ELSE call' = [call EXCEPT ![p].at = "regression", ![p].new = id]
          /\ missed' = IF c.blind \/ overtaken THEN missed \cup [kind : Kinds, new : {id}] ELSE missed
          /\ NoFault
       \/ Fault /\ Return(p) /\ UNCHANGED <<scans, missed>>
    /\ UNCHANGED <<events, hsms, alerts>>

\* The previous report does not decode, or holds no inventory: neither comparison is
\* made, and nobody tries again.
PreviousUnreadable(p) ==
    /\ call[p].at = "regression"
    /\ Fault /\ Return(p)
    /\ missed' = missed \cup [kind : Kinds, new : {call[p].new}]
    /\ UNCHANGED <<scans, events, hsms, alerts>>

AlertStage(kind) == IF kind = "regression" THEN "regressionAlert" ELSE "driftAlert"
MailStage(kind) == IF kind = "regression" THEN "regressionMail" ELSE "driftMail"

\* Mutant: the new row's id is asked of the connection after another insert.
CompareLastInsertId(p, kind, quiet) ==
    LET c == call[p] IN
    /\ c.at = kind
    /\ IF ~Worth(kind, scans[c.prev].report, c.report)
       THEN quiet /\ UNCHANGED events
       ELSE /\ events' = events \cup {[kind |-> kind, old |-> c.prev, new |-> Len(scans)]}
            /\ Goto(p, AlertStage(kind))
    /\ UNCHANGED <<scans, hsms, alerts, missed, faults>>

\* Compare the new scan with prev and insert an event of this kind if they
\* differ; an error drops the event, nobody tries again.
Compare(p, kind, quiet) ==
    LET c == call[p] IN
    /\ c.at = kind
    /\ IF ~Worth(kind, scans[c.prev].report, c.report)
       THEN quiet /\ NoFault /\ UNCHANGED <<events, missed>>
       ELSE \/ /\ events' = events \cup {[kind |-> kind, old |-> c.prev, new |-> c.new]}
               /\ Goto(p, AlertStage(kind)) /\ NoFault /\ UNCHANGED missed
            \/ /\ Fault /\ quiet
               /\ missed' = missed \cup {[kind |-> kind, new |-> c.new]}
               /\ UNCHANGED events
    /\ UNCHANGED <<scans, hsms, alerts>>

\* Mutant: without a regression the scan is done.
CheckRegressionOnly(p) == Compare(p, "regression", Return(p))

\* An error in checkRegression returns from it alone: drift is still checked.
CheckRegression(p) == Compare(p, "regression", Goto(p, "drift"))
CheckDrift(p) == Compare(p, "drift", Return(p))

\* The webhook goroutine is started before the mail is attempted.
StartAlert(p, kind) ==
    /\ call[p].at = AlertStage(kind)
    /\ alerts' = alerts \cup {[kind |-> kind, new |-> call[p].new]}
    /\ Goto(p, MailStage(kind))
    /\ UNCHANGED <<scans, events, hsms, missed, faults>>

\* NotifyRegression and NotifyDrift return when the mail server has answered,
\* whatever it said.
MailReturns(p) ==
    /\ \/ call[p].at = "regressionMail" /\ Goto(p, "drift")
       \/ call[p].at = "driftMail" /\ Return(p)
    /\ UNCHANGED <<scans, events, hsms, alerts, missed, faults>>

\* The process dies and is started again.  The tables stay; comparisons that
\* were still to be made are never made.
Crash ==
    /\ Fault
    /\ \E p \in Calls : Active(p)
    /\ missed' = missed \cup UNION {
         IF call[p].at = "regression" THEN [kind : Kinds, new : {call[p].new}]
         ELSE IF call[p].at \in {"regressionAlert", "regressionMail", "drift"}
              THEN {[kind |-> "drift", new |-> call[p].new]} ELSE {} : p \in Calls}
    /\ call' = [p \in Calls |-> Idle]
    /\ UNCHANGED <<scans, events, hsms, alerts>>

\* What a call does by itself, and what it can do only once a mail server answers.
Step(p) == \/ UpsertHSM(p) \/ LatestScan(p) \/ InsertScan(p)
           \/ PreviousUnreadable(p) \/ CheckRegression(p) \/ CheckDrift(p)
           \/ \E k \in Kinds : StartAlert(p, k)
Mail(p) == NotifyCertExpiry(p) \/ MailReturns(p)

Next == \/ \E p \in Calls : Step(p) \/ Mail(p)
        \/ \E p \in Calls, h \in HSMs, r \in Reports : PersistScan(p, h, r)
        \/ Crash

Spec == Init /\ [][Next]_vars

\* A goroutine that can run does.  That says nothing of the mail server: the SMTP
\* client sets no deadline, and a server that takes the connection and says nothing
\* keeps its caller for ever.
FairSpec == Spec /\ \A p \in Calls : WF_vars(Step(p))
--------------------------------------------------------------------------------
\* Every event relates two stored scans of one HSM, older row first, that
\* differ as it says, whatever calls, errors and crashes came between.
EventsTruthful == \A e \in events : Truthful(scans, e)

\* A stored scan is the new end of at most one drift and one regression event,
\* however the calls interleave.
OneEventPerScan ==
    \A e, f \in events : e.kind = f.kind /\ e.new = f.new => e = f

\* Nobody is alerted of an event the history does not hold: the insert comes
\* first, and a failed insert silences the alert.
AlertsBacked ==
    \A a \in alerts : \E e \in events : e.kind = a.kind /\ e.new = a.new

\* The history is sound: each event is truthful, alone of its kind for its scan, and
\* stored before anybody is alerted of it.
EventsSound == EventsTruthful /\ OneEventPerScan /\ AlertsBacked

\* A scan's call is over or past the comparison of this kind.
Settled(n, kind) == \A p \in Calls : Active(p) /\ call[p].new = n =>
    /\ call[p].at # "regression"
    /\ kind = "drift" => call[p].at \notin {"regressionAlert", "regressionMail", "drift"}

\* What a call in flight knows, and why the three invariants above are kept:
\* prev is a row of its HSM, new is its own row, younger than prev and shared
\* with no other call, and no event of a kind is stored for it before the call
\* has made that comparison.
Stored == {"regression", "regressionAlert", "regressionMail",
           "drift", "driftAlert", "driftMail"}
Pending(kind) == IF kind = "regression" THEN {"regression"}
                 ELSE {"regression", "regressionAlert", "regressionMail", "drift"}
Early == {"upsert", "certs", "latest"}
PrevInv == \A p \in Calls :
    /\ call[p].at \in Early => call[p].prev = NoScan
    /\ call[p].at \in {"insert"} \cup Stored =>
         call[p].prev = NoScan \/ call[p].prev \in IdsOf(call[p].hsm)
NewInv == \A p \in Calls : call[p].at \in Stored =>
    /\ call[p].prev # NoScan /\ call[p].prev < call[p].new
    /\ call[p].new \in DOMAIN scans
    /\ scans[call[p].new] = [hsm |-> call[p].hsm, report |-> call[p].report]
OwnInv == \A p, q \in Calls :
    call[p].at \in Stored /\ call[q].at \in Stored /\ call[p].new = call[q].new => p = q
PendingInv == \A p \in Calls, e \in events :
    call[p].at \in Pending(e.kind) => e.new # call[p].new
AlertInv == \A p \in Calls, kind \in Kinds : call[p].at = AlertStage(kind) =>
    \E e \in events : e.kind = kind /\ e.new = call[p].new
CallInv == PrevInv /\ NewInv /\ OwnInv /\ PendingInv /\ AlertInv

IInv == TypeOK /\ EventsTruthful /\ OneEventPerScan /\ AlertsBacked /\ CallInv

\* Nothing is overlooked: a scan that differs from the scan that was the latest of
\* its HSM when it was stored has its event, unless an error or a crash cut the
\* comparison short, or another call stored that scan after this one had looked.
NothingOverlooked ==
    \A n \in DOMAIN scans, kind \in Kinds :
        LET earlier == IdsOf(scans[n].hsm) \cap 1..(n - 1) IN
        \A o \in Latest(earlier) :
            /\ Worth(kind, scans[o].report, scans[n].report)
            /\ Settled(n, kind)
            /\ [kind |-> kind, new |-> n] \notin missed
            => [kind |-> kind, old |-> o, new |-> n] \in events

\* When scans arrive in the order of their clocks, an event is about two consecutive
\* scans of the HSM, unless another call came between the two steps of this one.
ClocksInOrder == \A i, j \in DOMAIN scans :
    scans[i].hsm = scans[j].hsm /\ i < j => scans[i].report.taken <= scans[j].report.taken
ConsecutiveUnlessOvertaken ==
    ClocksInOrder => \A e \in events : [kind |-> e.kind, new |-> e.new] \notin missed =>
        \A i \in IdsOf(scans[e.new].hsm) : ~(e.old < i /\ i < e.new)

\* A scan whose regression was found still has its inventory compared: notify's
\* doc comment says that mail trouble cannot disrupt scanning.
DriftIsChecked == \A p \in Calls :
    call[p].at = "regressionMail" ~> call[p].at \notin {"regressionMail", "drift"}

\* The tables behave as ScanLog promises its readers.
Log == INSTANCE ScanLog WITH scans <- scans, events <- events
LogSpec == Log!Spec
================================================================================
