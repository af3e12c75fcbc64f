------------------------------ MODULE ScanRecords ------------------------------
(***************************************************************************)
(* The rows of the scan history and the comparison of two of them: what    *)
(* snapshot.Compare and regression.Detect decide, reduced to whether they  *)
(* find anything.                                                          *)
(***************************************************************************)
EXTENDS Integers, Sequences

CONSTANTS HSMs,      \* rows of the table hsms, one per (serial, source)
          Reports    \* the reports a scan can produce

\* A report is reduced to what the comparison of two scans looks at: when the
\* scan was taken, its inventory, its score and the rules with a critical or
\* high finding.
ASSUME ReportsAssumption ==
    \A r \in Reports : r.taken \in Nat /\ r.score \in 0..100

\* DefaultScoreDropThreshold: the only caller passes 0 and so falls back to it.
ScoreDrop == 10

\* Detect returns a Regression: the score fell by the threshold, or a rule is
\* critical or high now that was not in the older scan.
Regressed(old, new) == \/ old.score - new.score >= ScoreDrop
                       \/ new.severe \ old.severe # {}

\* Compare of the two inventories is not Empty.
Drifted(old, new) == old.inventory # new.inventory

Kinds == {"regression", "drift"}
Worth(kind, old, new) ==
    IF kind = "regression" THEN Regressed(old, new) ELSE Drifted(old, new)

\* A row of the table scans, and one of drift_events or regression_events.
Scan == [hsm : HSMs, report : Reports]
Event == [kind : Kinds, old : Nat, new : Nat]

\* The event e tells the truth about two of the rows: scans of one HSM, the
\* older row first, that differ the way the event says.
Truthful(rows, e) ==
    /\ e.old \in DOMAIN rows /\ e.new \in DOMAIN rows
    /\ e.old < e.new
    /\ rows[e.old].hsm = rows[e.new].hsm
    /\ Worth(e.kind, rows[e.old].report, rows[e.new].report)
================================================================================
