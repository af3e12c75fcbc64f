-------------------------------- MODULE ScanLog --------------------------------
(***************************************************************************)
(* What the scan history promises whoever reads it: an append-only table   *)
(* of scans and a growing set of truthful events, of which a scan is the   *)
(* new end at most once per kind.  Nothing is ever rewritten.  ScanHistory *)
(* shows that the server, with all its handlers, storage errors and        *)
(* crashes, does nothing else.                                             *)
(***************************************************************************)
EXTENDS ScanRecords

VARIABLES scans,     \* the table scans: the row with id i is scans[i]
          events     \* the tables drift_events and regression_events

Init == scans = <<>> /\ events = {}

\* A finished scan becomes the last row.
Record == /\ \E s \in Scan : scans' = Append(scans, s)
          /\ UNCHANGED events

\* A truthful event is added, the first of its kind for its new scan.
Announce == \E kind \in Kinds, old, new \in DOMAIN scans :
    LET e == [kind |-> kind, old |-> old, new |-> new] IN
    /\ Truthful(scans, e)
    /\ \A f \in events : ~(f.kind = e.kind /\ f.new = e.new)
    /\ events' = events \cup {e}
    /\ UNCHANGED scans

Next == Record \/ Announce

Spec == Init /\ [][Next]_<<scans, events>>
================================================================================
