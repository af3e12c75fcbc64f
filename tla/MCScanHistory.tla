----------------------------- MODULE MCScanHistory -----------------------------
(***************************************************************************)
(* ScanHistory on a few reports: an inventory that changes and changes     *)
(* back, a score that falls by less than and by exactly the threshold, and *)
(* a severe finding.                                                        *)
(***************************************************************************)
EXTENDS ScanHistory

R(taken, inventory, score, severe) ==
    [taken |-> taken, inventory |-> inventory, score |-> score, severe |-> severe]

MCReports == {R(1, "keys", 100, {}),
              R(2, "more keys", 91, {}),
              R(3, "keys", 81, {"KEY-001"})}
================================================================================
