----------------------------- MODULE MCScanReport -----------------------------
(***************************************************************************)
(* ScanReport with three severities and up to five findings of the rules:   *)
(* the fifth moves to an array for eight, which leaves room for findings of *)
(* both the provider and the feed in the array the report shares.           *)
(***************************************************************************)
EXTENDS ScanReport

MCSeverities == {"critical", "low", "info"}
BothCommands == {"server", "cli"}
OnlyServer == {"server"}

=============================================================================
