------------------------------- MODULE ScanReport -------------------------------
(***************************************************************************)
(* The findings of a scan on their way into its report: policy.Evaluate     *)
(* lists those of the rules, report.New takes the list over, and the        *)
(* findings of the vendor provider and of the advisory feed are added to    *)
(* the result afterwards (Server.ScanSlot, agent.CollectReports, the        *)
(* commands scan and doctor).                                               *)
(*                                                                          *)
(* The result and the report each hold a slice of Go, a length over an      *)
(* array that they may share: an append within the capacity writes into the *)
(* shared array, one beyond it moves to a new one.                          *)
(***************************************************************************)
EXTENDS Findings

CONSTANTS Severities,     \* the severities findings may have
          MaxOwn,         \* bound: findings of the rules
          MaxExtra,       \* bound: findings of the provider, and of the feed
          Commands        \* who scans: "server" (and the agent), "cli" (and doctor)

ASSUME ReportAssumption ==
    /\ Severities \subseteq {Order[r] : r \in DOMAIN Order}
    /\ MaxOwn \in Nat /\ MaxExtra \in Nat
    /\ Commands \subseteq {"server", "cli"}

VARIABLES
    command,        \* who scans
    at,             \* how far the scan is
    own, vendor, advisories,    \* what rules, provider and feed find, in their order
    heap,           \* the arrays
    res,            \* Result: its slice and its score
    rep             \* Report: its slice and its score

vars == <<command, at, own, vendor, advisories, heap, res, rep>>
inputs == <<command, own, vendor, advisories>>

Finding == [from : {"rule", "vendor", "advisory"}, n : Nat, severity : Severities]
Places == {"evaluate", "new", "vendor", "advisories", "done"}

\* The findings of one origin, in every order of severities.
Lists(from, max) == UNION {
    {[i \in 1..len |-> [from |-> from, n |-> i, severity |-> s[i]]] : s \in [1..len -> Severities]} :
    len \in 0..max}

View(h, slice) == SubSeq(h[slice.array], 1, slice.len)
All == own \o vendor \o advisories
Added == CASE at = "vendor" -> own
           [] at = "advisories" -> own \o vendor
           [] at = "done" -> IF command = "cli" THEN All ELSE own \o vendor
           [] OTHER -> own

TypeOK ==
    /\ command \in Commands /\ at \in Places
    /\ \A list \in {own, vendor, advisories} \cup {heap[a] : a \in DOMAIN heap} : list \in Seq(Finding)
    /\ \A s \in {res, rep} : /\ s.array \in DOMAIN heap
                             /\ s.len \in 0..Len(heap[s.array])
                             /\ s.score \in 0..100

\* Overwrite positions first, first + 1, ... of an array.
Write(array, first, list) ==
    [i \in DOMAIN array |-> IF i \in first..(first + Len(list) - 1) THEN list[i - first + 1] ELSE array[i]]

\* The capacity append gives a new array: the double of the old one or, if that is
\* too small, what is needed.  (The allocator rounds up first at seven findings.)
Grown(cap, need) == IF need > 2 * cap THEN need ELSE 2 * cap

\* What the unused part of an array holds is never read.
Blank == [from |-> "rule", n |-> 0, severity |-> CHOOSE s \in Severities : TRUE]

\* append(slice, list...): the heap and the slice it leaves.
AppendTo(h, slice, list) ==
    LET need == slice.len + Len(list)
        cap == Len(h[slice.array])
        fresh == [i \in 1..Grown(cap, need) |->
                    IF i <= slice.len THEN h[slice.array][i] ELSE Blank]
    IN  IF need <= cap
        THEN [heap |-> [h EXCEPT ![slice.array] = Write(@, slice.len + 1, list)],
              slice |-> [slice EXCEPT !.len = need]]
        ELSE [heap |-> Append(h, Write(fresh, slice.len + 1, list)),
              slice |-> [slice EXCEPT !.array = Len(h) + 1, !.len = need]]

\* Mutant: the list is left in the order of the rules and sources.
SortedAsAppended(h, slice) == h

\* Sorting a slice moves the findings within its array.
Sorted(h, slice) == [h EXCEPT ![slice.array] = Write(@, 1, BySeverity(View(h, slice)))]

Init ==
    /\ command \in Commands /\ at = "evaluate"
    /\ own \in Lists("rule", MaxOwn) /\ vendor \in Lists("vendor", MaxExtra)
    /\ advisories \in IF command = "cli" THEN Lists("advisory", MaxExtra) ELSE {<<>>}
    /\ heap = << <<>> >>        \* a nil slice is one of an array without room
    /\ res = [array |-> 1, len |-> 0, score |-> 100]
    /\ rep = res

\* The rules append one finding at a time; then the list is sorted and scored.
Evaluation ==
    LET built == FoldLeft(LAMBDA b, f : AppendTo(b.heap, b.slice, <<f>>),
                          [heap |-> heap, slice |-> res], own)
        sorted == Sorted(built.heap, built.slice)
    IN  /\ at = "evaluate" /\ at' = "new"
        /\ heap' = sorted
        /\ res' = [built.slice EXCEPT !.score = Score(View(sorted, built.slice))]
        /\ UNCHANGED <<inputs, rep>>

\* The report takes the slice over; the array is now that of both.
New ==
    /\ at = "new" /\ at' = "vendor"
    /\ rep' = res
    /\ UNCHANGED <<inputs, heap, res>>

\* The heap and the result after res.AddFindings(extra...).
AddFindings(extra) ==
    LET grown == AppendTo(heap, res, extra)
        sorted == Sorted(grown.heap, grown.slice)
    IN  IF extra = <<>> THEN [heap |-> heap, slice |-> res]
        ELSE [heap |-> sorted,
              slice |-> [grown.slice EXCEPT !.score = Score(View(sorted, grown.slice))]]

\* The findings of the provider go to the result; the report shows them apart, in
\* its Vendor block, and takes over the score alone.
Vendor ==
    /\ at = "vendor" /\ at' = IF command = "cli" THEN "advisories" ELSE "done"
    /\ heap' = AddFindings(vendor).heap /\ res' = AddFindings(vendor).slice
    /\ rep' = [rep EXCEPT !.score = res'.score]
    /\ UNCHANGED inputs

\* Mutant: the report's list is extended before the result's.
AdvisoriesListFirst ==
    LET listed == AppendTo(heap, rep, advisories)
        grown == AppendTo(listed.heap, res, advisories)
        sorted == Sorted(grown.heap, grown.slice)
        score == Score(View(sorted, grown.slice))
    IN  /\ at = "advisories" /\ at' = "done"
        /\ IF advisories = <<>> THEN UNCHANGED <<heap, res, rep>>
           ELSE /\ heap' = sorted
                /\ res' = [grown.slice EXCEPT !.score = score]
                /\ rep' = [listed.slice EXCEPT !.score = score]
        /\ UNCHANGED inputs

\* mergeAdvisories: the findings of the feed go to the result, and to the list of
\* the report as well.
Advisories ==
    LET added == AddFindings(advisories)
        listed == AppendTo(added.heap, rep, advisories)
    IN  /\ at = "advisories" /\ at' = "done"
        /\ res' = added.slice
        /\ IF advisories = <<>> THEN UNCHANGED <<heap, rep>>
           ELSE heap' = listed.heap /\ rep' = [listed.slice EXCEPT !.score = added.slice.score]
        /\ UNCHANGED inputs

Next == Evaluation \/ New \/ Vendor \/ Advisories

Spec == Init /\ [][Next]_vars

-----------------------------------------------------------------------------
\* What is read once the scan is over: the list of the report, and the block of the
\* provider beside it (Text, HTML, SARIF and doctor show both).
Listed == View(heap, rep)
Shown == Found(Listed) \cup Found(vendor)

\* checkFailOn: the command ends with an error.
checkFailOn(threshold) ==
    \E f \in Found(View(heap, res)) : Rank(f.severity) <= Rank(threshold)

\* doctor.Build: the severities of the issues of a diagnosis.  exposed: there are
\* keys a quantum computer would open; failed: a step of the functional tests failed.
Severity(list) == [i \in DOMAIN list |-> list[i].severity]
Others(exposed, failed) ==
    (IF exposed THEN <<"info">> ELSE <<>>) \o (IF failed THEN <<"critical">> ELSE <<>>)

\* Mutant: the block of the provider is taken to be in the list of the report.
BuildOfList(exposed, failed) == Severity(Listed) \o Others(exposed, failed)

Build(exposed, failed) == Severity(Listed) \o Severity(vendor) \o Others(exposed, failed)

verdictOf(issues, score) ==
    CASE "critical" \in Found(issues) -> "critical"
      [] "critical" \notin Found(issues) /\ (issues # <<>> \/ score < 90) -> "attention"
      [] OTHER -> "healthy"

\* The score of the report takes off the penalty of each finding once, whoever
\* found it and whatever happened to the lists (Result.AddFindings recomputes it
\* from a slice that report.New has given away).
ScoreIsOfAll == at \in {"vendor", "advisories", "done"} =>
    rep.score = Score(Added) /\ res.score = rep.score

\* --fail-on ends the command exactly if something as severe was found, although
\* the append of mergeAdvisories may have written over the tail of the list it counts.
GateSeesWorst == at # "evaluate" => \A threshold \in Severities :
    checkFailOn(threshold) <=> \E f \in Found(Added) : Rank(f.severity) <= Rank(threshold)

\* The verdict of doctor is that of everything found: critical if anything is,
\* healthy only if there is nothing, whatever the lists lost or hold twice.
VerdictOfAll == (at = "done" /\ command = "cli") => \A exposed, failed \in BOOLEAN :
    LET verdict == verdictOf(Build(exposed, failed), rep.score)
    IN  /\ verdict = "critical" <=> failed \/ \E f \in Found(All) : f.severity = "critical"
        /\ verdict = "healthy" <=> ~exposed /\ ~failed /\ All = <<>>

\* A finding of the rules that the report no longer shows is no more severe than
\* any of those in the place of the rules' findings: what an in-place sort pushes
\* out of the report's slice comes last by severity.
SevereKept == at \in {"vendor", "advisories", "done"} =>
    \A f \in Found(own) \ Shown : \A i \in 1..Len(own) :
        Rank(Listed[i].severity) <= Rank(f.severity)

\* docs/rules.md:85 of the SARIF report: "Both posture and vendor findings are
\* included."  Every finding of the rules is shown by the report of a finished scan,
\* which doctor.go:101-102 takes for granted ("report.New captured Findings before
\* the vendor merge").
PostureShown == at = "done" => Found(own) \subseteq Shown

=============================================================================
