------------------------------ MODULE Assessments ------------------------------
(***************************************************************************)
(* The two answers built from the checks of others: the evidence report,    *)
(* which says of each rule of each pack whether the token passes it, and    *)
(* the gate before a renewal, which asks the library one thing after the    *)
(* other.                                                                   *)
(***************************************************************************)
EXTENDS PolicyRules

-----------------------------------------------------------------------------
(* Evidence.                                                                *)

\* Mutant: only the objects of the class a rule names are asked for, token or not.
ApplicableByClass(inv, rule) ==
    \E i \in DOMAIN inv.objects :
        Has(rule.match, "class") => inv.objects[i].class = rule.match.class

applicable(inv, rule) ==
    \/ tokenScoped(rule.match)
    \/ \E i \in DOMAIN inv.objects :
        Has(rule.match, "class") => inv.objects[i].class = rule.match.class

\* byRule
Violations(findings, rule) == At(findings, OfRule(findings, rule.id))

Control(inv, findings, rule) ==
    LET violations == Violations(findings, rule)
    IN  [rule |-> rule.id, violations |-> violations,
         status |-> CASE violations # <<>> -> "fail"
                      [] violations = <<>> /\ applicable(inv, rule) -> "pass"
                      [] OTHER -> "not-applicable"]

Counted(controls, status) == Cardinality({i \in DOMAIN controls : controls[i].status = status})

\* evidence.Build for one pack.
EvidenceOf(inv, config, now) ==
    LET findings == Evaluate(inv, config, now).findings
        controls == [r \in DOMAIN config.rules |-> Control(inv, findings, config.rules[r])]
    IN  [controls |-> controls, passed |-> Counted(controls, "pass"),
         failed |-> Counted(controls, "fail"), notApplicable |-> Counted(controls, "not-applicable")]

\* cli.loadEvidencePacks: the packs stay apart, none may be one Load refuses.
loadEvidencePacks(packs) ==
    IF \E p \in DOMAIN packs : Load(packs[p]) = Rejected THEN <<>> ELSE packs

EvidenceReport(inv, packs, now) ==
    LET loaded == loadEvidencePacks(packs)
    IN  [p \in DOMAIN loaded |-> EvidenceOf(inv, loaded[p], now)]

-----------------------------------------------------------------------------
(* Preflight.  What is not there is an empty sequence.  A token is           *)
(* [initialized, login, max, count]: its limit of sessions, 0 for none, and  *)
(* how many are open, either of them Unavailable if it does not say.         *)

Word == 65536           \* stands for the range of uint: an unsigned difference wraps
Unavailable == Word - 1 \* CK_UNAVAILABLE_INFORMATION
Minus(a, b) == (a - b + Word) % Word

\* Mutant: a count above the limit is not told apart.
CapacityUnchecked(token) ==
    [known |-> token.max # 0 /\ Unavailable \notin {token.max, token.count},
     free |-> Minus(token.max, token.count)]

SessionCapacity(token) ==
    [known |-> token.max # 0 /\ Unavailable \notin {token.max, token.count},
     free |-> IF token.count >= token.max THEN 0 ELSE Minus(token.max, token.count)]

Check(name, level) == <<[name |-> name, level |-> level]>>
Skipped == <<>>

tokenCheck(token) ==
    Check("token", IF token # <<>> /\ token[1].initialized THEN "ok" ELSE "fail")

\* pin: "none", or whether the login with it succeeds.
loginCheck(token, pin) ==
    CASE pin # "none" -> Check("login", IF pin = "right" THEN "ok" ELSE "fail")
      [] pin = "none" /\ token.login -> Check("login", "fail")
      [] OTHER -> Check("login", "warn")

\* listing: the mechanisms the library lists, or that it fails to.
Unlisted == {"error"}
mechanismCheck(required, listing) ==
    CASE required = {} -> Skipped
      [] required # {} /\ listing = Unlisted -> Check("mechanisms", "warn")
      [] OTHER -> Check("mechanisms", IF required \subseteq listing THEN "ok" ELSE "fail")

\* No token has so many sessions free that int(free) turns negative.
sessionCheck(token, minFree) ==
    LET capacity == SessionCapacity(token)
    IN  CASE minFree = 0 -> Skipped
          [] minFree > 0 /\ ~capacity.known -> Check("sessions", "warn")
          [] OTHER -> Check("sessions", IF capacity.free < minFree THEN "fail" ELSE "ok")

\* probe: not asked for, or how the smoke test went; one that cannot run fails as well.
probeCheck(probe) ==
    IF probe = "off" THEN Skipped ELSE Check("probe", IF probe = "passes" THEN "ok" ELSE "fail")

\* An appliance: [tampered, members (up or not), inSync (or not known)].
checkVendor(vendor) ==
    (IF vendor.tampered THEN Check("tamper", "fail") ELSE Skipped) \o
    (CASE FALSE \in vendor.members \/ vendor.inSync = "no" -> Check("ha", "fail")
       [] vendor.members = {TRUE} /\ vendor.inSync # "no" -> Check("ha", "ok")
       [] OTHER -> Skipped)

\* preflight.Run and finalize: ready if no check failed.
Preflight(q) ==
    LET ofToken(token) == loginCheck(token, q.pin) \o mechanismCheck(q.required, q.listing)
                          \o sessionCheck(token, q.minFree) \o probeCheck(q.probe)
        checks == tokenCheck(q.token)
                  \o (IF q.token = <<>> THEN Skipped ELSE ofToken(q.token[1]))
                  \o (IF q.vendor = <<>> THEN Skipped ELSE checkVendor(q.vendor[1]))
    IN  [checks |-> checks, ready |-> \A i \in DOMAIN checks : checks[i].level # "fail"]

\* The exit status of the command: postponing is told apart from an error.
exitPostpone == 4
PreflightExit(q) == IF Preflight(q).ready THEN 0 ELSE exitPostpone

-----------------------------------------------------------------------------
(* What the answers must have in common with what they summarise.           *)

\* Whether a renewal is known to be impossible, from what the library and the
\* appliance have said: as many sessions as it needs would exceed the limit.
Obstructed(q) ==
    \/ q.token = <<>> \/ (q.token # <<>> /\ ~q.token[1].initialized)
    \/ /\ q.token # <<>>
       /\ LET token == q.token[1]
          IN  \/ IF q.pin = "none" THEN token.login ELSE q.pin # "right"
              \/ q.listing # Unlisted /\ ~(q.required \subseteq q.listing)
              \/ /\ q.minFree > 0 /\ token.max > 0
                 /\ Unavailable \notin {token.max, token.count}
                 /\ token.count + q.minFree > token.max
              \/ q.probe \in {"fails", "does not run"}
    \/ q.vendor # <<>> /\ (q.vendor[1].tampered \/ FALSE \in q.vendor[1].members \/ q.vendor[1].inSync = "no")

\* The evidence of some packs and a scan with all of them: a control fails exactly if
\* the scan finds its rule, with the same objects; a pass has something it is about.
AgreesWithScan(inv, packs, now) ==
    LET evidence == EvidenceReport(inv, packs, now)
        merged == Merge(packs)
        scan(p) == Evaluate(inv, IF merged = Rejected THEN packs[p] ELSE merged, now)
    IN  \A p \in DOMAIN evidence :
        /\ evidence[p].passed + evidence[p].failed + evidence[p].notApplicable = Len(packs[p].rules)
        /\ \A r \in DOMAIN packs[p].rules :
            LET rule == packs[p].rules[r]
                control == evidence[p].controls[r]
                ofClass == {i \in DOMAIN inv.objects :
                    ~Has(rule.match, "class") \/ inv.objects[i].class = rule.match.class}
            IN  /\ control.violations = At(scan(p).findings, OfRule(scan(p).findings, rule.id))
                /\ control.status = "fail" <=> OfRule(scan(p).findings, rule.id) # {}
                /\ control.status = "not-applicable" <=> ~tokenScoped(rule.match) /\ ofClass = {}

=============================================================================
