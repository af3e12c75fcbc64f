-------------------------------- MODULE Decisions --------------------------------
(***************************************************************************)
(* The commands that read a token, a file or two and answer: scan with its  *)
(* rules, evidence, cbom and pqc with the certificate monitor, snapshot     *)
(* diff, and preflight.  None keeps anything; a state is one answer.        *)
(***************************************************************************)
EXTENDS Assessments, CryptoAssets, Drift

CONSTANTS Inventories,    \* what tokens hold: [objects, mechanisms, token]
          Times,          \* what the clock says
          RuleFiles,      \* rules files, Rejected for none
          PackLists,      \* sequences of packs
          BuiltinRules,   \* rules/default.yaml
          WarnDays,       \* days before its end at which a certificate is expiring
          OldInventories, NewInventories,     \* of two snapshots
          Questions       \* what preflight is asked, and what it meets

\* What the commands are given: an inventory has a list of objects, a file or a pack a
\* list of rules.
IsList(list) == list \in Seq(Found(list))

ASSUME InventoriesAssumption == \A inv \in Inventories : IsList(inv.objects)

\* What inventory.Collect and parseCert can put into an object: a class, a type that for
\* elliptic curves is EC, flags and times.
ASSUME ObjectsAssumption == Times \subseteq Int /\ \A inv \in Inventories : \A i \in DOMAIN inv.objects :
    LET o == inv.objects[i]
    IN  /\ Has(o, "class") /\ Attribute(o, "key_type", "none") # "ECDSA"
        /\ \A flag \in Flags : Has(o, flag) => o[flag] \in BOOLEAN
        /\ Has(o, "certificate") => /\ o.certificate.not_before \in Int /\ o.certificate.not_after \in Int
                                    /\ o.certificate.is_ca \in BOOLEAN /\ o.certificate.self_signed \in BOOLEAN

ASSUME RulesAssumption ==
    /\ \A config \in RuleFiles \cup {BuiltinRules} : IsList(config.rules)
    /\ \A packs \in PackLists : IsList(packs) /\ \A p \in DOMAIN packs : IsList(packs[p].rules)

\* What preflight.Run is called with: at most one token and one appliance, whose
\* numbers are unsigned words.
ASSUME QuestionsAssumption == \A q \in Questions :
    /\ q.token # <<>> => /\ q.token[1].initialized \in BOOLEAN /\ q.token[1].login \in BOOLEAN
                         /\ q.token[1].max \in 0..Unavailable /\ q.token[1].count \in 0..Unavailable
    /\ q.pin \in {"none", "right", "wrong"} /\ q.minFree \in Nat
    /\ q.probe \in {"off", "passes", "fails", "does not run"}
    /\ q.vendor # <<>> => /\ q.vendor[1].tampered \in BOOLEAN /\ q.vendor[1].members \subseteq BOOLEAN
                          /\ q.vendor[1].inSync \in {"no", "yes", "unknown"}

\* A snapshot says what was found of the token, the mechanisms and a list of objects.
ASSUME SnapshotsAssumption == \A inv \in OldInventories \cup NewInventories :
    /\ {"token", "mechanisms", "objects"} \subseteq DOMAIN inv
    /\ Len(inv.objects) \in Nat /\ DOMAIN inv.objects = 1..Len(inv.objects)

VARIABLE asked      \* who was asked what, and the answer

Nobody == [by |-> "nobody"]
DecisionsInit == asked = Nobody

Answer(a) == asked' = a

scan == \E inv \in Inventories, now \in Times, file \in RuleFiles, packs \in PackLists :
    LET config == resolveRuleConfig(file, packs, BuiltinRules)
    IN  Answer([by |-> "scan", inv |-> inv, now |-> now, config |-> config,
                findings |-> Evaluate(inv, config, now).findings])

evidence == \E inv \in Inventories, now \in Times, packs \in PackLists :
    Answer([by |-> "evidence", inv |-> inv, now |-> now, packs |-> packs])

cbom == \E inv \in Inventories : Answer([by |-> "cbom", inv |-> inv, components |-> CBOM(inv.objects)])

pqc == \E inv \in Inventories, now \in Times :
    Answer([by |-> "pqc", inv |-> inv, now |-> now])

snapshotDiff == \E old \in OldInventories, new \in NewInventories :
    Answer([by |-> "diff", old |-> old, new |-> new])

preflight == \E q \in Questions : Answer([by |-> "preflight", q |-> q, exit |-> PreflightExit(q)])

DecisionsNext == asked = Nobody /\ (scan \/ evidence \/ cbom \/ pqc \/ snapshotDiff \/ preflight)

-----------------------------------------------------------------------------
\* docs/rules.md, for rules that combine any conditions: a scan finds exactly the
\* objects each rule is documented to be about, once each and the severe ones first,
\* although labels, ids and fingerprints are compared through tables that all rules
\* share (buildFacts).
FindingsAsDocumented == asked.by = "scan" =>
    SaysWhatIsMeant(asked.findings, asked.inv, asked.config, asked.now)

\* The evidence of several packs, evaluated apart, and a scan with all of them merged
\* agree rule by rule; a rule passes only where there was something to check.
EvidenceAgreesWithScan == asked.by = "evidence" => AgreesWithScan(asked.inv, asked.packs, asked.now)

\* The bill of materials is complete, free of duplicates and closed under reference.
BillOfMaterials == asked.by = "cbom" => Accounts(asked.components, asked.inv.objects)

\* The bill, the exposure, the readiness, the migration pack and the certificate
\* monitor do not contradict each other on one inventory, save at the last moment of a
\* certificate's validity (see Consistent).
OneAnswer == asked.by = "pqc" => Consistent(asked.inv, asked.now, WarnDays)

\* The drift between two snapshots is their difference, whatever the order in which
\* the token lists its objects and however many of them cannot be told apart.
DriftIsDifference == asked.by = "diff" => TellsTheDifference(asked.old, asked.new)

\* preflight says ready exactly if nothing it was told stands against the renewal:
\* a check that could not be made only warns, one that failed postpones.
ReadyUnlessObstructed == asked.by = "preflight" => (asked.exit = 0 <=> ~Obstructed(asked.q))

================================================================================
