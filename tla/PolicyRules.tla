------------------------------ MODULE PolicyRules ------------------------------
(***************************************************************************)
(* The rules of a policy pack and their evaluation against an inventory.    *)
(*                                                                          *)
(* An object is a function from the attributes its token exposes to their   *)
(* values, a certificate one from its parsed fields; what the code keeps as *)
(* nil, "" or 0 is not in the domain.  The match of a rule is a function    *)
(* from the conditions it sets to what they ask for.                        *)
(***************************************************************************)
EXTENDS Findings

Day == 2    \* ticks of the clock in a day: times differ by less than one, too

Has(o, attribute) == attribute \in DOMAIN o

Flags == {"extractable", "sensitive", "always_sensitive", "never_extractable", "modifiable",
          "sign", "verify", "encrypt", "decrypt", "derive", "wrap", "unwrap"}
KeyClasses == {"private-key", "public-key"}

\* Where a list has the findings of a rule.
OfRule(findings, id) == {i \in DOMAIN findings : findings[i].rule = id}

-----------------------------------------------------------------------------
(* Facts about the inventory that all rules share.                          *)

With(objects, attribute) == {i \in DOMAIN objects : Has(objects[i], attribute)}
Ids(objects) == {objects[i].id : i \in With(objects, "id")}

\* Mutant: labels counted over all classes.
LabelsOfAllClasses(objects) ==
    [key \in {<<objects[i].class, objects[i].label>> : i \in With(objects, "label")} |->
        Cardinality({i \in With(objects, "label") : objects[i].label = key[2]})]

duplicateLabels(objects) ==
    [key \in {<<objects[i].class, objects[i].label>> : i \in With(objects, "label")} |->
        Cardinality({i \in With(objects, "label") : <<objects[i].class, objects[i].label>> = key})]

buildFacts(objects, now) ==
    [now |-> now,
     duplicateLabels |-> duplicateLabels(objects),
     idOwners |-> [id \in Ids(objects) |->
        {objects[i].class : i \in {j \in With(objects, "id") : objects[j].id = id}}],
     keyFingerprints |-> [id \in Ids(objects) |->
        {objects[i].fingerprint : i \in
            {j \in With(objects, "id") \cap With(objects, "fingerprint") :
                objects[j].id = id /\ objects[j].class \in KeyClasses}}]]

certKeyMismatch(o, facts) ==
    /\ o.class = "certificate" /\ Has(o, "id") /\ Has(o, "certificate")
    /\ Has(o.certificate, "fingerprint")
    /\ facts.keyFingerprints[o.id] # {}
    /\ o.certificate.fingerprint \notin facts.keyFingerprints[o.id]

isDuplicateLabel(o, facts) == Has(o, "label") /\ facts.duplicateLabels[<<o.class, o.label>>] > 1

isOrphan(o, facts) ==
    \/ /\ o.class = "private-key"
       /\ Has(o, "id") => {"certificate", "public-key"} \cap facts.idOwners[o.id] = {}
    \/ /\ o.class = "certificate"
       /\ Has(o, "id") => "private-key" \notin facts.idOwners[o.id]

-----------------------------------------------------------------------------
(* The conditions of a rule.                                                *)

Validity(cert) == cert.not_after - cert.not_before

\* Those about the certificate an object must hold.
CertConditionHolds(c, want, cert, now) ==
    LET left == cert.not_after - now
    IN  CASE c = "cert_expired" -> (cert.not_after < now) = want
          [] c = "cert_expires_within_days" -> left > 0 /\ left <= want * Day
          [] c = "cert_validity_days_gt" -> Validity(cert) > want * Day
          [] c = "cert_validity_days_lt" -> Validity(cert) > 0 /\ Validity(cert) < want * Day
          [] c = "cert_lifetime_remaining_pct_lt" ->
                Validity(cert) > 0 /\ left > 0 /\ left * 100 < want * Validity(cert)
          [] c = "cert_sig_alg_in" -> cert.signature_algorithm \in want
          [] c = "cert_is_ca" -> cert.is_ca = want
          [] c = "cert_self_signed" -> cert.self_signed = want
          [] c = "cert_not_yet_valid" -> (cert.not_before > now) = want
          [] c = "cert_key_size_lt" -> Has(cert, "bits") /\ cert.bits < want
          [] c = "cert_pubkey_alg_in" -> cert.public_key_algorithm \in want
          [] c = "cert_ca_without_keycertsign" -> (cert.is_ca /\ "keyCertSign" \notin cert.key_usage) = want
          [] c = "cert_chain_broken" -> (Has(cert, "chain_status") /\ cert.chain_status = "unverified") = want

\* Those about the object itself and about its place among the others.
ConditionHolds(c, want, o, facts) ==
    CASE c \in Flags \cup {"class", "key_type"} -> Has(o, c) /\ o[c] = want
      [] c = "key_type_in" -> Has(o, "key_type") /\ o.key_type \in want
      [] c = "curve_in" -> Has(o, "curve") /\ o.curve \in want
      [] c = "curve_not_in" -> Has(o, "curve") /\ o.curve \notin want
      [] c = "key_size_lt" -> Has(o, "key_bits") /\ o.key_bits < want
      [] c = "cert_key_mismatch" -> certKeyMismatch(o, facts) = want
      [] c = "duplicate_label" -> isDuplicateLabel(o, facts) = want
      [] c = "orphan" -> isOrphan(o, facts) = want
      [] OTHER -> /\ Has(o, "certificate")
                  /\ CertConditionHolds(c, want, o.certificate, facts.now)

matchObject(rule, o, facts) ==
    \A c \in DOMAIN rule.match : ConditionHolds(c, rule.match[c], o, facts)

tokenScoped(match) == {"mechanism_any_of", "mechanism_missing"} \cap DOMAIN match # {}

-----------------------------------------------------------------------------
(* Evaluation.                                                              *)

objectRef(o) == [a \in DOMAIN o \cap {"class", "label", "id"} |-> o[a]]

FindingOf(rule, object) == [rule |-> rule.id, severity |-> rule.severity, object |-> object]
OfToken == <<>>     \* a finding about the token names no object

\* mechanism_any_of comes first; conditions on objects beside it are not looked at.
evalMechanismRule(mechanisms, rule) ==
    LET hit == IF Has(rule.match, "mechanism_any_of")
               THEN rule.match.mechanism_any_of \cap mechanisms # {}
               ELSE rule.match.mechanism_missing \cap mechanisms = {}
    IN  IF hit THEN <<FindingOf(rule, OfToken)>> ELSE <<>>

evalRule(inv, rule, facts) ==
    IF tokenScoped(rule.match) THEN evalMechanismRule(inv.mechanisms, rule)
    ELSE LET matched == At(inv.objects, {i \in DOMAIN inv.objects : matchObject(rule, inv.objects[i], facts)})
         IN  [i \in DOMAIN matched |-> FindingOf(rule, objectRef(matched[i]))]

\* The scoring section of a pack, or the default.
scoring(config) == IF Has(config, "scoring") THEN config.scoring ELSE DefaultScoring

Evaluate(inv, config, now) ==
    LET facts == buildFacts(inv.objects, now)
        findings == BySeverity(FlattenSeq(
                      [r \in DOMAIN config.rules |-> evalRule(inv, config.rules[r], facts)]))
    IN  [findings |-> findings, score |-> ScoreBy(scoring(config), findings)]

-----------------------------------------------------------------------------
(* Packs.  An error is a configuration without rules.                       *)

Rejected == [rules |-> <<>>]
IdsOf(rules) == {rules[i].id : i \in DOMAIN rules}

\* policy.Load: every rule has an id of its own, a known severity and a condition.
Load(config) ==
    IF /\ config.rules # <<>>
       /\ Cardinality(IdsOf(config.rules)) = Len(config.rules)
       /\ \A i \in DOMAIN config.rules : /\ config.rules[i].id # ""
                                         /\ config.rules[i].severity \in {Order[r] : r \in DOMAIN Order}
                                         /\ DOMAIN config.rules[i].match # {}
    THEN config
    ELSE Rejected

\* policy.Merge: ids are unique over all packs, the first scoring section wins.
Merge(configs) ==
    LET merged == FlattenSeq([p \in DOMAIN configs |-> configs[p].rules])
        scored == {p \in DOMAIN configs : Has(configs[p], "scoring")}
    IN  IF Cardinality(IdsOf(merged)) # Len(merged) THEN Rejected
        ELSE IF scored = {} THEN [rules |-> merged]
        ELSE [rules |-> merged, scoring |-> configs[Min(scored)].scoring]

\* cli.resolveRuleConfig: a rules file, packs, or the built-in rules.  A source that
\* Load refuses ends the command.
resolveRuleConfig(file, packs, builtin) ==
    LET loaded == [p \in DOMAIN packs |-> Load(packs[p])]
    IN  CASE file # Rejected /\ packs # <<>> -> Rejected
          [] file # Rejected /\ packs = <<>> -> Load(file)
          [] file = Rejected /\ packs = <<>> -> Load(builtin)
          [] OTHER -> IF \E p \in DOMAIN packs : loaded[p] = Rejected THEN Rejected ELSE Merge(loaded)

-----------------------------------------------------------------------------
(* What docs/rules.md says of a condition, where that is about more than    *)
(* one attribute of one object.                                             *)

SameId(o, p) == Has(o, "id") /\ Has(p, "id") /\ o.id = p.id

\* "Private key with no certificate/public key sharing its CKA_ID, or certificate with
\* no private key sharing its CKA_ID."
Alone(i, objects) ==
    LET o == objects[i]
        partners == CASE o.class = "private-key" -> {"certificate", "public-key"}
                      [] o.class = "certificate" -> {"private-key"}
                      [] OTHER -> {}
    IN  /\ partners # {}
        /\ \A j \in DOMAIN objects : objects[j].class \in partners => ~SameId(o, objects[j])

\* "Certificate public key does not match the key sharing its CKA_ID."
Mismatched(i, objects) ==
    LET o == objects[i]
        keys == {j \in DOMAIN objects : /\ SameId(o, objects[j]) /\ Has(objects[j], "fingerprint")
                                        /\ objects[j].class \in KeyClasses}
    IN  /\ o.class = "certificate" /\ Has(o, "certificate") /\ Has(o.certificate, "fingerprint")
        /\ keys # {} /\ \A j \in keys : objects[j].fingerprint # o.certificate.fingerprint

Meant(c, want, i, objects, now) ==
    CASE c = "duplicate_label" -> want =
            \E j \in DOMAIN objects \ {i} : /\ Has(objects[i], "label") /\ Has(objects[j], "label")
                                            /\ objects[i].label = objects[j].label
                                            /\ objects[i].class = objects[j].class
      [] c = "orphan" -> want = Alone(i, objects)
      [] c = "cert_key_mismatch" -> want = Mismatched(i, objects)
      [] OTHER -> ConditionHolds(c, want, objects[i], [now |-> now])

\* The objects a rule is about, in the order of the inventory.
Meaning(rule, inv, now) ==
    LET about == At(inv.objects, {i \in DOMAIN inv.objects :
                    \A c \in DOMAIN rule.match : Meant(c, rule.match[c], i, inv.objects, now)})
    IN  [k \in DOMAIN about |-> objectRef(about[k])]

\* A list of findings says of each rule of a configuration what the documentation does,
\* once for every object and in their order, the severe ones first.
SaysWhatIsMeant(findings, inv, config, now) ==
    /\ \A i, j \in DOMAIN findings : i < j => Rank(findings[i].severity) <= Rank(findings[j].severity)
    /\ \A r \in DOMAIN config.rules :
        LET rule == config.rules[r]
            said == At(findings, OfRule(findings, rule.id))
            meant == Meaning(rule, inv, now)
        IN  IF tokenScoped(rule.match) THEN said = evalMechanismRule(inv.mechanisms, rule)
            ELSE said = [k \in DOMAIN meant |-> FindingOf(rule, meant[k])]
    /\ \A i \in DOMAIN findings : findings[i].rule \in IdsOf(config.rules)

=============================================================================
