------------------------------- MODULE MCAnswers -------------------------------
(***************************************************************************)
(* The parts of the tool that share no state, checked side by side: every   *)
(* behaviour is one of a single part, the others stay at their beginning.   *)
(***************************************************************************)
EXTENDS ScanReport, KeyUsage, KmipScan, Decisions, SignIn, Webhook

VARIABLE part

PartsInit ==
    /\ part \in {"report", "keys", "kmip", "answers", "signin", "webhook"}
    /\ IF part = "report" THEN TRUE
       ELSE own = <<>> /\ vendor = <<>> /\ advisories = <<>> /\ command = "cli"
    /\ IF part = "kmip" THEN TRUE ELSE managed = NoObject /\ offered = CHOOSE o \in Offers : TRUE
    /\ IF part = "webhook" THEN TRUE ELSE builds = TRUE
    /\ IF part = "signin" THEN TRUE ELSE configured = TRUE /\ admin = TRUE
    /\ Init /\ UsageInit /\ KmipInit /\ DecisionsInit /\ SignInInit /\ WebhookInit

Report == part = "report" /\ Next
    /\ UNCHANGED <<part, usageVars, kmipVars, asked, signInVars, webhookVars>>
Keys_ == part = "keys" /\ UsageNext
    /\ UNCHANGED <<part, vars, kmipVars, asked, signInVars, webhookVars>>
Kmip == part = "kmip" /\ KmipNext
    /\ UNCHANGED <<part, vars, usageVars, asked, signInVars, webhookVars>>
Answers == part = "answers" /\ DecisionsNext
    /\ UNCHANGED <<part, vars, usageVars, kmipVars, signInVars, webhookVars>>
Browser == part = "signin" /\ SignInNext
    /\ UNCHANGED <<part, vars, usageVars, kmipVars, asked, webhookVars>>
Hook == part = "webhook" /\ WebhookNext
    /\ UNCHANGED <<part, vars, usageVars, kmipVars, asked, signInVars>>

PartsNext == Report \/ Keys_ \/ Kmip \/ Answers \/ Browser \/ Hook

-----------------------------------------------------------------------------
(* ScanReport, as in MCScanReport.                                          *)
MCSeverities == {"critical", "low", "info"}
BothCommands == {"server", "cli"}

(* KeyUsage, two keys of different names.                                   *)
CONSTANTS s1, s2, k1, k2, a, b
Named == k1 :> a @@ k2 :> b

(* Sessions are interchangeable, keys with their names, and tabs.           *)
CONSTANTS t1, t2
Swaps(x, y) == {x :> x @@ y :> y, x :> y @@ y :> x}
Symmetry == {p @@ q @@ r : p \in Swaps(s1, s2), r \in Swaps(t1, t2),
                           q \in {k1 :> k1 @@ k2 :> k2 @@ a :> a @@ b :> b,
                                  k1 :> k2 @@ k2 :> k1 @@ a :> b @@ b :> a}}

(* KmipScan.                                                                *)
Managed(type, algorithm, length, state, usage) ==
    [type |-> type, algorithm |-> algorithm, length |-> length, state |-> state, usage |-> usage]
MCKinds == {Managed("SymmetricKey", "AES", 256, "active", {"encrypt", "decrypt"}) @@ [name |-> "n"],
            Managed("SymmetricKey", "DES3", 168, "active", {"wrapkey"}),
            Managed("PrivateKey", "RSA", 1024, "compromised", {"sign"})}
MCKmipRules == <<
    [id |-> "weak", severity |-> "high", match |-> [weak_key |-> TRUE]],
    [id |-> "compromised", severity |-> "critical", match |-> [state_in |-> {"compromised"}]],
    [id |-> "unnamed", severity |-> "low",
     match |-> [unnamed |-> TRUE, object_type_in |-> {"SymmetricKey", "PrivateKey"}]],
    [id |-> "short", severity |-> "medium",
     match |-> [algorithm_in |-> {"AES", "RSA"}, length_lt |-> 257,
                usage_any_of |-> {"sign", "encrypt"}, usage_all_of |-> {"encrypt"}]]>>
MCOffers == {{<<1, 2>>}, {<<1, 4>>, <<2, 0>>}, {<<2, 0>>}, {<<1, 3>>, <<1, 4>>}}

(* Decisions: keys and certificates that share labels, ids and key    *)
(* material or do not: each three of them, and each two in both orders.      *)
Cert(before, after, algorithm, size, ca, self, print, number, chain) ==
    [not_before |-> before, not_after |-> after, is_ca |-> ca,
     signature_algorithm |-> IF algorithm = "RSA" THEN "SHA256-RSA" ELSE "ECDSA-SHA256",
     self_signed |-> self, public_key_algorithm |-> algorithm, key_usage |-> IF self THEN {"keyCertSign"} ELSE {},
     bits |-> size, fingerprint |-> print, serial |-> number, chain_status |-> chain]
RSAKey == [key_type |-> "RSA", key_bits |-> 1024, fingerprint |-> "f1", id |-> "i1"]
Objects == {
    RSAKey @@ [class |-> "private-key", label |-> "a", decrypt |-> TRUE, extractable |-> TRUE],
    RSAKey @@ [class |-> "public-key", label |-> "a"],
    [class |-> "certificate", label |-> "a", id |-> "i1",
     certificate |-> Cert(0, 8, "RSA", 1024, FALSE, TRUE, "f1", "1", "verified")],
    [class |-> "certificate", label |-> "b", id |-> "i1",
     certificate |-> Cert(5, 11, "ECDSA", 256, TRUE, FALSE, "f2", "2", "unverified")],
    [class |-> "secret-key", label |-> "a", key_type |-> "AES", key_bits |-> 128, sensitive |-> FALSE],
    [class |-> "private-key", id |-> "i2", key_type |-> "EC", curve |-> "P-256", unwrap |-> TRUE, fingerprint |-> "f2"],
    [class |-> "certificate", id |-> "i2"],
    [class |-> "secret-key", key_type |-> "AES", key_bits |-> 256]}
MechanismLists == {{}, {"CKM_ML_DSA"}, {"CKM_ML_DSA", "CKM_ML_DSA_KEY_PAIR_GEN", "CKM_ML_KEM", "CKM_ML_KEM_KEY_PAIR_GEN"}}
ListsUpTo(n) == UNION {[1..len -> Objects] : len \in 0..n}
Inventory(objects, mechanisms) == [objects |-> objects, mechanisms |-> mechanisms, token |-> <<>>]
Triples == {SetToSeq(objects) : objects \in kSubset(3, Objects)}
MCInventories == {Inventory(list, {"CKM_ML_DSA"}) : list \in ListsUpTo(2) \cup Triples}
                 \cup {Inventory(list, m) : list \in ListsUpTo(1), m \in MechanismLists}
MCTimes == {4, 7, 8, 9}

Rule(id, severity, match) == [id |-> id, severity |-> severity, match |-> match]
MCDefault == [rules |-> <<
    Rule("orphan", "low", [orphan |-> TRUE]),
    Rule("duplicate", "info", [duplicate_label |-> TRUE]),
    Rule("mismatch", "critical", [cert_key_mismatch |-> TRUE]),
    Rule("partnered", "medium", [orphan |-> FALSE, class |-> "private-key"]),
    Rule("weak", "high", [key_type_in |-> {"RSA", "DSA"}, key_size_lt |-> 2048, extractable |-> TRUE]),
    Rule("mechanism", "info", [mechanism_any_of |-> {"CKM_ML_DSA"}])>>]
MCCerts == [rules |-> <<
    Rule("expired", "high", [cert_expired |-> TRUE, cert_is_ca |-> FALSE]),
    Rule("expiring", "medium", [class |-> "certificate", cert_expires_within_days |-> 1]),
    Rule("long", "low", [cert_validity_days_gt |-> 3, cert_lifetime_remaining_pct_lt |-> 50]),
    Rule("short", "info", [cert_validity_days_lt |-> 4, cert_sig_alg_in |-> {"ECDSA-SHA256"}]),
    Rule("early", "low", [cert_not_yet_valid |-> TRUE, cert_chain_broken |-> TRUE]),
    Rule("ca", "high", [cert_ca_without_keycertsign |-> TRUE, cert_pubkey_alg_in |-> {"ECDSA"}]),
    Rule("small", "low", [cert_key_size_lt |-> 2048, cert_self_signed |-> TRUE]),
    Rule("curve", "info", [curve_in |-> {"P-256"}, curve_not_in |-> {"P-521"}]),
    Rule("unique", "info", [duplicate_label |-> FALSE, cert_key_mismatch |-> FALSE, class |-> "certificate"])>>,
    scoring |-> DefaultScoring]
MCTwice == [rules |-> <<Rule("expired", "low", [class |-> "data"]), Rule("expired", "low", [class |-> "data"])>>]
MCRuleFiles == {Rejected, MCTwice}
MCPackLists == {<<>>, <<MCCerts>>, <<MCCerts, PqcMigration>>, <<MCDefault, MCCerts>>, <<MCCerts, MCCerts>>,
                <<PqcMigration, MCTwice>>}

\* Two snapshots: keys of one class, label and id, with attributes that differ.
Twins == {[class |-> "private-key", label |-> "a", extractable |-> e] : e \in BOOLEAN}
         \cup {[class |-> "private-key", label |-> "a"],
               [class |-> "certificate", certificate |-> [not_after |-> 4, subject |-> "s", serial |-> "1"]],
               [class |-> "certificate", certificate |-> [not_after |-> 5, subject |-> "s", serial |-> "2"]]}
Tokens == {<<>>, <<[label |-> "t", serial |-> "1", model |-> "m", firmware |-> "1", hardware |-> "1"]>>,
           <<[label |-> "t", serial |-> "1", model |-> "m", firmware |-> "2", hardware |-> "1"]>>}
Snapshot(list, mechanisms, token) == [objects |-> list, mechanisms |-> mechanisms, token |-> token]
Pairs == UNION {[1..len -> Twins] : len \in 0..2}
MCOld == {Snapshot(list, {"m1", "m2"}, <<>>) : list \in Pairs \cup {SetToSeq(s) : s \in kSubset(3, Twins)}}
         \cup {Snapshot(<<>>, {"m2"}, t) : t \in Tokens}
MCNew == {Snapshot(list, {"m2"}, <<>>) : list \in Pairs}
         \cup {Snapshot(<<>>, {"m2", "m3"}, t) : t \in Tokens}

MCQuestions == [
    token : {<<>>} \cup {<<t>> : t \in [initialized : BOOLEAN, login : BOOLEAN,
                                        max : {0, 2, Unavailable}, count : {0, 1, 2, 3, Unavailable}]},
    pin : {"none", "right", "wrong"}, required : {{}, {"m1", "m2"}}, listing : {Unlisted, {"m1"}, {"m1", "m2"}},
    minFree : {0, 1, 2}, probe : {"off", "passes", "fails"},
    vendor : {<<>>} \cup {<<v>> : v \in [tampered : BOOLEAN, members : {{}, {TRUE}, {TRUE, FALSE}},
                                         inSync : {"no", "unknown"}]}]
=============================================================================
