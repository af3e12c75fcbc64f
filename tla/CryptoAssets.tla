------------------------------ MODULE CryptoAssets ------------------------------
(***************************************************************************)
(* What is said of a token's cryptographic assets: the bill of materials    *)
(* (report.CBOM), the exposure to a quantum computer (pqc.Assess), the      *)
(* readiness of the token (pqc.Detect) and the standing of its certificates *)
(* (certmon.Classify).  Objects are those of PolicyRules; key types are in  *)
(* capitals, and those the code tells by a part of their name (AES of a     *)
(* mode, ML_DSA) are written as one.                                        *)
(***************************************************************************)
EXTENDS PolicyRules, TLC

Attribute(o, attribute, otherwise) == IF Has(o, attribute) THEN o[attribute] ELSE otherwise

\* firstNonEmpty, with the number of the component as the last resort.
FirstOf(o, number) ==
    CASE Has(o, "id") -> o.id
      [] ~Has(o, "id") /\ Has(o, "label") -> o.label
      [] OTHER -> ToString(number)

-----------------------------------------------------------------------------
(* The bill of materials.  A name is a tuple, of an algorithm and a size or  *)
(* curve; a component is [ref, kind, refers], and says of an algorithm       *)
(* whether a quantum computer breaks it.                                     *)

NoName == <<>>
Vulnerable == {"RSA", "EC", "DSA", "DH"}

\* algoIdentity: an algorithm with its size or its curve, where the code has them.
algoIdentity(keyType, curve, bits) ==
    CASE keyType = "none" -> NoName
      [] keyType \in {"RSA", "AES"} -> IF bits > 0 THEN <<keyType, ToString(bits)>> ELSE <<keyType>>
      [] keyType \in {"EC", "ECDSA"} -> IF curve # "none" THEN <<"EC", curve>> ELSE <<"EC">>
      [] OTHER -> <<keyType>>

sigAlgVulnerable(name) == name \in {<<"SHA256-RSA">>, <<"ECDSA-SHA256">>, <<"Ed25519">>}

EmptyBOM == [components |-> <<>>, refs |-> [fingerprint \in {} |-> NoName]]
AlgorithmRef(name) == <<"algorithm">> \o name

\* algorithm and signatureAlgorithm: a name is entered once.
AddAlgorithm(bom, name, vulnerable) ==
    IF name = NoName \/ \E i \in DOMAIN bom.components : bom.components[i].ref = AlgorithmRef(name)
    THEN bom
    ELSE [bom EXCEPT !.components = Append(@,
            [ref |-> AlgorithmRef(name), kind |-> "algorithm", refers |-> <<>>, vulnerable |-> vulnerable])]

NameOfKey(o) == algoIdentity(Attribute(o, "key_type", "none"), Attribute(o, "curve", "none"), Attribute(o, "key_bits", 0))
RefTo(name) == IF name = NoName THEN <<>> ELSE <<AlgorithmRef(name)>>

keyMaterialType == KeyClasses \cup {"secret-key"}
KeyRef(o, number) == <<"key", o.class, FirstOf(o, number)>>
CertificateRef(o, number) ==
    <<"certificate", IF Has(o.certificate, "serial") THEN o.certificate.serial ELSE FirstOf(o, number)>>

\* Secret keys have no fingerprint; a later key with one takes it over.
addKey(bom, o) ==
    LET name == NameOfKey(o)
        ref == KeyRef(o, Len(bom.components))
        named == AddAlgorithm(bom, name, name # NoName /\ name[1] \in Vulnerable)
    IN  IF o.class \notin keyMaterialType THEN bom
        ELSE [components |-> Append(named.components,
                    [ref |-> ref, kind |-> o.class, refers |-> RefTo(name), vulnerable |-> FALSE]),
              refs |-> IF Has(o, "fingerprint")
                       THEN [print \in DOMAIN bom.refs \cup {o.fingerprint} |->
                                IF print = o.fingerprint THEN ref ELSE bom.refs[print]]
                       ELSE bom.refs]

NameOfPublicKey(cert) == algoIdentity(cert.public_key_algorithm, "none", Attribute(cert, "bits", 0))

\* The key is one of the token's, by its fingerprint, or an algorithm.
addCertificate(bom, o) ==
    LET cert == o.certificate
        name == NameOfPublicKey(cert)
        kept == Has(cert, "fingerprint") /\ cert.fingerprint \in DOMAIN bom.refs
        ref == CertificateRef(o, Len(bom.components))
        subject == IF kept THEN bom ELSE AddAlgorithm(bom, name, name # NoName /\ name[1] \in Vulnerable)
        signature == <<cert.signature_algorithm>>
        signed == AddAlgorithm(subject, signature, sigAlgVulnerable(signature))
    IN  IF ~Has(o, "certificate") THEN bom
        ELSE [signed EXCEPT !.components = Append(@,
                [ref |-> ref, kind |-> "certificate", vulnerable |-> FALSE,
                 refers |-> (IF kept THEN <<bom.refs[cert.fingerprint]>> ELSE RefTo(name))
                            \o RefTo(signature)])]

\* Mutant: one pass over the objects.
CBOMInOnePass(objects) ==
    FoldLeft(LAMBDA bom, o : addCertificate(addKey(bom, o), o), EmptyBOM, objects).components

\* All keys come before the first certificate.
CBOM(objects) ==
    FoldLeft(addCertificate, FoldLeft(addKey, EmptyBOM, objects), objects).components

-----------------------------------------------------------------------------
(* Exposure and readiness.                                                  *)

classicalKeyTypes == {"RSA", "EC", "DSA", "DH"}
pqcKeyTypes == {"ML-KEM", "ML-DSA", "SLH-DSA"}
Holds(o, flag) == Has(o, flag) /\ o[flag]

Assess(objects) ==
    LET private == {i \in DOMAIN objects : objects[i].class = "private-key"}
        classical == {i \in private : Attribute(objects[i], "key_type", "none") \in classicalKeyTypes}
    IN  [TotalPrivateKeys |-> Cardinality(private),
         ClassicalPrivateKeys |-> Cardinality(classical),
         PQCPrivateKeys |-> Cardinality({i \in private : Attribute(objects[i], "key_type", "none") \in pqcKeyTypes}),
         HarvestNowDecryptLater |->
            Cardinality({i \in classical : Holds(objects[i], "decrypt") \/ Holds(objects[i], "unwrap")}),
         ClassicalCertificates |-> Cardinality({i \in DOMAIN objects : /\ objects[i].class = "certificate"
                /\ Has(objects[i], "certificate") /\ objects[i].certificate.public_key_algorithm # "0"})]

Families == [f \in pqcKeyTypes |->
    CASE f = "ML-KEM" -> [keyGen |-> "CKM_ML_KEM_KEY_PAIR_GEN", op |-> "CKM_ML_KEM"]
      [] f = "ML-DSA" -> [keyGen |-> "CKM_ML_DSA_KEY_PAIR_GEN", op |-> "CKM_ML_DSA"]
      [] f = "SLH-DSA" -> [keyGen |-> "CKM_SLH_DSA_KEY_PAIR_GEN", op |-> "CKM_SLH_DSA"]]

Detect(mechanisms) ==
    LET advertised == {f \in pqcKeyTypes : {Families[f].keyGen, Families[f].op} \subseteq mechanisms}
        incomplete == {f \in pqcKeyTypes \ advertised : {Families[f].keyGen, Families[f].op} \cap mechanisms # {}}
    IN  [advertised |-> advertised, incomplete |-> incomplete,
         verdict |-> CASE {"ML-KEM", "ML-DSA"} \subseteq advertised -> "ready"
                       [] ~({"ML-KEM", "ML-DSA"} \subseteq advertised) /\ advertised # {} -> "partial"
                       [] OTHER -> "not-ready"]

\* rules/packs/pqc-migration.yaml: PQCM-001 to PQCM-005.
Pqcm(n) == <<"PQCM-001", "PQCM-002", "PQCM-003", "PQCM-004", "PQCM-005">>[n]
PqcmMatch == <<
    [mechanism_missing |-> {"CKM_ML_DSA", "CKM_ML_DSA_KEY_PAIR_GEN"}],
    [mechanism_missing |-> {"CKM_ML_KEM", "CKM_ML_KEM_KEY_PAIR_GEN"}],
    [class |-> "private-key", key_type |-> "RSA", decrypt |-> TRUE],
    [class |-> "private-key", key_type |-> "RSA", unwrap |-> TRUE],
    [class |-> "private-key", key_type |-> "EC", derive |-> TRUE]>>
PqcMigration == [rules |-> [n \in DOMAIN PqcmMatch |-> [id |-> Pqcm(n), severity |-> "info", match |-> PqcmMatch[n]]]]

-----------------------------------------------------------------------------
(* The standing of a certificate.                                           *)

\* Mutant: the last moment belongs to the validity.
StatusAfter(cert, now, warnDays) ==
    LET left == cert.not_after - now
    IN  CASE left < 0 -> "expired"
          [] left >= 0 /\ left <= warnDays * Day -> "expiring"
          [] OTHER -> "ok"

Status(cert, now, warnDays) ==
    LET left == cert.not_after - now
    IN  CASE left <= 0 -> "expired"
          [] left > 0 /\ left <= warnDays * Day -> "expiring"
          [] OTHER -> "ok"

keyFPs(objects, id) ==
    {objects[i].fingerprint : i \in {j \in DOMAIN objects :
        /\ objects[j].class \in KeyClasses
        /\ Has(objects[j], "id") /\ objects[j].id = id /\ Has(objects[j], "fingerprint")}}

WeakBits == 2048

certWarnings(o, objects, now) ==
    LET cert == o.certificate
        fps == IF Has(o, "id") THEN keyFPs(objects, o.id) ELSE {}
    IN  {w \in {"self-signed", "not yet valid", "weak RSA key", "CA without keyCertSign",
                "key mismatch", "chain unverified"} :
            CASE w = "self-signed" -> cert.self_signed /\ ~cert.is_ca
              [] w = "not yet valid" -> cert.not_before > now
              [] w = "weak RSA key" -> cert.public_key_algorithm = "RSA" /\ Has(cert, "bits") /\ cert.bits < WeakBits
              [] w = "CA without keyCertSign" -> cert.is_ca /\ "keyCertSign" \notin cert.key_usage
              [] w = "key mismatch" -> fps # {} /\ Has(cert, "fingerprint") /\ cert.fingerprint \notin fps
              [] w = "chain unverified" -> Has(cert, "chain_status") /\ cert.chain_status = "unverified"}

\* Classify, before its entries are sorted; an object whose value is no certificate has none.
Classify(objects, now, warnDays) ==
    LET certs == At(objects, {i \in With(objects, "certificate") : objects[i].class = "certificate"})
    IN  [i \in DOMAIN certs |->
            [object |-> certs[i], status |-> Status(certs[i].certificate, now, warnDays),
             warnings |-> certWarnings(certs[i], objects, now)]]

-----------------------------------------------------------------------------
(* What these answers have in common with each other and with the inventory. *)

RefsOf(components) == {components[i].ref : i \in DOMAIN components}
OfKind(components, kind) == {i \in DOMAIN components : components[i].kind = kind}
KeysIn(objects) == {i \in DOMAIN objects : objects[i].class \in keyMaterialType}

\* Objects that the references tell apart, whatever the numbers that stand in for names.
Distinct(objects) ==
    \A i, j \in DOMAIN objects, m, n \in 0..5 * Len(objects) : i # j /\ m # n =>
        /\ {i, j} \subseteq KeysIn(objects) => KeyRef(objects[i], m) # KeyRef(objects[j], n)
        /\ {i, j} \subseteq With(objects, "certificate") =>
                CertificateRef(objects[i], m) # CertificateRef(objects[j], n)

\* A bill lists each key and certificate once and each algorithm once, whoever uses it;
\* what an entry refers to is in the bill; a certificate refers to a key with its own
\* fingerprint exactly if the token has one; and no reference is ambiguous if the
\* identities on the token are not.
Accounts(components, objects) ==
    /\ \A kind \in keyMaterialType :
        Cardinality(OfKind(components, kind)) = Cardinality({i \in DOMAIN objects : objects[i].class = kind})
    /\ \A i, j \in OfKind(components, "algorithm") : i # j => components[i].ref # components[j].ref
    /\ \A i \in DOMAIN components : \A k \in DOMAIN components[i].refers :
        components[i].refers[k] \in RefsOf(components)
    /\ LET certs == At(objects, With(objects, "certificate"))
           entries == At(components, OfKind(components, "certificate"))
       IN  /\ Len(certs) = Len(entries)
           /\ \A k \in DOMAIN certs :
                LET kept == \E i \in KeysIn(objects) \cap With(objects, "fingerprint") :
                                /\ Has(certs[k].certificate, "fingerprint")
                                /\ objects[i].fingerprint = certs[k].certificate.fingerprint
                IN  kept <=> entries[k].refers[1][1] = "key"
    /\ Distinct(objects) => Cardinality(RefsOf(components)) = Len(components)

\* Keys whose algorithm a bill marks as broken.
MarkedPrivate(components) ==
    {i \in DOMAIN components : components[i].kind = "private-key" /\
        \E j \in DOMAIN components : /\ components[i].refers = <<components[j].ref>>
                                     /\ components[j].vulnerable}

FoundBy(inv, n) ==
    {i \in DOMAIN inv.objects : matchObject([match |-> PqcmMatch[n]], inv.objects[i], [now |-> 0])}
FoundMissing(inv, n) == evalMechanismRule(inv.mechanisms, PqcMigration.rules[n]) # <<>>

\* The same question has one answer, whoever gives it: the bill marks the private keys
\* that pqc counts as classical; the keys to decrypt or unwrap that the migration pack
\* finds are among those pqc calls urgent, and all of them if only RSA keys are; a pack
\* that misses a mechanism and a token that is ready for it contradict each other; and
\* a certificate is expired, expiring or wrong for the monitor as for the rules, but for
\* the last moment of its validity, when only the monitor calls it expired.
Consistent(inv, now, warnDays) ==
    LET exposure == Assess(inv.objects)
        urgent == FoundBy(inv, 3) \cup FoundBy(inv, 4)
        detection == Detect(inv.mechanisms)
        facts == buildFacts(inv.objects, now)
        entries == Classify(inv.objects, now, warnDays)
    IN  /\ Cardinality(MarkedPrivate(CBOM(inv.objects))) = exposure.ClassicalPrivateKeys
        /\ exposure.ClassicalPrivateKeys + exposure.PQCPrivateKeys <= exposure.TotalPrivateKeys
        /\ Cardinality(urgent) <= exposure.HarvestNowDecryptLater
        /\ (\A i \in With(inv.objects, "key_type") : inv.objects[i].key_type = "RSA") =>
                Cardinality(urgent) = exposure.HarvestNowDecryptLater
        /\ FoundMissing(inv, 1) => "ML-DSA" \notin detection.advertised \cup detection.incomplete
        /\ FoundMissing(inv, 2) => "ML-KEM" \notin detection.advertised \cup detection.incomplete
        /\ detection.verdict = "ready" => ~FoundMissing(inv, 1) /\ ~FoundMissing(inv, 2)
        /\ \A i \in DOMAIN entries :
            LET o == entries[i].object
                says(c, want) == ConditionHolds(c, want, o, facts)
                warned(w) == w \in entries[i].warnings
            IN  /\ entries[i].status = "expired" <=> says("cert_expired", TRUE) \/ o.certificate.not_after = now
                /\ entries[i].status = "expiring" <=> says("cert_expires_within_days", warnDays)
                /\ warned("key mismatch") <=> says("cert_key_mismatch", TRUE)
                /\ warned("not yet valid") <=> says("cert_not_yet_valid", TRUE)
                /\ warned("CA without keyCertSign") <=> says("cert_ca_without_keycertsign", TRUE)
                /\ warned("chain unverified") <=> says("cert_chain_broken", TRUE)
                /\ warned("self-signed") <=> says("cert_self_signed", TRUE) /\ says("cert_is_ca", FALSE)
                /\ warned("weak RSA key") <=> says("cert_key_size_lt", WeakBits) /\ says("cert_pubkey_alg_in", {"RSA"})

=============================================================================
