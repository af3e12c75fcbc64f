------------------------------- MODULE KmipScan -------------------------------
(***************************************************************************)
(* hsmdoctor kmip scan: one connection over which the client negotiates a   *)
(* version, locates all managed objects and reads the attributes of one     *)
(* after the other, while others activate, revoke, destroy and register     *)
(* objects on the same server; then the rules and the score.                *)
(*                                                                          *)
(* A managed object is a function from the attributes it has to their       *)
(* values, like the match of a rule; names and algorithms are compared      *)
(* without regard to case, so the model writes them in one.                 *)
(***************************************************************************)
EXTENDS Findings

CONSTANTS KmipIds,        \* identifiers objects may have
          KmipKinds,      \* what a registered object may be
          KmipRuleSet,    \* the rules, a sequence
          Offers,         \* sets of versions a server may speak
          MaxChanges      \* bound: changes others make on the server

VARIABLES
    offered,    \* external: the versions the server speaks
    managed,    \* external: its objects
    changes,    \* external: how often others changed them
    collection, \* the client's collection, and its report at the end
    during      \* what each object has been since it was located; the code has no such variable

kmipVars == <<offered, managed, changes, collection, during>>

Highest == <<1, 4>>     \* newClient
Older(v, w) == v[1] < w[1] \/ (v[1] = w[1] /\ v[2] < w[2])
Spoken(versions) == {v \in versions : v[1] = 1 /\ v[2] <= 4}
Latest(versions) == CHOOSE v \in versions : \A w \in versions \ {v} : Older(w, v)

-----------------------------------------------------------------------------
(* The rules.                                                               *)

Known(o, attribute) == attribute \in DOMAIN o
UsageOf(o) == IF Known(o, "usage") THEN o.usage ELSE {}

weakKey(o) ==
    /\ Known(o, "length") /\ Known(o, "algorithm")
    /\ \/ o.algorithm \in {"DES", "DES3"}
       \/ o.algorithm \in {"RSA", "DSA", "DH"} /\ o.length < 2048
       \/ o.algorithm \in {"EC", "ECDSA", "ECDH"} /\ o.length < 224
       \/ o.algorithm = "AES" /\ o.length < 128

KmipConditionHolds(c, want, o) ==
    CASE c = "object_type_in" -> Known(o, "type") /\ o.type \in want
      [] c = "algorithm_in" -> Known(o, "algorithm") /\ o.algorithm \in want
      [] c = "length_lt" -> Known(o, "length") /\ o.length < want
      [] c = "state_in" -> Known(o, "state") /\ o.state \in want
      [] c = "usage_all_of" -> want \subseteq UsageOf(o)
      [] c = "usage_any_of" -> want \cap UsageOf(o) # {}
      [] c = "unnamed" -> ~Known(o, "name") = want
      [] c = "weak_key" -> weakKey(o) = want

matchRule(o, match) == \A c \in DOMAIN match : KmipConditionHolds(c, match[c], o)

\* kmip.Load: ids are given and unique, severities known, matches not empty.
LoadedRules ==
    /\ Len(KmipRuleSet) \in Nat /\ DOMAIN KmipRuleSet = 1..Len(KmipRuleSet)
    /\ \A i \in DOMAIN KmipRuleSet :
        /\ KmipRuleSet[i].id # "" /\ DOMAIN KmipRuleSet[i].match # {}
        /\ KmipRuleSet[i].severity \in {Order[r] : r \in DOMAIN Order}
        /\ \A j \in DOMAIN KmipRuleSet \ {i} : KmipRuleSet[j].id # KmipRuleSet[i].id

ASSUME KmipAssumption == MaxChanges \in Nat /\ IsFiniteSet(KmipIds) /\ LoadedRules

\* Object by object, each against all rules.
Judged(list, id, o, r) ==
    IF matchRule(o, r.match)
    THEN Append(list, [rule |-> r.id, severity |-> r.severity, object |-> id]) ELSE list
JudgedByAll(list, id, o) == FoldLeft(LAMBDA l, r : Judged(l, id, o, r), list, KmipRuleSet)

KmipFindings(ids, objects) ==
    BySeverity(FoldLeft(LAMBDA l, id : JudgedByAll(l, id, objects[id]), <<>>, ids))

checkKMIPFailOn(findings, threshold) ==
    \E i \in DOMAIN findings : Rank(findings[i].severity) <= Rank(threshold)

-----------------------------------------------------------------------------
(* The collection.                                                          *)

Idle == [at |-> "discover", version |-> Highest, todo |-> <<>>, got |-> <<>>, findings |-> <<>>, score |-> 0]
Remaining == collection.todo
NoObject == [id \in {} |-> 0]
WithObject(objects, id, o) == [x \in DOMAIN objects \cup {id} |-> IF x = id THEN o ELSE objects[x]]

KmipInit ==
    /\ offered \in Offers
    /\ \E ids \in SUBSET KmipIds : managed \in [ids -> KmipKinds]
    /\ changes = 0
    /\ collection = Idle
    /\ during = [id \in KmipIds |-> {}]

Fails == collection' = [collection EXCEPT !.at = "failed"] /\ UNCHANGED <<offered, managed, changes, during>>

discoverVersions ==
    /\ collection.at = "discover"
    /\ collection' = [collection EXCEPT !.at = "locate",
            !.version = IF Spoken(offered) = {} THEN @ ELSE Latest(Spoken(offered))]
    /\ UNCHANGED <<offered, managed, changes, during>>

\* The server lists its objects in any order, and none to a client of another version.
locateAll ==
    /\ collection.at = "locate"
    /\ IF collection.version \notin offered THEN Fails
       ELSE /\ \E ids \in SetToSeqs(DOMAIN managed) :
                    collection' = [collection EXCEPT !.at = "read", !.todo = ids, !.got = NoObject]
            /\ during' = [id \in KmipIds |-> IF id \in DOMAIN managed THEN {managed[id]} ELSE {}]
            /\ UNCHANGED <<offered, managed, changes>>

\* Mutant: an object the server no longer has is entered without attributes.
getObjectAnyway ==
    /\ collection.at = "read" /\ Remaining # <<>>
    /\ collection' = [collection EXCEPT !.todo = Tail(@),
            !.got = WithObject(@, Head(Remaining), IF Head(Remaining) \in DOMAIN managed
                                             THEN managed[Head(Remaining)] ELSE NoObject)]
    /\ UNCHANGED <<offered, managed, changes, during>>

\* The attributes of the next object; one the server no longer has ends the collection.
getObject ==
    /\ collection.at = "read" /\ Remaining # <<>>
    /\ IF Head(Remaining) \notin DOMAIN managed THEN Fails
       ELSE /\ collection' = [collection EXCEPT !.todo = Tail(@),
                    !.got = WithObject(@, Head(Remaining), managed[Head(Remaining)])]
            /\ UNCHANGED <<offered, managed, changes, during>>

\* The objects in the order of their identifiers, the findings and the score.
EvaluateKmip ==
    LET ids == CHOOSE s \in SetToSeqs(DOMAIN collection.got) : TRUE
        findings == KmipFindings(ids, collection.got)
    IN  /\ collection.at = "read" /\ Remaining = <<>>
        /\ collection' = [collection EXCEPT !.at = "done", !.findings = findings,
                                            !.score = Score(findings)]
        /\ UNCHANGED <<offered, managed, changes, during>>

\* A request is not answered in time, or answered with an error.
RoundTripFails == collection.at \in {"discover", "locate", "read"} /\ Fails

Running == collection.at \in {"locate", "read"}

\* Others register an object, change its state or destroy it.
Changed(objects) ==
    /\ Running /\ changes < MaxChanges
    /\ managed' = objects /\ changes' = changes + 1
    /\ during' = [id \in KmipIds |->
            IF collection.at = "read" /\ during[id] # {} /\ id \in DOMAIN objects
            THEN during[id] \cup {objects[id]} ELSE during[id]]
    /\ UNCHANGED <<offered, collection>>

Register == \E id \in KmipIds \ DOMAIN managed, kind \in KmipKinds : Changed(WithObject(managed, id, kind))

Revoke == \E id \in DOMAIN managed, state \in {"deactivated", "compromised"} :
    Known(managed[id], "state") /\ Changed([managed EXCEPT ![id].state = state])

DestroyObject == \E id \in DOMAIN managed :
    Changed([other \in DOMAIN managed \ {id} |-> managed[other]])

KmipNext ==
    \/ discoverVersions \/ locateAll \/ getObject \/ EvaluateKmip \/ RoundTripFails
    \/ Register \/ Revoke \/ DestroyObject

-----------------------------------------------------------------------------
Located == {id \in KmipIds : during[id] # {}}

\* The report of a server that others use at the same time is true of each object at
\* some moment of the scan: it lists the objects that were located, each as it was at
\* one time, a rule that matched an object all along has found it, one that never did
\* has not, and nothing is found twice.  The version is one both sides speak.
KmipReportOfTheTime == collection.at = "done" =>
    /\ collection.version \in offered
    /\ DOMAIN collection.got = Located
    /\ \A id \in Located : collection.got[id] \in during[id]
    /\ \A id \in Located, r \in DOMAIN KmipRuleSet :
        LET rule == KmipRuleSet[r]
            found == {i \in DOMAIN collection.findings :
                        collection.findings[i].object = id /\ collection.findings[i].rule = rule.id}
        IN  /\ Cardinality(found) <= 1
            /\ (\A o \in during[id] : matchRule(o, rule.match)) => found # {}
            /\ (\A o \in during[id] : ~matchRule(o, rule.match)) => found = {}
            /\ found # {} => checkKMIPFailOn(collection.findings, rule.severity)

=============================================================================
