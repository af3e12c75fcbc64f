--------------------------------- MODULE Drift ---------------------------------
(***************************************************************************)
(* snapshot.Compare: the drift from one inventory of a token to a later     *)
(* one, as the history stores it and the command snapshot diff prints it.   *)
(* Objects of one class, label and id cannot be told apart: of those only   *)
(* the number is compared.                                                  *)
(***************************************************************************)
EXTENDS PolicyRules

\* Attributes of which a change counts; those not read into the inventory do not.
ComparedAttributes == (Flags \ {"always_sensitive", "never_extractable"})
                      \cup {"key_type", "key_bits", "curve"}

Differ(o, n, attributes) ==
    {a \in attributes : Has(o, a) # Has(n, a) \/ (Has(o, a) /\ Has(n, a) /\ o[a] # n[a])}

\* The expiry is compared by the day.
compareAttrs(o, n) ==
    Differ(o, n, ComparedAttributes) \cup
    (IF Has(o, "certificate") /\ Has(n, "certificate")
     THEN Differ(o.certificate, n.certificate, {"subject", "serial"}) \cup
          (IF o.certificate.not_after \div Day # n.certificate.not_after \div Day THEN {"expiry"} ELSE {})
     ELSE {})

\* Where the objects of a key are, how many, and the first of them.
OfKey(objects, key) == {i \in DOMAIN objects : objectRef(objects[i]) = key}
HowMany(objects, key) == Cardinality(OfKey(objects, key))
Earliest(objects, key) == objects[Min(OfKey(objects, key))]
KeysOf(objects) == {objectRef(objects[i]) : i \in DOMAIN objects}

\* What news has more than olds, key by key: those of a key that olds has as well
\* are marked as duplicates.
Surplus(olds, news) ==
    {[object |-> k, times |-> HowMany(news, k) - HowMany(olds, k), duplicate |-> OfKey(olds, k) # {}] :
        k \in {key \in KeysOf(news) : HowMany(news, key) > HowMany(olds, key)}}

\* Mutant: the first of each are compared, however many there are.
ChangesOfFirst(olds, news) ==
    UNION {{[object |-> k, field |-> f] : f \in compareAttrs(Earliest(olds, k), Earliest(news, k))} :
        k \in KeysOf(olds) \cap KeysOf(news)}

Changes(olds, news) ==
    UNION {{[object |-> k, field |-> f] : f \in compareAttrs(Earliest(olds, k), Earliest(news, k))} :
        k \in {key \in KeysOf(olds) \cap KeysOf(news) :
                HowMany(olds, key) = 1 /\ HowMany(news, key) = 1}}

\* compareToken says nothing if either scan found no token.
compareToken(old, new) ==
    IF old = <<>> \/ new = <<>> THEN {}
    ELSE Differ(old[1], new[1], {"label", "serial", "model", "firmware", "hardware"})

Compare(old, new) ==
    [TokenChanges |-> compareToken(old.token, new.token),
     MechanismsAdded |-> new.mechanisms \ old.mechanisms,
     MechanismsRemoved |-> old.mechanisms \ new.mechanisms,
     ObjectsAdded |-> Surplus(old.objects, new.objects),
     ObjectsRemoved |-> Surplus(new.objects, old.objects),
     ObjectChanges |-> Changes(old.objects, new.objects)]

Empty(diff) == \A part \in DOMAIN diff : diff[part] = {}

TimesIn(surplus, key) == LET of == {s \in surplus : s.object = key}
                         IN  IF of = {} THEN 0 ELSE (CHOOSE s \in of : TRUE).times

\* --exit-code: the command fails if anything changed.
diffFails(old, new, exitCode) == exitCode /\ ~Empty(Compare(old, new))

-----------------------------------------------------------------------------
\* The inventory with its objects in the opposite order.
Enumerated(inv) == [inv EXCEPT !.objects = Reverse(@)]

\* The drift is the difference: old and what was added is new and what was removed,
\* object by object and mechanism by mechanism; the way back removes what the way
\* there added, and changes the same; the order in which the token lists its objects
\* is no drift; and what is told apart and not in the drift has not changed.
TellsTheDifference(old, new) ==
    LET there == Compare(old, new)
        back == Compare(new, old)
    IN  /\ \A k \in KeysOf(old.objects) \cup KeysOf(new.objects) :
            /\ HowMany(old.objects, k) + TimesIn(there.ObjectsAdded, k)
                = HowMany(new.objects, k) + TimesIn(there.ObjectsRemoved, k)
            /\ TimesIn(there.ObjectsAdded, k) = 0 \/ TimesIn(there.ObjectsRemoved, k) = 0
        /\ new.mechanisms = (old.mechanisms \cup there.MechanismsAdded) \ there.MechanismsRemoved
        /\ back.ObjectsAdded = there.ObjectsRemoved /\ back.ObjectsRemoved = there.ObjectsAdded
        /\ back.TokenChanges = there.TokenChanges /\ back.ObjectChanges = there.ObjectChanges
        /\ Compare(Enumerated(old), new) = there
        /\ old.token = new.token => there.TokenChanges = {}
        /\ Empty(Compare(new, Enumerated(new)))
        /\ \A i \in DOMAIN old.objects, j \in DOMAIN new.objects :
            LET k == objectRef(old.objects[i])
            IN  /\ objectRef(new.objects[j]) = k
                /\ HowMany(old.objects, k) = 1 /\ HowMany(new.objects, k) = 1
                /\ \A f \in ComparedAttributes : [object |-> k, field |-> f] \notin there.ObjectChanges
                => \A f \in ComparedAttributes : Differ(old.objects[i], new.objects[j], {f}) = {}

=============================================================================
