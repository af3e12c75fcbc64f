-------------------------------- MODULE Probes --------------------------------
(***************************************************************************)
(* What the functional tests (internal/funtest), the post-quantum probes    *)
(* (internal/pqc/test.go, kem.go) and the workers of a benchmark            *)
(* (internal/bench) create on a token, and what the inventories that other  *)
(* requests of the same process collect meanwhile (internal/inventory) see  *)
(* of it: the session objects of one session of an application are visible  *)
(* to all of its sessions.                                                  *)
(***************************************************************************)
EXTENDS Integers, SequencesExt

CONSTANTS Calls,        \* requests to the server
          Handles,      \* object handles the module gives: bounds the objects there are
          Stored,       \* the token's own objects: class by handle
          Programs      \* probes that requests may run, of those defined below

Classes == {"private", "public", "secret", "certificate"}
Kinds == {"funtest", "pqc", "bench"}
Operations == {"pair", "key", "unwrap", "use", "encapsulate", "decapsulate"}

ASSUME StoredAssumption == /\ DOMAIN Stored \subseteq Handles
                           /\ \A h \in DOMAIN Stored : Stored[h] \in Classes
ASSUME ProgramsAssumption == Programs \subseteq [kind : Kinds, steps : Seq(Seq(Operations))]
ASSUME NamesAssumption == /\ {"token", "none"} \cap Calls = {}
                          /\ {"probe", "none"} \cap Handles = {}

(***************************************************************************)
(* Probes.  A step creates objects and uses them; all its objects are       *)
(* destroyed at its end.  "pair" is C_GenerateKeyPair, "key" and "unwrap"   *)
(* create one secret key, "use" is any calls that create nothing.           *)
(***************************************************************************)

\* The three steps that sign with a pair of their own differ in the mechanism alone.
signVerifyProfile == [kind |-> "funtest",
    steps |-> << <<"pair">>, <<"pair", "use">>, <<"key">>, <<"key", "use">> >>]

keyWrappingProfile == [kind |-> "funtest",
    steps |-> << <<"key">>, <<"key", "key", "use", "unwrap", "use">>,
                 <<"pair", "key", "use", "unwrap", "use">> >>]

\* One parameter set stands for all of its kind.
RunTests == [kind |-> "pqc",
    steps |-> << <<"pair", "encapsulate", "decapsulate", "use">>, <<"pair", "use">> >>]

\* A worker of a benchmark; its loop is that of BenchWorkers.
Primitives == {[kind |-> "bench", steps |-> <<ops>>] : ops \in {<<"pair", "use">>, <<"key", "use">>}}

\* A scan enumerates the classes in this order.
scannedClasses == <<"private", "public", "secret", "certificate">>

VARIABLES
    objects,    \* the token's objects by handle; NoObject where none is
    call,       \* where each request is
    left        \* history: objects of a running probe that it cannot destroy

vars == <<objects, call, left>>

NoObject == [class |-> "none", of |-> "none"]
\* A token object is of "token", a session object of the request with the session.
Object == [class : Classes, of : Calls \cup {"token"}] \cup {NoObject}
Free == {h \in Handles : objects[h] = NoObject}
ObjectsOf(c) == {h \in Handles : objects[h].of = c}

\* What a report lists: the class an object was found in and its label, by which an
\* object of the token is told; those of probes have one label, and some have none.
Entry == [class : Classes, label : Handles \cup {"probe", "none"}]

Idle == [at |-> "idle"]
Probing == [at : {"probe"}, kind : Kinds,
            steps : Seq(Seq(Operations)), ops : Seq(Operations),
            created : Seq(Handles), secret : SUBSET Handles]
Scanning == [at : {"scan", "report"}, class : 0..4, todo : SUBSET Handles,
             inventory : SUBSET Entry, met : BOOLEAN]

IsProbing(c) == call[c].at = "probe"

TypeOK ==
    /\ objects \in [Handles -> Object]
    /\ left \in [Calls -> SUBSET Handles]
    /\ call \in [Calls -> {Idle} \cup Probing \cup Scanning]

Init ==
    /\ objects = [h \in Handles |-> IF h \in DOMAIN Stored
                                    THEN [class |-> Stored[h], of |-> "token"] ELSE NoObject]
    /\ call = [c \in Calls |-> Idle]
    /\ left = [c \in Calls |-> {}]

--------------------------------------------------------------------------------
(***************************************************************************)
(* Probes.                                                                  *)
(***************************************************************************)

\* A session is open.  Scans that run meanwhile meet the probe.
OpenProbe(c) ==
    /\ call[c] = Idle
    /\ \E p \in Programs :
            call' = [d \in Calls |->
              IF d = c THEN [at |-> "probe", kind |-> p.kind, steps |-> p.steps, ops |-> <<>>,
                             created |-> <<>>, secret |-> {}]
              ELSE IF call[d].at = "scan" THEN [call[d] EXCEPT !.met = TRUE] ELSE call[d]]
    /\ UNCHANGED <<objects, left>>

\* A step whose mechanisms the token does not advertise is left out.
NextStep(c) ==
    /\ IsProbing(c) /\ call[c].ops = <<>> /\ call[c].created = <<>> /\ call[c].steps # <<>>
    /\ \E ops \in {Head(call[c].steps), <<>>} :
         call' = [call EXCEPT ![c].ops = ops, ![c].steps = Tail(@)]
    /\ UNCHANGED <<objects, left>>

\* An operation begins in a step that has one left.
Doing(c, names) == IsProbing(c) /\ call[c].ops # <<>> /\ Head(call[c].ops) \in names

\* Mutant: a template with CKA_TOKEN.
PutOnToken(c, class, h) == [objects EXCEPT ![h] = [class |-> class, of |-> "token"]]

\* The templates ask for session objects.
Put(c, class, h) == [objects EXCEPT ![h] = [class |-> class, of |-> c]]

\* Tests remember objects at the end of their list; the deferred clean-ups of the
\* other probes run last made, first destroyed, and a pair's private key first.
Track(c, made) ==
    IF call[c].kind = "funtest" THEN call[c].created \o made ELSE Reverse(made) \o call[c].created

Done(c, created, secret) ==
    call' = [call EXCEPT ![c].ops = Tail(@), ![c].created = created, ![c].secret = secret]

GeneratePair(c) ==
    /\ Doing(c, {"pair"})
    /\ \E pub, priv \in Free :
        /\ pub # priv
        /\ objects' = [Put(c, "public", pub) EXCEPT ![priv] = [class |-> "private", of |-> c]]
        /\ Done(c, Track(c, <<pub, priv>>), call[c].secret)
    /\ UNCHANGED left

\* Mutant: an unwrapped key is not tracked.
GenerateKeyUntracked(c) ==
    /\ Doing(c, {"key", "unwrap"})
    /\ \E h \in Free :
        /\ objects' = Put(c, "secret", h)
        /\ Done(c, IF Doing(c, {"key"}) THEN Track(c, <<h>>) ELSE call[c].created, call[c].secret)
    /\ UNCHANGED left

GenerateKey(c) ==
    /\ Doing(c, {"key", "unwrap"})
    /\ \E h \in Free : objects' = Put(c, "secret", h) /\ Done(c, Track(c, <<h>>), call[c].secret)
    /\ UNCHANGED left

Use(c) ==
    /\ Doing(c, {"use"})
    /\ Done(c, call[c].created, call[c].secret)
    /\ UNCHANGED <<objects, left>>

\* kem_roundtrip: the first secret is known to the caller only with the second.
Encapsulate(c) ==
    /\ Doing(c, {"encapsulate"})
    /\ \E h \in Free : objects' = Put(c, "secret", h) /\ Done(c, call[c].created, call[c].secret \cup {h})
    /\ UNCHANGED left

Decapsulate(c) ==
    /\ Doing(c, {"decapsulate"})
    /\ \E h \in Free, k \in call[c].secret :
        /\ objects' = Put(c, "secret", h)
        /\ Done(c, Track(c, <<h, k>>), call[c].secret \ {k})
    /\ UNCHANGED left

\* A call of the step fails, which ends it: what has been created is destroyed next.
Fail(c) ==
    /\ IsProbing(c) /\ call[c].ops # <<>>
    /\ call' = [call EXCEPT ![c].ops = <<>>, ![c].secret = {}]
    /\ left' = [left EXCEPT ![c] = @ \cup call[c].secret]
    /\ UNCHANGED objects

\* C_DestroyObject, whose error is ignored.
Destroy(c) ==
    /\ IsProbing(c) /\ call[c].ops = <<>> /\ call[c].created # <<>>
    /\ call' = [call EXCEPT ![c].created = Tail(@)]
    /\ LET h == Head(call[c].created)
       IN  \/ objects' = [objects EXCEPT ![h] = NoObject] /\ UNCHANGED left
           \/ left' = [left EXCEPT ![c] = @ \cup {h}] /\ UNCHANGED objects

\* C_CloseSession destroys the objects of the session.
CloseProbe(c) ==
    /\ IsProbing(c) /\ call[c].ops = <<>> /\ call[c].created = <<>> /\ call[c].steps = <<>>
    /\ objects' = [h \in Handles |-> IF objects[h].of = c THEN NoObject ELSE objects[h]]
    /\ call' = [call EXCEPT ![c] = Idle]
    /\ left' = [left EXCEPT ![c] = {}]

--------------------------------------------------------------------------------
(***************************************************************************)
(* Scans: Collect of internal/inventory.                                    *)
(***************************************************************************)
OpenScan(c) ==
    /\ call[c] = Idle
    /\ call' = [call EXCEPT ![c] = [at |-> "scan", class |-> 0, todo |-> {}, inventory |-> {},
                                    met |-> \E d \in Calls : IsProbing(d)]]
    /\ UNCHANGED <<objects, left>>

\* The handles of the next class.
FindObjects(c) ==
    /\ call[c].at = "scan" /\ call[c].todo = {} /\ call[c].class < Len(scannedClasses)
    /\ LET class == scannedClasses[call[c].class + 1]
       IN  call' = [call EXCEPT ![c].class = @ + 1,
                                ![c].todo = {h \in Handles : objects[h].class = class}]
    /\ UNCHANGED <<objects, left>>

\* The label read from a handle whose object is gone is left empty: no error.
LabelOf(h) == CASE objects[h].of = "token" -> h
                [] objects[h].of \in Calls  -> "probe"
                [] OTHER                    -> "none"

collectObject(c) ==
    /\ call[c].at = "scan"
    /\ \E h \in call[c].todo :
        LET entry == [class |-> scannedClasses[call[c].class], label |-> LabelOf(h)]
        IN  call' = [call EXCEPT ![c].todo = @ \ {h}, ![c].inventory = @ \cup {entry}]
    /\ UNCHANGED <<objects, left>>

Collected(c) ==
    /\ call[c].at = "scan" /\ call[c].todo = {} /\ call[c].class = Len(scannedClasses)
    /\ call' = [call EXCEPT ![c].at = "report"]
    /\ UNCHANGED <<objects, left>>

\* The report is answered, or the enumeration failed and with it the scan.
Answer(c) ==
    /\ call[c].at \in {"scan", "report"}
    /\ call' = [call EXCEPT ![c] = Idle]
    /\ UNCHANGED <<objects, left>>

Step(c) ==
    \/ NextStep(c) \/ GeneratePair(c) \/ GenerateKey(c) \/ Use(c)
    \/ Encapsulate(c) \/ Decapsulate(c) \/ Fail(c) \/ Destroy(c) \/ CloseProbe(c)
    \/ FindObjects(c) \/ collectObject(c) \/ Collected(c) \/ Answer(c)

Next == \E c \in Calls : OpenProbe(c) \/ OpenScan(c) \/ Step(c)

Spec == Init /\ [][Next]_vars

--------------------------------------------------------------------------------
(***************************************************************************)
(* Properties.                                                              *)
(***************************************************************************)

\* README.md:25: "functional tests use ephemeral session objects that leave no trace
\* on the token."  At any time the objects of a probe's session are those its step
\* has created and will destroy, and those it cannot: where C_DestroyObject failed,
\* and the first secret of a key encapsulation whose second was refused.
Accounted == \A c \in Calls :
    /\ ObjectsOf(c) = IF IsProbing(c) THEN Range(call[c].created) \cup call[c].secret \cup left[c]
                      ELSE {}
    /\ IsProbing(c) => IsInjective(call[c].created)

\* A scan that met no probe lists the token's objects and nothing else; one that did
\* still lists each of them, as what it is and nothing else as one of them.
InventoryExact == \A c \in Calls : call[c].at = "report" =>
    LET own == {[class |-> Stored[h], label |-> h] : h \in DOMAIN Stored}
    IN  /\ {e \in call[c].inventory : e.label \in Handles} = own
        /\ call[c].met \/ call[c].inventory = own
================================================================================
