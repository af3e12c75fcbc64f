---------------------------- MODULE TokenWorkProofs ----------------------------
(***************************************************************************)
(* What the tool does to a token, for any number of requests, handles,      *)
(* token objects and workers.                                               *)
(*                                                                          *)
(* Probes: what a probe leaves on the token is accounted for at any time,   *)
(* and the inventory of a scan that met no probe is that of the token.      *)
(*                                                                          *)
(* BenchWorkers: what has been taken from the budget is exactly what was    *)
(* asked of the token, and that is what succeeded, failed or is under way;  *)
(* the race for the stamp is won before any operation is begun.             *)
(***************************************************************************)
EXTENDS Probes, BenchWorkers, FiniteSetTheorems, SequenceTheorems, TLAPS

-----------------------------------------------------------------------------
\* Lists of objects.

LEMMA Joined ==
    ASSUME NEW S, NEW s \in Seq(S), NEW t \in Seq(S), IsInjective(s), IsInjective(t),
           Range(s) \cap Range(t) = {}
    PROVE  s \o t \in Seq(S) /\ IsInjective(s \o t) /\ Range(s \o t) = Range(s) \cup Range(t)
<1> DEFINE u == s \o t
<1>1. /\ u \in Seq(S) /\ Len(u) = Len(s) + Len(t) /\ Len(s) \in Nat /\ Len(t) \in Nat
      /\ \A i \in 1..Len(u) : u[i] = IF i <= Len(s) THEN s[i] ELSE t[i - Len(s)]
  BY ConcatProperties, LenProperties
<1>2. DOMAIN u = 1..Len(u) /\ DOMAIN s = 1..Len(s) /\ DOMAIN t = 1..Len(t)
  BY <1>1, LenProperties
<1> HIDE DEF u
<1>3. \A i \in DOMAIN s : i \in DOMAIN u /\ u[i] = s[i]
  BY <1>1, <1>2
<1>4. \A i \in DOMAIN t : i + Len(s) \in DOMAIN u /\ u[i + Len(s)] = t[i]
  BY <1>1, <1>2
<1>5. \A i \in DOMAIN u : \/ i \in DOMAIN s /\ u[i] = s[i]
                          \/ i - Len(s) \in DOMAIN t /\ i > Len(s) /\ u[i] = t[i - Len(s)]
  BY <1>1, <1>2
<1>6. Range(u) = Range(s) \cup Range(t)
  BY <1>3, <1>4, <1>5 DEF Range
<1>7. \A i, j \in DOMAIN u : u[i] = u[j] => i = j
  <2> SUFFICES ASSUME NEW i \in DOMAIN u, NEW j \in DOMAIN u, u[i] = u[j] PROVE i = j
    OBVIOUS
  <2>1. CASE i \in DOMAIN s /\ u[i] = s[i] /\ j \in DOMAIN s /\ u[j] = s[j]
    BY <2>1 DEF IsInjective
  <2>2. CASE /\ i - Len(s) \in DOMAIN t /\ u[i] = t[i - Len(s)]
             /\ j - Len(s) \in DOMAIN t /\ u[j] = t[j - Len(s)]
    <3>1. i - Len(s) = j - Len(s)
      BY <2>2 DEF IsInjective
    <3> QED BY <3>1, <1>1, <1>2
  <2>3. ASSUME NEW a \in DOMAIN s, NEW b \in DOMAIN t, s[a] = t[b] PROVE FALSE
    BY <2>3 DEF Range
  <2> QED BY <1>5, <2>1, <2>2, <2>3
<1> QED BY <1>1, <1>6, <1>7 DEF u, IsInjective

LEMMA Reversed ==
    ASSUME NEW S, NEW s \in Seq(S), IsInjective(s)
    PROVE  Reverse(s) \in Seq(S) /\ IsInjective(Reverse(s)) /\ Range(Reverse(s)) = Range(s)
<1> DEFINE r == Reverse(s)
<1>1. /\ Len(s) \in Nat /\ DOMAIN s = 1..Len(s) /\ \A i \in 1..Len(s) : s[i] \in S
  BY LenProperties, ElementOfSeq
<1>2. r = [i \in 1..Len(s) |-> s[(Len(s) - i) + 1]]
  BY DEF Reverse
<1> HIDE DEF r
<1>3. \A i \in 1..Len(s) : (Len(s) - i) + 1 \in 1..Len(s)
  BY <1>1
<1>4. r \in Seq(S)
  BY <1>1, <1>2, <1>3, SeqDef
<1>5. Range(r) = Range(s)
  <2>1. \A i \in DOMAIN s : (Len(s) - i) + 1 \in DOMAIN r /\ s[i] = r[(Len(s) - i) + 1]
    BY <1>1, <1>2, <1>3
  <2>2. \A i \in DOMAIN r : (Len(s) - i) + 1 \in DOMAIN s /\ r[i] = s[(Len(s) - i) + 1]
    BY <1>1, <1>2, <1>3
  <2> QED BY <2>1, <2>2 DEF Range
<1>6. \A i, j \in DOMAIN r : r[i] = r[j] => i = j
  BY <1>1, <1>2, <1>3 DEF IsInjective
<1> QED BY <1>4, <1>5, <1>6 DEF r, IsInjective

LEMMA Beheaded ==
    ASSUME NEW S, NEW s \in Seq(S), s # <<>>, IsInjective(s)
    PROVE  /\ Tail(s) \in Seq(S) /\ IsInjective(Tail(s))
           /\ Head(s) \in Range(s) /\ Range(Tail(s)) = Range(s) \ {Head(s)}
<1>1. /\ Tail(s) \in Seq(S) /\ Head(s) = s[1] /\ Len(s) \in Nat /\ Len(s) > 0
      /\ DOMAIN s = 1..Len(s) /\ DOMAIN Tail(s) = 1..(Len(s) - 1)
      /\ \A i \in 1..(Len(s) - 1) : Tail(s)[i] = s[i + 1]
  BY HeadTailProperties, LenProperties, EmptySeq
<1>2. 1 \in DOMAIN s /\ \A i \in DOMAIN Tail(s) : i + 1 \in DOMAIN s /\ i + 1 # 1
  BY <1>1
<1>3. \A i \in DOMAIN s : i = 1 \/ (i - 1 \in DOMAIN Tail(s) /\ Tail(s)[i - 1] = s[i])
  BY <1>1
<1>4. IsInjective(Tail(s))
  BY <1>1, <1>2 DEF IsInjective
<1>5. Range(Tail(s)) = Range(s) \ {Head(s)}
  BY <1>1, <1>2, <1>3 DEF Range, IsInjective
<1>6. Head(s) \in Range(s)
  BY <1>1, <1>2 DEF Range
<1> QED BY <1>1, <1>4, <1>5, <1>6
-----------------------------------------------------------------------------
\* The inductive invariant.

\* The books of one request.
Books(c) ==
    /\ ObjectsOf(c) = IF IsProbing(c) THEN Range(call[c].created) \cup call[c].secret \cup left[c]
                      ELSE {}
    /\ IsProbing(c) => /\ IsInjective(call[c].created)
                       /\ Range(call[c].created) \cap (call[c].secret \cup left[c]) = {}
                       /\ call[c].secret \cap left[c] = {}
    /\ ~IsProbing(c) => left[c] = {}

\* No request changes, removes or adds an object of the token.
TokenKept ==
    \A h \in Handles : IF h \in DOMAIN Stored
                       THEN objects[h] = [class |-> Stored[h], of |-> "token"]
                       ELSE objects[h].of # "token"

Own(h) == [class |-> Stored[h], label |-> h]
Found(class, n) == \E i \in 1..n : scannedClasses[i] = class

\* What a scan has read of the token, and has still to read.
ScanInv(c) == call[c].at \in {"scan", "report"} =>
    /\ call[c] \in Scanning
    /\ call[c].at = "report" => call[c].class = 4 /\ call[c].todo = {}
    /\ call[c].todo # {} => call[c].class \in 1..4
    /\ \A h \in DOMAIN Stored :
        /\ Own(h) \in call[c].inventory <=> Found(Stored[h], call[c].class) /\ h \notin call[c].todo
        /\ h \in call[c].todo => Stored[h] = scannedClasses[call[c].class]
    /\ \A e \in call[c].inventory :
        e.label \in Handles => e.label \in DOMAIN Stored /\ e = Own(e.label)
    /\ ~call[c].met => /\ call[c].todo \subseteq DOMAIN Stored
                       /\ \A e \in call[c].inventory : e.label \in Handles
                       /\ call[c].at = "scan" => \A d \in Calls : ~IsProbing(d)

IInv == TypeOK /\ TokenKept /\ \A c \in Calls : Books(c) /\ ScanInv(c)

\* IInv shows what the runs check.
LEMMA Shown == IInv => TypeOK /\ Accounted /\ InventoryExact
<1> SUFFICES ASSUME IInv PROVE Accounted /\ InventoryExact
  BY DEF IInv
<1>1. Accounted
  BY DEF IInv, Books, Accounted
<1>2. InventoryExact
  <2> SUFFICES ASSUME NEW c \in Calls, call[c].at = "report"
               PROVE  LET own == {Own(h) : h \in DOMAIN Stored}
                      IN  /\ {e \in call[c].inventory : e.label \in Handles} = own
                          /\ call[c].met \/ call[c].inventory = own
    BY DEF InventoryExact, Own
  <2>1. ScanInv(c) /\ call[c].class = 4 /\ call[c].todo = {}
    BY DEF IInv, ScanInv
  <2>2. \A h \in DOMAIN Stored : Own(h) \in call[c].inventory
    <3>1. \A class \in Classes : Found(class, 4)
      BY DEF Classes, Found, scannedClasses
    <3> QED BY <2>1, <3>1, StoredAssumption DEF ScanInv
  <2>3. \A h \in DOMAIN Stored : Own(h).label = h /\ h \in Handles
    BY StoredAssumption DEF Own
  <2>4. \A e \in call[c].inventory : e.label \in Handles => e \in {Own(h) : h \in DOMAIN Stored}
    BY <2>1 DEF ScanInv
  <2>5. ~call[c].met => \A e \in call[c].inventory : e.label \in Handles
    BY <2>1 DEF ScanInv
  <2> QED BY <2>2, <2>3, <2>4, <2>5
<1> QED BY <1>1, <1>2

LEMMA Initially == Init => IInv
<1> SUFFICES ASSUME Init PROVE IInv
  OBVIOUS
<1>1. objects \in [Handles -> Object] /\ TokenKept
  BY StoredAssumption, NamesAssumption DEF Init, Object, NoObject, TokenKept
<1>2. \A c \in Calls : call[c] = Idle /\ call[c].at = "idle" /\ ~IsProbing(c)
  BY DEF Init, Idle, IsProbing
<1>3. \A c \in Calls : ObjectsOf(c) = {}
  BY NamesAssumption DEF Init, ObjectsOf, NoObject
<1>4. TypeOK
  BY <1>1 DEF Init, TypeOK
<1>5. \A c \in Calls : left[c] = {}
  BY DEF Init
<1> QED BY <1>1, <1>2, <1>3, <1>4, <1>5 DEF IInv, Books, ScanInv

-----------------------------------------------------------------------------
\* Steps of probes.

\* What all of them share: the request is a probe's, others keep what they have, and so
\* does every object that is neither the probe's nor nobody's.
ProbeStep(c) ==
    /\ IsProbing(c)
    /\ call' \in [Calls -> {Idle} \cup Probing \cup Scanning]
    /\ call'[c] \in {Idle} \cup Probing
    /\ left' \in [Calls -> SUBSET Handles]
    /\ \A d \in Calls \ {c} : call'[d] = call[d] /\ left'[d] = left[d]
    /\ objects' \in [Handles -> Object]
    /\ \A h \in Handles : \/ objects'[h] = objects[h]
                          \/ objects[h].of \in {c, "none"} /\ objects'[h].of \in {c, "none"}

LEMMA ProbeFrame ==
    ASSUME IInv, NEW c \in Calls, ProbeStep(c), Books(c)'
    PROVE  IInv'
<1>1. TypeOK'
  BY DEF ProbeStep, TypeOK
<1>2. TokenKept'
  BY StoredAssumption, NamesAssumption DEF IInv, ProbeStep, TokenKept, TypeOK, Object
<1>3. \A d \in Calls \ {c} : Books(d)'
  <2> TAKE d \in Calls \ {c}
  <2>1. ObjectsOf(d)' = ObjectsOf(d)
    BY NamesAssumption DEF ProbeStep, ObjectsOf
  <2>2. call'[d] = call[d] /\ left'[d] = left[d] /\ Books(d)
    BY DEF ProbeStep, IInv
  <2> QED BY <2>1, <2>2 DEF Books, IsProbing
<1>4. \A d \in Calls : IsProbing(d)' => IsProbing(d)
  BY DEF ProbeStep, IsProbing
<1>5. ScanInv(c)'
  BY DEF ProbeStep, ScanInv, Idle, Probing
<1>6. \A d \in Calls \ {c} : ScanInv(d)'
  <2> TAKE d \in Calls \ {c}
  <2>1. call'[d] = call[d] /\ ScanInv(d)
    BY DEF ProbeStep, IInv
  <2> QED BY <2>1, <1>4 DEF ScanInv
<1> QED BY <1>1, <1>2, <1>3, <1>5, <1>6 DEF IInv
\* The end of an operation that succeeded.
LEMMA DoneIs ==
    ASSUME IInv, NEW c \in Calls, IsProbing(c), call[c].ops # <<>>,
           NEW created \in Seq(Handles), NEW secret \in SUBSET Handles, Done(c, created, secret)
    PROVE  /\ call' \in [Calls -> {Idle} \cup Probing \cup Scanning]
           /\ call'[c] \in Probing /\ IsProbing(c)'
           /\ call'[c].created = created /\ call'[c].secret = secret
           /\ \A d \in Calls \ {c} : call'[d] = call[d]
<1>1. call[c] \in Probing
  BY DEF IInv, TypeOK, IsProbing, Idle, Scanning
<1>2. Tail(call[c].ops) \in Seq(Operations)
  BY <1>1, HeadTailProperties DEF Probing
<1>3. call'[c] = [call[c] EXCEPT !.ops = Tail(call[c].ops), !.created = created, !.secret = secret]
  BY DEF Done, IInv, TypeOK
<1>4. call'[c] \in Probing /\ call'[c].created = created /\ call'[c].secret = secret
  BY <1>1, <1>2, <1>3 DEF Probing
<1> QED BY <1>4 DEF Done, IInv, TypeOK, IsProbing, Probing

\* What is put on a list of objects is on it, once.
LEMMA Tracked ==
    ASSUME IInv, NEW c \in Calls, IsProbing(c), NEW made \in Seq(Handles), IsInjective(made),
           Range(made) \cap Range(call[c].created) = {}
    PROVE  /\ Track(c, made) \in Seq(Handles) /\ IsInjective(Track(c, made))
           /\ Range(Track(c, made)) = Range(call[c].created) \cup Range(made)
<1>1. call[c].created \in Seq(Handles) /\ IsInjective(call[c].created)
  BY DEF IInv, TypeOK, Books, IsProbing, Idle, Probing, Scanning
<1>2. /\ Reverse(made) \in Seq(Handles) /\ IsInjective(Reverse(made))
      /\ Range(Reverse(made)) = Range(made)
  BY Reversed
<1>3. CASE call[c].kind = "funtest"
  BY <1>1, <1>3, Joined DEF Track
<1>4. CASE call[c].kind # "funtest"
  BY <1>1, <1>2, <1>4, Joined DEF Track
<1> QED BY <1>3, <1>4

\* One handle, or two, as a list.
LEMMA Lists ==
    /\ \A h \in Handles : /\ <<h>> \in Seq(Handles) /\ IsInjective(<<h>>)
                          /\ Range(<<h>>) = {h}
    /\ \A h, k \in Handles : h # k => /\ <<h, k>> \in Seq(Handles) /\ IsInjective(<<h, k>>)
                                      /\ Range(<<h, k>>) = {h, k}
<1>1. ASSUME NEW h \in Handles
      PROVE  <<h>> \in Seq(Handles) /\ IsInjective(<<h>>) /\ Range(<<h>>) = {h}
  BY DEF IsInjective, Range
<1>2. ASSUME NEW h \in Handles, NEW k \in Handles, h # k
      PROVE  <<h, k>> \in Seq(Handles) /\ IsInjective(<<h, k>>) /\ Range(<<h, k>>) = {h, k}
  <2>1. DOMAIN <<h, k>> = {1, 2} /\ <<h, k>>[1] = h /\ <<h, k>>[2] = k
    OBVIOUS
  <2> QED BY <2>1, <1>2 DEF IsInjective, Range
<1> QED BY <1>1, <1>2

\* What the books say of a probe, and of the handles that are free.
LEMMA ProbeIs ==
    ASSUME IInv, NEW c \in Calls, IsProbing(c)
    PROVE  /\ call[c] \in Probing
           /\ call[c].created \in Seq(Handles) /\ call[c].secret \in SUBSET Handles
           /\ left[c] \in SUBSET Handles
           /\ ObjectsOf(c) = Range(call[c].created) \cup call[c].secret \cup left[c]
           /\ IsInjective(call[c].created)
           /\ Range(call[c].created) \cap (call[c].secret \cup left[c]) = {}
           /\ call[c].secret \cap left[c] = {}
           /\ ObjectsOf(c) \cap Free = {}
<1>1. call[c] \in Probing
  BY DEF IInv, TypeOK, IsProbing, Idle, Scanning
<1>2. ObjectsOf(c) \cap Free = {}
  BY NamesAssumption DEF ObjectsOf, Free, NoObject
<1> QED BY <1>1, <1>2 DEF IInv, TypeOK, Books, Probing
\* Objects created by an operation that ends with the lists created and secret.
LEMMA Creates ==
    ASSUME IInv, NEW c \in Calls, IsProbing(c), call[c].ops # <<>>, left' = left,
           NEW fresh \in SUBSET Free,
           objects' \in [Handles -> Object],
           \A h \in fresh : objects'[h].of = c,
           \A h \in Handles \ fresh : objects'[h] = objects[h],
           NEW created \in Seq(Handles), NEW secret \in SUBSET Handles, Done(c, created, secret),
           IsInjective(created), Range(created) \cap (secret \cup left[c]) = {},
           secret \cap left[c] = {},
           Range(created) \cup secret = Range(call[c].created) \cup call[c].secret \cup fresh
    PROVE  IInv'
<1>1. ProbeStep(c) /\ IsProbing(c)' /\ call'[c].created = created /\ call'[c].secret = secret
  BY DoneIs DEF ProbeStep, IInv, TypeOK, Free, NoObject
<1>2. ObjectsOf(c)' = ObjectsOf(c) \cup fresh
  BY NamesAssumption DEF ObjectsOf, Free, NoObject
<1>3. Books(c)'
  BY <1>1, <1>2, ProbeIs DEF Books
<1> QED BY <1>1, <1>3, ProbeFrame

LEMMA PairStep == ASSUME IInv, NEW c \in Calls, GeneratePair(c) PROVE IInv'
<1>1. PICK pub \in Free, priv \in Free :
        /\ pub # priv
        /\ objects' = [Put(c, "public", pub) EXCEPT ![priv] = [class |-> "private", of |-> c]]
        /\ Done(c, Track(c, <<pub, priv>>), call[c].secret)
  BY DEF GeneratePair
<1>2. IsProbing(c) /\ call[c].ops # <<>> /\ left' = left
  BY DEF GeneratePair, Doing
<1> DEFINE fresh == {pub, priv}   list == <<pub, priv>>   created == Track(c, list)
<1>3. fresh \in SUBSET Free /\ fresh \cap ObjectsOf(c) = {} /\ fresh \in SUBSET Handles
  BY <1>2, ProbeIs DEF Free
<1>4. list \in Seq(Handles) /\ IsInjective(list) /\ Range(list) = fresh
  BY <1>1, <1>3, Lists
<1>5. /\ objects' \in [Handles -> Object] /\ \A h \in fresh : objects'[h].of = c
      /\ \A h \in Handles \ fresh : objects'[h] = objects[h]
  BY <1>1, <1>3 DEF Put, IInv, TypeOK, Object, Classes
<1>6. Done(c, created, call[c].secret)
  BY <1>1
<1> HIDE DEF list, fresh
<1>7. /\ created \in Seq(Handles) /\ IsInjective(created)
      /\ Range(created) = Range(call[c].created) \cup fresh
  BY <1>2, <1>3, <1>4, ProbeIs, Tracked
<1> HIDE DEF created
<1> DEFINE secret == call[c].secret
<1>8. /\ secret \in SUBSET Handles /\ Range(created) \cap (secret \cup left[c]) = {}
      /\ secret \cap left[c] = {}
      /\ Range(created) \cup secret = Range(call[c].created) \cup call[c].secret \cup fresh
  BY <1>2, <1>3, <1>7, ProbeIs
<1> HIDE DEF secret
<1> QED BY <1>2, <1>3, <1>5, <1>6, <1>7, <1>8, Creates DEF secret

LEMMA KeyStep == ASSUME IInv, NEW c \in Calls, GenerateKey(c) PROVE IInv'
<1>1. PICK h \in Free : objects' = Put(c, "secret", h) /\ Done(c, Track(c, <<h>>), call[c].secret)
  BY DEF GenerateKey
<1>2. IsProbing(c) /\ call[c].ops # <<>> /\ left' = left
  BY DEF GenerateKey, Doing
<1> DEFINE fresh == {h}   list == <<h>>   created == Track(c, list)
<1>3. fresh \in SUBSET Free /\ fresh \cap ObjectsOf(c) = {} /\ fresh \in SUBSET Handles
  BY <1>2, ProbeIs DEF Free
<1>4. list \in Seq(Handles) /\ IsInjective(list) /\ Range(list) = fresh
  BY <1>3, Lists
<1>5. /\ objects' \in [Handles -> Object] /\ \A k \in fresh : objects'[k].of = c
      /\ \A k \in Handles \ fresh : objects'[k] = objects[k]
  BY <1>1, <1>3 DEF Put, IInv, TypeOK, Object, Classes
<1>6. Done(c, created, call[c].secret)
  BY <1>1
<1> HIDE DEF list, fresh
<1>7. /\ created \in Seq(Handles) /\ IsInjective(created)
      /\ Range(created) = Range(call[c].created) \cup fresh
  BY <1>2, <1>3, <1>4, ProbeIs, Tracked
<1> HIDE DEF created
<1> DEFINE secret == call[c].secret
<1>8. /\ secret \in SUBSET Handles /\ Range(created) \cap (secret \cup left[c]) = {}
      /\ secret \cap left[c] = {}
      /\ Range(created) \cup secret = Range(call[c].created) \cup call[c].secret \cup fresh
  BY <1>2, <1>3, <1>7, ProbeIs
<1> HIDE DEF secret
<1> QED BY <1>2, <1>3, <1>5, <1>6, <1>7, <1>8, Creates DEF secret

LEMMA EncapsulateStep == ASSUME IInv, NEW c \in Calls, Encapsulate(c) PROVE IInv'
<1>1. PICK h \in Free : /\ objects' = Put(c, "secret", h)
                        /\ Done(c, call[c].created, call[c].secret \cup {h})
  BY DEF Encapsulate
<1>2. IsProbing(c) /\ call[c].ops # <<>> /\ left' = left
  BY DEF Encapsulate, Doing
<1> DEFINE fresh == {h}   created == call[c].created   secret == call[c].secret \cup {h}
<1>3. fresh \in SUBSET Free /\ fresh \cap ObjectsOf(c) = {} /\ fresh \in SUBSET Handles
  BY <1>2, ProbeIs DEF Free
<1>4. /\ objects' \in [Handles -> Object] /\ \A k \in fresh : objects'[k].of = c
      /\ \A k \in Handles \ fresh : objects'[k] = objects[k]
  BY <1>1, <1>3 DEF Put, IInv, TypeOK, Object, Classes
<1>5. /\ secret \in SUBSET Handles /\ Range(created) \cap (secret \cup left[c]) = {}
      /\ secret \cap left[c] = {} /\ created \in Seq(Handles) /\ IsInjective(created)
      /\ Range(created) \cup secret = Range(call[c].created) \cup call[c].secret \cup fresh
  BY <1>2, <1>3, ProbeIs
<1>6. Done(c, created, secret)
  BY <1>1
<1> HIDE DEF fresh, created, secret
<1> QED BY <1>2, <1>3, <1>4, <1>5, <1>6, Creates

LEMMA DecapsulateStep == ASSUME IInv, NEW c \in Calls, Decapsulate(c) PROVE IInv'
<1>1. PICK h \in Free, k \in call[c].secret :
        /\ objects' = Put(c, "secret", h)
        /\ Done(c, Track(c, <<h, k>>), call[c].secret \ {k})
  BY DEF Decapsulate
<1>2. IsProbing(c) /\ call[c].ops # <<>> /\ left' = left
  BY DEF Decapsulate, Doing
<1> DEFINE fresh == {h}   list == <<h, k>>   created == Track(c, list)
           secret == call[c].secret \ {k}
<1>3. fresh \in SUBSET Free /\ fresh \cap ObjectsOf(c) = {} /\ fresh \in SUBSET Handles
  BY <1>2, ProbeIs DEF Free
<1>4. /\ k \in Handles /\ h # k /\ k \notin Range(call[c].created) /\ k \notin left[c]
      /\ h \notin Range(call[c].created) \cup left[c]
  BY <1>1, <1>2, <1>3, ProbeIs
<1>5. list \in Seq(Handles) /\ IsInjective(list) /\ Range(list) = {h, k}
  BY <1>3, <1>4, Lists
<1>6. /\ objects' \in [Handles -> Object] /\ \A l \in fresh : objects'[l].of = c
      /\ \A l \in Handles \ fresh : objects'[l] = objects[l]
  BY <1>1, <1>3 DEF Put, IInv, TypeOK, Object, Classes
<1>7. Done(c, created, secret)
  BY <1>1
<1> HIDE DEF list
<1>8. /\ created \in Seq(Handles) /\ IsInjective(created)
      /\ Range(created) = Range(call[c].created) \cup {h, k}
  <2>1. Range(list) \cap Range(call[c].created) = {}
    BY <1>3, <1>4, <1>5, ProbeIs, <1>2
  <2> QED BY <1>2, <1>5, <2>1, Tracked
<1> HIDE DEF created
<1>9. /\ secret \in SUBSET Handles /\ Range(created) \cap (secret \cup left[c]) = {}
      /\ secret \cap left[c] = {}
      /\ Range(created) \cup secret = Range(call[c].created) \cup call[c].secret \cup fresh
  BY <1>1, <1>2, <1>3, <1>4, <1>8, ProbeIs
<1> HIDE DEF fresh, secret
<1> QED BY <1>2, <1>3, <1>6, <1>7, <1>8, <1>9, Creates

LEMMA UseStep == ASSUME IInv, NEW c \in Calls, Use(c) PROVE IInv'
<1> DEFINE created == call[c].created   secret == call[c].secret
<1>1. /\ IsProbing(c) /\ call[c].ops # <<>> /\ left' = left /\ objects' = objects
      /\ Done(c, created, secret)
  BY DEF Use, Doing
<1>2. objects' \in [Handles -> Object]
  BY <1>1 DEF IInv, TypeOK
<1>3. /\ created \in Seq(Handles) /\ secret \in SUBSET Handles /\ IsInjective(created)
      /\ Range(created) \cap (secret \cup left[c]) = {} /\ secret \cap left[c] = {}
      /\ Range(created) \cup secret = Range(call[c].created) \cup call[c].secret \cup {}
  BY <1>1, ProbeIs
<1>4. {} \in SUBSET Free /\ (\A h \in {} : objects'[h].of = c)
      /\ (\A h \in Handles \ {} : objects'[h] = objects[h])
  BY <1>1
<1> HIDE DEF created, secret
<1> QED BY <1>1, <1>2, <1>3, <1>4, Creates

LEMMA NextStepStep == ASSUME IInv, NEW c \in Calls, NextStep(c) PROVE IInv'
<1>1. IsProbing(c) /\ call[c].steps # <<>> /\ left' = left /\ objects' = objects
  BY DEF NextStep
<1>2. PICK ops \in {Head(call[c].steps), <<>>} :
        call' = [call EXCEPT ![c].ops = ops, ![c].steps = Tail(@)]
  BY DEF NextStep
<1>3. call[c] \in Probing
  BY <1>1, ProbeIs
<1>4. ops \in Seq(Operations) /\ Tail(call[c].steps) \in Seq(Seq(Operations))
  <2>1. call[c].steps \in Seq(Seq(Operations))
    BY <1>3 DEF Probing
  <2>2. Head(call[c].steps) \in Seq(Operations) /\ Tail(call[c].steps) \in Seq(Seq(Operations))
    BY <2>1, <1>1, HeadTailProperties
  <2>3. <<>> \in Seq(Operations)
    OBVIOUS
  <2> QED BY <2>2, <2>3, <1>2
<1>5. call'[c] = [call[c] EXCEPT !.ops = ops, !.steps = Tail(call[c].steps)]
  BY <1>2 DEF IInv, TypeOK
<1>6. /\ call'[c] \in Probing /\ call'[c].at = "probe"
      /\ call'[c].created = call[c].created /\ call'[c].secret = call[c].secret
  BY <1>3, <1>4, <1>5 DEF Probing
<1>7. ProbeStep(c)
  BY <1>1, <1>2, <1>6 DEF ProbeStep, IInv, TypeOK
<1>8. ObjectsOf(c)' = ObjectsOf(c) /\ IsProbing(c)' /\ Books(c)
  BY <1>1, <1>6 DEF ObjectsOf, IsProbing, IInv
<1>9. Books(c)'
  BY <1>1, <1>6, <1>8 DEF Books
<1> QED BY <1>7, <1>9, ProbeFrame

LEMMA FailStep == ASSUME IInv, NEW c \in Calls, Fail(c) PROVE IInv'
<1>1. /\ IsProbing(c) /\ objects' = objects
      /\ call' = [call EXCEPT ![c].ops = <<>>, ![c].secret = {}]
      /\ left' = [left EXCEPT ![c] = left[c] \cup call[c].secret]
  BY DEF Fail
<1>2. call[c] \in Probing /\ call[c].secret \in SUBSET Handles /\ left[c] \in SUBSET Handles
  BY <1>1, ProbeIs
<1>3. call'[c] = [call[c] EXCEPT !.ops = <<>>, !.secret = {}]
  BY <1>1 DEF IInv, TypeOK
<1>4. /\ call'[c] \in Probing /\ call'[c].at = "probe"
      /\ call'[c].created = call[c].created /\ call'[c].secret = {}
  <2>1. <<>> \in Seq(Operations)
    OBVIOUS
  <2> QED BY <1>2, <1>3, <2>1 DEF Probing
<1>5. left'[c] = left[c] \cup call[c].secret /\ left' \in [Calls -> SUBSET Handles]
  BY <1>1, <1>2 DEF IInv, TypeOK
<1>6. ProbeStep(c)
  BY <1>1, <1>4, <1>5 DEF ProbeStep, IInv, TypeOK
<1>7. ObjectsOf(c)' = ObjectsOf(c) /\ IsProbing(c)' /\ Books(c)
  BY <1>1, <1>4 DEF ObjectsOf, IsProbing, IInv
<1>8. Books(c)'
  BY <1>1, <1>4, <1>5, <1>7 DEF Books
<1> QED BY <1>6, <1>8, ProbeFrame

LEMMA DestroyStep == ASSUME IInv, NEW c \in Calls, Destroy(c) PROVE IInv'
<1> DEFINE h == Head(call[c].created)
<1>1. /\ IsProbing(c) /\ call[c].created # <<>>
      /\ call' = [call EXCEPT ![c].created = Tail(call[c].created)]
      /\ \/ objects' = [objects EXCEPT ![h] = NoObject] /\ left' = left
         \/ left' = [left EXCEPT ![c] = left[c] \cup {h}] /\ objects' = objects
  BY DEF Destroy
<1>2. /\ call[c] \in Probing /\ call[c].created \in Seq(Handles)
      /\ IsInjective(call[c].created) /\ Books(c) /\ left[c] \in SUBSET Handles
  BY <1>1, ProbeIs DEF IInv
<1>3. /\ Tail(call[c].created) \in Seq(Handles) /\ IsInjective(Tail(call[c].created))
      /\ h \in Range(call[c].created)
      /\ Range(Tail(call[c].created)) = Range(call[c].created) \ {h}
  BY <1>1, <1>2, Beheaded
<1>4. h \in ObjectsOf(c) /\ h \in Handles /\ objects[h].of = c
  BY <1>1, <1>2, <1>3, ProbeIs DEF ObjectsOf
<1>5. call'[c] = [call[c] EXCEPT !.created = Tail(call[c].created)]
  BY <1>1 DEF IInv, TypeOK
<1>6. /\ call'[c] \in Probing /\ call'[c].at = "probe"
      /\ call'[c].created = Tail(call[c].created) /\ call'[c].secret = call[c].secret
  BY <1>2, <1>3, <1>5 DEF Probing
<1> HIDE DEF h
<1>7. CASE objects' = [objects EXCEPT ![h] = NoObject] /\ left' = left
  <2>1. ProbeStep(c)
    BY <1>1, <1>4, <1>6, <1>7 DEF ProbeStep, IInv, TypeOK, Object, NoObject
  <2>2. ObjectsOf(c)' = ObjectsOf(c) \ {h}
    BY <1>4, <1>7, NamesAssumption DEF ObjectsOf, IInv, TypeOK, NoObject
  <2>3. Books(c)'
    BY <1>1, <1>2, <1>3, <1>6, <1>7, <2>2 DEF Books, IsProbing
  <2> QED BY <2>1, <2>3, ProbeFrame
<1>8. CASE left' = [left EXCEPT ![c] = left[c] \cup {h}] /\ objects' = objects
  <2>1. left'[c] = left[c] \cup {h} /\ left' \in [Calls -> SUBSET Handles]
    BY <1>2, <1>4, <1>8 DEF IInv, TypeOK
  <2>2. ProbeStep(c)
    BY <1>1, <1>6, <1>8, <2>1 DEF ProbeStep, IInv, TypeOK
  <2>3. ObjectsOf(c)' = ObjectsOf(c)
    BY <1>8 DEF ObjectsOf
  <2>4. Books(c)'
    BY <1>1, <1>2, <1>3, <1>6, <2>1, <2>3 DEF Books, IsProbing
  <2> QED BY <2>2, <2>4, ProbeFrame
<1> QED BY <1>1, <1>7, <1>8

LEMMA CloseStep == ASSUME IInv, NEW c \in Calls, CloseProbe(c) PROVE IInv'
<1>1. /\ IsProbing(c)
      /\ objects' = [h \in Handles |-> IF objects[h].of = c THEN NoObject ELSE objects[h]]
      /\ call' = [call EXCEPT ![c] = Idle]
      /\ left' = [left EXCEPT ![c] = {}]
  BY DEF CloseProbe
<1>2. ProbeStep(c) /\ call'[c] = Idle
  BY <1>1 DEF ProbeStep, IInv, TypeOK, Object, NoObject
<1>3. ObjectsOf(c)' = {}
  BY <1>1, NamesAssumption DEF ObjectsOf, NoObject
<1>4. left'[c] = {}
  BY <1>1 DEF IInv, TypeOK
<1>5. Books(c)'
  BY <1>2, <1>3, <1>4 DEF Books, IsProbing, Idle
<1> QED BY <1>2, <1>5, ProbeFrame
\* A probe that begins is met by the scans that run.
LEMMA OpenProbeStep == ASSUME IInv, NEW c \in Calls, OpenProbe(c) PROVE IInv'
<1>1. PICK p \in Programs :
        call' = [d \in Calls |->
            IF d = c THEN [at |-> "probe", kind |-> p.kind, steps |-> p.steps, ops |-> <<>>,
                           created |-> <<>>, secret |-> {}]
            ELSE IF call[d].at = "scan" THEN [call[d] EXCEPT !.met = TRUE] ELSE call[d]]
  BY DEF OpenProbe
<1>2. call[c] = Idle /\ objects' = objects /\ left' = left /\ ~IsProbing(c)
  BY DEF OpenProbe, IsProbing, Idle
<1>3. call'[c] \in Probing /\ call'[c].at = "probe" /\ call'[c].created = <<>> /\ call'[c].secret = {}
  <2>1. p.kind \in Kinds /\ p.steps \in Seq(Seq(Operations))
    BY ProgramsAssumption
  <2>2. <<>> \in Seq(Operations) /\ <<>> \in Seq(Handles)
    OBVIOUS
  <2> QED BY <1>1, <2>1, <2>2 DEF Probing
<1>4. \A d \in Calls \ {c} :
        \/ call'[d] = call[d] /\ call[d].at # "scan"
        \/ /\ call[d].at = "scan" /\ call[d] \in Scanning /\ call'[d] \in Scanning
           /\ call'[d] = [call[d] EXCEPT !.met = TRUE]
  <2> TAKE d \in Calls \ {c}
  <2>1. CASE call[d].at = "scan"
    <3>1. call[d] \in Scanning
      BY <2>1 DEF IInv, ScanInv
    <3>2. call'[d] = [call[d] EXCEPT !.met = TRUE]
      BY <1>1, <2>1
    <3> QED BY <2>1, <3>1, <3>2 DEF Scanning
  <2> QED BY <2>1, <1>1
<1>5. TypeOK'
  BY <1>1, <1>2, <1>3, <1>4 DEF IInv, TypeOK
<1>6. TokenKept'
  BY <1>2 DEF IInv, TokenKept
<1>7. \A d \in Calls : ObjectsOf(d)' = ObjectsOf(d) /\ Books(d)
  BY <1>2 DEF IInv, ObjectsOf
<1>8. Books(c)'
  <2>1. Range(<<>>) = {} /\ IsInjective(<<>>)
    BY DEF Range, IsInjective
  <2> QED BY <1>2, <1>3, <1>7, <2>1 DEF Books, IsProbing
<1>9. \A d \in Calls \ {c} : Books(d)'
  BY <1>2, <1>4, <1>7 DEF Books, IsProbing, Scanning
<1>10. ScanInv(c)'
  BY <1>3 DEF ScanInv
<1>11. \A d \in Calls \ {c} : ScanInv(d)'
  <2> TAKE d \in Calls \ {c}
  <2>1. ScanInv(d)
    BY DEF IInv
  <2>2. CASE call'[d] = call[d] /\ call[d].at # "scan"
    BY <2>1, <2>2 DEF ScanInv
  <2>3. CASE /\ call[d].at = "scan" /\ call[d] \in Scanning /\ call'[d] \in Scanning
             /\ call'[d] = [call[d] EXCEPT !.met = TRUE]
    <3>1. /\ call'[d].at = "scan" /\ call'[d].met /\ call'[d].class = call[d].class
          /\ call'[d].todo = call[d].todo /\ call'[d].inventory = call[d].inventory
      BY <2>3 DEF Scanning
    <3> QED BY <2>1, <2>3, <3>1 DEF ScanInv
  <2> QED BY <1>4, <2>2, <2>3
<1> QED BY <1>5, <1>6, <1>8, <1>9, <1>10, <1>11 DEF IInv

-----------------------------------------------------------------------------
\* Steps of scans: they change nothing but their own request.
LEMMA ScanFrame ==
    ASSUME IInv, NEW c \in Calls, ~IsProbing(c), objects' = objects, left' = left,
           call' \in [Calls -> {Idle} \cup Probing \cup Scanning],
           call'[c].at # "probe", \A d \in Calls \ {c} : call'[d] = call[d], ScanInv(c)'
    PROVE  IInv'
<1>1. TypeOK' /\ TokenKept'
  BY DEF IInv, TypeOK, TokenKept
<1>2. \A d \in Calls : ObjectsOf(d)' = ObjectsOf(d) /\ Books(d) /\ IsProbing(d)' = IsProbing(d)
  BY DEF IInv, ObjectsOf, IsProbing
<1>3. \A d \in Calls : Books(d)'
  <2> TAKE d \in Calls
  <2>1. IsProbing(d) => call'[d] = call[d]
    OBVIOUS
  <2> QED BY <1>2, <2>1 DEF Books
<1>4. \A d \in Calls \ {c} : ScanInv(d)'
  <2> TAKE d \in Calls \ {c}
  <2>1. call'[d] = call[d] /\ ScanInv(d)
    BY DEF IInv
  <2> QED BY <1>2, <2>1 DEF ScanInv
<1> QED BY <1>1, <1>3, <1>4 DEF IInv

LEMMA OpenScanStep == ASSUME IInv, NEW c \in Calls, OpenScan(c) PROVE IInv'
<1>1. /\ call[c] = Idle /\ objects' = objects /\ left' = left
      /\ call' = [call EXCEPT ![c] = [at |-> "scan", class |-> 0, todo |-> {}, inventory |-> {},
                                      met |-> \E d \in Calls : IsProbing(d)]]
  BY DEF OpenScan
<1>2. /\ call'[c] \in Scanning /\ call'[c].at = "scan" /\ call'[c].class = 0
      /\ call'[c].todo = {} /\ call'[c].inventory = {}
      /\ call'[c].met = \E d \in Calls : IsProbing(d)
  BY <1>1 DEF IInv, TypeOK, Scanning
<1>3. ~IsProbing(c) /\ \A d \in Calls : IsProbing(d)' => IsProbing(d)
  BY <1>1, <1>2 DEF IsProbing, Idle, IInv, TypeOK
<1>4. \A class \in Classes : ~Found(class, 0)
  BY DEF Found
<1>5. ScanInv(c)'
  BY <1>2, <1>3, <1>4, StoredAssumption DEF ScanInv
<1> QED BY <1>1, <1>2, <1>3, <1>5, ScanFrame DEF IInv, TypeOK

\* An object of the token has its class and is nobody's.
LEMMA OfToken ==
    ASSUME IInv, NEW h \in DOMAIN Stored
    PROVE  objects[h].class = Stored[h] /\ objects[h].of = "token"
<1>1. h \in Handles
  BY StoredAssumption
<1>2. objects[h] = [class |-> Stored[h], of |-> "token"]
  BY <1>1 DEF IInv, TokenKept
<1> QED BY <1>2

\* Where no probe runs, an object of a class is one of the token's.
LEMMA Alone ==
    ASSUME IInv, \A d \in Calls : ~IsProbing(d), NEW h \in Handles, objects[h].class \in Classes
    PROVE  h \in DOMAIN Stored
<1> SUFFICES ASSUME h \notin DOMAIN Stored PROVE FALSE
  OBVIOUS
<1>1. objects[h] \in Object /\ objects[h].of # "token" /\ objects[h] # NoObject
  BY DEF IInv, TypeOK, TokenKept, NoObject, Classes
<1>2. objects[h].of \in Calls
  BY <1>1 DEF Object
<1>3. h \in ObjectsOf(objects[h].of)
  BY DEF ObjectsOf
<1> QED BY <1>2, <1>3 DEF IInv, Books

LEMMA FindObjectsStep == ASSUME IInv, NEW c \in Calls, FindObjects(c) PROVE IInv'
<1> DEFINE n == call[c].class
           class == scannedClasses[n + 1]
           found == {h \in Handles : objects[h].class = class}
<1>1. /\ call[c].at = "scan" /\ call[c].todo = {} /\ n < 4
      /\ objects' = objects /\ left' = left
      /\ call' = [call EXCEPT ![c].class = n + 1, ![c].todo = found]
  BY DEF FindObjects, scannedClasses
<1>2. ScanInv(c) /\ call[c] \in Scanning /\ n \in 0..3
  BY <1>1 DEF IInv, ScanInv, Scanning
<1>3. class \in Classes /\ (\A i \in 1..n : scannedClasses[i] # class)
  BY <1>2 DEF scannedClasses, Classes
<1>4. /\ call'[c] \in Scanning /\ call'[c].at = "scan" /\ call'[c].class = n + 1
      /\ call'[c].todo = found /\ call'[c].inventory = call[c].inventory
      /\ call'[c].met = call[c].met /\ \A d \in Calls \ {c} : call'[d] = call[d]
  <2>1. found \in SUBSET Handles /\ n + 1 \in 0..4 /\ call \in [Calls -> {Idle} \cup Probing \cup Scanning]
    BY <1>2 DEF IInv, TypeOK
  <2>2. call'[c] = [call[c] EXCEPT !.class = n + 1, !.todo = found]
    BY <1>1, <2>1
  <2> HIDE DEF found
  <2> QED BY <1>1, <1>2, <2>1, <2>2 DEF Scanning
<1>5. ~IsProbing(c) /\ \A d \in Calls : IsProbing(d)' <=> IsProbing(d)
  BY <1>1, <1>4 DEF IsProbing
<1>6. \A h \in DOMAIN Stored : h \in found <=> Stored[h] = class
  <2> TAKE h \in DOMAIN Stored
  <2> QED BY OfToken, StoredAssumption
<1>7. \A h \in DOMAIN Stored : Found(Stored[h], n + 1) /\ h \notin found <=> Found(Stored[h], n)
  <2> TAKE h \in DOMAIN Stored
  <2> HIDE DEF class, found
  <2>1. Found(Stored[h], n + 1) <=> Found(Stored[h], n) \/ Stored[h] = class
    BY <1>2 DEF Found, class
  <2>2. Found(Stored[h], n) => Stored[h] # class
    BY <1>3 DEF Found
  <2> QED BY <1>6, <2>1, <2>2
<1>8. ~call[c].met => found \subseteq DOMAIN Stored
  BY <1>1, <1>2, <1>3, Alone DEF ScanInv
<1>9. ScanInv(c)'
  <2>1. call'[c].todo # {} => call'[c].class \in 1..4
    BY <1>2, <1>4
  <2>2. \A h \in DOMAIN Stored :
          /\ Own(h) \in call'[c].inventory <=> Found(Stored[h], call'[c].class) /\ h \notin call'[c].todo
          /\ h \in call'[c].todo => Stored[h] = scannedClasses[call'[c].class]
    BY <1>1, <1>2, <1>4, <1>6, <1>7 DEF ScanInv
  <2>3. \A e \in call'[c].inventory :
          e.label \in Handles => e.label \in DOMAIN Stored /\ e = Own(e.label)
    BY <1>1, <1>2, <1>4 DEF ScanInv
  <2>4. ~call'[c].met => /\ call'[c].todo \subseteq DOMAIN Stored
                         /\ \A e \in call'[c].inventory : e.label \in Handles
                         /\ \A d \in Calls : ~IsProbing(d)'
    BY <1>1, <1>2, <1>4, <1>5, <1>8 DEF ScanInv
  <2> HIDE DEF n, found, class
  <2> QED BY <1>4, <2>1, <2>2, <2>3, <2>4 DEF ScanInv, Own
<1>10. call' \in [Calls -> {Idle} \cup Probing \cup Scanning]
  BY <1>1, <1>4 DEF IInv, TypeOK
<1> QED BY <1>1, <1>4, <1>5, <1>9, <1>10, ScanFrame DEF IInv

LEMMA CollectStep == ASSUME IInv, NEW c \in Calls, collectObject(c) PROVE IInv'
<1> DEFINE n == call[c].class
<1>1. PICK h \in call[c].todo :
        /\ call[c].at = "scan" /\ objects' = objects /\ left' = left
        /\ call' = [call EXCEPT ![c].todo = @ \ {h},
                    ![c].inventory = @ \cup {[class |-> scannedClasses[n], label |-> LabelOf(h)]}]
  BY DEF collectObject
<1> DEFINE entry == [class |-> scannedClasses[n], label |-> LabelOf(h)]
<1>2. ScanInv(c) /\ call[c] \in Scanning /\ n \in 1..4 /\ h \in Handles
  BY <1>1 DEF IInv, ScanInv, Scanning
<1>3. scannedClasses[n] \in Classes
  BY <1>2 DEF scannedClasses, Classes
<1>4. objects[h] \in Object
  BY <1>2 DEF IInv, TypeOK
<1>5. IF h \in DOMAIN Stored THEN LabelOf(h) = h /\ Stored[h] = scannedClasses[n]
                             ELSE LabelOf(h) \in {"probe", "none"}
  <2>1. CASE h \in DOMAIN Stored
    <3>1. objects[h].of = "token"
      BY <2>1, OfToken
    <3>2. LabelOf(h) = h
      BY <3>1, NamesAssumption DEF LabelOf
    <3> QED BY <1>1, <1>2, <2>1, <3>2 DEF ScanInv
  <2>2. CASE h \notin DOMAIN Stored
    <3>1. objects[h].of # "token"
      BY <1>2, <2>2 DEF IInv, TokenKept
    <3> QED BY <2>2, <3>1 DEF LabelOf
  <2> QED BY <2>1, <2>2
<1>6. entry \in Entry
  BY <1>2, <1>3, <1>5 DEF Entry
<1>7. IF h \in DOMAIN Stored THEN entry = Own(h) ELSE entry.label \notin Handles
  BY <1>5, NamesAssumption DEF Own
<1> HIDE DEF entry
<1>8. /\ call'[c] \in Scanning /\ call'[c].at = "scan" /\ call'[c].class = n
      /\ call'[c].todo = call[c].todo \ {h} /\ call'[c].inventory = call[c].inventory \cup {entry}
      /\ call'[c].met = call[c].met /\ \A d \in Calls \ {c} : call'[d] = call[d]
  BY <1>1, <1>2, <1>6 DEF IInv, TypeOK, Scanning, entry
<1>9. ~IsProbing(c) /\ \A d \in Calls : IsProbing(d)' <=> IsProbing(d)
  BY <1>1, <1>8 DEF IsProbing
<1>10. Own(h).label = h /\ \A g \in DOMAIN Stored : g # h => Own(g) # entry
  BY <1>7, StoredAssumption DEF Own
<1>11. h \in DOMAIN Stored => Found(Stored[h], n)
  BY <1>2, <1>5 DEF Found
<1>12. \A g \in DOMAIN Stored :
         /\ Own(g) \in call'[c].inventory <=> Found(Stored[g], n) /\ g \notin call'[c].todo
         /\ g \in call'[c].todo => Stored[g] = scannedClasses[n]
  <2> TAKE g \in DOMAIN Stored
  <2>1. /\ Own(g) \in call[c].inventory <=> Found(Stored[g], n) /\ g \notin call[c].todo
        /\ g \in call[c].todo => Stored[g] = scannedClasses[n]
    BY <1>1, <1>2 DEF ScanInv
  <2>2. CASE g = h
    <3>1. Own(g) = entry /\ Found(Stored[g], n)
      BY <1>7, <1>11, <2>2
    <3> QED BY <1>8, <2>2, <3>1
  <2>3. CASE g # h
    <3>1. Own(g) # entry
      BY <1>10, <2>3
    <3> QED BY <1>8, <2>1, <2>3, <3>1
  <2> QED BY <2>2, <2>3
<1>13. \A e \in call'[c].inventory :
         e.label \in Handles => e.label \in DOMAIN Stored /\ e = Own(e.label)
  <2>1. \A e \in call[c].inventory :
          e.label \in Handles => e.label \in DOMAIN Stored /\ e = Own(e.label)
    BY <1>1, <1>2 DEF ScanInv
  <2>2. entry.label \in Handles => entry.label \in DOMAIN Stored /\ entry = Own(entry.label)
    BY <1>7, <1>10
  <2>3. call'[c].inventory = call[c].inventory \cup {entry}
    BY <1>8
  <2> QED BY <2>1, <2>2, <2>3
<1>14. ~call'[c].met => /\ call'[c].todo \subseteq DOMAIN Stored
                        /\ \A e \in call'[c].inventory : e.label \in Handles
                        /\ \A d \in Calls : ~IsProbing(d)'
  <2>1. ~call[c].met => /\ call[c].todo \subseteq DOMAIN Stored
                        /\ \A e \in call[c].inventory : e.label \in Handles
                        /\ \A d \in Calls : ~IsProbing(d)
    BY <1>1, <1>2 DEF ScanInv
  <2>2. h \in DOMAIN Stored => entry.label \in Handles
    BY <1>2, <1>7, <1>10
  <2> QED BY <1>8, <1>9, <2>1, <2>2
<1>15. ScanInv(c)'
  BY <1>2, <1>8, <1>12, <1>13, <1>14 DEF ScanInv, Own
<1>16. call' \in [Calls -> {Idle} \cup Probing \cup Scanning]
  BY <1>1, <1>8 DEF IInv, TypeOK
<1> QED BY <1>1, <1>8, <1>9, <1>15, <1>16, ScanFrame DEF IInv

LEMMA CollectedStep == ASSUME IInv, NEW c \in Calls, Collected(c) PROVE IInv'
<1>1. /\ call[c].at = "scan" /\ call[c].todo = {} /\ call[c].class = 4
      /\ objects' = objects /\ left' = left
      /\ call' = [call EXCEPT ![c].at = "report"]
  BY DEF Collected, scannedClasses
<1>2. ScanInv(c) /\ call[c] \in Scanning
  BY <1>1 DEF IInv, ScanInv
<1>3. /\ call'[c] \in Scanning /\ call'[c].at = "report" /\ call'[c].class = call[c].class
      /\ call'[c].todo = call[c].todo /\ call'[c].inventory = call[c].inventory
      /\ call'[c].met = call[c].met /\ \A d \in Calls \ {c} : call'[d] = call[d]
  BY <1>1, <1>2 DEF IInv, TypeOK, Scanning
<1>4. ScanInv(c)'
  BY <1>1, <1>2, <1>3 DEF ScanInv
<1>5. call' \in [Calls -> {Idle} \cup Probing \cup Scanning]
  BY <1>1, <1>3 DEF IInv, TypeOK
<1> QED BY <1>1, <1>3, <1>4, <1>5, ScanFrame DEF IInv, IsProbing

LEMMA AnswerStep == ASSUME IInv, NEW c \in Calls, Answer(c) PROVE IInv'
<1>1. /\ call[c].at \in {"scan", "report"} /\ objects' = objects /\ left' = left
      /\ call' = [call EXCEPT ![c] = Idle]
  BY DEF Answer
<1>2. call'[c].at = "idle" /\ \A d \in Calls \ {c} : call'[d] = call[d]
  BY <1>1 DEF IInv, TypeOK, Idle
<1>3. call' \in [Calls -> {Idle} \cup Probing \cup Scanning]
  BY <1>1 DEF IInv, TypeOK
<1>4. ScanInv(c)'
  BY <1>2 DEF ScanInv
<1> QED BY <1>1, <1>2, <1>3, <1>4, ScanFrame DEF IInv, IsProbing

-----------------------------------------------------------------------------
\* The theorems.

LEMMA Steps == ASSUME IInv, [Next]_vars PROVE IInv'
<1>1. CASE UNCHANGED vars
  BY <1>1 DEF vars, IInv, TypeOK, TokenKept, Books, ScanInv, ObjectsOf, IsProbing
<1>2. ASSUME NEW c \in Calls, OpenProbe(c) \/ OpenScan(c) \/ Step(c) PROVE IInv'
  <2>1. CASE OpenProbe(c)
    BY <2>1, OpenProbeStep
  <2>2. CASE OpenScan(c)
    BY <2>2, OpenScanStep
  <2>3. CASE NextStep(c) \/ Use(c) \/ Fail(c) \/ Destroy(c) \/ CloseProbe(c)
    BY <2>3, NextStepStep, UseStep, FailStep, DestroyStep, CloseStep
  <2>4. CASE GeneratePair(c) \/ GenerateKey(c) \/ Encapsulate(c) \/ Decapsulate(c)
    BY <2>4, PairStep, KeyStep, EncapsulateStep, DecapsulateStep
  <2>5. CASE FindObjects(c) \/ collectObject(c) \/ Collected(c) \/ Answer(c)
    BY <2>5, FindObjectsStep, CollectStep, CollectedStep, AnswerStep
  <2> QED BY <1>2, <2>1, <2>2, <2>3, <2>4, <2>5 DEF Step
<1> QED BY <1>1, <1>2 DEF Next

LEMMA Invariant == Spec => []IInv
<1> QED BY Initially, Steps, PTL DEF Spec

\* Requests, their lists of objects and the inventories of scans stay of their types.
THEOREM TypeCorrect == Spec => []TypeOK
<1> QED BY Invariant, Shown, PTL

\* A probe's session holds the objects its step has created and will destroy, and those
\* it cannot destroy, whatever other requests create and however its calls fail.
THEOREM EverythingAccounted == Spec => []Accounted
<1> QED BY Invariant, Shown, PTL

\* A report lists every object of the token as what it is, and nothing else unless a
\* probe ran during the scan.
THEOREM InventoryIsExact == Spec => []InventoryExact
<1> QED BY Invariant, Shown, PTL

--------------------------------------------------------------------------------
(* The benchmark.                                                           *)

Left == IF budget < 0 THEN 0 ELSE budget
Lost == opts.maxOps - Left - done - Cardinality(InOp)

\* NoOpLost counts failures of the set-up too, so it is kept only together with
\* the fact that a worker that failed has ended and fails no more.
BenchIInv ==
    /\ BenchTypeOK
    /\ budget <= opts.maxOps
    /\ issued = opts.maxOps - Left
    /\ \A w \in failed : phase[w] = "end"
    /\ NoOpLost

\* Every option is brought into its limits, whatever the caller passed.
LEMMA ClampInRange ==
    ASSUME NEW max \in Nat, NEW default \in 1..max, NEW n \in Int
    PROVE  Clamp(n, default, max) \in 1..max
  BY DEF Clamp

LEMMA NormalizeInRange ==
    ASSUME NEW d \in Durations, NEW m \in Budgets, NEW n \in SessionCounts
    PROVE  Normalize([duration |-> d, maxOps |-> m, sessions |-> n]) \in
             [duration : 1..MaxDuration, maxOps : 1..HardMaxOps, sessions : 1..MaxSessions]
  <1> DEFINE o == [duration |-> d, maxOps |-> m, sessions |-> n]
  <1>1. o.duration \in Int /\ o.maxOps \in Int /\ o.sessions \in Int
    BY LimitsAssumption
  <1>2. MaxSessions \in Nat
    BY LimitsAssumption, FS_CardinalityType DEF MaxSessions
  <1>3. Clamp(o.duration, DefaultDuration, MaxDuration) \in 1..MaxDuration
    BY <1>1, LimitsAssumption, ClampInRange
  <1>4. Clamp(o.maxOps, DefaultMaxOps, HardMaxOps) \in 1..HardMaxOps
    BY <1>1, LimitsAssumption, ClampInRange
  <1>5. Clamp(o.sessions, DefaultSessions, MaxSessions) \in 1..MaxSessions
    BY <1>1, <1>2, LimitsAssumption, ClampInRange
  <1> QED BY <1>3, <1>4, <1>5 DEF Normalize

\* Workers under way, with one more or one less.
LEMMA InOpCount ==
    ASSUME NEW w \in Workers
    PROVE  /\ IsFiniteSet(InOp) /\ Cardinality(InOp) \in Nat
           /\ w \notin InOp => Cardinality(InOp \cup {w}) = Cardinality(InOp) + 1
           /\ w \in InOp => Cardinality(InOp \ {w}) = Cardinality(InOp) - 1
  <1>1. IsFiniteSet(InOp)
    BY LimitsAssumption, FS_Subset DEF InOp
  <1> QED BY <1>1, FS_CardinalityType, FS_AddElement, FS_RemoveElement

LEMMA FailedCount ==
    ASSUME failed \subseteq Workers, NEW w \in Workers
    PROVE  /\ Cardinality(failed) \in Nat
           /\ w \notin failed => Cardinality(failed \cup {w}) = Cardinality(failed) + 1
  <1>1. IsFiniteSet(failed)
    BY LimitsAssumption, FS_Subset
  <1> QED BY <1>1, FS_CardinalityType, FS_AddElement

\* Before the first operation the budget is whole.
LEMMA BenchInductiveInit == BenchInit => BenchIInv
  <1> SUFFICES ASSUME BenchInit PROVE BenchIInv
    OBVIOUS
  <1>1. opts \in [duration : 1..MaxDuration, maxOps : 1..HardMaxOps, sessions : 1..MaxSessions]
    BY NormalizeInRange DEF BenchInit
  <1>2. opts.maxOps \in Nat /\ opts.maxOps > 0
    BY <1>1, LimitsAssumption
  <1>3. phase \in [Workers -> Phases] /\ InOp = {}
    BY DEF BenchInit, Phases, Measuring, InOp
  <1>4. BenchTypeOK
    BY <1>1, <1>2, <1>3 DEF BenchInit, BenchTypeOK
  <1>5. Left = opts.maxOps
    BY <1>2 DEF BenchInit, Left
  <1>6. NoOpLost
    BY <1>2, <1>3, FS_EmptySet DEF BenchInit, NoOpLost
  <1> QED BY <1>2, <1>4, <1>5, <1>6 DEF BenchInit, BenchIInv

\* The numbers the invariant speaks of.
LEMMA Numbers ==
    ASSUME BenchIInv
    PROVE  /\ opts.maxOps \in Nat /\ budget \in Int /\ done \in Nat /\ issued \in Nat
           /\ Left \in Nat /\ Lost \in Int /\ failed \subseteq Workers
           /\ Cardinality(InOp) \in Nat /\ Cardinality(failed) \in Nat
  <1>1. /\ opts.maxOps \in Nat /\ budget \in Int /\ done \in Nat /\ issued \in Nat
        /\ failed \subseteq Workers
    BY LimitsAssumption DEF BenchIInv, BenchTypeOK
  <1>2. IsFiniteSet(InOp) /\ IsFiniteSet(failed)
    BY <1>1, LimitsAssumption, FS_Subset DEF InOp
  <1>3. Cardinality(InOp) \in Nat /\ Cardinality(failed) \in Nat
    BY <1>2, FS_CardinalityType
  <1> QED BY <1>1, <1>3 DEF Left, Lost

\* A step of one worker that touches neither budget nor counters, and at most
\* makes the worker fail, keeps the accounts.
LEMMA AsideKeeps ==
    ASSUME BenchIInv, NEW w \in Workers, NEW place \in Phases,
           phase[w] \notin {"op", "end"}, place # "op", Enter(w, place),
           \/ UNCHANGED failed
           \/ failed' = failed \cup {w} /\ place = "end",
           UNCHANGED <<opts, budget, done, issued>>, BenchTypeOK'
    PROVE  BenchIInv'
  <1> USE DEF BenchIInv
  <1>1. InOp' = InOp
    BY DEF InOp, Enter, BenchTypeOK
  <1>2. \A v \in failed' : phase'[v] = "end"
    BY DEF Enter, BenchTypeOK
  <1>3. Cardinality(failed') \in Nat /\ Cardinality(failed) <= Cardinality(failed')
    BY Numbers, FailedCount
  <1>4. NoOpLost'
    BY <1>1, <1>3, Numbers DEF NoOpLost
  <1> QED BY <1>2, <1>4 DEF Left

\* Set-up, the stamp, the look at the clock.
LEMMA PrepareKeeps ==
    ASSUME BenchIInv, NEW w \in Workers, SetUp(w) \/ Stamp(w) \/ CheckDeadline(w)
    PROVE  BenchIInv'
  <1>1. CASE SetUp(w)
    <2>1. BenchTypeOK'
      BY <1>1 DEF BenchIInv, BenchTypeOK, SetUp, Enter, WorkerFails, Phases, Measuring
    <2>2. CASE start' = [start EXCEPT ![w] = now] /\ Enter(w, "stamp") /\ UNCHANGED failed
      BY <1>1, <2>1, <2>2, AsideKeeps DEF SetUp, Phases, Measuring
    <2>3. CASE WorkerFails(w)
      BY <1>1, <2>1, <2>3, AsideKeeps DEF SetUp, WorkerFails, Phases
    <2> QED BY <1>1, <2>2, <2>3 DEF SetUp
  <1>2. CASE Stamp(w)
    <2>1. BenchTypeOK'
      BY <1>2 DEF BenchIInv, BenchTypeOK, Stamp, Enter, Phases, Measuring
    <2> QED BY <1>2, <2>1, AsideKeeps DEF Stamp, Phases, Measuring
  <1>3. CASE CheckDeadline(w)
    <2>1. BenchTypeOK'
      BY <1>3 DEF BenchIInv, BenchTypeOK, CheckDeadline, Enter, Phases, Measuring
    <2> QED BY <1>3, <2>1, AsideKeeps DEF CheckDeadline, Phases, Measuring
  <1> QED BY <1>1, <1>2, <1>3

\* An operation is taken from the budget, or the budget is found exhausted.
LEMMA TakeKeeps == ASSUME BenchIInv, NEW w \in Workers, Take(w) PROVE BenchIInv'
  <1>1. budget \in Int /\ budget' = budget - 1 /\ w \notin InOp /\ phase \in [Workers -> Phases]
    BY Numbers DEF Take, InOp, BenchIInv, BenchTypeOK
  <1>2. CASE budget' < 0
    <2>1. BenchTypeOK'
      BY <1>1, <1>2 DEF BenchIInv, BenchTypeOK, Take, Enter, Phases
    <2>2. InOp' = InOp
      BY <1>1, <1>2 DEF InOp, Take, Enter
    <2>3. Left' = Left
      BY <1>1, <1>2 DEF Left
    <2>4. NoOpLost'
      BY <1>2, <2>2, <2>3 DEF BenchIInv, NoOpLost, Take, Left
    <2>5. \A v \in failed' : phase'[v] = "end"
      BY <1>1, <1>2 DEF BenchIInv, BenchTypeOK, Take, Enter
    <2> QED BY <1>1, <1>2, <2>1, <2>3, <2>4, <2>5, Numbers DEF BenchIInv, Take
  <1>3. CASE ~(budget' < 0)
    <2>1. BenchTypeOK'
      BY <1>1, <1>3 DEF BenchIInv, BenchTypeOK, Take, Ask, Enter, Phases, Measuring
    <2>2. InOp' = InOp \cup {w}
      BY <1>1, <1>3 DEF InOp, Take, Enter
    <2>3. Left' = Left - 1
      BY <1>1, <1>3 DEF Left
    <2>4. Cardinality(InOp') = Cardinality(InOp) + 1
      BY <1>1, <2>2, InOpCount
    <2>5. done' = done /\ opts' = opts /\ failed' = failed /\ issued' = issued + 1
      BY <1>3 DEF Take, Ask
    <2>6. Lost' = Lost
      BY <2>3, <2>4, <2>5, Numbers DEF Lost
    <2>7. NoOpLost'
      BY <2>5, <2>6 DEF BenchIInv, NoOpLost, Lost, Left
    <2>8. issued' = opts'.maxOps - Left'
      BY <2>3, <2>5, Numbers DEF BenchIInv
    <2>9. \A v \in failed' : phase'[v] = "end"
      BY <1>3, <2>5 DEF BenchIInv, BenchTypeOK, Take, Enter
    <2> QED BY <1>1, <2>1, <2>5, <2>7, <2>8, <2>9, Numbers DEF BenchIInv
  <1> QED BY <1>2, <1>3

\* An operation succeeds, or fails with its worker.
LEMMA OperateKeeps == ASSUME BenchIInv, NEW w \in Workers, Operate(w) PROVE BenchIInv'
  <1>1. w \in InOp /\ w \notin failed /\ phase \in [Workers -> Phases]
    BY DEF Operate, InOp, BenchIInv, BenchTypeOK
  <1>2. InOp' = InOp \ {w}
    BY <1>1 DEF InOp, Operate, Enter, WorkerFails
  <1>3. Cardinality(InOp') = Cardinality(InOp) - 1
    BY <1>1, <1>2, InOpCount
  <1>4. opts' = opts /\ budget' = budget /\ issued' = issued /\ Left' = Left
    BY DEF Operate, Left
  <1>5. BenchTypeOK'
    BY DEF BenchIInv, BenchTypeOK, Operate, Enter, WorkerFails, Phases, Measuring
  <1>6. \A v \in failed' : phase'[v] = "end"
    <2>1. \E place \in {"check", "end"} : phase' = [phase EXCEPT ![w] = place]
      BY DEF Operate, Enter, WorkerFails
    <2>2. \A v \in Workers \ {w} : phase'[v] = phase[v]
      BY <1>1, <2>1
    <2>3. CASE failed' = failed
      BY <1>1, <2>2, <2>3, Numbers DEF BenchIInv
    <2>4. CASE WorkerFails(w)
      BY <1>1, <2>2, <2>4, Numbers DEF BenchIInv, WorkerFails, Enter
    <2> QED BY <2>3, <2>4 DEF Operate
  <1>7. NoOpLost'
    <2>1. CASE done' = done + 1 /\ UNCHANGED failed
      <3>1. Lost' = Lost
        BY <1>3, <1>4, <2>1, Numbers DEF Lost
      <3> QED BY <2>1, <3>1 DEF BenchIInv, NoOpLost, Lost, Left
    <2>2. CASE failed' = failed \cup {w} /\ UNCHANGED done
      <3>1. Lost' = Lost + 1
        BY <1>3, <1>4, <2>2, Numbers DEF Lost
      <3>2. Cardinality(failed') = Cardinality(failed) + 1
        BY <1>1, <2>2, Numbers, FailedCount
      <3>3. 0 <= Lost /\ Lost <= Cardinality(failed)
        BY DEF BenchIInv, NoOpLost, Lost, Left
      <3>4. 0 <= Lost' /\ Lost' <= Cardinality(failed')
        BY <3>1, <3>2, <3>3, Numbers
      <3> QED BY <3>4 DEF NoOpLost, Lost, Left
    <2> QED BY <2>1, <2>2 DEF Operate, WorkerFails
  <1> QED BY <1>4, <1>5, <1>6, <1>7 DEF BenchIInv

\* The end of the measurement and the clock.
LEMMA RestKeeps == ASSUME BenchIInv, Finish \/ Tick \/ UNCHANGED benchVars PROVE BenchIInv'
  <1>1. UNCHANGED <<opts, phase, budget, done, failed, issued>>
    BY DEF Finish, Tick, benchVars
  <1>2. BenchTypeOK'
    <2>1. CASE Finish
      <3>1. result'.ops \in Nat /\ result'.elapsed \in Int /\ result'.error \in BOOLEAN
        BY <2>1 DEF BenchIInv, BenchTypeOK, Finish
      <3>2. result' \in [ops : Nat, elapsed : Int, error : BOOLEAN]
        BY <2>1, <3>1 DEF Finish
      <3> QED BY <2>1, <3>2 DEF BenchIInv, BenchTypeOK, Finish
    <2>2. CASE Tick \/ UNCHANGED benchVars
      BY <2>2 DEF BenchIInv, BenchTypeOK, Tick, benchVars
    <2> QED BY <2>1, <2>2
  <1>3. NoOpLost'
    BY <1>1 DEF BenchIInv, NoOpLost, InOp
  <1> QED BY <1>1, <1>2, <1>3 DEF BenchIInv, Left

\* The accounts are right in every reachable state.
THEOREM BenchInductive == BenchSpec => []BenchIInv
  <1>1. BenchInit => BenchIInv
    BY BenchInductiveInit
  <1>2. BenchIInv /\ [BenchNext]_benchVars => BenchIInv'
    BY PrepareKeeps, TakeKeeps, OperateKeeps, RestKeeps DEF BenchNext, benchWorker
  <1> QED BY <1>1, <1>2, PTL DEF BenchSpec

\* Type correctness, the clamping of the options included.
THEOREM BenchTypeCorrect == BenchSpec => []BenchTypeOK
  <1>1. BenchIInv => BenchTypeOK
    BY DEF BenchIInv
  <1> QED BY <1>1, BenchInductive, PTL

\* The token is never asked for more operations than the budget, however many
\* workers draw on it at once.
THEOREM LoadIsBounded == BenchSpec => []LoadBounded
  <1>1. BenchIInv => LoadBounded
    BY Numbers DEF BenchIInv, LoadBounded, Left
  <1> QED BY <1>1, BenchInductive, PTL

\* Every operation taken from the budget has succeeded, failed with its worker or
\* is under way.
THEOREM NothingLost == BenchSpec => []NoOpLost
  <1>1. BenchIInv => NoOpLost
    BY DEF BenchIInv
  <1> QED BY <1>1, BenchInductive, PTL

\* The budget is neither exceeded nor lost to a race, for any number of workers.
THEOREM BudgetIsExact == BenchSpec => []BudgetExact
  <1> QED BY LoadIsBounded, NothingLost, PTL DEF BudgetExact
--------------------------------------------------------------------------------
\* OpsInsideMeasurement compares two histories only.  It is kept because a worker
\* takes operations only behind its own stamp, and no stamp is ahead of the clock.
StampInv ==
    /\ now > 0 /\ measureStart <= now
    /\ \A w \in Workers : /\ phase[w] = "stamp" => start[w] \in 1..now
                          /\ phase[w] \in {"check", "take", "op"} => measureStart # 0
    /\ OpsInsideMeasurement

LEMMA StampStep == ASSUME BenchTypeOK, BenchTypeOK', StampInv, [BenchNext]_benchVars PROVE StampInv'
  <1>0. /\ now \in Nat /\ measureStart \in Nat /\ firstOp \in Nat
        /\ phase \in [Workers -> Phases] /\ start \in [Workers -> Nat]
    BY DEF BenchTypeOK
  <1> USE DEF StampInv, OpsInsideMeasurement
  <1>1. ASSUME NEW w \in Workers, SetUp(w) PROVE StampInv'
    <2>1. CASE start' = [start EXCEPT ![w] = now] /\ Enter(w, "stamp")
      BY <1>0, <1>1, <2>1 DEF SetUp, Enter
    <2>2. CASE WorkerFails(w) /\ UNCHANGED start
      BY <1>0, <1>1, <2>2 DEF SetUp, WorkerFails, Enter
    <2> QED BY <1>1, <2>1, <2>2 DEF SetUp
  <1>2. ASSUME NEW w \in Workers, Stamp(w) PROVE StampInv'
    <2>1. measureStart' # 0 /\ measureStart' <= now
      BY <1>0, <1>2 DEF Stamp
    <2>2. firstOp # 0 => measureStart' = measureStart
      BY <1>2 DEF Stamp
    <2> QED BY <1>0, <1>2, <2>1, <2>2 DEF Stamp, Enter
  <1>3. ASSUME NEW w \in Workers, CheckDeadline(w) PROVE StampInv'
    BY <1>0, <1>3 DEF CheckDeadline, Enter
  <1>4. ASSUME NEW w \in Workers, Take(w) PROVE StampInv'
    BY <1>0, <1>4 DEF Take, Ask, Enter
  <1>5. ASSUME NEW w \in Workers, Operate(w) PROVE StampInv'
    BY <1>0, <1>5 DEF Operate, WorkerFails, Enter
  <1>6. ASSUME Finish \/ UNCHANGED benchVars PROVE StampInv'
    BY <1>6 DEF Finish, benchVars
  <1>7. ASSUME Tick PROVE StampInv'
    BY <1>0, <1>7 DEF Tick
  <1> QED BY <1>1, <1>2, <1>3, <1>4, <1>5, <1>6, <1>7 DEF BenchNext, benchWorker

\* The rate is taken over all operations and no earlier moment than the first stamp:
\* measureStart.CompareAndSwap comes before the first operation of every worker.
THEOREM OpsAreInside == BenchSpec => []OpsInsideMeasurement
  <1>1. BenchInit => StampInv
    BY DEF BenchInit, StampInv, OpsInsideMeasurement
  <1>2. BenchTypeOK /\ BenchTypeOK' /\ StampInv /\ [BenchNext]_benchVars => StampInv'
    BY StampStep
  <1>3. StampInv => OpsInsideMeasurement
    BY DEF StampInv
  <1> QED BY <1>1, <1>2, <1>3, BenchTypeCorrect, PTL DEF BenchSpec
================================================================================
