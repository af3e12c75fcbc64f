------------------------------ MODULE TraceChecks ------------------------------
(***************************************************************************)
(* The analyzer of call traces (internal/trace/analyze.go, coverage.go):    *)
(* every check reads the events in the order of the file.  An event is a    *)
(* record with the fields seq, fn, session and rv; findings are given by    *)
(* the sequence numbers they point at.                                      *)
(***************************************************************************)
EXTENDS Naturals, Sequences, SequencesExt

OK(e) == e.rv = "CKR_OK"

RecordableFunctions ==
    {"C_Initialize", "C_Finalize", "C_GetInfo", "C_GetSlotList", "C_GetSlotInfo",
     "C_GetTokenInfo", "C_GetMechanismList", "C_GetMechanismInfo", "C_OpenSession",
     "C_CloseSession", "C_CloseAllSessions", "C_GetSessionInfo", "C_Login", "C_Logout",
     "C_FindObjectsInit", "C_FindObjects", "C_FindObjectsFinal", "C_GetAttributeValue",
     "C_EncryptInit", "C_Encrypt", "C_DecryptInit", "C_Decrypt", "C_DigestInit",
     "C_SignInit", "C_Sign", "C_VerifyInit", "C_Verify", "C_GenerateKey",
     "C_GenerateKeyPair", "C_WrapKey", "C_UnwrapKey", "C_GenerateRandom"}

operationPairs ==
    [C_FindObjectsInit |-> {"C_FindObjectsFinal"},
     C_SignInit |-> {"C_Sign", "C_SignFinal"},
     C_VerifyInit |-> {"C_Verify", "C_VerifyFinal"},
     C_EncryptInit |-> {"C_Encrypt", "C_EncryptFinal"},
     C_DecryptInit |-> {"C_Decrypt", "C_DecryptFinal"},
     C_DigestInit |-> {"C_Digest", "C_DigestFinal"}]

loginRequiring ==
    {"C_SignInit", "C_DecryptInit", "C_UnwrapKey", "C_GenerateKey", "C_GenerateKeyPair"}

\* A map from session handles to sequence numbers is a set of pairs.
Without(map, h) == {p \in map : p[1] # h}
With(map, h, seq) == Without(map, h) \cup {<<h, seq>>}
SeqsOf(map) == {p[2] : p \in map}

--------------------------------------------------------------------------------
\* A library that was never initialized is an error at the first call, one never
\* finalized a warning.
NeverInitialized(events) ==
    /\ events # <<>>
    /\ \A i \in DOMAIN events : events[i].fn # "C_Initialize"

NeverFinalized(events) ==
    /\ \E i \in DOMAIN events : events[i].fn = "C_Initialize"
    /\ \A i \in DOMAIN events : events[i].fn # "C_Finalize"

firstNonInit(events) ==
    LET other == SelectSeq(events, LAMBDA e : e.fn # "C_Finalize")
    IN  IF other = <<>> THEN 0 ELSE Head(other).seq

checkInitialize(events) == IF NeverInitialized(events) THEN {firstNonInit(events)} ELSE {}

\* The map after one more event: a start that succeeded enters its session, an end
\* removes it, what ends all sessions empties the map.
AfterEvent(map, e, start, ends, endsAll) ==
    CASE e.fn = start /\ OK(e) -> With(map, e.session, e.seq)
      [] e.fn \in ends -> Without(map, e.session)
      [] e.fn \in endsAll -> {}
      [] OTHER -> map

MapAfter(start, ends, endsAll, events) ==
    FoldLeft(LAMBDA map, e : AfterEvent(map, e, start, ends, endsAll), {}, events)

openSessions(events) ==
    MapAfter("C_OpenSession", {"C_CloseSession"}, {"C_CloseAllSessions"}, events)

\* One C_CloseAllSessions anywhere in the trace ends the check.
checkSessionLeaks(events) ==
    IF \E i \in DOMAIN events : events[i].fn = "C_CloseAllSessions"
    THEN {}
    ELSE SeqsOf(openSessions(events))

\* Mutant: an initialization that failed is pending, too.
pendingOfAny(init, events) ==
    FoldLeft(LAMBDA pending, e :
                CASE e.fn = init -> With(pending, e.session, e.seq)
                  [] e.fn \in operationPairs[init] -> Without(pending, e.session)
                  [] OTHER -> pending,
             {}, events)

pendingOf(init, events) == MapAfter(init, operationPairs[init], {}, events)

checkOperationPairs(events) ==
    UNION {SeqsOf(pendingOf(init, events)) : init \in DOMAIN operationPairs}

\* Mutant: a second C_Login that fails counts as a logout.
loggedInByLast(events, i) ==
    LET logins == SelectSeq(SubSeq(events, 1, i), LAMBDA e : e.fn = "C_Login")
    IN  logins # <<>> /\ OK(Last(logins))

\* A C_Login has succeeded by event i; C_Logout does not undo it.
loggedIn(events, i) == \E j \in 1..i : events[j].fn = "C_Login" /\ OK(events[j])

checkLoginOrdering(events) ==
    {events[i].seq : i \in {j \in DOMAIN events :
        \/ events[j].rv = "CKR_USER_NOT_LOGGED_IN"
        \/ /\ ~loggedIn(events, j)
           /\ events[j].fn \in loginRequiring /\ OK(events[j])}}

\* Every error once, at its first occurrence, with its count.
checkErrors(events) ==
    {[rv |-> name,
      first |-> Head(SelectSeq(events, LAMBDA e : e.rv = name)).seq,
      count |-> Len(SelectSeq(events, LAMBDA e : e.rv = name))] :
        name \in {events[i].rv : i \in DOMAIN events} \ {"CKR_OK"}}
================================================================================
