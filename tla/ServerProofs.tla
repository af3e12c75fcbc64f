------------------------------ MODULE ServerProofs ------------------------------
(***************************************************************************)
(* What the server does towards others, for any number of calls and         *)
(* mishaps: the mails about certificates, the webhook and the roles of      *)
(* requests.                                                                *)
(*                                                                          *)
(* No reminder is mailed twice, and every row of the ledger is accounted    *)
(* for.  Both turn on one fact: MarkNotified answers "fresh" to exactly one *)
(* call per key, ever.  None that was due is forgotten: DueInv says of each *)
(* where it is.  HookInv counts the attempts of the webhook that left;      *)
(* SignInInv ties a session to the one token issued for its login.          *)
(***************************************************************************)
EXTENDS CertNotify, Webhook, SignIn, SequenceTheorems, FiniteSetTheorems, TLAPS

-----------------------------------------------------------------------------
(* The mails about certificates (module CertNotify).                         *)

\* Continue leaves the other calls alone and sends nothing.
LEMMA ContinueCall ==
    ASSUME call \in [Calls -> {Idle, Hung} \cup Marking \cup Sending], NEW p \in Calls,
           NEW todo \in SUBSET Entry, Continue(p, todo)
    PROVE  /\ call' \in [Calls -> {Idle, Hung} \cup Marking \cup Sending]
           /\ call'[p].at # "send"
           /\ \A q \in Calls \ {p} : call'[q] = call[q]
  <1> DEFINE next == IF todo = {} THEN Idle ELSE [at |-> "mark", todo |-> todo]
  <1>1. next \in {Idle} \cup Marking /\ next.at # "send"
    BY DEF Marking, Idle
  <1>2. call' = [call EXCEPT ![p] = next]
    BY DEF Continue
  <1> QED BY <1>1, <1>2

\* The reminders under way when the call of p sends nothing any more.
LEMMA InFlightWithout ==
    ASSUME NEW p \in Calls, call'[p].at # "send",
           \A q \in Calls \ {p} : call'[q] = call[q]
    PROVE  InFlight' = {call[q].reminder : q \in {r \in Calls \ {p} : call[r].at = "send"}}
  BY DEF InFlight

\* A call that is not sending contributes nothing to them.
LEMMA InFlightSame ==
    ASSUME NEW p \in Calls, call[p].at # "send", call'[p].at # "send",
           \A q \in Calls \ {p} : call'[q] = call[q]
    PROVE  InFlight' = InFlight
  BY DEF InFlight

\* The initial states satisfy the invariant.
LEMMA InductiveInit == Init => IInv
  <1> SUFFICES ASSUME Init PROVE IInv
    OBVIOUS
  <1>1. call \in [Calls -> {Idle, Hung} \cup Marking \cup Sending] /\ \A p \in Calls : call[p].at # "send"
    BY DEF Init, Idle
  <1>2. InFlight = {} /\ Mailed = {}
    BY <1>1 DEF Init, InFlight, Mailed
  <1>3. mishaps \in [MishapKinds -> Nat] /\ \A k \in MishapKinds : mishaps[k] <= Limits[k]
    BY CertsAssumption DEF Init
  <1>4. TypeOK
    BY <1>1, <1>3, CertsAssumption DEF Init, TypeOK
  <1>5. LedgerAccounted
    BY <1>2 DEF Init, LedgerAccounted
  <1>6. MailedOnce /\ SenderInv /\ MailInv
    BY <1>1 DEF Init, MailedOnce, SenderInv, MailInv
  <1> QED BY <1>4, <1>5, <1>6 DEF IInv

\* A step after which the call of p, which was not sending, still is not, and
\* which changes neither ledger nor mails nor losses, keeps the invariant.
LEMMA QuietKeeps ==
    ASSUME IInv, TypeOK', NEW p \in Calls, call[p].at # "send", call'[p].at # "send",
           \A q \in Calls \ {p} : call'[q] = call[q],
           UNCHANGED <<ledger, mails, lost>>
    PROVE  IInv'
  <1>1. InFlight' = InFlight
    BY InFlightSame
  <1>2. LedgerAccounted'
    BY <1>1 DEF IInv, LedgerAccounted, Mailed
  <1>3. SenderInv'
    BY DEF IInv, SenderInv
  <1> QED BY <1>2, <1>3 DEF IInv, MailedOnce, MailInv

\* A mishap stays within its limit.
LEMMA MishapBound ==
    ASSUME mishaps \in [MishapKinds -> Nat], \A k \in MishapKinds : mishaps[k] <= Limits[k],
           NEW kind \in MishapKinds, Mishap(kind)
    PROVE  mishaps' \in [MishapKinds -> Nat] /\ \A k \in MishapKinds : mishaps'[k] <= Limits[k]
  <1>1. mishaps' = [mishaps EXCEPT ![kind] = mishaps[kind] + 1]
    BY DEF Mishap
  <1>2. \A k \in MishapKinds : mishaps[k] \in Nat /\ Limits[k] \in Nat
    BY CertsAssumption
  <1>3. mishaps[kind] + 1 <= Limits[kind] /\ mishaps[kind] + 1 \in Nat
    BY <1>2 DEF Mishap
  <1> QED BY <1>1, <1>3

\* Due reminders are reminders.
LEMMA DueType == ASSUME NEW todo PROVE Due(todo) \in SUBSET Reminder
  BY DEF Due

\* The answer "fresh": the key is new, so nobody else sends it and it was never
\* mailed.
LEMMA FreshKeeps ==
    ASSUME IInv, NEW p \in Calls, call[p].at = "mark", NEW r \in Reminder,
           NEW todo \in SUBSET Entry, Fresh(p, r, todo),
           UNCHANGED <<present, now, mails, seen>>
    PROVE  IInv'
  <1> DEFINE new == [at |-> "send", todo |-> todo, reminder |-> r]
  <1>1. call \in [Calls -> {Idle, Hung} \cup Marking \cup Sending] /\ new \in Sending
    BY DEF IInv, TypeOK, Sending
  <1>2. call' = [call EXCEPT ![p] = new]
    BY DEF Fresh
  <1>3. call'[p].at = "send" /\ call'[p].reminder = r /\ \A q \in Calls \ {p} : call'[q] = call[q]
    BY <1>1, <1>2
  <1>4. TypeOK'
    <2>1. call' \in [Calls -> {Idle, Hung} \cup Marking \cup Sending]
      BY <1>1, <1>2
    <2>2. ledger' \subseteq Keys
      BY DEF Fresh, Keys, IInv, TypeOK
    <2> QED BY <2>1, <2>2 DEF IInv, TypeOK, Fresh, NoMishap
  <1>5. InFlight' = InFlight \cup {r}
    BY <1>3 DEF InFlight
  <1>6. LedgerAccounted'
    BY <1>5 DEF IInv, LedgerAccounted, Mailed, Fresh
  <1>7. SenderInv'
    <2>1. \A q \in Calls \ {p} : call'[q].at = "send" => Key(call'[q].reminder) # Key(r)
      BY <1>3 DEF IInv, SenderInv, Fresh
    <2>2. \A i \in DOMAIN mails : Key(mails[i]) # Key(r)
      BY DEF IInv, MailInv, Fresh
    <2>3. ledger' = ledger \cup {Key(r)} /\ mails' = mails
      BY DEF Fresh
    <2> QED BY <1>3, <2>1, <2>2, <2>3 DEF IInv, SenderInv
  <1>8. MailedOnce' /\ MailInv'
    BY DEF IInv, MailedOnce, MailInv, Fresh
  <1> QED BY <1>4, <1>6, <1>7, <1>8 DEF IInv

\* The row that was written while its answer was lost is accounted for as lost.
LEMMA AnswerLostKeeps ==
    ASSUME IInv, NEW p \in Calls, call[p].at = "mark", NEW r \in Reminder,
           NEW todo \in SUBSET Entry, AnswerLost(p, r, todo),
           UNCHANGED <<present, now, mails, seen>>
    PROVE  IInv'
  <1>1. /\ call' \in [Calls -> {Idle, Hung} \cup Marking \cup Sending]
        /\ call'[p].at # "send" /\ \A q \in Calls \ {p} : call'[q] = call[q]
    BY ContinueCall DEF IInv, TypeOK, AnswerLost
  <1>2. InFlight' = InFlight
    BY <1>1, InFlightSame
  <1>3. mishaps' \in [MishapKinds -> Nat] /\ \A k \in MishapKinds : mishaps'[k] <= Limits[k]
    BY MishapBound DEF IInv, TypeOK, AnswerLost, MishapKinds
  <1>4. TypeOK'
    BY <1>1, <1>3 DEF IInv, TypeOK, AnswerLost, Keys
  <1>5. LedgerAccounted'
    BY <1>2 DEF IInv, LedgerAccounted, Mailed, AnswerLost
  <1>6. SenderInv'
    BY <1>1 DEF IInv, SenderInv, AnswerLost
  <1>7. MailedOnce' /\ MailInv'
    BY DEF IInv, MailedOnce, MailInv, AnswerLost
  <1> QED BY <1>4, <1>5, <1>6, <1>7 DEF IInv

\* A skipped certificate, for a reminder made before or on an error.
LEMMA SkipKeeps ==
    ASSUME IInv, NEW p \in Calls, call[p].at = "mark", NEW r \in Reminder,
           NEW todo \in SUBSET Entry,
           AlreadyMade(p, r, todo) \/ LedgerError(p, r, todo),
           UNCHANGED <<present, now, mails, seen>>
    PROVE  IInv'
  <1>1. /\ call' \in [Calls -> {Idle, Hung} \cup Marking \cup Sending]
        /\ call'[p].at # "send" /\ \A q \in Calls \ {p} : call'[q] = call[q]
    BY ContinueCall DEF IInv, TypeOK, AlreadyMade, LedgerError
  <1>2. mishaps' \in [MishapKinds -> Nat] /\ \A k \in MishapKinds : mishaps'[k] <= Limits[k]
    BY MishapBound DEF IInv, TypeOK, AlreadyMade, LedgerError, NoMishap, MishapKinds
  <1>3. TypeOK'
    BY <1>1, <1>2 DEF IInv, TypeOK, AlreadyMade, LedgerError
  <1> QED BY <1>1, <1>3, QuietKeeps DEF AlreadyMade, LedgerError

LEMMA MarkKeeps == ASSUME IInv, NEW p \in Calls, Mark(p) PROVE IInv'
  <1>1. PICK e \in call[p].todo, t \in Thresholds :
          LET r == [cert |-> e.cert, threshold |-> t]
              todo == call[p].todo \ {e}
          IN \/ AlreadyMade(p, r, todo) \/ Fresh(p, r, todo)
             \/ LedgerError(p, r, todo) \/ AnswerLost(p, r, todo)
    BY DEF Mark
  <1> DEFINE r == [cert |-> e.cert, threshold |-> t]
             todo == call[p].todo \ {e}
  <1>2. call[p].at = "mark" /\ UNCHANGED <<present, now, mails, seen>>
    BY DEF Mark
  <1>3. call[p] \in {Idle, Hung} \cup Marking \cup Sending
    BY DEF IInv, TypeOK
  <1>4. call[p].todo \subseteq Entry
    BY <1>2, <1>3 DEF Idle, Hung, Marking, Sending
  <1>5. r \in Reminder /\ todo \in SUBSET Entry
    BY <1>4 DEF Entry, Reminder
  <1> HIDE DEF r, todo
  <1>6. \/ AlreadyMade(p, r, todo) \/ LedgerError(p, r, todo)
        \/ Fresh(p, r, todo) \/ AnswerLost(p, r, todo)
    BY <1>1 DEF r, todo
  <1> QED BY <1>2, <1>5, <1>6, FreshKeeps, AnswerLostKeeps, SkipKeeps

\* The mail under way is delivered or lost.
LEMMA SendKeeps == ASSUME IInv, NEW p \in Calls, Send(p) PROVE IInv'
  <1> DEFINE r == call[p].reminder
             others == {call[q].reminder : q \in {s \in Calls \ {p} : call[s].at = "send"}}
  <1>1. call[p].at = "send" /\ call[p] \in {Idle, Hung} \cup Marking \cup Sending
    BY DEF Send, IInv, TypeOK
  <1>2. call[p].todo \in SUBSET Entry /\ r \in Reminder
    BY <1>1 DEF Idle, Hung, Marking, Sending
  <1>3. /\ call' \in [Calls -> {Idle, Hung} \cup Marking \cup Sending]
        /\ call'[p].at # "send" /\ \A q \in Calls \ {p} : call'[q] = call[q]
    BY <1>2, ContinueCall DEF Send, IInv, TypeOK
  <1>4. InFlight' = others /\ InFlight = others \cup {r}
    <2>1. InFlight' = others
      BY <1>3, InFlightWithout
    <2>2. InFlight = others \cup {r}
      BY <1>1 DEF InFlight
    <2> QED BY <2>1, <2>2
  <1>5. /\ Key(r) \in ledger /\ ledger' = ledger
        /\ \A i \in DOMAIN mails : Key(mails[i]) # Key(r)
        /\ \A q \in Calls \ {p} : call[q].at = "send" => Key(call[q].reminder) # Key(r)
    BY <1>1 DEF IInv, SenderInv, Send
  <1>6. CASE mails' = Append(mails, r) /\ NoMishap /\ UNCHANGED lost
    <2>1. mails \in Seq(Reminder) /\ Len(mails) \in Nat
      BY DEF IInv, TypeOK
    <2>2. /\ mails' \in Seq(Reminder) /\ DOMAIN mails' = DOMAIN mails \cup {Len(mails) + 1}
          /\ Len(mails) + 1 \notin DOMAIN mails /\ mails'[Len(mails) + 1] = r
          /\ \A i \in DOMAIN mails : mails'[i] = mails[i]
      BY <1>2, <1>6, <2>1
    <2>3. Mailed' = Mailed \cup {r}
      BY <2>2 DEF Mailed
    <2>4. LedgerAccounted'
      <3>1. (Mailed \cup lost \cup InFlight)' = Mailed \cup lost \cup InFlight
        BY <1>4, <1>6, <2>3
      <3> QED BY <1>5, <3>1 DEF IInv, LedgerAccounted
    <2>5. MailedOnce'
      BY <1>5, <2>2 DEF IInv, MailedOnce
    <2>6. MailInv'
      BY <1>5, <2>2 DEF IInv, MailInv
    <2>7. SenderInv'
      <3>1. \A q \in Calls : call'[q].at = "send" => q # p /\ call'[q] = call[q]
        BY <1>3
      <3>2. \A q \in Calls : call'[q].at = "send" =>
              \A i \in DOMAIN mails' : Key(mails'[i]) # Key(call'[q].reminder)
        BY <1>5, <2>2, <3>1 DEF IInv, SenderInv
      <3> QED BY <1>5, <3>1, <3>2 DEF IInv, SenderInv
    <2>8. TypeOK'
      BY <1>3, <1>6, <2>2 DEF IInv, TypeOK, Send, NoMishap
    <2> QED BY <2>4, <2>5, <2>6, <2>7, <2>8 DEF IInv
  <1>7. CASE Mishap("mail") /\ lost' = lost \cup {r} /\ UNCHANGED mails
    <2>1. mishaps' \in [MishapKinds -> Nat] /\ \A k \in MishapKinds : mishaps'[k] <= Limits[k]
      BY <1>7, MishapBound DEF IInv, TypeOK, MishapKinds
    <2>2. TypeOK'
      BY <1>2, <1>3, <1>7, <2>1 DEF IInv, TypeOK, Send
    <2>3. (Mailed \cup lost \cup InFlight)' = Mailed \cup lost \cup InFlight
      BY <1>4, <1>7 DEF Mailed
    <2>4. LedgerAccounted'
      BY <1>5, <2>3 DEF IInv, LedgerAccounted
    <2>5. SenderInv'
      BY <1>3, <1>5, <1>7 DEF IInv, SenderInv
    <2> QED BY <1>5, <1>7, <2>2, <2>4, <2>5 DEF IInv, MailedOnce, MailInv
  <1> QED BY <1>6, <1>7 DEF Send

\* A call that hangs is over for the others, its mail delivered or lost.
LEMMA HangKeeps == ASSUME IInv, NEW p \in Calls, Hang(p) PROVE IInv'
  <1> DEFINE r == call[p].reminder
             others == {call[q].reminder : q \in {s \in Calls \ {p} : call[s].at = "send"}}
  <1>1. call[p].at = "send" /\ call[p] \in {Idle, Hung} \cup Marking \cup Sending
    BY DEF Hang, IInv, TypeOK
  <1>2. r \in Reminder
    BY <1>1 DEF Idle, Hung, Marking, Sending
  <1>3. /\ call' \in [Calls -> {Idle, Hung} \cup Marking \cup Sending]
        /\ call'[p].at # "send" /\ \A q \in Calls \ {p} : call'[q] = call[q]
    BY DEF Hang, Hung, IInv, TypeOK
  <1>4. InFlight' = others /\ InFlight = others \cup {r}
    <2>1. InFlight' = others
      BY <1>3, InFlightWithout
    <2>2. InFlight = others \cup {r}
      BY <1>1 DEF InFlight
    <2> QED BY <2>1, <2>2
  <1>5. /\ Key(r) \in ledger /\ ledger' = ledger
        /\ \A i \in DOMAIN mails : Key(mails[i]) # Key(r)
        /\ \A q \in Calls \ {p} : call[q].at = "send" => Key(call[q].reminder) # Key(r)
    BY <1>1 DEF IInv, SenderInv, Hang
  <1>6. mishaps' \in [MishapKinds -> Nat] /\ \A k \in MishapKinds : mishaps'[k] <= Limits[k]
    BY MishapBound DEF IInv, TypeOK, Hang, MishapKinds
  <1>7. missed' \subseteq Reminder
    BY DueType DEF IInv, TypeOK, Hang
  <1>8. CASE mails' = Append(mails, r) /\ UNCHANGED lost
    <2>1. mails \in Seq(Reminder) /\ Len(mails) \in Nat
      BY DEF IInv, TypeOK
    <2>2. /\ mails' \in Seq(Reminder) /\ DOMAIN mails' = DOMAIN mails \cup {Len(mails) + 1}
          /\ Len(mails) + 1 \notin DOMAIN mails /\ mails'[Len(mails) + 1] = r
          /\ \A i \in DOMAIN mails : mails'[i] = mails[i]
      BY <1>2, <1>8, <2>1
    <2>3. Mailed' = Mailed \cup {r}
      BY <2>2 DEF Mailed
    <2>4. (Mailed \cup lost \cup InFlight)' = Mailed \cup lost \cup InFlight
      BY <1>4, <1>8, <2>3
    <2>5. LedgerAccounted'
      BY <1>5, <2>4 DEF IInv, LedgerAccounted
    <2>6. MailedOnce' /\ MailInv'
      BY <1>5, <2>2 DEF IInv, MailedOnce, MailInv
    <2>7. SenderInv'
      <3>1. \A q \in Calls : call'[q].at = "send" => q # p /\ call'[q] = call[q]
        BY <1>3
      <3>2. \A q \in Calls : call'[q].at = "send" =>
              \A i \in DOMAIN mails' : Key(mails'[i]) # Key(call'[q].reminder)
        BY <1>5, <2>2, <3>1 DEF IInv, SenderInv
      <3> QED BY <1>5, <3>1, <3>2 DEF IInv, SenderInv
    <2>8. TypeOK'
      BY <1>3, <1>6, <1>7, <1>8, <2>2 DEF IInv, TypeOK, Hang
    <2> QED BY <2>5, <2>6, <2>7, <2>8 DEF IInv
  <1>9. CASE lost' = lost \cup {r} /\ UNCHANGED mails
    <2>1. TypeOK'
      BY <1>2, <1>3, <1>6, <1>7, <1>9 DEF IInv, TypeOK, Hang
    <2>2. (Mailed \cup lost \cup InFlight)' = Mailed \cup lost \cup InFlight
      BY <1>4, <1>9 DEF Mailed
    <2>3. LedgerAccounted'
      BY <1>5, <2>2 DEF IInv, LedgerAccounted
    <2>4. SenderInv'
      BY <1>3, <1>5, <1>9 DEF IInv, SenderInv
    <2> QED BY <1>5, <1>9, <2>1, <2>3, <2>4 DEF IInv, MailedOnce, MailInv
  <1> QED BY <1>8, <1>9 DEF Hang

\* A crash turns the mails under way into losses.
LEMMA CrashKeeps == ASSUME IInv, Crash PROVE IInv'
  <1>1. call' = [p \in Calls |-> Idle] /\ \A p \in Calls : call'[p].at # "send"
    BY DEF Crash, Idle
  <1>2. InFlight' = {}
    BY <1>1 DEF InFlight
  <1>3. InFlight \subseteq Reminder
    <2>1. \A p \in Calls : call[p] \in {Idle, Hung} \cup Marking \cup Sending
      BY DEF IInv, TypeOK
    <2>2. \A p \in Calls : call[p].at = "send" => call[p].reminder \in Reminder
      BY <2>1 DEF Idle, Hung, Marking, Sending
    <2> QED BY <2>2 DEF InFlight
  <1>4. missed' \subseteq Reminder
    BY DueType DEF IInv, TypeOK, Crash, Waiting
  <1>5. mishaps' \in [MishapKinds -> Nat] /\ \A k \in MishapKinds : mishaps'[k] <= Limits[k]
    BY MishapBound DEF IInv, TypeOK, Crash, MishapKinds
  <1>6. TypeOK'
    BY <1>1, <1>3, <1>4, <1>5 DEF IInv, TypeOK, Crash
  <1>7. LedgerAccounted'
    <2>1. (Mailed \cup lost \cup InFlight)' = Mailed \cup lost \cup InFlight
      BY <1>2 DEF Crash, Mailed
    <2> QED BY <2>1 DEF IInv, LedgerAccounted, Crash
  <1>8. SenderInv'
    BY <1>1 DEF SenderInv
  <1> QED BY <1>6, <1>7, <1>8 DEF IInv, MailedOnce, MailInv, Crash

\* A scan is begun, a certificate replaced, time passes.
LEMMA RestKeeps ==
    ASSUME IInv,
           \/ \E p \in Calls, h \in HSMs : Scan(p, h)
           \/ \E c, d \in Certs : Replace(c, d)
           \/ Tick \/ UNCHANGED vars
    PROVE  IInv'
  <1>1. ASSUME NEW p \in Calls, NEW h \in HSMs, Scan(p, h) PROVE IInv'
    <2>1. \A c \in Certs : c.notAfter - now \in Int
      BY CertsAssumption DEF IInv, TypeOK
    <2>2. Classify(h) \in SUBSET Entry
      <3>1. \A left \in Int : Days(left) \in Int
        <4>1. \A n \in Nat : n \div DayLength \in Int
          BY CertsAssumption
        <4> QED BY <4>1 DEF Days
      <3>2. ASSUME NEW c \in Certs
            PROVE  [cert |-> c, days |-> Days(c.notAfter - now)] \in Entry
        <4>1. Days(c.notAfter - now) \in Int
          BY <2>1, <3>1
        <4>2. (c.notAfter <= now) \in BOOLEAN
          OBVIOUS
        <4> QED BY <4>1, <4>2 DEF Entry
      <3>3. present \subseteq Certs
        BY DEF IInv, TypeOK
      <3> QED BY <3>2, <3>3 DEF Classify
    <2>3. call[p].at # "send"
      BY <1>1 DEF Scan, Idle
    <2>4. /\ call' \in [Calls -> {Idle, Hung} \cup Marking \cup Sending]
          /\ call'[p].at # "send" /\ \A q \in Calls \ {p} : call'[q] = call[q]
      BY <1>1, <2>2, ContinueCall DEF Scan, IInv, TypeOK
    <2>5. seen' \subseteq Reminder
      BY <1>1, DueType DEF Scan, IInv, TypeOK
    <2>6. TypeOK'
      BY <1>1, <2>4, <2>5 DEF Scan, IInv, TypeOK
    <2> QED BY <1>1, <2>3, <2>4, <2>6, QuietKeeps DEF Scan
  <1>2. ASSUME UNCHANGED <<ledger, call, mails, lost>>, TypeOK' PROVE IInv'
    BY <1>2 DEF IInv, MailedOnce, LedgerAccounted, SenderInv, MailInv, Mailed, InFlight
  <1>3. ASSUME NEW c \in Certs, NEW d \in Certs, Replace(c, d) PROVE IInv'
    <2>1. mishaps' \in [MishapKinds -> Nat] /\ \A k \in MishapKinds : mishaps'[k] <= Limits[k]
      BY <1>3, MishapBound DEF IInv, TypeOK, Replace, MishapKinds
    <2>2. TypeOK'
      BY <1>3, <2>1 DEF IInv, TypeOK, Replace
    <2> QED BY <1>2, <1>3, <2>2 DEF Replace
  <1>4. CASE Tick
    <2>1. TypeOK'
      BY <1>4, CertsAssumption DEF IInv, TypeOK, Tick
    <2> QED BY <1>2, <1>4, <2>1 DEF Tick
  <1>5. CASE UNCHANGED vars
    <2>1. TypeOK'
      BY <1>5 DEF IInv, TypeOK, vars
    <2> QED BY <1>2, <1>5, <2>1 DEF vars
  <1> QED BY <1>1, <1>3, <1>4, <1>5

\* The invariant holds in every reachable state.
THEOREM Inductive == Spec => []IInv
  <1>1. Init => IInv
    BY InductiveInit
  <1>2. IInv /\ [Next]_vars => IInv'
    BY MarkKeeps, SendKeeps, HangKeeps, CrashKeeps, RestKeeps DEF Next, Step
  <1> QED BY <1>1, <1>2, PTL DEF Spec

\* Type correctness.
THEOREM TypeCorrect == Spec => []TypeOK
  <1>1. IInv => TypeOK
    BY DEF IInv
  <1> QED BY <1>1, Inductive, PTL

\* No reminder is mailed twice, however many scans overlap and however often the
\* process dies between the ledger and the mail.
THEOREM NeverMailedTwice == Spec => []MailedOnce
  <1>1. IInv => MailedOnce
    BY DEF IInv
  <1> QED BY <1>1, Inductive, PTL

\* The ledger holds exactly the reminders mailed, lost or about to be sent.
THEOREM LedgerIsAccounted == Spec => []LedgerAccounted
  <1>1. IInv => LedgerAccounted
    BY DEF IInv
  <1> QED BY <1>1, Inductive, PTL

\* Every reminder in the ledger is mailed once, lost once or under way, for any number
\* of overlapping scans.
THEOREM RemindersAreAccounted == Spec => []RemindersAccounted
  <1> QED BY NeverMailedTwice, LedgerIsAccounted, PTL DEF RemindersAccounted
--------------------------------------------------------------------------------
(* Nothing that was due is forgotten.                                       *)

\* What a scan found due waits in its loop, was skipped on a mishap, or has its row,
\* which may have been written for another certificate of the same name.
DueInv == \A r \in seen : r \in Waiting \/ r \in missed \/ Key(r) \in ledger

LEMMA WaitingIs == ASSUME NEW r
                   PROVE  r \in Waiting <=> \E q \in Looping : r \in Due(call[q].todo)
  BY DEF Waiting

\* Only one threshold is crossed at a time.
LEMMA OneCrossed ==
    ASSUME NEW days \in Int, NEW t \in Crossed(days), NEW u \in Crossed(days), t \in Nat, u \in Nat
    PROVE  t = u
  <1>1. CASE days < 0
    BY <1>1 DEF Crossed
  <1>2. CASE ~(days < 0)
    <2>1. days <= t /\ days <= u /\ t <= u /\ u <= t
      BY <1>2, CertsAssumption DEF Crossed
    <2> QED BY <2>1
  <1> QED BY <1>1, <1>2

\* Dealing with an entry leaves the reminders of the others due.
LEMMA DueWithout ==
    ASSUME NEW todo \in SUBSET Entry, NEW e \in todo, NEW t \in Thresholds, t \in Crossed(e.days)
    PROVE  Due(todo) \subseteq Due(todo \ {e}) \cup {[cert |-> e.cert, threshold |-> t]}
  <1> SUFFICES ASSUME NEW r \in Due(todo), r \notin Due(todo \ {e})
               PROVE  r = [cert |-> e.cert, threshold |-> t]
    OBVIOUS
  <1>1. r \in Reminder /\ r.cert = e.cert /\ r.threshold \in Crossed(e.days)
    BY DEF Due
  <1>2. e.days \in Int /\ t \in Nat /\ r.threshold \in Nat
    BY <1>1, CertsAssumption DEF Entry, Reminder
  <1>3. r.threshold = t
    BY <1>1, <1>2, OneCrossed
  <1> QED BY <1>1, <1>3 DEF Reminder

\* A call goes on with todo, or is over because nothing is left of it.
LEMMA WaitingAfter ==
    ASSUME NEW p \in Calls, NEW todo, \A q \in Calls \ {p} : call'[q] = call[q],
           \/ p \in Looping' /\ call'[p].todo = todo
           \/ todo = {},
           NEW r, r \in Due(todo) \/ (r \in Waiting /\ r \notin Due(call[p].todo))
    PROVE  r \in Waiting'
  <1>1. CASE r \in Due(todo)
    <2>1. todo # {}
      BY <1>1 DEF Due
    <2>2. p \in Looping' /\ r \in Due(call'[p].todo)
      BY <1>1, <2>1
    <2> QED BY <2>2 DEF Waiting, Due
  <1>2. CASE r \in Waiting /\ r \notin Due(call[p].todo)
    <2>1. PICK q \in Looping : r \in Due(call[q].todo)
      BY <1>2, WaitingIs
    <2>2. q \in Looping' /\ call'[q] = call[q]
      BY <1>2, <2>1 DEF Looping
    <2> QED BY <2>1, <2>2 DEF Waiting, Due
  <1> QED BY <1>1, <1>2

LEMMA ContinueGoes ==
    ASSUME call \in [Calls -> {Idle, Hung} \cup Marking \cup Sending], NEW p \in Calls, NEW todo,
           Continue(p, todo)
    PROVE  /\ \A q \in Calls \ {p} : call'[q] = call[q]
           /\ \/ p \in Looping' /\ call'[p].todo = todo
              \/ todo = {}
  BY DEF Continue, Looping

LEMMA DueStep == ASSUME IInv, DueInv, [Next]_vars PROVE DueInv'
  <1>0. /\ call \in [Calls -> {Idle, Hung} \cup Marking \cup Sending]
        /\ \A p \in Looping : call[p].todo \in SUBSET Entry
    BY DEF IInv, TypeOK, Looping, Idle, Hung, Marking, Sending
  <1>1. ASSUME NEW p \in Calls, Mark(p) PROVE DueInv'
    <2>1. PICK e \in call[p].todo, t \in Thresholds :
            LET r == [cert |-> e.cert, threshold |-> t]
                todo == call[p].todo \ {e}
            IN /\ t \in Crossed(e.days)
               /\ \/ AlreadyMade(p, r, todo) \/ Fresh(p, r, todo)
                  \/ LedgerError(p, r, todo) \/ AnswerLost(p, r, todo)
      BY <1>1 DEF Mark
    <2> DEFINE r == [cert |-> e.cert, threshold |-> t]
               todo == call[p].todo \ {e}
    <2>2. UNCHANGED seen /\ p \in Looping
      BY <1>1 DEF Mark, Looping
    <2>3. Due(call[p].todo) \subseteq Due(todo) \cup {r}
      BY <1>0, <2>1, <2>2, DueWithout
    <2> HIDE DEF r, todo
    <2>4. \/ AlreadyMade(p, r, todo) \/ LedgerError(p, r, todo)
          \/ Fresh(p, r, todo) \/ AnswerLost(p, r, todo)
      BY <2>1 DEF r, todo
    <2>5. /\ \A q \in Calls \ {p} : call'[q] = call[q]
          /\ \/ p \in Looping' /\ call'[p].todo = todo
             \/ todo = {}
      <3>1. CASE Fresh(p, r, todo)
        BY <1>0, <3>1 DEF Fresh, Looping
      <3>2. CASE Continue(p, todo)
        BY <1>0, <3>2, ContinueGoes
      <3> QED BY <2>4, <3>1, <3>2 DEF AlreadyMade, LedgerError, AnswerLost
    <2>6. \A x \in Waiting : x # r => x \in Waiting'
      BY <2>3, <2>5, WaitingAfter
    <2>7. r \in missed' \/ Key(r) \in ledger'
      BY <2>4 DEF AlreadyMade, LedgerError, Fresh, AnswerLost
    <2>8. ledger \subseteq ledger' /\ missed \subseteq missed'
      BY <2>4 DEF AlreadyMade, LedgerError, Fresh, AnswerLost
    <2> QED BY <2>2, <2>6, <2>7, <2>8 DEF DueInv
  <1>2. ASSUME NEW p \in Calls, Send(p) PROVE DueInv'
    <2>1. Continue(p, call[p].todo) /\ UNCHANGED <<seen, missed, ledger>>
      BY <1>2 DEF Send
    <2>2. \A x \in Waiting : x \in Waiting'
      BY <1>0, <2>1, ContinueGoes, WaitingAfter
    <2> QED BY <2>1, <2>2 DEF DueInv
  <1>3. ASSUME NEW p \in Calls, NEW h \in HSMs, Scan(p, h) PROVE DueInv'
    <2>1. /\ call[p] = Idle /\ Continue(p, Classify(h)) /\ UNCHANGED <<missed, ledger>>
          /\ seen' = seen \cup Due(Classify(h))
      BY <1>3 DEF Scan
    <2>2. \A x \in Due(Classify(h)) : x \in Waiting'
      BY <1>0, <2>1, ContinueGoes, WaitingAfter
    <2>3. \A x \in Waiting : x \in Waiting'
      <3> SUFFICES ASSUME NEW x \in Waiting PROVE x \in Waiting'
        OBVIOUS
      <3>1. PICK q \in Looping : x \in Due(call[q].todo)
        BY WaitingIs
      <3>2. q # p
        BY <2>1 DEF Looping, Idle
      <3>3. q \in Looping' /\ call'[q] = call[q]
        BY <1>0, <2>1, <3>2, ContinueGoes DEF Looping
      <3> QED BY <3>1, <3>3 DEF Waiting, Due
    <2> QED BY <2>1, <2>2, <2>3 DEF DueInv
  <1>4. ASSUME Crash PROVE DueInv'
    <2>1. Waiting \subseteq missed' /\ missed \subseteq missed' /\ UNCHANGED <<seen, ledger>>
      BY <1>4 DEF Crash, Waiting
    <2> QED BY <2>1 DEF DueInv
  <1>5. ASSUME UNCHANGED <<seen, missed, ledger, call>> PROVE DueInv'
    BY <1>5 DEF DueInv, Waiting, Looping
  <1>6. ASSUME NEW p \in Calls, Hang(p) PROVE DueInv'
    <2>1. /\ call[p].at = "send" /\ call' = [call EXCEPT ![p] = Hung]
          /\ missed' = missed \cup Due(call[p].todo) /\ UNCHANGED <<seen, ledger>>
      BY <1>6 DEF Hang
    <2>2. ASSUME NEW x \in Waiting, x \notin Due(call[p].todo) PROVE x \in Waiting'
      <3>1. PICK q \in Looping : x \in Due(call[q].todo)
        BY WaitingIs
      <3>2. q \in Looping' /\ call'[q] = call[q]
        BY <1>0, <2>1, <2>2, <3>1 DEF Looping
      <3> QED BY <3>1, <3>2 DEF Waiting, Due
    <2> QED BY <2>1, <2>2 DEF DueInv
  <1> QED BY <1>1, <1>2, <1>3, <1>4, <1>5, <1>6 DEF Next, Step, Replace, Tick, vars

\* What a scan found due is not forgotten: it is still to come, a mishap cut the loop
\* short, or a reminder with its HSM, name and threshold was mailed, lost on the way or
\* is under way.  For any certificates, renewed under their names or named alike too;
\* that each certificate has a reminder of its own is more than the ledger can tell
\* apart, and fails (run certs_renewed).
THEOREM EveryNameIsReminded == Spec => []EveryNameReminded
  <1>1. Init => DueInv
    BY DEF Init, DueInv
  <1>2. IInv /\ DueInv /\ [Next]_vars => DueInv'
    BY DueStep
  <1>3. IInv /\ DueInv => EveryNameReminded
    BY DEF IInv, DueInv, LedgerAccounted, EveryNameReminded, Reminded
  <1> QED BY Inductive, <1>1, <1>2, <1>3, PTL DEF Spec

-----------------------------------------------------------------------------
\* The webhook, the other channel of notifications (module Webhook, with a
\* specification of its own).  An attempt sends one request at most, so what the
\* receiver handled of an event and what is still under way to it are no more
\* than the attempts made: that number bounds how often it may handle the event.


HookPlaces == {"none", "post", "wait", "pause", "delivered", "failed", "unbuilt", "lost"}
Deliveries == [at : HookPlaces, attempt : 0..Attempts]

HookTypes ==
    /\ stored \in 0..HookEvents
    /\ delivery \in [1..HookEvents -> Deliveries]
    /\ underway \subseteq (1..HookEvents) \X (1..Attempts)
    /\ received \in Seq(1..HookEvents)
    /\ builds \in BOOLEAN

\* The attempts that left so far, one request of each of which may still be under way.
Made(e) == IF delivery[e].at \in {"post", "unbuilt"} THEN delivery[e].attempt - 1
           ELSE delivery[e].attempt
HookSent == \A e \in 1..HookEvents, n \in 1..Attempts : <<e, n>> \in underway => n <= Made(e)

Account(e) ==
    /\ delivery[e].at = "none" => delivery[e].attempt = 0
    /\ e > stored => delivery[e].at = "none"
    /\ delivery[e].at # "none" => delivery[e].attempt >= 1
    /\ TimesReceived(e) + Coming(e) <= Made(e)
    /\ delivery[e].at = "pause" => delivery[e].attempt < Attempts
    /\ delivery[e].at = "failed" => delivery[e].attempt = Attempts
    /\ delivery[e].at = "delivered" => TimesReceived(e) > 0
    /\ delivery[e].at = "unbuilt" => delivery[e].attempt = 1
    /\ ~builds => /\ delivery[e].at = "post" => delivery[e].attempt = 1
                  /\ delivery[e].at \notin {"wait", "pause"}

HookInv == HookTypes /\ HookSent /\ \A e \in 1..HookEvents : Account(e)

LEMMA HookConstants == HookEvents \in Nat /\ Attempts \in Nat /\ Attempts >= 1 /\ MaxCrashes \in Nat
  BY WebhookAssumption DEF WebhookAssumption

LEMMA HookCounts ==
  ASSUME HookTypes, NEW e \in 1..HookEvents
  PROVE  /\ TimesReceived(e) \in Nat /\ Coming(e) \in Nat
         /\ IsFiniteSet({i \in DOMAIN received : received[i] = e})
         /\ IsFiniteSet({n \in 1..Attempts : <<e, n>> \in underway})
  <1>1. DOMAIN received = 1..Len(received) /\ Len(received) \in Nat
    BY DEF HookTypes
  <1>2. IsFiniteSet(DOMAIN received) /\ IsFiniteSet(1..Attempts)
    BY <1>1, HookConstants, FS_Interval
  <1>3. /\ {i \in DOMAIN received : received[i] = e} \in SUBSET (DOMAIN received)
        /\ {n \in 1..Attempts : <<e, n>> \in underway} \in SUBSET (1..Attempts)
    OBVIOUS
  <1>4. /\ IsFiniteSet({i \in DOMAIN received : received[i] = e})
        /\ IsFiniteSet({n \in 1..Attempts : <<e, n>> \in underway})
    BY <1>2, <1>3, FS_Subset
  <1> QED BY <1>4, FS_CardinalityType DEF TimesReceived, Coming

\* The receiver handles an event once more.
LEMMA CountReceived ==
  ASSUME HookTypes, NEW e \in 1..HookEvents, received' = Append(received, e)
  PROVE  /\ received' \in Seq(1..HookEvents)
         /\ TimesReceived(e)' = TimesReceived(e) + 1
         /\ \A f \in (1..HookEvents) \ {e} : TimesReceived(f)' = TimesReceived(f)
  <1> DEFINE n == Len(received) + 1
  <1>1. /\ received' \in Seq(1..HookEvents)
        /\ DOMAIN received = 1..Len(received) /\ DOMAIN received' = 1..n /\ Len(received) \in Nat
        /\ received'[n] = e /\ \A i \in DOMAIN received : received'[i] = received[i]
    BY DEF HookTypes
  <1>2. DOMAIN received' = DOMAIN received \cup {n} /\ n \notin DOMAIN received
    BY <1>1
  <1> HIDE DEF n
  <1>3. {i \in DOMAIN received' : received'[i] = e} = {i \in DOMAIN received : received[i] = e} \cup {n}
    BY <1>1, <1>2
  <1>4. n \notin {i \in DOMAIN received : received[i] = e}
    BY <1>2
  <1>5. TimesReceived(e)' = TimesReceived(e) + 1
    BY <1>3, <1>4, HookCounts, FS_AddElement DEF TimesReceived
  <1>6. ASSUME NEW f \in (1..HookEvents) \ {e} PROVE TimesReceived(f)' = TimesReceived(f)
    <2>1. {i \in DOMAIN received' : received'[i] = f} = {i \in DOMAIN received : received[i] = f}
      BY <1>1, <1>2
    <2> QED BY <2>1 DEF TimesReceived
  <1> QED BY <1>1, <1>5, <1>6

\* A request leaves, and a request has arrived or is lost.
LEMMA CountSent ==
  ASSUME HookTypes, NEW e \in 1..HookEvents, NEW n \in 1..Attempts, <<e, n>> \notin underway,
         underway' = underway \cup {<<e, n>>}
  PROVE  /\ Coming(e)' = Coming(e) + 1
         /\ \A f \in (1..HookEvents) \ {e} : Coming(f)' = Coming(f)
  <1>1. {k \in 1..Attempts : <<e, k>> \in underway'} = {k \in 1..Attempts : <<e, k>> \in underway} \cup {n}
    OBVIOUS
  <1>2. n \notin {k \in 1..Attempts : <<e, k>> \in underway}
    OBVIOUS
  <1>3. Coming(e)' = Coming(e) + 1
    BY <1>1, <1>2, HookCounts, FS_AddElement DEF Coming
  <1>4. ASSUME NEW f \in (1..HookEvents) \ {e} PROVE Coming(f)' = Coming(f)
    <2>1. {k \in 1..Attempts : <<f, k>> \in underway'} = {k \in 1..Attempts : <<f, k>> \in underway}
      OBVIOUS
    <2> QED BY <2>1 DEF Coming
  <1> QED BY <1>3, <1>4

LEMMA CountArrived ==
  ASSUME HookTypes, NEW e \in 1..HookEvents, NEW n \in 1..Attempts, <<e, n>> \in underway,
         underway' = underway \ {<<e, n>>}
  PROVE  /\ Coming(e)' = Coming(e) - 1
         /\ \A f \in (1..HookEvents) \ {e} : Coming(f)' = Coming(f)
  <1>1. {k \in 1..Attempts : <<e, k>> \in underway'} = {k \in 1..Attempts : <<e, k>> \in underway} \ {n}
    OBVIOUS
  <1>2. n \in {k \in 1..Attempts : <<e, k>> \in underway}
    OBVIOUS
  <1>3. Coming(e)' = Coming(e) - 1
    <2>1. IsFiniteSet({k \in 1..Attempts : <<e, k>> \in underway})
      BY HookCounts
    <2> QED BY <1>1, <1>2, <2>1, FS_RemoveElement DEF Coming
  <1>4. ASSUME NEW f \in (1..HookEvents) \ {e} PROVE Coming(f)' = Coming(f)
    <2>1. {k \in 1..Attempts : <<f, k>> \in underway'} = {k \in 1..Attempts : <<f, k>> \in underway}
      OBVIOUS
    <2> QED BY <2>1 DEF Coming
  <1> QED BY <1>3, <1>4

LEMMA InitHookInv == ASSUME WebhookInit PROVE HookInv
  <1>1. HookTypes
    BY HookConstants DEF WebhookInit, HookTypes, Deliveries, HookPlaces
  <1>2. ASSUME NEW e \in 1..HookEvents PROVE TimesReceived(e) = 0 /\ Coming(e) = 0
    <2>1. /\ {i \in DOMAIN received : received[i] = e} = {}
          /\ {n \in 1..Attempts : <<e, n>> \in underway} = {}
      BY DEF WebhookInit
    <2> QED BY <2>1, FS_EmptySet DEF TimesReceived, Coming
  <1>3. HookSent /\ \A e \in 1..HookEvents : Account(e)
    BY <1>2 DEF WebhookInit, HookSent, Account, Made
  <1> QED BY <1>1, <1>3 DEF HookInv

\* A step of the delivery of one event leaves those of the others alone.
LEMMA OthersKept ==
  ASSUME HookInv, NEW e \in 1..HookEvents, HookTypes', UNCHANGED builds,
         stored <= stored', stored' \in Nat, stored \in Nat,
         \A f \in (1..HookEvents) \ {e} :
            /\ delivery'[f] = delivery[f]
            /\ TimesReceived(f)' = TimesReceived(f) /\ Coming(f)' = Coming(f)
            /\ \A n \in 1..Attempts : <<f, n>> \in underway' => <<f, n>> \in underway,
         Account(e)',
         \A n \in 1..Attempts : <<e, n>> \in underway' => n <= Made(e)'
  PROVE  HookInv'
  <1>1. ASSUME NEW f \in (1..HookEvents) \ {e} PROVE Made(f)' = Made(f) /\ Account(f)'
    <2>1. Made(f)' = Made(f) /\ Account(f)
      BY DEF Made, HookInv
    <2> QED BY <2>1 DEF Account
  <1>2. HookSent'
    BY <1>1 DEF HookSent, HookInv
  <1> QED BY <1>1, <1>2 DEF HookInv

\* A delivery after an attempt that did not succeed.
LEMMA AgainMoves ==
  ASSUME HookTypes, NEW e \in 1..HookEvents, Again(e), delivery[e].at \in {"post", "wait"}
  PROVE  /\ delivery' \in [1..HookEvents -> Deliveries]
         /\ delivery'[e].attempt = delivery[e].attempt
         /\ \/ delivery'[e].at = "pause" /\ delivery[e].attempt < Attempts
            \/ delivery'[e].at = "failed" /\ delivery[e].attempt = Attempts
         /\ \A f \in (1..HookEvents) \ {e} : delivery'[f] = delivery[f]
  <1>1. delivery[e].attempt \in 0..Attempts
    BY DEF HookTypes, Deliveries
  <1>2. CASE delivery[e].attempt < Attempts /\ To(e, "pause")
    BY <1>2 DEF To, HookTypes, Deliveries, HookPlaces
  <1>3. CASE ~(delivery[e].attempt < Attempts) /\ To(e, "failed")
    <2>1. delivery[e].attempt = Attempts
      BY <1>1, <1>3, HookConstants
    <2> QED BY <1>3, <2>1 DEF To, HookTypes, Deliveries, HookPlaces
  <1> QED BY <1>2, <1>3 DEF Again

\* What is known of the delivery of an event.
LEMMA HookFacts ==
  ASSUME HookInv, NEW e \in 1..HookEvents
  PROVE  /\ stored \in 0..HookEvents /\ stored \in Nat /\ e \in Nat
         /\ delivery[e] \in Deliveries /\ delivery[e].attempt \in Nat /\ delivery[e].attempt \in 0..Attempts
         /\ TimesReceived(e) \in Nat /\ Coming(e) \in Nat
         /\ Account(e) /\ Made(e) \in Int /\ Made(e) <= delivery[e].attempt
         /\ Attempts \in Nat
  <1>1. stored \in 0..HookEvents /\ delivery[e] \in Deliveries
    BY DEF HookInv, HookTypes
  <1>2. delivery[e].attempt \in 0..Attempts /\ delivery[e].attempt \in Nat
    BY <1>1, HookConstants DEF Deliveries
  <1>3. Made(e) \in Int /\ Made(e) <= delivery[e].attempt
    BY <1>2 DEF Made
  <1>4. stored \in Nat /\ e \in Nat /\ Attempts \in Nat
    BY <1>1, HookConstants
  <1>5. TimesReceived(e) \in Nat /\ Coming(e) \in Nat /\ Account(e)
    BY HookCounts DEF HookInv
  <1> QED BY <1>1, <1>2, <1>3, <1>4, <1>5

LEMMA PostKeepsHook == ASSUME HookInv, NEW e \in 1..HookEvents, Post(e) PROVE HookInv'
  <1> DEFINE n == delivery[e].attempt
  <1>0. /\ delivery[e].at = "post" /\ UNCHANGED <<stored, received>> /\ UNCHANGED builds /\ HookTypes
    BY DEF Post, HookInv
  <1>1. /\ n \in 1..Attempts /\ n \in Nat /\ Made(e) = n - 1 /\ TimesReceived(e) + Coming(e) <= n - 1
        /\ e <= stored
    BY <1>0, HookFacts DEF Account, Made
  <1>2. \A f \in 1..HookEvents : TimesReceived(f)' = TimesReceived(f)
    BY <1>0 DEF TimesReceived
  <1>3. \A k \in 1..Attempts : <<e, k>> \in underway => k <= n - 1
    BY <1>1 DEF HookInv, HookSent
  <1>4. CASE builds /\ To(e, "wait") /\ underway' = underway \cup {<<e, n>>}
    <2>1. /\ delivery' \in [1..HookEvents -> Deliveries]
          /\ delivery'[e].at = "wait" /\ delivery'[e].attempt = n
          /\ \A f \in (1..HookEvents) \ {e} : delivery'[f] = delivery[f]
      BY <1>0, <1>4 DEF To, HookTypes, Deliveries, HookPlaces
    <2>2. <<e, n>> \notin underway
      BY <1>1, <1>3
    <2>3. /\ Coming(e)' = Coming(e) + 1
          /\ \A f \in (1..HookEvents) \ {e} : Coming(f)' = Coming(f)
      BY <1>0, <1>1, <1>4, <2>2, CountSent
    <2>4. HookTypes'
      BY <1>0, <1>1, <1>4, <2>1 DEF HookTypes
    <2>5. Made(e)' = n
      BY <2>1 DEF Made
    <2>6. TimesReceived(e)' + Coming(e)' <= n
      BY <1>1, <1>2, <2>3, HookFacts
    <2>7. Account(e)'
      BY <1>0, <1>1, <1>4, <2>1, <2>5, <2>6, HookFacts DEF Account
    <2>8. \A k \in 1..Attempts : <<e, k>> \in underway' => k <= Made(e)'
      BY <1>1, <1>3, <1>4, <2>5
    <2>9. \A f \in (1..HookEvents) \ {e}, k \in 1..Attempts : <<f, k>> \in underway' => <<f, k>> \in underway
      BY <1>4
    <2>10. \A f \in (1..HookEvents) \ {e} :
             /\ delivery'[f] = delivery[f]
             /\ TimesReceived(f)' = TimesReceived(f) /\ Coming(f)' = Coming(f)
             /\ \A k \in 1..Attempts : <<f, k>> \in underway' => <<f, k>> \in underway
      BY <1>2, <2>1, <2>3, <2>9
    <2>11. stored \in Nat /\ stored' \in Nat /\ stored <= stored'
      BY <1>0, HookFacts
    <2> QED BY <1>0, <2>4, <2>7, <2>8, <2>10, <2>11, OthersKept
  <1>5. CASE builds /\ Again(e) /\ UNCHANGED underway
    <2>1. /\ delivery' \in [1..HookEvents -> Deliveries]
          /\ delivery'[e].attempt = n
          /\ \/ delivery'[e].at = "pause" /\ n < Attempts
             \/ delivery'[e].at = "failed" /\ n = Attempts
          /\ \A f \in (1..HookEvents) \ {e} : delivery'[f] = delivery[f]
      BY <1>0, <1>5, AgainMoves
    <2>2. \A f \in 1..HookEvents : Coming(f)' = Coming(f)
      BY <1>5 DEF Coming
    <2>3. HookTypes'
      BY <1>0, <1>5, <2>1 DEF HookTypes
    <2>4. Made(e)' = n
      BY <2>1 DEF Made
    <2>5. TimesReceived(e)' + Coming(e)' <= n
      BY <1>1, <1>2, <2>2, HookFacts
    <2>6. Account(e)'
      BY <1>0, <1>1, <1>5, <2>1, <2>4, <2>5, HookFacts DEF Account
    <2>7. \A k \in 1..Attempts : <<e, k>> \in underway' => k <= Made(e)'
      BY <1>1, <1>3, <1>5, <2>4
    <2>9. \A f \in (1..HookEvents) \ {e} :
             /\ delivery'[f] = delivery[f]
             /\ TimesReceived(f)' = TimesReceived(f) /\ Coming(f)' = Coming(f)
             /\ \A k \in 1..Attempts : <<f, k>> \in underway' => <<f, k>> \in underway
      BY <1>2, <1>5, <2>1, <2>2
    <2>10. stored \in Nat /\ stored' \in Nat /\ stored <= stored'
      BY <1>0, HookFacts
    <2> QED BY <1>0, <2>3, <2>6, <2>7, <2>9, <2>10, OthersKept
  <1>6. CASE ~builds /\ To(e, "unbuilt") /\ UNCHANGED underway
    <2>1. /\ delivery' \in [1..HookEvents -> Deliveries]
          /\ delivery'[e].at = "unbuilt" /\ delivery'[e].attempt = n
          /\ \A f \in (1..HookEvents) \ {e} : delivery'[f] = delivery[f]
      BY <1>0, <1>6 DEF To, HookTypes, Deliveries, HookPlaces
    <2>2. \A f \in 1..HookEvents : Coming(f)' = Coming(f)
      BY <1>6 DEF Coming
    <2>3. HookTypes'
      BY <1>0, <1>6, <2>1 DEF HookTypes
    <2>4. Made(e)' = n - 1
      BY <2>1 DEF Made
    <2>5. TimesReceived(e)' + Coming(e)' <= n - 1
      BY <1>1, <1>2, <2>2, HookFacts
    <2>6. n = 1
      BY <1>0, <1>6, HookFacts DEF Account
    <2>7. Account(e)'
      BY <1>0, <1>1, <2>1, <2>4, <2>5, <2>6, HookFacts DEF Account
    <2>8. \A k \in 1..Attempts : <<e, k>> \in underway' => k <= Made(e)'
      BY <1>1, <1>3, <1>6, <2>4
    <2>9. \A f \in (1..HookEvents) \ {e} :
             /\ delivery'[f] = delivery[f]
             /\ TimesReceived(f)' = TimesReceived(f) /\ Coming(f)' = Coming(f)
             /\ \A k \in 1..Attempts : <<f, k>> \in underway' => <<f, k>> \in underway
      BY <1>2, <1>6, <2>1, <2>2
    <2>10. stored \in Nat /\ stored' \in Nat /\ stored <= stored'
      BY <1>0, HookFacts
    <2> QED BY <1>0, <2>3, <2>7, <2>8, <2>9, <2>10, OthersKept
  <1> QED BY <1>4, <1>5, <1>6 DEF Post

\* A request arrives, whether its answer is awaited or not, or gets lost.
LEMMA ArrivalKeepsHook ==
  ASSUME HookInv, NEW e \in 1..HookEvents, HandleRequest(e) \/ LoseRequest(e) PROVE HookInv'
  <1>1. PICK n \in 1..Attempts, heard \in BOOLEAN :
          /\ <<e, n>> \in underway
          /\ underway' = underway \ {<<e, n>>}
          /\ received' = IF heard THEN Append(received, e) ELSE received
          /\ UNCHANGED stored /\ UNCHANGED builds
          /\ \/ delivery[e].at = "wait" /\ heard /\ To(e, "delivered")
             \/ delivery[e].at = "wait" /\ Again(e)
             \/ UNCHANGED delivery
    <2>1. CASE HandleRequest(e)
      <3>1. delivery[e] = [at |-> "wait", attempt |-> 1] => delivery[e].at = "wait"
        OBVIOUS
      <3>2. PICK n \in 1..Attempts, accepted \in BOOLEAN :
              /\ <<e, n>> \in underway
              /\ underway' = underway \ {<<e, n>>}
              /\ received' = IF accepted THEN Append(received, e) ELSE received
              /\ IF delivery[e] = [at |-> "wait", attempt |-> n]
                 THEN IF accepted THEN To(e, "delivered") ELSE Again(e)
                 ELSE UNCHANGED delivery
        BY <2>1 DEF HandleRequest
      <3>3. delivery[e] = [at |-> "wait", attempt |-> n] => delivery[e].at = "wait"
        OBVIOUS
      <3>4. UNCHANGED stored /\ UNCHANGED builds
        BY <2>1 DEF HandleRequest
      <3>5. \/ delivery[e].at = "wait" /\ accepted /\ To(e, "delivered")
            \/ delivery[e].at = "wait" /\ Again(e)
            \/ UNCHANGED delivery
        BY <3>2, <3>3
      <3> QED BY <3>2, <3>4, <3>5
    <2>2. CASE LoseRequest(e)
      BY <2>2 DEF LoseRequest
    <2> QED BY <2>1, <2>2
  <1>2. HookTypes
    BY DEF HookInv
  <1>3. /\ Coming(e)' = Coming(e) - 1
        /\ \A f \in (1..HookEvents) \ {e} : Coming(f)' = Coming(f)
    BY <1>1, <1>2, CountArrived
  <1>4. /\ received' \in Seq(1..HookEvents)
        /\ TimesReceived(e)' = IF heard THEN TimesReceived(e) + 1 ELSE TimesReceived(e)
        /\ \A f \in (1..HookEvents) \ {e} : TimesReceived(f)' = TimesReceived(f)
    <2>1. CASE heard
      BY <1>1, <1>2, <2>1, CountReceived
    <2>2. CASE ~heard
      BY <1>1, <1>2, <2>2 DEF HookTypes, TimesReceived
    <2> QED BY <2>1, <2>2
  <1>5. /\ delivery' \in [1..HookEvents -> Deliveries]
        /\ delivery'[e].attempt = delivery[e].attempt
        /\ \/ delivery'[e] = delivery[e]
           \/ delivery'[e].at = "delivered" /\ heard /\ delivery[e].at = "wait"
           \/ delivery'[e].at = "pause" /\ delivery[e].attempt < Attempts /\ delivery[e].at = "wait"
           \/ delivery'[e].at = "failed" /\ delivery[e].attempt = Attempts /\ delivery[e].at = "wait"
        /\ \A f \in (1..HookEvents) \ {e} : delivery'[f] = delivery[f]
    <2>1. CASE heard /\ To(e, "delivered") /\ delivery[e].at = "wait"
      BY <1>2, <2>1 DEF To, HookTypes, Deliveries, HookPlaces
    <2>2. CASE Again(e) /\ delivery[e].at = "wait"
      BY <1>2, <2>2, AgainMoves
    <2>3. CASE UNCHANGED delivery
      BY <1>2, <2>3 DEF HookTypes
    <2> QED BY <1>1, <2>1, <2>2, <2>3
  <1>6. HookTypes'
    BY <1>1, <1>2, <1>4, <1>5 DEF HookTypes
  <1>7. Made(e)' = Made(e)
    BY <1>5 DEF Made
  <1>8. TimesReceived(e)' \in Nat /\ TimesReceived(e)' + Coming(e)' <= Made(e)'
    BY <1>3, <1>4, <1>7, HookFacts DEF Account
  <1>9. delivery'[e].at = "delivered" => TimesReceived(e)' > 0
    BY <1>4, <1>5, HookFacts DEF Account
  <1>10. Account(e)'
    BY <1>1, <1>5, <1>8, <1>9, HookFacts DEF Account
  <1>11. \A k \in 1..Attempts : <<e, k>> \in underway' => k <= Made(e)'
    BY <1>1, <1>7 DEF HookInv, HookSent
  <1>12. \A f \in (1..HookEvents) \ {e}, k \in 1..Attempts : <<f, k>> \in underway' => <<f, k>> \in underway
    BY <1>1
  <1>13. \A f \in (1..HookEvents) \ {e} :
           /\ delivery'[f] = delivery[f]
           /\ TimesReceived(f)' = TimesReceived(f) /\ Coming(f)' = Coming(f)
           /\ \A k \in 1..Attempts : <<f, k>> \in underway' => <<f, k>> \in underway
    BY <1>3, <1>4, <1>5, <1>12
  <1>14. stored \in Nat /\ stored' \in Nat /\ stored <= stored'
    BY <1>1, HookFacts
  <1> QED BY <1>1, <1>6, <1>10, <1>11, <1>13, <1>14, OthersKept

\* The time limit ends the wait, and a pause leads to another attempt.
LEMMA WaitKeepsHook ==
  ASSUME HookInv, NEW e \in 1..HookEvents, TimeOut(e) \/ PauseEnds(e) PROVE HookInv'
  <1> DEFINE n == delivery[e].attempt
  <1>1. UNCHANGED <<stored, underway, received>> /\ UNCHANGED builds /\ HookTypes /\ n \in Nat /\ n \in 0..Attempts
    BY HookFacts DEF TimeOut, PauseEnds, HookInv
  <1>2. \A f \in 1..HookEvents : TimesReceived(f)' = TimesReceived(f) /\ Coming(f)' = Coming(f)
    BY <1>1 DEF TimesReceived, Coming
  <1>3. /\ delivery' \in [1..HookEvents -> Deliveries]
        /\ \A f \in (1..HookEvents) \ {e} : delivery'[f] = delivery[f]
        /\ \/ /\ delivery'[e].attempt = n /\ delivery[e].at = "wait"
              /\ \/ delivery'[e].at = "pause" /\ n < Attempts
                 \/ delivery'[e].at = "failed" /\ n = Attempts
           \/ /\ delivery'[e] = [at |-> "post", attempt |-> n + 1]
              /\ delivery[e].at = "pause" /\ n < Attempts
    <2>1. CASE TimeOut(e)
      BY <1>1, <2>1, AgainMoves DEF TimeOut
    <2>2. CASE PauseEnds(e)
      <3>1. n < Attempts
        BY <2>2, HookFacts DEF PauseEnds, Account
      <3>2. [at |-> "post", attempt |-> n + 1] \in Deliveries
        BY <1>1, <3>1, HookConstants DEF Deliveries, HookPlaces
      <3> QED BY <1>1, <2>2, <3>1, <3>2 DEF PauseEnds, HookTypes
    <2> QED BY <2>1, <2>2
  <1>4. HookTypes'
    BY <1>1, <1>3 DEF HookTypes
  <1>5. Made(e)' = Made(e) /\ Made(e) = n
    BY <1>1, <1>3 DEF Made
  <1>6. TimesReceived(e)' + Coming(e)' <= Made(e)'
    BY <1>2, <1>5, HookFacts DEF Account
  <1>7. Account(e)'
    BY <1>1, <1>3, <1>6, HookFacts, SMTT(30) DEF Account
  <1>8. \A k \in 1..Attempts : <<e, k>> \in underway' => k <= Made(e)'
    BY <1>1, <1>5 DEF HookInv, HookSent
  <1>9. \A f \in (1..HookEvents) \ {e} :
          /\ delivery'[f] = delivery[f]
          /\ TimesReceived(f)' = TimesReceived(f) /\ Coming(f)' = Coming(f)
          /\ \A k \in 1..Attempts : <<f, k>> \in underway' => <<f, k>> \in underway
    BY <1>1, <1>2, <1>3
  <1>10. stored \in Nat /\ stored' \in Nat /\ stored <= stored'
    BY <1>1, HookFacts
  <1> QED BY <1>1, <1>4, <1>7, <1>8, <1>9, <1>10, OthersKept

\* An event is stored, of which nobody heard before.
LEMMA NotifyKeepsHook == ASSUME HookInv, notifyDrift PROVE HookInv'
  <1>1. PICK e \in 1..HookEvents : e = stored + 1
    BY HookConstants DEF notifyDrift, HookInv, HookTypes
  <1>2. /\ stored' = e /\ UNCHANGED <<underway, received, builds>> /\ HookTypes
        /\ stored \in Nat /\ stored' \in Nat /\ stored <= stored' /\ e > stored
    BY <1>1, HookFacts DEF notifyDrift, HookInv
  <1>3. \A f \in 1..HookEvents : TimesReceived(f)' = TimesReceived(f) /\ Coming(f)' = Coming(f)
    BY <1>2 DEF TimesReceived, Coming
  <1>4. [at |-> "post", attempt |-> 1] \in Deliveries
    BY HookConstants DEF Deliveries, HookPlaces
  <1>5. /\ delivery' \in [1..HookEvents -> Deliveries]
        /\ \A f \in (1..HookEvents) \ {e} : delivery'[f] = delivery[f]
        /\ delivery'[e] = [at |-> "post", attempt |-> 1]
    BY <1>1, <1>2, <1>4 DEF notifyDrift, HookTypes
  <1>6. HookTypes'
    BY <1>2, <1>5 DEF HookTypes
  <1>7. Made(e) = 0 /\ Made(e)' = 0
    <2>1. delivery[e].at = "none" /\ delivery[e].attempt = 0
      BY <1>2, HookFacts DEF Account
    <2> QED BY <1>5, <2>1 DEF Made
  <1>8. TimesReceived(e)' + Coming(e)' <= Made(e)'
    BY <1>3, <1>7, HookFacts DEF Account
  <1>9. Account(e)'
    BY <1>2, <1>5, <1>8 DEF Account
  <1>10. \A k \in 1..Attempts : <<e, k>> \in underway' => k <= Made(e)'
    BY <1>2, <1>7 DEF HookInv, HookSent
  <1>11. \A f \in (1..HookEvents) \ {e} :
           /\ delivery'[f] = delivery[f]
           /\ TimesReceived(f)' = TimesReceived(f) /\ Coming(f)' = Coming(f)
           /\ \A k \in 1..Attempts : <<f, k>> \in underway' => <<f, k>> \in underway
    BY <1>2, <1>3, <1>5
  <1> QED BY <1>2, <1>6, <1>9, <1>10, <1>11, OthersKept

\* Of a lost delivery nothing is promised but what was already done.
LEMMA StopKeepsHook == ASSUME HookInv, StopServer PROVE HookInv'
  <1>1. UNCHANGED <<stored, underway, received>> /\ HookTypes
    BY DEF StopServer, HookInv
  <1>2. ASSUME NEW f \in 1..HookEvents
        PROVE  /\ TimesReceived(f)' = TimesReceived(f) /\ Coming(f)' = Coming(f)
               /\ delivery'[f].attempt = delivery[f].attempt
               /\ delivery'[f] \in Deliveries
               /\ \/ delivery'[f] = delivery[f]
                  \/ delivery'[f].at = "lost" /\ delivery[f].at # "none"
               /\ delivery'[f].at \notin {"post", "wait", "pause"}
    BY <1>1 DEF StopServer, HookTypes, Deliveries, HookPlaces, TimesReceived, Coming
  <1>3. HookTypes'
    BY <1>1, <1>2 DEF HookTypes, StopServer
  <1>4. ASSUME NEW f \in 1..HookEvents PROVE Made(f) <= Made(f)' /\ Made(f)' \in Int
    BY <1>2, HookFacts DEF Made
  <1>5. ASSUME NEW f \in 1..HookEvents PROVE Account(f)'
    <2>1. TimesReceived(f)' + Coming(f)' <= Made(f)'
      BY <1>2, <1>4, HookFacts DEF Account
    <2> QED BY <1>1, <1>2, <2>1, HookFacts DEF Account
  <1>6. ASSUME NEW f \in 1..HookEvents, NEW n \in 1..Attempts, <<f, n>> \in underway' PROVE n <= Made(f)'
    <2>1. n <= Made(f)
      BY <1>1, <1>6 DEF HookInv, HookSent
    <2> QED BY <1>4, <2>1, HookFacts
  <1> QED BY <1>3, <1>5, <1>6 DEF HookInv, HookSent

LEMMA HookInvariant == WebhookInit /\ [][WebhookNext]_webhookVars => []HookInv
  <1>1. ASSUME HookInv, [WebhookNext]_webhookVars PROVE HookInv'
    <2>1. CASE UNCHANGED webhookVars
      BY <1>1, <2>1 DEF webhookVars, HookInv, HookTypes, HookSent, Account, Made, TimesReceived, Coming
    <2>2. CASE WebhookNext
      BY <1>1, <2>2, NotifyKeepsHook, StopKeepsHook, PostKeepsHook, ArrivalKeepsHook, WaitKeepsHook
         DEF WebhookNext
    <2> QED BY <1>1, <2>1, <2>2
  <1> QED BY InitHookInv, <1>1, PTL

\* A receiver gets only events that are stored, and none more often than attempts were made
\* for it, however late a request given up is handled: webhook.send, with any number of
\* events, attempts and restarts, and any requests and answers lost.
THEOREM DeliveredAsAttempted == WebhookInit /\ [][WebhookNext]_webhookVars => []DeliveredOrGivenUp
  <1>1. ASSUME HookInv, NEW e \in 1..HookEvents
        PROVE  /\ TimesReceived(e) + Coming(e) <= delivery[e].attempt /\ delivery[e].attempt <= Attempts
               /\ TimesReceived(e) > 0 => e <= stored
               /\ delivery[e].at = "delivered" => TimesReceived(e) > 0
               /\ delivery[e].at = "failed" => delivery[e].attempt = Attempts
               /\ delivery[e].at = "unbuilt" =>
                    delivery[e].attempt = 1 /\ TimesReceived(e) + Coming(e) = 0
    <2>1. TimesReceived(e) + Coming(e) <= delivery[e].attempt /\ delivery[e].attempt <= Attempts
      BY <1>1, HookFacts DEF Account
    <2>2. e > stored => delivery[e].attempt = 0
      BY <1>1, HookFacts DEF Account
    <2>3. ASSUME delivery[e].at = "unbuilt"
          PROVE  delivery[e].attempt = 1 /\ TimesReceived(e) + Coming(e) = 0
      <3>1. delivery[e].attempt = 1 /\ Made(e) = 0
        BY <1>1, <2>3, HookFacts DEF Account, Made
      <3> QED BY <1>1, <3>1, HookFacts DEF Account
    <2> QED BY <1>1, <2>1, <2>2, <2>3, HookFacts DEF Account
  <1>2. HookInv => DeliveredOrGivenUp
    BY <1>1 DEF DeliveredOrGivenUp
  <1> QED BY <1>2, HookInvariant, PTL

-----------------------------------------------------------------------------
\* Logging in to the server itself (module SignIn, with a specification of its
\* own).  A login belongs to one tab until its ID token has become a session, and
\* has one token: so a session cookie the server accepts says what the provider
\* said, whatever the other tabs did to the cookies meanwhile.


Token == [login : Nat, admin : BOOLEAN, exp : Nat]
Tab == [at : {"nowhere", "provider", "back", "answer"}, login : Nat, token : Seq(Token)]
FlowCookie == [login : Nat, key : Nat, until : Nat]
SessionCookie == [login : Nat, role : {"admin", "viewer"}, key : Nat, until : Nat]

SignInTypes ==
    /\ clock \in Nat /\ signKey \in Nat /\ begun \in Nat
    /\ configured \in BOOLEAN /\ admin \in BOOLEAN
    /\ jar \in [flow : Seq(FlowCookie), session : Seq(SessionCookie)]
    /\ tabs \in [Tabs -> Tab]
    /\ issued \subseteq Token

\* A login has one token at most, and is that of one tab at most.
LoginsApart ==
    /\ \A k \in issued : k.login \in 1..begun
    /\ \A k, l \in issued : k.login = l.login => k = l
    /\ \A t \in Tabs : IF tabs[t].at = "nowhere" THEN tabs[t].login = 0 ELSE tabs[t].login \in 1..begun
    /\ \A t, u \in Tabs : tabs[t].login = tabs[u].login /\ tabs[t].login # 0 => t = u
    /\ \A t \in Tabs : tabs[t].at = "provider" => \A k \in issued : k.login # tabs[t].login
    /\ \A t \in Tabs : tabs[t].at \in {"back", "answer"} =>
        tabs[t].token # <<>> /\ tabs[t].token[1] \in issued /\ tabs[t].token[1].login = tabs[t].login

\* A session says what its token says.
SessionOf(cookie) == \E k \in issued :
    /\ cookie.login = k.login /\ cookie.role = roleFromClaims(k) /\ cookie.until = k.exp
    /\ configured => cookie.key = signKey
    /\ \A t \in Tabs : tabs[t].login # k.login

SignInInv ==
    /\ SignInTypes /\ LoginsApart
    /\ jar.session # <<>> => SessionOf(jar.session[1])
    /\ jar.flow # <<>> => jar.flow[1].login = begun

LEMMA InitSignInInv == ASSUME SignInInit PROVE SignInInv
  <1>1. SignInTypes
    BY SignInAssumption DEF SignInInit, SignInTypes, Tab, NoTab, SignInAssumption
  <1>2. LoginsApart
    BY DEF SignInInit, LoginsApart, NoTab
  <1>3. jar.session = <<>> /\ jar.flow = <<>>
    BY DEF SignInInit
  <1> QED BY <1>1, <1>2, <1>3 DEF SignInInv

\* What a tab and the cookies are, one by one.
LEMMA SignInFacts ==
  ASSUME SignInInv
  PROVE  /\ clock \in Nat /\ signKey \in Nat /\ begun \in Nat /\ FlowAge \in Nat /\ TokenAge \in Nat
         /\ jar.flow \in Seq(FlowCookie) /\ jar.session \in Seq(SessionCookie)
         /\ DOMAIN jar = {"flow", "session"}
         /\ DOMAIN tabs = Tabs /\ \A t \in Tabs : tabs[t] \in Tab
         /\ \A t \in Tabs : tabs[t].login \in Nat /\ tabs[t].login <= begun
         /\ \A k \in issued : k \in Token /\ k.login \in 1..begun
  <1>1. clock \in Nat /\ signKey \in Nat /\ begun \in Nat /\ FlowAge \in Nat /\ TokenAge \in Nat
    BY SignInAssumption DEF SignInInv, SignInTypes, SignInAssumption
  <1>2. /\ jar.flow \in Seq(FlowCookie) /\ jar.session \in Seq(SessionCookie)
        /\ DOMAIN jar = {"flow", "session"}
        /\ DOMAIN tabs = Tabs /\ \A t \in Tabs : tabs[t] \in Tab
    BY DEF SignInInv, SignInTypes
  <1>3. \A t \in Tabs : tabs[t].login \in Nat /\ tabs[t].login <= begun
    BY <1>1, <1>2 DEF SignInInv, LoginsApart, Tab
  <1>4. \A k \in issued : k \in Token /\ k.login \in 1..begun
    BY DEF SignInInv, SignInTypes, LoginsApart
  <1> QED BY <1>1, <1>2, <1>3, <1>4

\* A login begins.
LEMMA BeginKeepsSignIn == ASSUME SignInInv, NEW t \in Tabs, handleLogin(t) PROVE SignInInv'
  <1> DEFINE n == begun + 1
             tab == [NoTab EXCEPT !.at = "provider", !.login = n]
             flow == <<[login |-> n, key |-> signKey, until |-> clock + FlowAge]>>
  <1>0. n \in Nat /\ n > begun
    BY SignInFacts
  <1>1. /\ begun' = n /\ UNCHANGED <<clock, configured, signKey, admin, issued>>
        /\ tabs[t].at = "nowhere"
        /\ tabs' = [tabs EXCEPT ![t] = tab]
        /\ jar' = [jar EXCEPT !.flow = flow]
    <2>1. begun' = n /\ UNCHANGED <<clock, configured, signKey, admin, issued>> /\ tabs[t].at = "nowhere"
      BY DEF handleLogin
    <2>3. tabs' = [tabs EXCEPT ![t] = tab]
      BY <2>1 DEF handleLogin
    <2>4. jar' = [jar EXCEPT !.flow = flow]
      BY <2>1 DEF handleLogin
    <2> QED BY <2>1, <2>3, <2>4
  <1>a. tab.at = "provider" /\ tab.login = n /\ tab \in Tab
    <2>1. NoTab \in Tab
      BY DEF NoTab, Tab
    <2>2. PICK c : c = NoTab
      OBVIOUS
    <2>3. tab.at = "provider" /\ tab.login = n
      BY DEF NoTab
    <2>4. [c EXCEPT !.at = "provider", !.login = n] \in Tab
      BY <1>0, <2>1, <2>2 DEF Tab
    <2> QED BY <2>2, <2>3, <2>4
  <1> HIDE DEF tab
  <1>2. /\ tabs'[t] = tab /\ \A u \in Tabs \ {t} : tabs'[u] = tabs[u]
        /\ jar'.flow = flow /\ jar'.session = jar.session
    BY <1>1, SignInFacts
  <1>3. SignInTypes'
    <2>1. tab \in Tab /\ flow \in Seq(FlowCookie)
      BY <1>0, <1>a, SignInFacts DEF FlowCookie
    <2>2. jar' \in [flow : Seq(FlowCookie), session : Seq(SessionCookie)]
      BY <1>1, <2>1, SignInFacts DEF SignInInv, SignInTypes
    <2>3. tabs' \in [Tabs -> Tab]
      BY <1>1, <2>1 DEF SignInInv, SignInTypes
    <2> QED BY <1>0, <1>1, <2>2, <2>3 DEF SignInInv, SignInTypes
  <1>4. LoginsApart'
    <2>1. \A k \in issued : k.login \in 1..n /\ k.login # n
      BY <1>0, SignInFacts
    <2>2. \A u \in Tabs \ {t} : tabs[u].login # n
      BY <1>0, SignInFacts
    <2>3. \A u \in Tabs : IF tabs'[u].at = "nowhere" THEN tabs'[u].login = 0 ELSE tabs'[u].login \in 1..n
      BY <1>0, <1>2, <1>a, SignInFacts DEF SignInInv, LoginsApart
    <2>4. \A u, v \in Tabs : tabs'[u].login = tabs'[v].login /\ tabs'[u].login # 0 => u = v
      BY <1>2, <1>a, <2>2 DEF SignInInv, LoginsApart
    <2>5. \A u \in Tabs : tabs'[u].at = "provider" => \A k \in issued : k.login # tabs'[u].login
      BY <1>2, <1>a, <2>1 DEF SignInInv, LoginsApart
    <2>6. \A u \in Tabs : tabs'[u].at \in {"back", "answer"} =>
             tabs'[u].token # <<>> /\ tabs'[u].token[1] \in issued /\ tabs'[u].token[1].login = tabs'[u].login
      BY <1>2, <1>a DEF SignInInv, LoginsApart
    <2> QED BY <1>1, <2>1, <2>3, <2>4, <2>5, <2>6 DEF SignInInv, LoginsApart
  <1>5. jar'.session # <<>> => SessionOf(jar.session[1])'
    <2>1. \A k \in issued : k.login # n
      BY <1>0, SignInFacts
    <2> QED BY <1>1, <1>2, <1>a, <2>1 DEF SignInInv, SessionOf, roleFromClaims
  <1>6. jar'.flow[1].login = begun'
    BY <1>1, <1>2, <1>a
  <1> QED BY <1>3, <1>4, <1>5, <1>6 DEF SignInInv

\* The provider issues the token of a login.
LEMMA AuthenticateKeeps == ASSUME SignInInv, NEW t \in Tabs, Authenticate(t) PROVE SignInInv'
  <1> DEFINE token == [login |-> tabs[t].login, admin |-> admin, exp |-> clock + TokenAge]
  <1>1. /\ UNCHANGED <<clock, configured, signKey, jar, admin, begun>>
        /\ tabs[t].at = "provider" /\ issued' = issued \cup {token}
        /\ tabs' = [tabs EXCEPT ![t].at = "back", ![t].token = <<token>>]
    BY DEF Authenticate
  <1>2. token \in Token /\ token.login = tabs[t].login /\ token.login \in 1..begun /\ token.login # 0
    BY <1>1, SignInFacts DEF SignInInv, SignInTypes, LoginsApart, Token
  <1> HIDE DEF token
  <1>3. /\ tabs'[t].at = "back" /\ tabs'[t].token = <<token>> /\ tabs'[t].login = token.login
        /\ tabs'[t] \in Tab
        /\ \A u \in Tabs \ {t} : tabs'[u] = tabs[u]
    <2>1. PICK c : c = tabs[t]
      OBVIOUS
    <2>2. tabs'[t] = [c EXCEPT !.at = "back", !.token = <<token>>] /\ \A u \in Tabs \ {t} : tabs'[u] = tabs[u]
      BY <1>1, <2>1, SignInFacts
    <2>3. c \in Tab /\ <<token>> \in Seq(Token)
      BY <1>2, <2>1, SignInFacts
    <2> QED BY <1>2, <2>1, <2>2, <2>3 DEF Tab
  <1>4. SignInTypes'
    <2>1. tabs' \in [Tabs -> Tab]
      BY <1>1, <1>3 DEF SignInInv, SignInTypes
    <2> QED BY <1>1, <1>2, <2>1 DEF SignInInv, SignInTypes
  <1>5. \A k \in issued : k.login # token.login
    BY <1>1, <1>2 DEF SignInInv, LoginsApart
  <1>6. LoginsApart'
    <2>1. \A k \in issued' : k.login \in 1..begun
      BY <1>1, <1>2, SignInFacts
    <2>2. \A k, l \in issued' : k.login = l.login => k = l
      BY <1>1, <1>5 DEF SignInInv, LoginsApart
    <2>3. \A u \in Tabs : IF tabs'[u].at = "nowhere" THEN tabs'[u].login = 0 ELSE tabs'[u].login \in 1..begun
      BY <1>2, <1>3 DEF SignInInv, LoginsApart
    <2>4. \A u \in Tabs : tabs'[u].login = tabs[u].login
      BY <1>2, <1>3
    <2>5. \A u, v \in Tabs : tabs'[u].login = tabs'[v].login /\ tabs'[u].login # 0 => u = v
      BY <2>4 DEF SignInInv, LoginsApart
    <2>6. ASSUME NEW u \in Tabs, tabs'[u].at = "provider", NEW k \in issued' PROVE k.login # tabs'[u].login
      <3>1. u # t /\ tabs'[u] = tabs[u]
        BY <1>3, <2>6
      <3>2. tabs[u].login # token.login
        BY <1>2, <3>1 DEF SignInInv, LoginsApart
      <3> QED BY <1>1, <2>6, <3>1, <3>2 DEF SignInInv, LoginsApart
    <2>7. ASSUME NEW u \in Tabs, tabs'[u].at \in {"back", "answer"}
          PROVE  tabs'[u].token # <<>> /\ tabs'[u].token[1] \in issued' /\ tabs'[u].token[1].login = tabs'[u].login
      <3>0. \A k \in issued : k \in issued'
        BY <1>1
      <3>1. CASE u = t
        <4>1. token \in issued' /\ <<token>> # <<>> /\ <<token>>[1] = token
          BY <1>1
        <4> QED BY <1>3, <3>1, <4>1
      <3>2. CASE u # t
        <4>1. tabs'[u] = tabs[u]
          BY <1>3, <3>2
        <4>2. tabs[u].token # <<>> /\ tabs[u].token[1] \in issued /\ tabs[u].token[1].login = tabs[u].login
          BY <2>7, <4>1 DEF SignInInv, LoginsApart
        <4> QED BY <3>0, <4>1, <4>2
      <3> QED BY <3>1, <3>2
    <2> QED BY <1>1, <2>1, <2>2, <2>3, <2>5, <2>6, <2>7 DEF LoginsApart
  <1>7. jar.session # <<>> => SessionOf(jar.session[1])'
    <2>1. \A u \in Tabs : tabs'[u].login = tabs[u].login
      BY <1>2, <1>3
    <2> QED BY <1>1, <2>1 DEF SignInInv, SessionOf, roleFromClaims
  <1> QED BY <1>1, <1>4, <1>6, <1>7 DEF SignInInv

\* A tab goes on with its login, or forgets it.
LEMMA TabsKeep ==
  ASSUME SignInInv, UNCHANGED <<clock, configured, signKey, jar, admin, begun, issued>>,
         tabs' \in [Tabs -> Tab],
         \A u \in Tabs : \/ tabs'[u] = tabs[u] \/ tabs'[u] = NoTab
                         \/ /\ tabs[u].at = "back" /\ tabs'[u].at = "answer"
                            /\ tabs'[u].login = tabs[u].login /\ tabs'[u].token = tabs[u].token
  PROVE  SignInInv'
  <1>1. SignInTypes'
    BY DEF SignInInv, SignInTypes
  <1>2. NoTab.at = "nowhere" /\ NoTab.login = 0
    BY DEF NoTab
  <1>3. \A u \in Tabs : tabs'[u].login = tabs[u].login \/ tabs'[u].login = 0
    BY <1>2
  <1>4. LoginsApart'
    <2>1. \A u \in Tabs : IF tabs'[u].at = "nowhere" THEN tabs'[u].login = 0 ELSE tabs'[u].login \in 1..begun
      BY <1>2 DEF SignInInv, LoginsApart
    <2>2. \A u, v \in Tabs : tabs'[u].login = tabs'[v].login /\ tabs'[u].login # 0 => u = v
      BY <1>3 DEF SignInInv, LoginsApart
    <2>3. \A u \in Tabs : tabs'[u].at = "provider" => \A k \in issued : k.login # tabs'[u].login
      BY <1>2 DEF SignInInv, LoginsApart
    <2>4. \A u \in Tabs : tabs'[u].at \in {"back", "answer"} =>
             tabs'[u].token # <<>> /\ tabs'[u].token[1] \in issued /\ tabs'[u].token[1].login = tabs'[u].login
      BY <1>2 DEF SignInInv, LoginsApart
    <2> QED BY <2>1, <2>2, <2>3, <2>4 DEF SignInInv, LoginsApart
  <1>5. jar.session # <<>> => SessionOf(jar.session[1])'
    <2>1. \A k \in issued : k.login # 0
      BY SignInFacts
    <2> QED BY <1>3, <2>1 DEF SignInInv, SessionOf, roleFromClaims
  <1> QED BY <1>1, <1>4, <1>5 DEF SignInInv

LEMMA NoTabIsTab == NoTab \in Tab
  BY DEF NoTab, Tab

LEMMA CallbackKeeps == ASSUME SignInInv, NEW t \in Tabs, handleCallback(t) PROVE SignInInv'
  <1>1. /\ UNCHANGED <<clock, configured, signKey, jar, admin, begun, issued>> /\ tabs[t].at = "back"
        /\ Leave(t) \/ tabs' = [tabs EXCEPT ![t].at = "answer"]
    BY DEF handleCallback
  <1>2. CASE Leave(t)
    <2>1. tabs' = [tabs EXCEPT ![t] = NoTab]
      BY <1>2 DEF Leave
    <2> QED BY <1>1, <2>1, NoTabIsTab, SignInFacts, TabsKeep DEF SignInInv, SignInTypes
  <1>3. CASE tabs' = [tabs EXCEPT ![t].at = "answer"]
    <2>1. PICK c : c = tabs[t]
      OBVIOUS
    <2>2. tabs' = [tabs EXCEPT ![t] = [c EXCEPT !.at = "answer"]]
      BY <1>3, <2>1
    <2>3. c \in Tab
      BY <2>1, SignInFacts
    <2>4. PICK d : d = [c EXCEPT !.at = "answer"]
      OBVIOUS
    <2>5. d \in Tab /\ d.at = "answer" /\ d.login = c.login /\ d.token = c.token
      BY <2>3, <2>4 DEF Tab
    <2>6. tabs' \in [Tabs -> Tab] /\ tabs'[t] = d /\ \A u \in Tabs \ {t} : tabs'[u] = tabs[u]
      BY <2>2, <2>4, <2>5 DEF SignInInv, SignInTypes
    <2> QED BY <1>1, <2>1, <2>5, <2>6, TabsKeep
  <1> QED BY <1>1, <1>2, <1>3

\* The session of a login that no tab has any more.
LEMMA AnswerKeeps == ASSUME SignInInv, NEW t \in Tabs, CallbackAnswered(t) PROVE SignInInv'
  <1>1. PICK token \in issued : token = tabs[t].token[1]
    BY DEF SignInInv, LoginsApart, CallbackAnswered
  <1> DEFINE session == [login |-> token.login, role |-> roleFromClaims(token), key |-> signKey, until |-> token.exp]
  <1>2. /\ UNCHANGED <<clock, configured, signKey, admin, begun, issued>> /\ tabs[t].at = "answer"
        /\ jar' = [flow |-> <<>>, session |-> <<session>>]
        /\ tabs' = [tabs EXCEPT ![t] = NoTab]
        /\ token.login = tabs[t].login
    BY <1>1 DEF CallbackAnswered, Leave, SignInInv, LoginsApart
  <1>3. token \in Token /\ token.login # 0
    BY <1>1, SignInFacts
  <1>4. session \in SessionCookie
    BY <1>3, SignInFacts DEF SessionCookie, Token, roleFromClaims
  <1>5. NoTab.at = "nowhere" /\ NoTab.login = 0
    BY DEF NoTab
  <1>6. tabs' \in [Tabs -> Tab] /\ tabs'[t] = NoTab /\ \A u \in Tabs \ {t} : tabs'[u] = tabs[u]
    BY <1>2, NoTabIsTab DEF SignInInv, SignInTypes
  <1>7. SignInTypes'
    <2>1. <<session>> \in Seq(SessionCookie) /\ <<>> \in Seq(FlowCookie)
      BY <1>4
    <2> HIDE DEF session
    <2> QED BY <1>2, <1>6, <2>1 DEF SignInInv, SignInTypes
  <1>8. LoginsApart'
    <2>1. \A u \in Tabs : IF tabs'[u].at = "nowhere" THEN tabs'[u].login = 0 ELSE tabs'[u].login \in 1..begun
      BY <1>5, <1>6 DEF SignInInv, LoginsApart
    <2>2. \A u, v \in Tabs : tabs'[u].login = tabs'[v].login /\ tabs'[u].login # 0 => u = v
      BY <1>5, <1>6 DEF SignInInv, LoginsApart
    <2>3. \A u \in Tabs : tabs'[u].at = "provider" => \A k \in issued : k.login # tabs'[u].login
      BY <1>5, <1>6 DEF SignInInv, LoginsApart
    <2>4. \A u \in Tabs : tabs'[u].at \in {"back", "answer"} =>
             tabs'[u].token # <<>> /\ tabs'[u].token[1] \in issued /\ tabs'[u].token[1].login = tabs'[u].login
      BY <1>5, <1>6 DEF SignInInv, LoginsApart
    <2> QED BY <1>2, <2>1, <2>2, <2>3, <2>4 DEF SignInInv, LoginsApart
  <1>9. SessionOf(jar.session[1])'
    <2>1. \A u \in Tabs : tabs'[u].login # token.login
      BY <1>2, <1>3, <1>5, <1>6 DEF SignInInv, LoginsApart
    <2>2. jar'.session[1] = session
      BY <1>2
    <2> QED BY <1>2, <2>1, <2>2 DEF SessionOf, roleFromClaims
  <1> QED BY <1>2, <1>7, <1>8, <1>9 DEF SignInInv

LEMMA SignInRestKeeps ==
  ASSUME SignInInv, handleLogout \/ ChangeGroups \/ TimePasses PROVE SignInInv'
  <1>1. /\ UNCHANGED <<configured, signKey, tabs, begun, issued>>
        /\ clock' \in Nat /\ admin' \in BOOLEAN
    <2>1. UNCHANGED <<configured, signKey, tabs, begun, issued>> /\ clock' \in Nat
      BY SignInFacts DEF handleLogout, ChangeGroups, TimePasses
    <2>2. admin' = admin \/ admin' = ~admin
      BY DEF handleLogout, ChangeGroups, TimePasses
    <2>3. admin' \in BOOLEAN
      BY <2>2, Zenon DEF SignInInv, SignInTypes
    <2> QED BY <2>1, <2>3
  <1>2. /\ jar' \in [flow : Seq(FlowCookie), session : Seq(SessionCookie)]
        /\ jar'.flow = jar.flow /\ jar'.session \in {jar.session, <<>>}
    <2>1. CASE handleLogout
      <3>1. jar' = [jar EXCEPT !.session = <<>>] /\ jar \in [flow : Seq(FlowCookie), session : Seq(SessionCookie)]
        BY <2>1 DEF handleLogout, SignInInv, SignInTypes
      <3>2. <<>> \in Seq(SessionCookie)
        OBVIOUS
      <3> QED BY <3>1, <3>2
    <2>2. CASE ChangeGroups \/ TimePasses
      BY <2>2 DEF ChangeGroups, TimePasses, SignInInv, SignInTypes
    <2> QED BY <2>1, <2>2
  <1>3. SignInTypes' /\ LoginsApart'
    BY <1>1, <1>2 DEF SignInInv, SignInTypes, LoginsApart
  <1>4. jar'.session # <<>> => SessionOf(jar.session[1])'
    BY <1>1, <1>2 DEF SignInInv, SessionOf, roleFromClaims
  <1> QED BY <1>1, <1>2, <1>3, <1>4 DEF SignInInv

\* A new key, unless the configured one is kept, ends the sessions it did not sign.
LEMMA NewKeyKeeps == ASSUME SignInInv, RestartServer PROVE SignInInv'
  <1>1. /\ UNCHANGED <<clock, configured, jar, admin, begun, issued>>
        /\ signKey' \in Nat /\ (configured => signKey' = signKey)
        /\ tabs' \in [Tabs -> Tab]
        /\ \A u \in Tabs : tabs'[u] \in {tabs[u], NoTab}
    BY SignInFacts, NoTabIsTab DEF RestartServer
  <1>2. NoTab.at = "nowhere" /\ NoTab.login = 0
    BY DEF NoTab
  <1>3. \A u \in Tabs : tabs'[u].login = tabs[u].login \/ tabs'[u].login = 0
    BY <1>1, <1>2
  <1>4. SignInTypes'
    BY <1>1 DEF SignInInv, SignInTypes
  <1>5. LoginsApart'
    <2>1. \A u \in Tabs : IF tabs'[u].at = "nowhere" THEN tabs'[u].login = 0 ELSE tabs'[u].login \in 1..begun
      BY <1>1, <1>2 DEF SignInInv, LoginsApart
    <2>2. \A u, v \in Tabs : tabs'[u].login = tabs'[v].login /\ tabs'[u].login # 0 => u = v
      BY <1>3 DEF SignInInv, LoginsApart
    <2>3. \A u \in Tabs : tabs'[u].at = "provider" => \A k \in issued : k.login # tabs'[u].login
      BY <1>1, <1>2 DEF SignInInv, LoginsApart
    <2>4. \A u \in Tabs : tabs'[u].at \in {"back", "answer"} =>
             tabs'[u].token # <<>> /\ tabs'[u].token[1] \in issued /\ tabs'[u].token[1].login = tabs'[u].login
      BY <1>1, <1>2 DEF SignInInv, LoginsApart
    <2> QED BY <1>1, <2>1, <2>2, <2>3, <2>4 DEF SignInInv, LoginsApart
  <1>6. jar.session # <<>> => SessionOf(jar.session[1])'
    <2>1. \A k \in issued : k.login # 0
      BY SignInFacts
    <2> QED BY <1>1, <1>3, <2>1 DEF SignInInv, SessionOf, roleFromClaims
  <1> QED BY <1>1, <1>4, <1>5, <1>6 DEF SignInInv

LEMMA SignInInvariant == SignInInit /\ [][SignInNext]_signInVars => []SignInInv
  <1>1. ASSUME SignInInv, [SignInNext]_signInVars PROVE SignInInv'
    <2>1. CASE UNCHANGED signInVars
      BY <1>1, <2>1 DEF signInVars, SignInInv, SignInTypes, LoginsApart, SessionOf, roleFromClaims
    <2>2. CASE SignInNext
      BY <1>1, <2>2, BeginKeepsSignIn, AuthenticateKeeps, CallbackKeeps, AnswerKeeps, SignInRestKeeps, NewKeyKeeps
         DEF SignInNext
    <2> QED BY <1>1, <2>1, <2>2
  <1> QED BY InitSignInInv, <1>1, PTL

\* What a browser may do follows from the provider's word at its last completed login:
\* handleCallback, unsign and authMiddleware, with any number of tabs, logins, restarts
\* and keys.
THEOREM ServedByTheProvidersWord == SignInInit /\ [][SignInNext]_signInVars => []ServedAsGranted
  <1>1. SignInInv => ServedAsGranted
    <2> SUFFICES ASSUME SignInInv PROVE ServedAsGranted
      OBVIOUS
    <2> DEFINE session == jar.session
               word(k) == IF k.admin THEN "admin" ELSE "viewer"
               valid(k) == clock < k.exp /\ (configured \/ session[1].key = signKey)
               granted(bearer) ==
                 IF session = <<>> THEN bearer
                 ELSE LET token == CHOOSE k \in issued : k.login = session[1].login
                      IN  IF clock < token.exp /\ (configured \/ session[1].key = signKey)
                          THEN IF token.admin THEN "admin" ELSE "viewer"
                          ELSE bearer
    <2>1. ASSUME NEW bearer \in {"admin", "viewer", "none"}
          PROVE  RoleOf(session, bearer) = granted(bearer) /\ granted(bearer) \in {"admin", "viewer", "none"}
      <3>1. CASE session = <<>>
        BY <3>1 DEF RoleOf, sessionFromRequest
      <3>2. CASE session # <<>>
        <4>1. PICK token \in issued :
                /\ session[1].login = token.login /\ session[1].role = roleFromClaims(token)
                /\ session[1].until = token.exp
                /\ configured => session[1].key = signKey
          BY <3>2 DEF SignInInv, SessionOf
        <4>2. (CHOOSE k \in issued : k.login = session[1].login) = token
          <5>1. \A k \in issued : k.login = session[1].login => k = token
            BY <4>1 DEF SignInInv, LoginsApart
          <5> QED BY <4>1, <5>1
        <4>3. sessionFromRequest(session) = IF valid(token) THEN word(token) ELSE "none"
          BY <3>2, <4>1 DEF sessionFromRequest, roleFromClaims
        <4>4. granted(bearer) = IF valid(token) THEN word(token) ELSE bearer
          BY <3>2, <4>2
        <4>5. word(token) \in {"admin", "viewer"}
          OBVIOUS
        <4> HIDE DEF session, word, valid, granted
        <4> QED BY <4>3, <4>4, <4>5 DEF RoleOf
      <3> QED BY <3>1, <3>2
    <2>2. ASSUME NEW bearer \in {"admin", "viewer", "none"}, NEW reads \in BOOLEAN
          PROVE  authMiddleware(session, bearer, reads) =
                    CASE granted(bearer) = "admin" -> "served"
                      [] granted(bearer) = "viewer" -> IF reads THEN "served" ELSE "forbidden"
                      [] granted(bearer) = "none" -> "unauthorized"
      <3> HIDE DEF session, granted
      <3>1. CASE granted(bearer) = "admin"
        BY <2>1, <3>1 DEF authMiddleware
      <3>2. CASE granted(bearer) = "viewer"
        BY <2>1, <3>2 DEF authMiddleware
      <3>3. CASE granted(bearer) = "none"
        BY <2>1, <3>3 DEF authMiddleware
      <3> QED BY <2>1, <3>1, <3>2, <3>3
    <2>3. session # <<>> => /\ \E k \in issued : k.login = session[1].login
                            /\ \A t \in Tabs : tabs[t].login # session[1].login
      BY DEF SignInInv, SessionOf
    <2>4. jar.flow # <<>> => jar.flow[1].login = begun
      BY DEF SignInInv
    <2> QED BY <2>2, <2>3, <2>4 DEF ServedAsGranted
  <1> QED BY <1>1, SignInInvariant, PTL
================================================================================
