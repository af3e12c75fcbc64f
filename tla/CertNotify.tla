------------------------------ MODULE CertNotify ------------------------------
(***************************************************************************)
(* The certificate reminders: Server.notifyCertExpiry classifies the        *)
(* certificates of a scan (certmon.Classify) and Notifier.NotifyCertExpiry  *)
(* mails those within a warning window, once per HSM, name and threshold,   *)
(* by a ledger in the database (MarkNotified).  Scans of different HSMs, or *)
(* of the same, run concurrently; the ledger is marked before the mail is   *)
(* sent; the mail may fail, the mail server may never answer, and the       *)
(* process may die in between.                                              *)
(*                                                                          *)
(* The thresholds are taken as sorted: NotifyCertExpiry sorts them first.   *)
(***************************************************************************)
EXTENDS Integers, Sequences

CONSTANTS Certs,         \* certificates: their HSM, their name and their last moment
          Thresholds,    \* cert_warn_days
          DayLength,     \* units of the clock in a day
          Calls,         \* concurrent activations of notifyCertExpiry
          MaxTime,       \* bound: the clock
          Limits         \* bounds: how often each kind of mishap may occur

MishapKinds == {"ledger", "answer", "mail", "hang", "crash", "replace"}

\* The name is the label, or the subject of a certificate without one.
ASSUME CertsAssumption ==
    /\ \A c \in Certs : c.notAfter \in Int
    /\ Thresholds \subseteq Nat /\ Thresholds # {}
    /\ DayLength \in Nat \ {0} /\ MaxTime \in Nat
    /\ Limits \in [MishapKinds -> Nat]

VARIABLES
    present,    \* certificates on the tokens
    now,        \* the clock
    ledger,     \* table notifications: its unique key
    call,       \* one record per activation
    mails,      \* mails delivered, in order
    seen,       \* history: reminders due by some scan
    missed,     \* history: due, but skipped on an error, in a crash or by a call that hangs
    lost,       \* history: marked in the ledger, but never mailed
    mishaps     \* how often each kind has occurred

vars == <<present, now, ledger, call, mails, seen, missed, lost, mishaps>>

HSMs == {c.hsm : c \in Certs}
Reminder == [cert : Certs, threshold : Thresholds]
Key(r) == <<r.cert.hsm, r.cert.ref, r.threshold>>
Keys == {Key(r) : r \in Reminder}
Entry == [cert : Certs, days : Int]

\* Client side of the loop: the certificates still to be dealt with, and the
\* reminder whose mail is under way; or a call that waits for the mail server for ever.
Idle == [at |-> "idle"]
Hung == [at |-> "hung"]
Marking == [at : {"mark"}, todo : SUBSET Entry]
Sending == [at : {"send"}, todo : SUBSET Entry, reminder : Reminder]
InFlight == {call[p].reminder : p \in {q \in Calls : call[q].at = "send"}}

TypeOK ==
    /\ present \subseteq Certs /\ now \in 0..MaxTime
    /\ ledger \subseteq Keys
    /\ call \in [Calls -> {Idle, Hung} \cup Marking \cup Sending]
    /\ mails \in Seq(Reminder)
    /\ seen \subseteq Reminder /\ missed \subseteq Reminder /\ lost \subseteq Reminder
    /\ mishaps \in [MishapKinds -> Nat] /\ \A k \in MishapKinds : mishaps[k] <= Limits[k]

Smallest == CHOOSE t \in Thresholds : \A u \in Thresholds : t <= u
Widest == CHOOSE t \in Thresholds : \A u \in Thresholds : u <= t      \* MaxWarnDays

\* crossedThreshold: the smallest threshold that is not below the days left, if any.
Crossed(days) ==
    IF days < 0 THEN {Smallest}
    ELSE {t \in Thresholds : days <= t /\ \A u \in Thresholds : days <= u => t <= u}

\* int(left.Hours() / 24), which goes towards zero.
Days(left) == IF left >= 0 THEN left \div DayLength ELSE -((-left) \div DayLength)

\* certmon.Classify, without the certificates of status OK.
Classify(h) ==
    {[cert |-> c, days |-> Days(c.notAfter - now)] :
        c \in {d \in present : d.hsm = h /\ d.notAfter - now <= Widest * DayLength}}

\* The reminders the entries call for.
Due(todo) == {r \in Reminder : \E e \in todo :
                e.cert = r.cert /\ r.threshold \in Crossed(e.days)}

\* The reminders calls have still to make.
Looping == {p \in Calls : call[p].at \in {"mark", "send"}}
Waiting == UNION {Due(call[p].todo) : p \in Looping}

Init ==
    /\ present \in SUBSET Certs /\ now = 0
    /\ ledger = {} /\ call = [p \in Calls |-> Idle] /\ mails = <<>>
    /\ seen = {} /\ missed = {} /\ lost = {}
    /\ mishaps = [k \in MishapKinds |-> 0]

Mishap(k) == mishaps[k] < Limits[k] /\ mishaps' = [mishaps EXCEPT ![k] = @ + 1]
NoMishap == UNCHANGED mishaps

\* What is left of the loop.
Continue(p, todo) ==
    call' = [call EXCEPT ![p] = IF todo = {} THEN Idle ELSE [at |-> "mark", todo |-> todo]]

\* A scan of HSM h: notifyCertExpiry classifies its certificates.
Scan(p, h) ==
    /\ call[p] = Idle
    /\ Continue(p, Classify(h))
    /\ seen' = seen \cup Due(Classify(h))
    /\ UNCHANGED <<present, now, ledger, mails, missed, lost, mishaps>>

\* Classify sorts the entries by their last moments; equal ones keep the order in
\* which the token enumerates them.
First(todo, e) == e \in todo /\ \A f \in todo : e.cert.notAfter <= f.cert.notAfter

\* Mutant: a reminder that was made before ends the loop.
AlreadyMadeReturns(p, r, todo) ==
    /\ Key(r) \in ledger
    /\ Continue(p, {})
    /\ NoMishap /\ UNCHANGED <<ledger, missed, lost>>

\* The row was there: the reminder was made before.
AlreadyMade(p, r, todo) ==
    /\ Key(r) \in ledger
    /\ Continue(p, todo)
    /\ NoMishap /\ UNCHANGED <<ledger, missed, lost>>

\* The row is new: the mail is to be sent.
Fresh(p, r, todo) ==
    /\ Key(r) \notin ledger
    /\ ledger' = ledger \cup {Key(r)}
    /\ call' = [call EXCEPT ![p] = [at |-> "send", todo |-> todo, reminder |-> r]]
    /\ NoMishap /\ UNCHANGED <<missed, lost>>

\* Mutant: without a ledger that answers, the reminder is sent.
LedgerErrorSends(p, r, todo) ==
    /\ Mishap("ledger")
    /\ call' = [call EXCEPT ![p] = [at |-> "send", todo |-> todo, reminder |-> r]]
    /\ UNCHANGED <<ledger, missed, lost>>

\* Mutant: the certificate is skipped although its row was written.
LedgerErrorMarks(p, r, todo) ==
    /\ Mishap("ledger")
    /\ ledger' = ledger \cup {Key(r)}
    /\ missed' = missed \cup {r}
    /\ Continue(p, todo)
    /\ UNCHANGED lost

\* The ledger fails and the certificate is skipped, until another scan finds it.
LedgerError(p, r, todo) ==
    /\ Mishap("ledger")
    /\ missed' = missed \cup {r}
    /\ Continue(p, todo)
    /\ UNCHANGED <<ledger, lost>>

\* The row is written and the answer lost with the connection to PostgreSQL.
AnswerLost(p, r, todo) ==
    /\ Key(r) \notin ledger
    /\ Mishap("answer")
    /\ ledger' = ledger \cup {Key(r)}
    /\ lost' = lost \cup {r}
    /\ Continue(p, todo)
    /\ UNCHANGED missed

\* MarkNotified for the next certificate: INSERT ... ON CONFLICT DO NOTHING.
Mark(p) ==
    /\ call[p].at = "mark"
    /\ \E e \in call[p].todo, t \in Thresholds :
         LET r == [cert |-> e.cert, threshold |-> t]
             todo == call[p].todo \ {e}
         IN /\ First(call[p].todo, e) /\ t \in Crossed(e.days)
            /\ \/ AlreadyMade(p, r, todo) \/ Fresh(p, r, todo)
               \/ LedgerError(p, r, todo) \/ AnswerLost(p, r, todo)
    /\ UNCHANGED <<present, now, mails, seen>>

\* The mail server takes the mail, or does not: the error is logged.
Send(p) ==
    LET c == call[p] IN
    /\ c.at = "send"
    /\ \/ mails' = Append(mails, c.reminder) /\ NoMishap /\ UNCHANGED lost
       \/ Mishap("mail") /\ lost' = lost \cup {c.reminder} /\ UNCHANGED mails
    /\ Continue(p, c.todo)
    /\ UNCHANGED <<present, now, ledger, seen, missed>>

\* The mail server takes the connection and says nothing any more, before or after it
\* has the mail.  The client sets no deadline: the call never returns.
Hang(p) ==
    LET c == call[p] IN
    /\ c.at = "send" /\ Mishap("hang")
    /\ \/ mails' = Append(mails, c.reminder) /\ UNCHANGED lost
       \/ lost' = lost \cup {c.reminder} /\ UNCHANGED mails
    /\ missed' = missed \cup Due(c.todo)
    /\ call' = [call EXCEPT ![p] = Hung]
    /\ UNCHANGED <<present, now, ledger, seen>>

\* The process dies.  The ledger is in the database; the loops are gone.
Crash ==
    /\ \E p \in Calls : call[p] # Idle
    /\ Mishap("crash")
    /\ lost' = lost \cup InFlight
    /\ missed' = missed \cup Waiting
    /\ call' = [p \in Calls |-> Idle]
    /\ UNCHANGED <<present, now, ledger, mails, seen>>

\* A certificate is replaced on the token.
Replace(old, new) ==
    /\ old \in present /\ new \notin present /\ old.hsm = new.hsm
    /\ Mishap("replace")
    /\ present' = (present \ {old}) \cup {new}
    /\ UNCHANGED <<now, ledger, call, mails, seen, missed, lost>>

Tick == /\ now < MaxTime /\ now' = now + 1
        /\ UNCHANGED <<present, ledger, call, mails, seen, missed, lost, mishaps>>

Step(p) == Mark(p) \/ Send(p)

Next ==
    \/ \E p \in Calls : Step(p) \/ Hang(p)
    \/ \E p \in Calls, h \in HSMs : Scan(p, h)
    \/ \E c, d \in Certs : Replace(c, d)
    \/ Crash \/ Tick

Spec == Init /\ [][Next]_vars

\* Time passes, a call goes on as long as it does not hang, and each HSM is scanned
\* again and again.
FairSpec ==
    /\ Spec /\ WF_vars(Tick)
    /\ \A p \in Calls : WF_vars(Step(p))
    /\ \A h \in HSMs : SF_vars(\E p \in Calls : Scan(p, h))
--------------------------------------------------------------------------------
Mailed == {mails[i] : i \in DOMAIN mails}

\* However scans overlap, fail and are repeated, and whenever the process dies,
\* no reminder is mailed twice.
MailedOnce == \A i, j \in DOMAIN mails : Key(mails[i]) = Key(mails[j]) => i = j

\* Every row of the ledger is a mail delivered, one lost on the way or one about
\* to be sent, and each of these has its row.
LedgerAccounted == ledger = {Key(r) : r \in Mailed \cup lost \cup InFlight}

\* Every reminder the ledger knows of is mailed once, lost once or about to be sent.
RemindersAccounted == MailedOnce /\ LedgerAccounted

\* "once per certificate and threshold": every reminder that was due by some scan
\* has been mailed or will be, unless an error or a crash prevented it.  The ledger
\* knows certificates by their names: one renewed under its name is passed over.
EveryCertReminded == seen \subseteq Mailed \cup InFlight \cup Waiting \cup missed \cup lost

Reminded == Mailed \cup InFlight \cup lost

\* A reminder that was due by some scan has been made for its name and threshold, or
\* will be, unless an error, a crash or a call that hangs prevented it: a certificate
\* is passed over only for one of its HSM and name that had the same reminder.
EveryNameReminded == \A r \in seen :
    r \in Waiting \cup missed \/ \E s \in Reminded : Key(s) = Key(r)

\* A certificate that stays on its token into its last day and beyond has its name
\* reminded of, even if the ledger fails now and then and a call hangs, unless that
\* very reminder was lost.
ExpiryReminded == \A c \in Certs :
    c \in present ~> \/ \E s \in Mailed \cup lost : Key(s) = Key([cert |-> c, threshold |-> Smallest])
                     \/ c \notin present

\* A reminder under way is in the ledger, nobody else sends it and it was not
\* mailed yet.
SenderInv == \A p \in Calls : call[p].at = "send" =>
    /\ Key(call[p].reminder) \in ledger
    /\ \A q \in Calls : call[q].at = "send" /\ Key(call[q].reminder) = Key(call[p].reminder) => q = p
    /\ \A i \in DOMAIN mails : Key(mails[i]) # Key(call[p].reminder)
MailInv == \A i \in DOMAIN mails : Key(mails[i]) \in ledger

IInv == TypeOK /\ MailedOnce /\ LedgerAccounted /\ SenderInv /\ MailInv
================================================================================
