--------------------------------- MODULE Fleet ---------------------------------
(***************************************************************************)
(* A central server and the agents that push reports to it: enrolment and   *)
(* its tokens (internal/cli/agent.go, internal/agent), the two handlers of  *)
(* internal/server/ingest.go, and what a stored scan does to the gauges of  *)
(* the server (internal/server/metrics.go, sharedkeys.go).  A client gives  *)
(* up after its time-out while the server goes on, agents and server are    *)
(* restarted, and any statement on the store may fail.                      *)
(*                                                                          *)
(* persistScan is reduced to the row it inserts: ScanHistory has the rest.  *)
(***************************************************************************)
EXTENDS Integers, Sequences, FiniteSets

CONSTANTS Agents,       \* agent processes
          NameOf,       \* the name an agent goes by
          SlotsOf,      \* the serial numbers of the tokens in its slots, in order
          Contents,     \* what a scan of each token may find: private keys, days to the next expiry
          Calls,        \* requests the server handles at once
          None,
          MaxReports,   \* bound: reports collected
          MaxTokens,    \* bound: enrolments
          MaxFaults     \* bound: failures of any kind

Names == {NameOf[a] : a \in Agents}
Serials == UNION {{SlotsOf[a][i] : i \in DOMAIN SlotsOf[a]} : a \in Agents}
Found == UNION {Contents[s] : s \in Serials}
Fingerprints == UNION {content.keys : content \in Found}
NoCertificates == -1

ASSUME FleetAssumption ==
    /\ Found \subseteq [keys : SUBSET Fingerprints, days : Nat \cup {NoCertificates}]
    /\ \A a \in Agents : SlotsOf[a] \in Seq(Serials)
    /\ MaxReports \in Nat /\ MaxTokens \in Nat /\ MaxFaults \in Nat
    /\ None \notin Calls \cup Agents \cup Names

VARIABLES
    file,      \* the token file of each agent; NoToken when missing or empty
    agent,     \* each agent's process
    call,      \* the server's requests
    gauge,     \* the series of each token: of which report, and days to expiry
    shared,    \* hsmdoctor_shared_private_keys
    agents,    \* the table agents: the token of each name
    rows,      \* the table scans
    clock, issued, faults,   \* reports, enrolments and failures so far
    pushed,    \* history: reports counted as pushed
    unstored,  \* history: reports whose insert failed
    late,      \* history: names enrolled by a request given up before
    handled,   \* history: the report of each token that came last
    mixed,     \* history: tokens with another report on its way when that one came
    stale      \* history: the last insert was not followed by a recount of its own

process == <<file, agent>>
gauges == <<gauge, shared>>
database == <<agents, rows>>
history == <<pushed, unstored, late, handled, mixed, stale>>
vars == <<process, call, gauges, database, clock, issued, faults, history>>

NoToken == 0
Report == [id : 1..MaxReports, serial : Serials, content : Found]
HSM == Serials \X Names       \* UNIQUE (serial, source)
Row == [hsm : HSM, report : Report]

Down == [at |-> "down", token |-> NoToken, reports |-> <<>>, waits |-> None]
Process == [at : {"down", "enroll", "scan", "push"}, token : 0..MaxTokens,
            reports : Seq(Report), waits : Calls \cup {None}]

\* Answers: a token, Accepted, or Refused, which stands for every status but 200.
Refused == 0
Accepted == 1
Idle == [at |-> "idle"]
Recounting == {"list", "read"}
Handling == {"insert", "observe", "observeRest"} \cup Recounting
Enrolling == [at : {"enroll"}, by : Agents \cup {None}, name : Names]
Ingesting == [at : {"lookup"} \cup Handling, by : Agents \cup {None}, token : 1..MaxTokens,
              report : Report, source : Names \cup {None}, todo : SUBSET HSM,
              keys : SUBSET (HSM \X Fingerprints)]
Answering == [at : {"answer"}, by : Agents, answer : 0..MaxTokens \cup {Accepted}]

TypeOK ==
    /\ file \in [Agents -> 0..MaxTokens]
    /\ agent \in [Agents -> Process]
    /\ call \in [Calls -> {Idle} \cup Enrolling \cup Ingesting \cup Answering]
    /\ gauge \in [Serials -> [report : 0..MaxReports, days : Nat \cup {NoCertificates}]]
    /\ shared \in 0..Cardinality(Fingerprints)
    /\ agents \in [Names -> 0..MaxTokens]
    /\ rows \in Seq(Row)
    /\ clock \in 0..MaxReports /\ issued \in 0..MaxTokens /\ faults \in 0..MaxFaults
    /\ pushed \subseteq 1..MaxReports /\ unstored \subseteq 1..MaxReports
    /\ late \subseteq Names /\ mixed \subseteq Serials
    /\ handled \in [Serials -> 0..MaxReports] /\ stale \in BOOLEAN

NoSeries == [s \in Serials |-> [report |-> 0, days |-> NoCertificates]]

Init ==
    /\ file = [a \in Agents |-> NoToken] /\ agent = [a \in Agents |-> Down]
    /\ call = [p \in Calls |-> Idle]
    /\ gauge = NoSeries /\ shared = 0
    /\ agents = [n \in Names |-> NoToken] /\ rows = <<>>
    /\ clock = 0 /\ issued = 0 /\ faults = 0
    /\ pushed = {} /\ unstored = {} /\ late = {}
    /\ handled = [s \in Serials |-> 0] /\ mixed = {} /\ stale = FALSE

Fault == faults < MaxFaults /\ faults' = faults + 1
NoFault == UNCHANGED faults

--------------------------------------------------------------------------------
(***************************************************************************)
(* The agent.                                                               *)
(***************************************************************************)
Becomes(a, at, reports) ==
    agent' = [agent EXCEPT ![a].at = at, ![a].reports = reports, ![a].waits = None]
Exit(a) == agent' = [agent EXCEPT ![a] = Down]

\* Mutant: the agent enrols at every start.
loadOrEnrollAnew(a) ==
    /\ agent[a].at = "down"
    /\ agent' = [agent EXCEPT ![a].at = "enroll"]
    /\ UNCHANGED <<file, call, gauges, database, clock, issued, faults, history>>

\* The file's token is used if there is one, whatever the server thinks of it.
loadOrEnroll(a) ==
    /\ agent[a].at = "down"
    /\ agent' = [agent EXCEPT ![a].at = IF file[a] = NoToken THEN "enroll" ELSE "scan",
                              ![a].token = file[a]]
    /\ UNCHANGED <<file, call, gauges, database, clock, issued, faults, history>>

\* A request reaches a handler of the server.
Post(a, request) ==
    /\ agent[a].waits = None
    /\ \E p \in Calls :
        /\ call[p] = Idle
        /\ call' = [call EXCEPT ![p] = request]
        /\ agent' = [agent EXCEPT ![a].waits = p]
    /\ UNCHANGED <<file, gauges, database, clock, issued, faults, history>>

Enroll(a) == agent[a].at = "enroll" /\ Post(a, [at |-> "enroll", by |-> a, name |-> NameOf[a]])

Push(a) == /\ agent[a].at = "push"
           /\ Post(a, [at |-> "lookup", by |-> a, token |-> agent[a].token,
                       report |-> Head(agent[a].reports), source |-> None,
                       todo |-> {}, keys |-> {}])

\* The answer arrives, and the handler is done.
Answered(a, p) == /\ agent[a].waits = p /\ p # None /\ call[p].at = "answer"
                  /\ call' = [call EXCEPT ![p] = Idle]

\* The token is written to the file before it is used; a write that fails leaves an
\* empty file (65 bytes are taken to be written whole or not at all).
Enrolled(a) == \E p \in Calls :
    /\ agent[a].at = "enroll" /\ Answered(a, p)
    /\ LET token == call[p].answer IN
       \/ /\ token # Refused
          /\ file' = [file EXCEPT ![a] = token]
          /\ agent' = [agent EXCEPT ![a].at = "scan", ![a].token = token, ![a].waits = None]
          /\ NoFault
       \/ token # Refused /\ Fault /\ file' = [file EXCEPT ![a] = NoToken] /\ Exit(a)
       \/ token = Refused /\ NoFault /\ UNCHANGED file /\ Exit(a)
    /\ UNCHANGED <<gauges, database, clock, issued, history>>

\* Some slots are scanned, in their order, the others are skipped.
CollectReports(a) ==
    /\ agent[a].at = "scan"
    /\ \E n \in 0..Len(SlotsOf[a]) :
       \E slot \in [1..n -> DOMAIN SlotsOf[a]], found \in [1..n -> Found] :
        /\ \A i, j \in 1..n : i < j => slot[i] < slot[j]
        /\ \A i \in 1..n : found[i] \in Contents[SlotsOf[a][slot[i]]]
        /\ clock' = clock + n /\ clock' <= MaxReports
        /\ Becomes(a, IF n = 0 THEN "scan" ELSE "push",
                   [i \in 1..n |-> [id |-> clock + i, serial |-> SlotsOf[a][slot[i]],
                                    content |-> found[i]]])
    /\ UNCHANGED <<file, call, gauges, database, issued, faults, history>>

NextReport(a) == LET rest == Tail(agent[a].reports)
                 IN  Becomes(a, IF rest = <<>> THEN "scan" ELSE "push", rest)

\* Mutant: the status of the answer is not looked at.
PushedAnyStatus(a) == \E p \in Calls :
    /\ agent[a].at = "push" /\ Answered(a, p)
    /\ pushed' = pushed \cup {Head(agent[a].reports).id} /\ NextReport(a)
    /\ UNCHANGED <<file, gauges, database, clock, issued, faults,
                   unstored, late, handled, mixed, stale>>

\* A report that is refused ends the round: those after it are dropped.
Pushed(a) == \E p \in Calls :
    /\ agent[a].at = "push" /\ Answered(a, p)
    /\ IF call[p].answer = Refused
       THEN Becomes(a, "scan", <<>>) /\ UNCHANGED pushed
       ELSE pushed' = pushed \cup {Head(agent[a].reports).id} /\ NextReport(a)
    /\ UNCHANGED <<file, gauges, database, clock, issued, faults,
                   unstored, late, handled, mixed, stale>>

\* The server goes on with a request its client no longer waits for; an answer that is
\* ready finds nobody.
Leave(a) == call' = [p \in Calls |->
    IF agent[a].waits # p THEN call[p]
    ELSE IF call[p].at = "answer" THEN Idle ELSE [call[p] EXCEPT !.by = None]]

\* The request does not arrive, or the client's time-out passes: an enrolling agent
\* exits, another ends its round.  The server learns nothing of it.
GiveUp(a) ==
    /\ Fault
    /\ \/ agent[a].at = "enroll" /\ Exit(a)
       \/ agent[a].at = "push" /\ Becomes(a, "scan", <<>>)
    /\ Leave(a)
    /\ UNCHANGED <<file, gauges, database, clock, issued, history>>

--------------------------------------------------------------------------------
(***************************************************************************)
(* The server.                                                              *)
(***************************************************************************)
Answer(p, answer) == call' = [call EXCEPT ![p] =
    IF @.by = None THEN Idle ELSE [at |-> "answer", by |-> @.by, answer |-> answer]]
Goto(p, at) == call' = [call EXCEPT ![p].at = at]

\* One row per name, with the token enrolled last.
UpsertAgent(name, token) == agents' = [agents EXCEPT ![name] = token]
GetAgentByTokenHash(token) == {n \in Names : agents[n] = token}

\* Mutant: an error of UpsertAgent is overlooked.
handleEnrollUnchecked(p) ==
    /\ call[p].at = "enroll" /\ issued < MaxTokens
    /\ issued' = issued + 1 /\ Answer(p, issued')
    /\ \/ UpsertAgent(call[p].name, issued') /\ NoFault
       \/ Fault /\ UNCHANGED agents
    /\ late' = IF call[p].by = None THEN late \cup {call[p].name} ELSE late
    /\ UNCHANGED <<process, gauges, rows, clock, pushed, unstored, handled, mixed, stale>>

\* A new token for the name, in place of the one it had.
handleEnroll(p) ==
    /\ call[p].at = "enroll"
    /\ \/ /\ issued < MaxTokens /\ issued' = issued + 1
          /\ UpsertAgent(call[p].name, issued')
          /\ Answer(p, issued')
          /\ late' = IF call[p].by = None THEN late \cup {call[p].name} ELSE late
          /\ NoFault
       \/ Fault /\ Answer(p, Refused) /\ UNCHANGED <<agents, issued, late>>
    /\ UNCHANGED <<process, gauges, rows, clock, pushed, unstored, handled, mixed, stale>>

IsHandling(p, s) == call[p].at \in Handling /\ call[p].report.serial = s

\* The report counts as the agent's who holds the token.
handleIngestReport(p) ==
    /\ call[p].at = "lookup"
    /\ LET known == GetAgentByTokenHash(call[p].token)
           s == call[p].report.serial
       IN \/ /\ \E n \in known : call' = [call EXCEPT ![p].at = "insert", ![p].source = n]
             /\ handled' = [handled EXCEPT ![s] = call[p].report.id]
             /\ mixed' = IF \E q \in Calls : IsHandling(q, s) THEN mixed \cup {s} ELSE mixed \ {s}
             /\ NoFault
          \/ known = {} /\ Answer(p, Refused) /\ NoFault /\ UNCHANGED <<handled, mixed>>
          \/ Fault /\ Answer(p, Refused) /\ UNCHANGED <<handled, mixed>>
    /\ UNCHANGED <<process, gauges, database, clock, issued, pushed, unstored, late, stale>>

\* persistScan: an error before or at the insert is logged, and the scan counts as
\* handled nevertheless.
InsertScan(p) ==
    /\ call[p].at = "insert"
    /\ \/ /\ rows' = Append(rows, [hsm |-> <<call[p].report.serial, call[p].source>>,
                                   report |-> call[p].report])
          /\ Goto(p, "list") /\ NoFault
          /\ stale' = \E q \in Calls : call[q].at \in Recounting
          /\ UNCHANGED unstored
       \/ /\ Fault /\ Goto(p, "observe")
          /\ unstored' = unstored \cup {call[p].report.id}
          /\ UNCHANGED <<rows, stale>>
    /\ UNCHANGED <<process, gauges, agents, clock, issued, pushed, late, handled, mixed>>

RowsOf(h) == {i \in DOMAIN rows : rows[i].hsm = h}

\* Mutant: a subselect without ORDER BY finds the first row.
FirstScan(h) == rows[CHOOSE i \in RowsOf(h) : \A j \in RowsOf(h) : i <= j].report

\* ORDER BY taken_at DESC: the identities of reports are in the order of their clocks.
LatestScan(h) ==
    rows[CHOOSE i \in RowsOf(h) : \A j \in RowsOf(h) : rows[j].report.id <= rows[i].report.id].report

HSMs == {rows[i].hsm : i \in DOMAIN rows}

\* refreshSharedKeysMetric, which gives up on the first error: the HSMs are listed,
\* the latest scan of each is read, and the gauge is set, by statements of their own.
ListHSMs(p) ==
    /\ call[p].at = "list"
    /\ \/ call' = [call EXCEPT ![p].at = "read", ![p].todo = HSMs] /\ NoFault /\ UNCHANGED stale
       \/ Fault /\ Goto(p, "observe") /\ stale' = TRUE
    /\ UNCHANGED <<process, gauges, database, clock, issued, pushed, unstored, late, handled, mixed>>

ReadLatest(p) ==
    /\ call[p].at = "read" /\ call[p].todo # {}
    /\ LET h == CHOOSE h \in call[p].todo : TRUE
       IN \/ /\ call' = [call EXCEPT ![p].todo = @ \ {h},
                                   ![p].keys = @ \cup ({h} \X LatestScan(h).content.keys)]
             /\ NoFault /\ UNCHANGED stale
          \/ Fault /\ Goto(p, "observe") /\ stale' = TRUE
    /\ UNCHANGED <<process, gauges, database, clock, issued, pushed, unstored, late, handled, mixed>>

\* Private keys found on two HSMs or more, given the HSMs each is found on.
Detect(keys) == {f \in Fingerprints : Cardinality({h \in HSM : <<h, f>> \in keys}) > 1}

SharedKeys(p) ==
    /\ call[p].at = "read" /\ call[p].todo = {}
    /\ shared' = Cardinality(Detect(call[p].keys))
    /\ call' = [call EXCEPT ![p].at = "observe", ![p].keys = {}]
    /\ UNCHANGED <<process, gauge, database, clock, issued, faults, history>>

\* observeScan sets one series after the other: the score and the counts, and later
\* the days to expiry, which keep their value when there is no certificate.
observeScan(p) ==
    /\ call[p].at = "observe"
    /\ gauge' = [gauge EXCEPT ![call[p].report.serial].report = call[p].report.id]
    /\ Goto(p, "observeRest")
    /\ UNCHANGED <<process, shared, database, clock, issued, faults, history>>

\* Mutant: the first expiry ever seen stays.
observeExpiryOnce(p) ==
    /\ call[p].at = "observeRest"
    /\ LET days == call[p].report.content.days
       IN  gauge' = [gauge EXCEPT ![call[p].report.serial].days =
                       IF @ # NoCertificates THEN @ ELSE days]
    /\ Answer(p, Accepted)
    /\ UNCHANGED <<process, shared, database, clock, issued, faults, history>>

observeExpiry(p) ==
    /\ call[p].at = "observeRest"
    /\ LET days == call[p].report.content.days
       IN  gauge' = [gauge EXCEPT ![call[p].report.serial].days =
                       IF days = NoCertificates THEN @ ELSE days]
    /\ Answer(p, Accepted)
    /\ UNCHANGED <<process, shared, database, clock, issued, faults, history>>

\* The server is restarted: its tables stay, its gauges begin anew, its clients see
\* their connections fail.
Restart ==
    /\ Fault
    /\ call' = [p \in Calls |-> Idle] /\ gauge' = NoSeries /\ shared' = 0
    /\ agent' = [a \in Agents |->
                   IF agent[a].waits = None THEN agent[a]
                   ELSE IF agent[a].at = "enroll" THEN Down
                   ELSE [agent[a] EXCEPT !.at = "scan", !.reports = <<>>, !.waits = None]]
    /\ handled' = [s \in Serials |-> 0] /\ mixed' = {} /\ stale' = TRUE
    /\ UNCHANGED <<file, database, clock, issued, pushed, unstored, late>>

\* An agent's host is restarted.
Stop(a) ==
    /\ Fault /\ agent[a].at # "down" /\ Exit(a)
    /\ Leave(a)
    /\ UNCHANGED <<file, gauges, database, clock, issued, history>>

AgentStep(a) ==
    \/ loadOrEnroll(a) \/ Enroll(a) \/ Enrolled(a) \/ CollectReports(a)
    \/ Push(a) \/ Pushed(a) \/ GiveUp(a) \/ Stop(a)

ServerStep(p) ==
    \/ handleEnroll(p) \/ handleIngestReport(p) \/ InsertScan(p) \/ ListHSMs(p)
    \/ ReadLatest(p) \/ SharedKeys(p) \/ observeScan(p) \/ observeExpiry(p)

Next == (\E a \in Agents : AgentStep(a)) \/ (\E p \in Calls : ServerStep(p)) \/ Restart

Spec == Init /\ [][Next]_vars
--------------------------------------------------------------------------------
(***************************************************************************)
(* Properties.                                                              *)
(***************************************************************************)

\* An agent that has its name to itself is served with the token in its file,
\* however often it and the server were restarted and answers were lost, unless an
\* enrolment it had given up was carried out late.  It would not enrol again by itself.
Alone(a) == \A b \in Agents : NameOf[b] = NameOf[a] => b = a
TokenServes == \A a \in Agents :
    file[a] # NoToken /\ Alone(a) /\ NameOf[a] \notin late => agents[NameOf[a]] = file[a]

\* What an agent counts as pushed is in the history once, under a name by which an
\* agent with that token goes, unless the insert failed, which the agent is not told.
StoredAs(id) == {i \in DOMAIN rows : rows[i].report.id = id}
PushedIsStored ==
    /\ \A id \in pushed : StoredAs(id) # {} \/ id \in unstored
    /\ \A id \in 1..MaxReports : Cardinality(StoredAs(id)) <= 1
    /\ \A i \in DOMAIN rows : \E a \in Agents :
         /\ NameOf[a] = rows[i].hsm[2]
         /\ \E k \in DOMAIN SlotsOf[a] : SlotsOf[a][k] = rows[i].report.serial

\* Between scans the series of a token are of the report that came last, all of them,
\* unless another was on its way when it came.  A report without certificates leaves
\* the days to expiry of an earlier one.
GaugesOfOneScan == \A s \in Serials :
    (\A p \in Calls : ~IsHandling(p, s)) /\ s \notin mixed =>
        /\ gauge[s].report = handled[s]
        /\ \A i \in DOMAIN rows : rows[i].report.id = handled[s] =>
             rows[i].report.content.days \in {gauge[s].days, NoCertificates}

\* Between scans the gauge of shared keys agrees with the latest scans, unless the last
\* recount failed, or ran while another was under way, or the server was restarted since.
NewestRows == {i \in DOMAIN rows : \A j \in RowsOf(rows[i].hsm) : rows[j].report.id <= rows[i].report.id}
SharedKeysCurrent ==
    (\A p \in Calls : call[p].at \notin Recounting) /\ ~stale =>
        shared = Cardinality({f \in Fingerprints : \E i, j \in NewestRows :
                    i # j /\ f \in rows[i].report.content.keys \cap rows[j].report.content.keys})
================================================================================
