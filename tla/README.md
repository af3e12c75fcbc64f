# HSM Doctor: TLA+ models and proofs

HSM Doctor inspects hardware security modules over PKCS#11: it scans tokens,
judges them against rules, keeps a history of the scans of a fleet, alerts on
what changes, measures and tests tokens, and records the PKCS#11 calls of other
applications. This directory holds formal models of that program: TLA+ modules
translated from the Go and C sources, TLC configurations that check them on
small instances, and proofs for every instance that TLAPS checks.

Paths are relative to the repository; `history.go:219` alone is a file of
`internal/server`, and so on for the package a paragraph is about. PROJECT.json
lists the components, the runs, what each definition models (`map`), the
hazards and the theorems.

    tlc -workers 2 -config MCScanHistory.cfg MCScanHistory     # check
    tlapm StoreProofs.tla                                      # prove

## 1. Inventory

| Part (source) | State it keeps | Operations | Interacts with | What is hard | What makes it correct |
|---|---|---|---|---|---|
| Scan history (`server/history.go`) | rows of `hsms`, `scans`, `drift_events`, `regression_events`; locals of each call | `persistScan`, `checkRegression` | store, notifier, webhook, metrics; called by HTTP handlers, schedule, ingestion | calls overlap, no transaction spans two statements, any statement may fail, the process may die | events are truthful, one of a kind per scan, alerts have rows, nothing is overlooked silently |
| Regression, snapshot (`regression`, `snapshot`) | none | `Detect`, `Compare` | history, CLI baseline | thresholds | threshold and new severe rules; key changes found in both directions |
| Store (`store/sqlite.go`, `store/postgres.go`) | the database, its schema version, an advisory lock | open and migrate; one statement per operation | everything persistent | crash between statements, two servers starting, a connection that drops, old and new releases | no version without its schema; the lock excludes; every opening ends |
| Token sessions (`p11/session.go`) | `Client.mu`, `Client.logins`, the token's login | `OpenSession`, `Close` | scans, benchmark, tests | login belongs to the application, sessions close in any order, token drops sessions | who logged in stays logged in; the last one logs out; no lock is kept |
| Benchmark (`bench`) | shared budget, counter, stamp, error channel | `Normalize`, `Run`, `runPrimitive`, `benchWorker` | token sessions | workers race on atomics | load limit, no operation lost, measurement ends |
| Certificate reminders (`certmon`, `notify`) | ledger table, thresholds | `Classify`, `NotifyCertExpiry` | history, store, SMTP | overlapping scans, ledger before mail, failures of either, a mail server that never answers, renewal | at most once, and at least once for every name unless a mishap says otherwise |
| Findings and reports (`policy/eval.go`, `report`, `server/api.go`, `agent`, `cli`) | slices over shared arrays | `Evaluate`, `New`, `AddFindings`, `mergeAdvisories` | vendors, advisory feed, history | an append or a sort within a shared array | score counts each finding once, the gate sees the worst, nothing falls out |
| Flight Recorder shim (`src/shim`) | a counter, the trace file, `writerMu` | one trampoline per PKCS#11 function, `goEmit` | application threads, real module | call, numbering and writing are three steps; a write fails silently; one process after another appends to a file | order per thread, without gaps, unique numbers in a process; complete unless a write failed |
| Trace analysis (`trace`) | none | `Analyze`, `KeyUsageOf`, `IdleKeys` | the file of the shim | files out of order, failed calls, several sessions | exact leaks, no undeserved blame, right names |
| Policy rules (`policy`, `rules`) | loaded configuration | `Load`, `Merge`, `matchObject` | inventory | tri-state conditions, cross-object facts | a rule matches what its conditions say |
| Inventory (`inventory`) | none | `Collect`, chain validation | token sessions, tests and benchmarks of the same process | partly readable objects; objects that come and go during the enumeration | the token's objects, all of them and no others, are listed |
| Metrics, shared keys (`server/metrics.go`, `sharedkeys`) | Prometheus gauges | `observeScan`, `refreshSharedKeysMetric` | history, store | concurrent setting, labels never removed | gauges of the latest scan |
| Ingestion, agent (`server/ingest.go`, `agent`, `cli/agent.go`) | agents table, token file | enrol, push, ingest | history | lost answers, rotated tokens, repeated pushes | an enrolled agent stays able to push |
| Webhook (`server/webhook.go`) | none | `deliver` with retries | receivers | lost answers | at most three attempts, event delivered or logged |
| Auth, OIDC (`server/auth.go`, `oidc.go`) | signed cookies | middleware, login, callback | API | expiry, roles | a role for each request, never more than granted |
| Functional tests, preflight, PQC tests (`funtest`, `preflight`, `pqc`) | temporary objects on the token | steps with skip, pass, fail | token sessions | any call fails, clean-up is refused, other requests look on | every object is accounted for and gone with the session; no step skipped silently |
| Doctor, evidence (`doctor`, `evidence`) | none | `Build`, `verdictOf`, `applicable` | reports, packs | lists that others have appended to; packs evaluated apart | the verdict is that of all findings; evidence and scan agree |
| KMIP (`kmip`) | one connection, the collection so far | `discoverVersions`, `locateAll`, `getObject`, `Evaluate` | a KMIP server others use | objects change or go while they are read | the report is of one time for each object, or there is none |
| Bill of materials, exposure (`report/cbom.go`, `pqc`) | none | `CBOM`, `Assess`, `Detect` | inventory, packs | references between components; four answers to one question | closed under reference, no contradictions |
| Vendors, command line | none to speak of | one-shot requests | reports | formats of others | not modelled, see section 6 |

The four places where activities meet: `persistScan`, called by every HTTP
handler, the schedule and the ingestion of agents' reports at once; one
`p11.Client` for all goroutines of a process; the objects of a token, of which
all sessions of a process see the same; and one shim for all threads of an
application.

## 2. What is modelled

| Module | Models | Extends / used by |
|---|---|---|
| `ScanRecords` | rows, `Detect`, `Compare` | used by the next two |
| `ScanLog` | abstract: an append-only log of scans with truthful events | refined by `ScanHistory` |
| `ScanHistory` | `persistScan`, `checkRegression`, crashes | `MCScanHistory`, `StoreProofs` |
| `TokenLogin` | `Client.OpenSession`, `Session.Close` | `MCClient`, `ClientProofs` |
| `Probes` | steps of `funtest`, `pqc` and benchmark workers on a token, `Collect` of concurrent scans | `MCProbes`, `TokenWorkProofs` |
| `BenchWorkers` | `runPrimitive`, `benchWorker`, `Options.Normalize` | `MCClient`, `TokenWorkProofs` |
| `CertNotify` | `Classify`, `notifyCertExpiry`, `NotifyCertExpiry`, `MarkNotified` | `MCCertNotify`, `ServerProofs` |
| `Migration` | `openSQLite`, `openPostgres`, both `migrate` | `MCMigration`, `StoreProofs` |
| `TraceChecks` | the checks of `Analyze` as operators on traces | extended by `FlightRecorder` |
| `FlightRecorder` | trampolines, `goEmit`, and the PKCS#11 module as environment | `MCFlightRecorder`, `FlightRecorderProofs` |
| `KeyUsage` | a searching application, `KeyUsageOf`, `IdleKeys` | `MCAnswers`, `FlightRecorderProofs` |
| `Fleet` | agents, their token files and rounds, the two handlers of `ingest.go`, gauges and shared keys | `MCFleet`, `FleetProofs` |
| `Findings` | severities, the stable order, the score | extended by `ScanReport`, `PolicyRules`, `KmipScan` |
| `ScanReport` | `Evaluate`, `report.New`, `AddFindings`, `mergeAdvisories` on Go slices; `doctor.Build` | `MCAnswers`, `MCScanReport`, `AnswersProofs` |
| `PolicyRules` | every condition of a rule, `buildFacts`, `Evaluate`, `Load`, `Merge`, `resolveRuleConfig` | extended by the next three |
| `Assessments` | `evidence.Build`, `preflight.Run` | extended by `Decisions` |
| `CryptoAssets` | `CBOM`, `pqc.Assess` and `Detect`, `certmon.Classify`, the migration pack | extended by `Decisions` |
| `Drift` | `snapshot.Compare` | extended by `Decisions` |
| `Decisions` | the commands scan, evidence, cbom, pqc, snapshot diff, preflight as one question and its answer | `MCAnswers`, `AnswersProofs` |
| `KmipScan` | one scan of a KMIP server and the server's other clients | `MCAnswers`, `ClientProofs` |
| `SignIn` | OIDC logins, cookies, roles of requests | `MCAnswers`, `ServerProofs` |
| `Webhook` | `notifyDrift`, `deliver`, a receiver and its network | `MCAnswers`, `ServerProofs` |
| `ListTheorems` | models nothing: lists, folds, what is picked from a list, the stable sort; for the proofs | `FlightRecorderProofs`, `AnswersProofs`, `ClientProofs` |

### Scan history

`call[p]` is one activation of `persistScan`: `at` is the statement it is about
to execute, the other fields are its locals `rep`, `prev`, `newID`. The actions
follow the text: `UpsertHSM` (history.go:204), `NotifyCertExpiry` (219),
`LatestScan` (221), `InsertScan` (226-269), `CheckRegression` (309-335),
`StartAlert`, `MailReturns`, `CheckDrift` (271-306). Each statement may fail
(`Fault`), with the consequence the code gives it: an error of `UpsertHSM` or
`InsertScan` abandons the scan, one of `LatestScan` leaves `prev` nil, one of
an event's insert drops the event and its alert; a previous report that does not
decode ends the call (`PreviousUnreadable`). `Crash` ends all calls and keeps the
tables. `scans` is the table in the order of ids; the latest scan is
the one with the greatest `taken_at`, then the greatest id. A report is reduced
to what comparison looks at: time, inventory, score and severe rules. The two
storage back ends execute the same statements. `NotifyCertExpiry` and `MailReturns` need a
mail server that answers: a call may wait in them for ever.

`missed` is a history variable: the comparisons given up on an error or a
crash, or made by a call that another overtook. `NothingOverlooked` says that
there are no others, which is the strongest statement the code supports;
`ConsecutiveUnlessOvertaken` says when an event does relate consecutive scans.
Its condition is needed: two overlapping calls for one HSM may both compare with
the same predecessor, and one of their events then skips a scan.

### Token sessions

`at[s]` is the place of a goroutine between `C_OpenSession` and
`C_CloseSession`, which lie outside the lock; `mutex` is `Client.mu`, `logins`
the map of counts; `open` and `loggedIn` belong to the token, which logs out
when its last session closes and may drop all of them (`TokenLost`). Whether a
login is refused is the token's choice; its reasons are not modelled, and all
callers of a `Client` use one PIN.

### Tests, probes and inventories

`Probes` is about the objects that functional tests, post-quantum probes and
benchmark workers put on a token, and the enumerations other requests of the
process run meanwhile. A probe is a list of steps and a step a list of
operations (`signVerifyProfile`, `keyWrappingProfile`, `RunTests`,
`Primitives`): what it creates in which order is the code's, what the calls
compute is left out, and so are the verdicts. `created` is the list the code
destroys from, in the order it does; `secret` holds what only a local variable
knows between two calls (the first secret of a key encapsulation); `left` is a
history variable. Any operation may fail (`Fail`), which ends the step, and any
`C_DestroyObject` may be refused. `C_CloseSession` ends session objects, as
PKCS#11 has it. A scan finds the handles of one class after another and then
reads each, with other requests in between: an object may be gone, or its handle
be another's. The attributes of an object are read as one label, which tells
whose it is. `met` says that a probe ran during the scan: session objects are
visible to all sessions of an application, so it may list the probe's keys.

### Benchmark

`budget`, `done` and `measureStart` are the three atomics; `Take`, `Operate`,
`Stamp` are one atomic operation each. Time is a counter of ticks that may pass
between any two steps; a worker compares with its own reading. `issued` and
`firstOp` are history variables about what the token was asked to do.

### Certificate reminders

`call[p]` holds the entries still to be dealt with in `NotifyCertExpiry`'s
loop, in the order of `Classify`. `ledger` is the table `notifications` by its
unique key. A mishap is an error of the ledger, an answer of the ledger lost
with its connection, a mail that fails, a crash, a hang, or a certificate replaced;
`Limits` bounds each kind. `Days` divides toward zero, as the conversion in
certmon.go:68 does. `seen`, `missed` and `lost` are history variables.

A mail server that takes the connection and never answers is a mishap, too
(`Hang`): `smtp.go` sets no deadline, so the call never returns, the mail delivered
or not, and what its loop had still to do is `missed` until another scan. Fairness
covers only what a call does as long as it does not hang. The ledger knows a
certificate by its label, and `EveryNameReminded` claims no more than that: what
was due has been made for its HSM, name and threshold, whoever it was of.
`EveryCertReminded` claims it of each certificate, and `certs_renewed` refutes it.

### Migration

`objects` are the tables and indexes created, `version` the recorded version.
SQLite executes the statements of a migration one by one; PostgreSQL those of
one `Exec` in one transaction. `postgres` picks the database, once. The lock is
`pg_advisory_lock`, which lives and dies with one connection (`Drop`). A
process may be of any release (`Known`), and a database of any earlier one.

### Flight Recorder and its traces

A call is three steps: `Call` (the real module answers), `Stamp` (`goEmit`
takes number and time), `Write` (under `writerMu`). `goEmit` drops the error of a
write (main.go:97), and the buffered writer keeps it: from then on (`broken`) calls
go on, take numbers and leave nothing. `Restart` ends the process wherever its
threads are and starts the next, which counts from 1 again and appends to the same
file (main.go:43). `run` and `nth` of an event say which call of which process it
was; the file does not. So what a trace with several processes promises is
`TraceFaithful`, and what the analyzer concludes, which takes a file for one run, is
checked of a trace with one (`OneRun`). The module's answers are
those PKCS#11 gives in its state. `mine`, `unclosed`, `dangling` and `early`
say what the application did in truth; the properties compare them with what
`TraceChecks` concludes from the file. Sessions are used by the thread that
opened them. `KeyUsage` leaves the three steps out (calls of one session come
from one thread, for which `ThreadOrderKept` shows that the order is kept) and
follows the names of searched keys.

### Agents, ingestion, gauges

`agent[a]` is the process of `hsmdoctor agent`: down, enrolling, between rounds
or pushing; `file[a]` is its token file, which outlives it. `call[p]` is a
request the server handles: the look-up of the token by its hash, `InsertScan`
(all that `ScanHistory` has of `persistScan`, in one step), the recount of
shared keys in its steps (`ListHSMs`, one `ReadLatest` for each token, and the
setting of the gauge), and the setting of the token's gauges, of which that of
the expiry is the last. A client that gives up (`GiveUp`) leaves its request to
the server. `Restart` ends all requests and clears the gauges, `Stop` restarts an
agent. `pushed`, `unstored`, `late`, `handled`, `mixed` and `stale` are history
variables. Tokens are numbered by enrolment; that nobody guesses one is assumed.

### Reports

The heap holds the arrays, and `res` and `rep` are slices of them, because that
is where the code is delicate: `report.New` copies the slice header, later
appends and sorts write into an array that both may own. `Grown` is the growth
of Go's `append` for values of 112 bytes; it is exact below seven findings
appended at once. Which rules match is `PolicyRules`' subject: here `own` is
any list. `Build` and `verdictOf` are those of the doctor, over the list that is
left.

### Rules, and the answers built on them

An object is a function from the attributes the token exposes to their values,
a rule's match one from the conditions it sets to what they ask for: what is
nil, empty or 0 in Go is not in the domain. `ConditionHolds` has a line for every
field of `policy.Condition`, in the terms of `matchObject`; `buildFacts` builds
the same three tables over all objects as the code. The second half of
`PolicyRules` is the reference: what docs/rules.md says of the conditions that
relate several objects (`Alone`, `Mismatched`, duplicates), stated of pairs of
objects without tables. `Decisions` has one action per command; its only
variable is the question and the answer. Times are in half days, so that two of
them can be less than a day apart. `CryptoAssets` keeps of a component its
reference, kind and what it refers to; `Drift` keeps which field of which object
changed and not the values. `SessionCapacity` computes modulo `Word`, as unsigned
integers do.

### KMIP, sign-in, webhooks

`KmipScan` interleaves the requests of one collection with changes others make
on the server. A key whose state changes meanwhile has several values in
`during`, and the report may be of any of them. `SignIn` has one browser whose
tabs share two cookies. Signatures are the number of the key they were made with:
without `cookie_key` a restart makes a new one. State, nonce and verifier of a
login are its number. `Webhook` keeps a goroutine per event and, as
environment, the requests the receiver has not handled yet, those the client has
given up included.

## 3. Runs

`client` and `probes` check deadlock: there a session or a request can always go
on, and a measurement that is over stays so (`Over`). In the others a bound or a finished activity ends every behaviour. Type
invariants are proved by TLAPS and not run again. Invariants that say one thing
together are one property of the run (`EventsSound`, `SharedLoginKept`,
`BudgetExact`, `RemindersAccounted`, `ServesMigrated`, `TraceFaithful`,
`LeaksExact`, `UsageExact`); their parts have names of their own in the modules
and theorems of their own in the proofs.

The runs `answers` and `client` check six and two specifications that share no state
in one state space: `part` picks one at the beginning and the others stay at theirs, so that
the states are the sum and not the product of the parts'. The symmetry of `answers` permutes
sessions, keys together with their names, and tabs; no property tells them apart
and none is a liveness property.

| Run | Shows | Bounds, and why they are enough |
|---|---|---|
| `history` | events truthful, one per scan and kind, alerts backed, nothing overlooked, refinement of `ScanLog` | two calls, two HSMs, three scans, two faults; a race needs two calls, skipping a scan needs three rows, a fault and a crash together need two; three reports tell drift, regression and neither apart and come with their clocks out of order |
| `mail_hangs` | *violation*: a call that waits for the mail server never checks drift | one call, two scans of one HSM, nothing else fails |
| `probes` | objects accounted for, inventories exact | two requests, four objects beyond a private key and a certificate of the token: the largest step makes four (wrapping with a pair); two requests are a probe and a scan, two probes or two scans. Requests and free handles are symmetric: no property chooses among them and none is a liveness property |
| `client`: `TokenLogin` | holders stay logged in, exact counts, logout at the end, nobody waits for ever | two sessions, two slots; each property relates two sessions at most, and a third adds only another of either kind |
| `client`: `BenchWorkers` | load bounded, no operation lost, operations inside the time, termination | three workers, budgets 0, 2 and beyond the limit (3), window two ticks, clock three |
| `certs` | mailed once, ledger accounted for, every name reminded or accounted for, last threshold reached | two calls, two certificates under one label, on the token together or one after the other, two thresholds, one mishap of each kind; the clock stops at 3 with one certificate in its last day (end at 5, days of two units) and one expired by a day (end at 1) |
| `certs_renewed` | *violation*: a certificate whose predecessor was reminded of under its label never is | one call, one replacement, no other mishap; the predecessor alone is on the token at first |
| `migrate` | version backed by schema, served with schema, version climbs by one, lock prevents races, opening ends | both databases, an old and a new release, migrations of two, one and two statements, two deaths, one dropped connection |
| `migrate_crash` | *violation*: a start after a crash is refused | SQLite, one process, one death |
| `trace` | thread order kept, nothing doubled, gaps only at the end, all there unless a write failed; leaks of sessions and operations exact, blame deserved | two threads, two handles, nine functions, two processes, failed writes, five calls: initialize, open, log in, start an operation and one more, or some of them in each process |
| `fleet` | a token in a file is served, what was pushed is stored once, gauges agree with the last report, shared keys with the latest scans | two agents with names of their own, one of them with two tokens in its slots, two requests at once, three reports, two enrolments, one failure of any kind |
| `answers`: `KeyUsage` | usage counted where found, names right, idle exactly the unused | two sessions, two keys of different names, six events: a second search and its use after a first |
| `answers`: `ScanReport` | score of all, gate sees the worst, only the mildest fall out, verdict of all | up to five own findings (the fifth moves to an array of eight, with room for both sources), two extra of each kind, three of the five severities including one without penalty |
| `answers`: `KmipScan` | the report is of one time for each object | two identifiers, three kinds of objects, two changes during the scan, four sets of versions, four rules that combine all conditions |
| `answers`: `Decisions` | findings as documented, evidence and scan agree, bills complete and closed, no contradictions, drift is the difference, ready unless obstructed | eight objects that share labels, ids and keys or do not, in all lists of up to two and all sets of three; four times around the ends of validities; six lists of packs with 20 rules over nearly all conditions; pairs of snapshots with up to three indistinguishable objects; every combination of preflight's inputs with limits of 0, 2 and unavailable |
| `answers`: `SignIn` | requests served by what the provider granted | two tabs, three logins, one restart, two ticks: an ID token is valid for two and a flow cookie for one |
| `answers`: `Webhook` | received no more often than tried, tried three times at most, given up only then or when no request can be built | two events, three attempts, one restart, a URL that serves or does not, chosen at every start |
| `report_vendor` | *violation*: a finding falls out of the report | three own findings, one of the vendor |

**Fairness.** Safety runs need none. `CallsReturn`, `Ends`, `ExpiryReminded`,
`OpenEnds` and `DriftIsChecked` use weak fairness of the steps a goroutine can
take by itself (the Go scheduler runs every goroutine that can run). Strong
fairness is used for `Client.mu`, because a `sync.Mutex` in starvation mode is
handed to the longest waiter, for `pg_advisory_lock`, whose requests PostgreSQL
queues, and for scans of each HSM, which requests, agents and the schedule repeat.
Time passes (`WF(Tick)`) up to its bound.

Nobody's answer is assumed of the mail server, for the client sets no deadline. In
`ScanHistory` the steps that wait for it have no fairness, which is what
`mail_hangs` turns on. In `CertNotify` a call may hang (`Hang`), and `Step` is fair
for those that do not. Hangs are bounded, by fewer than there are activations:
`ExpiryReminded` is about a server that answers again, and if it never does every
activation ends up hanging and no reminder is sent. Nothing is assumed of crashes,
faults, callers or mishaps either, which may happen or not within their bounds.

## 4. Proofs

Eight modules hold proofs. Every theorem is for all values of the constants under
the named assumptions of its module (`ReportsAssumption`, `BoundsAssumption`,
`SessionsAssumption`, `LimitsAssumption`, `CertsAssumption`, `MigrationAssumption`,
`FlightRecorderAssumption`, `FleetAssumption`, `KeyUsageAssumption`,
`ReportAssumption`, `SignInAssumption`, `WebhookAssumption`, `KmipAssumption`,
of `Decisions` `InventoriesAssumption`, `ObjectsAssumption`, `RulesAssumption`,
`QuestionsAssumption`, `SnapshotsAssumption`,
and of `Probes` `StoredAssumption`, `ProgramsAssumption`,
`NamesAssumption`); one theorem, `LeaksAreExact`, has hypotheses of its own, which are
part of what it says. Each follows the same
line: an inductive invariant is shown of `Init`, kept by every action (one lemma
per action or group), and implies the property. Those invariants were checked by
TLC on the instances of section 3 before they were proved. Where a component keeps no
state (`Decisions`) the work is in the lemmas about the loops of an answer, and the
invariants found for the loops take the place of the inductive one.

**`StoreProofs`, scan history** (`IInv`, `MissInv`): `TypeCorrect`,
`EventsAreTruthful`, `OneEvent`, `AlertsAreBacked`, together `HistoryIsSound`;
`ImplementsLog`; `NothingIsOverlooked`; `EventsAreConsecutive`. The three
invariants are not inductive, for they say nothing of calls in flight. `CallInv`
adds what a call knows: `prev` is a row of its HSM, `new` is its own row, younger,
no other call has it, no event of a kind exists before the comparison, and one
exists once the alert is about to start. Refinement is then a case split:
`InsertScan` maps to `Record`, an inserted event to `Announce`, all else stutters.
`MissInv` says of every pair of a scan and its predecessor that is worth an event
that the event exists, that a call is still to compare the two, or that `missed`
has it; and of every event and every comparison to come that its older scan is
the latest before the newer, unless `missed` has that.

**`StoreProofs`, migration** (`MigrationIInv`, `ClimbInv`, `LockInv`):
`MigrationTypeCorrect`, `VersionIsBacked`, `ServesOnItsSchema`, together
`ServesWhatIsMigrated`; `VersionClimbsByOne`; `LockServes`. A process in the
middle of a migration has everything below it and what its statements have made
so far (`Progress`), whoever else races. The version climbs one by one even where
no lock is held (SQLite, a dropped connection): the first `CREATE` of a migration
succeeds for one process only and only while no version that contains it is
recorded, so whoever makes a migration makes the next one, alone (`ClimbInv`).
With the lock undisturbed its holder alone is between lock and unlock, works from
the recorded version and leaves nothing half made (`LockInv`).

**`ClientProofs`, token sessions**: `TypeCorrect`, `HoldersStayLoggedIn`, `CountIsExact`,
`LastCloseLogsOut`, together `LoginIsKept`. The lock is held exactly in the places
that need it (`MutexInv`); between login and count the token is logged in and at
the logout nobody relies on it (`StageInv`).

**`ClientProofs`, KMIP**: `KmipReportIsOfItsTime` (`KmipIInv`). What has been read and
what is still to be read are what was located, and whatever was read of an object is
something it has been since (`Ongoing`), so others cannot make the report untrue. The
loop over the objects and, within it, that over the rules enter each rule that matches
an object once, for identifiers of objects and rules differ; sorting neither drops nor
doubles one (`OnceSame`: as long a list of the same findings has each once).

**`TokenWorkProofs`, probes**: `TypeCorrect`, `EverythingAccounted`,
`InventoryIsExact`, for any programs of steps, not only those of the code. What a
session holds is split without overlap into the list to destroy, the secrets and
what is left (`Books`). A scan has listed an object of the token exactly if its
class was enumerated and its handle is not waiting (`ScanInv`), and no request
touches those objects (`TokenKept`).

**`TokenWorkProofs`, benchmark**: `BenchTypeCorrect`, `LoadIsBounded`,
`NothingLost`, together `BudgetIsExact`; `OpsAreInside`. Conservation: issued
operations and the budget that is left make up the limit; those issued are done,
under way or failed, at most once per worker. A worker takes operations only
behind a stamp that is set, and no reading is ahead of the clock (`StampInv`).

**`ServerProofs`, reminders**: `TypeCorrect`, `NeverMailedTwice`, `LedgerIsAccounted`,
together `RemindersAreAccounted`; `EveryNameIsReminded`. A reminder under way has
its row, one sender and no mail yet (`SenderInv`), and every mail has its row
(`MailInv`). What a scan found due waits in a loop, was skipped on a mishap or has
a row (`DueInv`), and every row is a reminder mailed, lost or under way. That row may
be another certificate's: the theorem holds for any certificates and replacements
because it claims a reminder for the name. The claim for each certificate is false
(run `certs_renewed`) and is not proved under an assumption about names.

**`ServerProofs`, webhook and sign-in**: `DeliveredAsAttempted` (`HookInv`): what the
receiver handled of an event and what is still under way are no more than the attempts
that left. `ServedByTheProvidersWord` (`SignInInv`): logins are numbered apart, so the
token a session came from is the only one issued for its login; the flow cookie is that
of the login begun last.

**`FlightRecorderProofs`, the shim and `Analyze`**: `TypeCorrect`, `NumbersAreUnique`,
`ThreadsReadInOrder`, `FailuresCutTheEnd`, `TraceIsComplete`, together
`TraceIsFaithful`, all with failed writes and with processes that append to the file of
earlier ones. The counter of a process accounts for what is written and what is stamped
and not yet written (`Accounted`), and each thread's stamped event is beyond all it has
written in this process. What cuts a trace cuts it at the end: unless a write has
failed, the event before the one a thread is in is in the file (`NextInTrace`), and each
number given is in the file or stamped (`NumbersKept`); once one has failed, nothing
follows. The next two are about traces of one process, for which the analyzer is made:
`LoneThreadsAreBlamedRightly`: whoever has a session opened it with an earlier
call, so a login in the file's future is that of a thread that is in the file
already, and a call that needed it is not the call of a lone thread (`BlameInv`).
`LeaksAreExact`: what `checkSessionLeaks` and `checkOperationPairs` have in their
maps after the file, and would have after the calls under way, is what the
application left open; calls on one session are those of one thread, so their
order in the file is that of the calls (`LeakInv`). It is about modules that give
no handle out again and applications that keep to the functions the shim records:
with a reused handle a leak is hidden, and `C_Digest` is not recorded, so a
finished digest counts as a leak. Section 5 names both.

**`FlightRecorderProofs`, the keys of a trace**: `UsageToldExactly` (`UsageIInv`): what
`KeyUsageOf` holds after each event, namely the name a session last asked for, the names
tied to handles, whose the operations are, is what the definitions of `LocatedByName`
and `LastAsked` say of the events themselves.

**`FleetProofs`**: `TokensServe`, `PushedStored`, `GaugesAreOfOneScan`,
`SharedKeysAreCurrent`. An agent and the request it waits for know of each other
(`Waiting`, `Serving`), an agent that enrols has no token in its file, and an
answer that brings it one brings the one stored for its name (`Brings`). For
`PushedIsStored` reports are told apart by the clock: an identity is in one list of
one agent, in one request or in one row, and a request that has passed its insert
without an error has its row (`PushInv`). Unless another report of the token was on
its way, the one being handled is the one that came last and the gauges are its,
those not yet set excepted (`GaugeInv`). Unless a recount is stale, one is under way
at most and has read the latest scan of every HSM it is through with (`RecountInv`).

**`AnswersProofs`, the report of a scan**: `ScoreCountsAll`, `GateSeesTheWorst`,
`OnlyTheMildAreLost`, `VerdictCountsAll` (`ReportInv`). After every append the result's
slice is a list sorted by severity with as many findings of every severity as were
added. The report's slice is the front of an array it may share with the result: then it
reads the front of that sorted list, otherwise the rules' findings. Both have at least
as severe a finding in every place as `own` would, hence the gate, the doctor's verdict
and `SevereKept`. The case that needs care is a scan whose rules find nothing: the gate
is right only because the array behind an empty slice has no room to share.

**`AnswersProofs`, the commands**, for any inventories, rule files, packs and times:

* `ScanFindsWhatIsDocumented`. `ScanOfRules` is what the loop of `Evaluate` leaves: the
  findings of each rule are those `evalRule` made, in its order, and the whole is
  sorted. That takes the stability of the sort (`PickedSorted`: among findings of one
  severity an inserted one comes last) and that `Load` and `Merge` let no two rules have
  one id (`LoadedUsable`, `MergedUsable`), without which findings of two rules could not
  be told apart. The tables of `buildFacts` mean what docs/rules.md says of pairs of
  objects (`LabelsShared`, `OrphansAlone`, `MismatchesSeen`), condition by condition
  (`ConditionsMeanWhatIsSaid`).
* `EvidenceAndScanAgree`. What is found for a rule depends on the rule and the inventory
  and not on the other rules it was evaluated with (`ScanOfOne`), so a control of a pack
  is in line with the scan of all packs (`InLine`); what is found is applicable
  (`FoundIsApplicable`), so no control fails where its rule is about nothing.
* `BillIsComplete` follows the two passes of `CBOM` with `BillUpTo`: after k keys and l
  certificates every entry is an algorithm or stems from one of those objects, with a
  number below the length of the bill; no algorithm is entered twice; every reference
  leads into the bill (`Sound`), and so does the table of fingerprints, whose domain is
  that of the keys passed (`Leads`). The number that stands in for a missing name
  is at most five times that of the objects, for each adds three entries at most in one
  pass and two in the other; `Distinct` quantifies over as many.
  The certificates' entries are counted off against the objects one by one (`Paired`).
* `AnswersAgree`. The first to name an algorithm in the pass over the keys marks it by
  what it is (`Weighed`), and the pass over the certificates, which marks
  signatures by a table of its own, cannot change that (`Marked`): hence the bill marks what `Assess` counts
  as classical (`BillMarksClassical`). It does so only because `collect.go:23` gives
  elliptic curves one name, which `ObjectsAssumption` states: of a key called `ECDSA` the
  two would disagree. The monitor and the rules agree on every certificate
  (`StandingAgrees`), although each keeps a table of fingerprints of its own.
* `DriftIsTheDifference`, for any two snapshots that list their objects
  (`SnapshotsAssumption`): reversing a list keeps how many objects it has of a key and
  which one, if there is one (`ReversedIsAlike`), and a drift depends on nothing else
  of a list (`AlikeDrift`); it is symmetric, and empty from a list to itself.
* `ReadyExactlyIfUnobstructed`, for any set of questions whose numbers are unsigned
  words (`QuestionsAssumption`): a session count above the limit never reaches the
  unsigned subtraction of `SessionCapacity`, which would wrap.

One statement turned out to be false while it was being proved. `CountedWhereFound`
of `KeyUsage`, in an earlier form, followed a key by any search that had returned it.
It fails after seven events: a search for name *a* that finds *k* and is finished, the
same again, then a refused search for *b* whose name the next handles get, so that *k*,
found once more, is *b*'s from then on (`keys.go:120`). The run's bound of six events
never got there; `LocatedByName` now says which searches count.

Loops over lists are folds in the models. The library's induction theorems take an
operator, which the provers cannot instantiate; `ListTheorems` gets induction from
`WFMin` for a property given as a set of numbers, and from it the one unfolding of
`FoldLeft` that the proofs about `KeyUsageOf`, `BySeverity`, the maps of
`checkSessionLeaks`, the rules of KMIP, `FlattenSeq` and the two passes of `CBOM` go by.
What a Go loop collects is `Picked(list, S)` there, the entries of a list that are in a
set, with lemmas for one more entry, for lists joined and for lists sorted. The model
changed for this where it loses nothing: `BySeverity` is a fold of insertions,
`KmipFindings` one fold within another, `ScoreBy` a sum over the five severities, and
`Drift` knows the objects of a key by their places in the list.

`ObjectsAssumption` says what `inventory.Collect` and `parseCert` can produce: every
object has a class, flags are flags, times are times and an elliptic curve is called EC.
TLC evaluates it, and all others, on the inventories of the run.

Only model-checked: liveness (`CallsReturn`, `Ends`, `ExpiryReminded`,
`OpenEnds`), for fairness and `ENABLED` are outside the prover's reach. Every invariant,
action property and refinement that a passing run checks is a theorem. The runs that
expect a violation refute what they check.

## 5. Noticed divergences

Shown by a run: the four violations of section 3 (findings in PROJECT.json).
The one with the widest effect is `report_vendor`: with three findings of the
rules and one of the vendor, the report lists the vendor's finding twice and
drops the mildest of the rules; counts per severity, drift of findings and
metrics are taken from that list.

Seen while modelling, and kept out of the runs:

* The wait of `mail_hangs` is also that of the certificates' mails, which persistScan
  sends before it stores the scan: a mail server that hangs keeps scans from being
  stored (`history.go:219`).
* A scan that overlaps a test or a benchmark of the same process lists the
  test's keys ("functional tests use ephemeral session objects that leave no
  trace", README.md:25); the next scan then reports them as removed, though
  drift is "every added or removed object" of consecutive scans
  (README.md:119-120). An object destroyed between enumeration and reading is
  listed without label or attributes (`collect.go:110`). `InventoryExact` says
  what remains true then.
* The first secret of a key encapsulation is destroyed only with the second:
  if `C_DecapsulateKey` fails it stays until the session closes (`pqc/test.go:149`).
* Two overlapping scans of one HSM may both be compared with the same
  predecessor, and the event of one then skips a scan.
* The rate of a benchmark includes set-up of workers slower than the first,
  against `bench.go:109`.
* A reminder whose mail failed stays in the ledger as sent (`store.go:119`);
  `DaysLeft` of a certificate expired for less than a day is 0, not negative
  (`certmon.go:32`).
* A dropped connection frees the advisory lock in the middle of a migration
  (`postgres.go:118`).
* After any `C_CloseAllSessions` no session leak is reported (`analyze.go:129`);
  a finished digest counts as a leak, since `C_Digest` is not recorded
  (`analyze.go:159`); a reused handle can hide a leak; calls before a
  `C_Initialize` that does come are not reported (`analyze.go:93`); of two
  threads, one may be blamed for calling before a login it followed; times are
  taken at the end of calls, not "call start" (`event.go:22`). A file that several
  processes appended to is read as one run: numbers occur twice, and a session left
  open by one process may seem closed by another's handle (`main.go:43`). A write
  that failed leaves no mark in the trace (`main.go:97`), and one that was cut short
  leaves a torn line, at which `Read` gives up the whole file (`event.go:83`).
* Key usage: a key found in one session and used in another counts as idle
  (`keys.go:138`); refused operations count as use; a failed search gives its
  name to the next handle (`keys.go:120`).
* Ingestion and agents: `handleIngestReport` answers `{"stored": true}` although
  the store has failed (`ingest.go:115`); an agent that enrols under a name in
  use rotates the token of the other, and an enrolment the client had given up
  may be carried out late, after which the agent is refused for ever
  (`ingest.go:64`); the first report that is refused drops the rest of the round
  (`cli/agent.go:181`).
* Gauges: a token seen locally and by an agent counts as two HSMs with one series
  of gauges; a report that arrives late sets them back; the days to expiry keep
  their value when the last certificate goes (`metrics.go:155`); shared keys are
  0 after a restart until the next scan.
* Certificates: at the very end of its validity a certificate is expired for the
  monitor (`certmon.go:70`) and matches neither `cert_expired` nor
  `cert_expires_within_days`.
* Rules: `mechanism_any_of` "cannot be combined with object conditions"
  (docs/rules.md), but `Load` accepts both and ignores the latter; that an
  attribute which is not exposed matches neither value does not hold of
  `orphan`, `duplicate_label` and `cert_key_mismatch`; evidence counts a rule
  about certificates that names no class as passed on a token without any.
* Bill of materials: references collide for keys of one class and id and for equal
  serial numbers; the key algorithm of an Ed25519 certificate is not marked
  as broken, its signature is (`cbom.go:331`); `HarvestNowDecryptLater` leaves out
  the EC keys to derive with that PQCM-005 reports.
* KMIP: `weakKey` passes over DES keys without a length; `Load` accepts a file
  without rules; the text report never prints findings of severity info.
* Preflight: mechanisms that cannot be listed only warn.
* Sign-in: a viewer's session takes precedence over an administrator's bearer
  token; the answer of one login clears the flow cookie of a newer one, and may
  sign in after a log-out.
* Webhook deliveries are lost at a restart, doubled when an answer is lost, and may
  overtake each other; with a URL no request can be built from, each is given up at the
  first attempt (`webhook.go:104`).

## 6. Not modelled

Text, HTML and SARIF rendering, TTLV, JSON and YAML coding, DER parsing, TLS,
SMTP dialogue, flags and wiring of the command line, tables of names, the
appliances' own interfaces, read-only listings: input and output without a
protocol between activities. The numbers of a benchmark and the verdicts of test
steps. Comparison of firmware versions: which advisories match is an input of
`ScanReport`. Wrong PINs accepted while logged in (`session.go:46`), races in
loading the real module (`shim.c:29`), processes that write one trace at the same time,
lines torn by a short write, the in-place sort of shared thresholds by
concurrent calls (`notifier.go:132`, a data race of Go) and the C memory model.
In preflight, limits of sessions beyond the range of int and a `CK_ULONG` of 32
bits. The components table of PROJECT.json says so for every part.

## 7. Plan

What is left, in this order:

1. The refinements that are implicit: `Webhook` and `CertNotify` as implementations of
   an "at most so often" log.
2. A composition of `Fleet` with `ScanHistory`'s steps after the insert, and with
   `Webhook`, instead of the reduced `InsertScan`.
3. Advisories' version comparison, and the functional tests' verdicts, as
   operators.
