----------------------------- MODULE FlightRecorder -----------------------------
(***************************************************************************)
(* The Flight Recorder shim (shim/shim.c, shim/main.go) between the threads *)
(* of an application and its PKCS#11 module.  A call takes effect in the    *)
(* module, is given a sequence number, and is written to the trace: three   *)
(* steps, and other threads may come between any two of them.  The write    *)
(* may fail, the process may end at any point, and the next one appends to  *)
(* the same file.  TraceChecks then tells what the trace says of the run.   *)
(*                                                                          *)
(* The module is the environment: a session is used by the thread that      *)
(* opened it, and a handle may be given out again after its session closed. *)
(***************************************************************************)
EXTENDS TraceChecks, Integers, FiniteSets

CONSTANTS Threads,
          Handles,        \* session handles of the module
          Functions,      \* what the application calls
          ReuseHandles,   \* the module gives out the handle of a closed session again
          NoSession,      \* the event carries no session
          MaxCalls,       \* bound: calls of the application
          MaxRuns         \* bound: processes that append to the file, one after another

ASSUME FlightRecorderAssumption ==
    /\ IsFiniteSet(Threads) /\ Threads # {}
    /\ MaxCalls \in Nat /\ MaxRuns \in Nat \ {0} /\ NoSession \notin Handles
    /\ ReuseHandles \in BOOLEAN

VARIABLES
    initialized, loggedin,  \* the module
    sessions,               \* its open sessions
    active,                 \* operations started and not ended: <<session, init>>
    given,                  \* handles it has given out so far
    mine,                   \* the sessions each thread opened and did not close
    unclosed,               \* sessions never closed by a call
    dangling,               \* operations whose terminating call never came
    early,                  \* calls that needed a login before there was one
    at, event,              \* where each thread is in the shim, with what event
    seq, file,              \* the shim's counter, and the trace
    broken,                 \* the writer has failed: its error stays
    run,                    \* the process, counted from 1
    made,                   \* recorded calls of each thread of the process
    calls                   \* calls of all processes

token == <<initialized, loggedin, sessions, active, given, unclosed, dangling>>
vars == <<token, mine, early, at, event, seq, file, broken, run, made, calls>>

Inits == DOMAIN operationPairs \cap Functions
NoEvent(t) == [fn |-> "none", session |-> NoSession, rv |-> "CKR_OK", seq |-> 0,
               call |-> 0, run |-> 0, nth |-> 0, thread |-> t]

Errors == {"CKR_CRYPTOKI_NOT_INITIALIZED", "CKR_CRYPTOKI_ALREADY_INITIALIZED",
           "CKR_SESSION_HANDLE_INVALID", "CKR_OPERATION_ACTIVE",
           "CKR_OPERATION_NOT_INITIALIZED", "CKR_USER_NOT_LOGGED_IN",
           "CKR_KEY_HANDLE_INVALID", "CKR_USER_ALREADY_LOGGED_IN", "CKR_PIN_INCORRECT"}

\* seq is what the shim writes; call, run and nth (of the thread in its process) say
\* which call it was.
Event == [fn : Functions \cup {"none"}, session : Handles \cup {NoSession},
          rv : Errors \cup {"CKR_OK"}, seq : 0..MaxCalls, call : 0..MaxCalls,
          run : 0..MaxRuns, nth : 0..MaxCalls, thread : Threads]

TypeOK ==
    /\ initialized \in BOOLEAN /\ loggedin \in BOOLEAN
    /\ sessions \subseteq Handles /\ given \subseteq Handles
    /\ unclosed \subseteq Handles
    /\ active \subseteq Handles \X Inits /\ dangling \subseteq Handles \X Inits
    /\ mine \in [Threads -> SUBSET Handles]
    /\ early \subseteq 1..MaxCalls
    /\ at \in [Threads -> {"idle", "called", "stamped"}]
    /\ event \in [Threads -> Event]
    /\ seq \in 0..MaxCalls /\ calls \in 0..MaxCalls
    /\ file \in Seq(Event)
    /\ broken \in BOOLEAN /\ run \in 1..MaxRuns
    /\ made \in [Threads -> 0..MaxCalls]

Init ==
    /\ initialized = ("C_Initialize" \notin Functions)
    /\ loggedin = FALSE
    /\ sessions = {} /\ active = {} /\ given = {}
    /\ mine = [t \in Threads |-> {}]
    /\ unclosed = {} /\ dangling = {} /\ early = {}
    /\ at = [t \in Threads |-> "idle"]
    /\ event = [t \in Threads |-> NoEvent(t)]
    /\ made = [t \in Threads |-> 0]
    /\ seq = 0 /\ file = <<>> /\ calls = 0 /\ broken = FALSE /\ run = 1

--------------------------------------------------------------------------------
\* A thread calls fn: what the module does is up to the action, the result goes
\* into the event of the trampoline.  A function without a trampoline leaves none.
Calls(t, fn, s, rv) ==
    /\ at[t] = "idle" /\ fn \in Functions
    /\ calls < MaxCalls /\ calls' = calls + 1
    /\ IF fn \in RecordableFunctions
       THEN /\ at' = [at EXCEPT ![t] = "called"]
            /\ made' = [made EXCEPT ![t] = @ + 1]
            /\ event' = [event EXCEPT ![t] =
                 [fn |-> fn, session |-> s, rv |-> rv, seq |-> 0, call |-> calls + 1,
                  run |-> run, nth |-> made[t] + 1, thread |-> t]]
       ELSE UNCHANGED <<at, event, made>>
    /\ early' = IF fn \in loginRequiring /\ ~loggedin THEN early \cup {calls + 1} ELSE early
    /\ UNCHANGED <<seq, file, broken, run>>

C_Initialize(t) ==
    /\ Calls(t, "C_Initialize", NoSession,
             IF initialized THEN "CKR_CRYPTOKI_ALREADY_INITIALIZED" ELSE "CKR_OK")
    /\ initialized' = TRUE
    /\ UNCHANGED <<loggedin, sessions, active, given, unclosed, dangling, mine>>

\* The module is unloaded: its sessions end, though no call has closed them.
C_Finalize(t) ==
    /\ Calls(t, "C_Finalize", NoSession, IF initialized THEN "CKR_OK" ELSE "CKR_CRYPTOKI_NOT_INITIALIZED")
    /\ initialized' = FALSE /\ loggedin' = FALSE
    /\ sessions' = {} /\ active' = {}
    /\ UNCHANGED <<given, unclosed, dangling, mine>>

Fresh == Handles \ (IF ReuseHandles THEN sessions ELSE given)

C_OpenSession(t) ==
    \/ /\ initialized
       /\ \E h \in Fresh :
            /\ Calls(t, "C_OpenSession", h, "CKR_OK")
            /\ sessions' = sessions \cup {h} /\ given' = given \cup {h}
            /\ unclosed' = unclosed \cup {h}
            /\ mine' = [mine EXCEPT ![t] = @ \cup {h}]
       /\ UNCHANGED <<initialized, loggedin, active, dangling>>
    \/ /\ ~initialized
       /\ Calls(t, "C_OpenSession", NoSession, "CKR_CRYPTOKI_NOT_INITIALIZED")
       /\ UNCHANGED <<token, mine>>

\* Closing a session ends its operations; the token logs out with its last session.
C_CloseSession(t) == \E h \in mine[t] :
    /\ Calls(t, "C_CloseSession", h,
             CASE ~initialized -> "CKR_CRYPTOKI_NOT_INITIALIZED"
               [] h \notin sessions -> "CKR_SESSION_HANDLE_INVALID"
               [] OTHER -> "CKR_OK")
    /\ sessions' = sessions \ {h}
    /\ unclosed' = unclosed \ {h}
    /\ active' = {o \in active : o[1] # h}
    /\ loggedin' = (loggedin /\ sessions' # {})
    /\ mine' = [mine EXCEPT ![t] = @ \ {h}]
    /\ UNCHANGED <<initialized, given, dangling>>

C_CloseAllSessions(t) ==
    /\ initialized
    /\ Calls(t, "C_CloseAllSessions", NoSession, "CKR_OK")
    /\ sessions' = {} /\ unclosed' = {} /\ active' = {} /\ loggedin' = FALSE
    /\ mine' = [u \in Threads |-> {}]
    /\ UNCHANGED <<initialized, given, dangling>>

C_Login(t) == \E h \in mine[t] \cap sessions :
    /\ \/ /\ ~loggedin /\ Calls(t, "C_Login", h, "CKR_OK")
          /\ loggedin' = TRUE
       \/ /\ Calls(t, "C_Login", h, IF loggedin THEN "CKR_USER_ALREADY_LOGGED_IN" ELSE "CKR_PIN_INCORRECT")
          /\ UNCHANGED loggedin
    /\ UNCHANGED <<initialized, sessions, active, given, unclosed, dangling, mine>>

C_Logout(t) == \E h \in mine[t] \cap sessions :
    /\ Calls(t, "C_Logout", h, IF loggedin THEN "CKR_OK" ELSE "CKR_USER_NOT_LOGGED_IN")
    /\ loggedin' = FALSE
    /\ UNCHANGED <<initialized, sessions, active, given, unclosed, dangling, mine>>

\* What a session answers to the start of an operation.  Without a login a private
\* key is refused or not even found; a public one serves.
StartResults(h, init) ==
    IF h \notin sessions THEN {"CKR_SESSION_HANDLE_INVALID"}
    ELSE IF <<h, init>> \in active THEN {"CKR_OPERATION_ACTIVE"}
    ELSE IF loggedin \/ init \notin loginRequiring THEN {"CKR_OK"}
    ELSE {"CKR_OK", "CKR_USER_NOT_LOGGED_IN", "CKR_KEY_HANDLE_INVALID"}

StartOperation(t) == \E h \in mine[t], init \in Inits, rv \in {"CKR_OK"} \cup Errors :
    /\ rv \in StartResults(h, init)
    /\ Calls(t, init, h, rv)
    /\ IF rv = "CKR_OK"
       THEN active' = active \cup {<<h, init>>} /\ dangling' = dangling \cup {<<h, init>>}
       ELSE UNCHANGED <<active, dangling>>
    /\ UNCHANGED <<initialized, loggedin, sessions, given, unclosed, mine>>

\* C_Sign and its like, with the output at once: the operation is over.
EndOperation(t) == \E h \in mine[t], init \in Inits :
    \E fn \in operationPairs[init] :
        /\ Calls(t, fn, h, CASE h \notin sessions -> "CKR_SESSION_HANDLE_INVALID"
                             [] <<h, init>> \in active -> "CKR_OK"
                             [] OTHER -> "CKR_OPERATION_NOT_INITIALIZED")
        /\ active' = active \ {<<h, init>>}
        /\ dangling' = dangling \ {<<h, init>>}
        /\ UNCHANGED <<initialized, loggedin, sessions, given, unclosed, mine>>

Call(t) ==
    \/ C_Initialize(t) \/ C_Finalize(t)
    \/ C_OpenSession(t) \/ C_CloseSession(t) \/ C_CloseAllSessions(t)
    \/ C_Login(t) \/ C_Logout(t)
    \/ StartOperation(t) \/ EndOperation(t)
--------------------------------------------------------------------------------
\* goEmit takes the next number (and the time) when the call is over.
Stamp(t) ==
    /\ at[t] = "called"
    /\ seq' = seq + 1
    /\ event' = [event EXCEPT ![t].seq = seq']
    /\ at' = [at EXCEPT ![t] = "stamped"]
    /\ UNCHANGED <<token, mine, early, file, broken, run, made, calls>>

\* Mutant: the counter is read again when the event is encoded.
WriteLoads(t) ==
    /\ at[t] = "stamped"
    /\ \/ ~broken /\ file' = Append(file, [event[t] EXCEPT !.seq = seq]) /\ UNCHANGED broken
       \/ broken' = TRUE /\ UNCHANGED file
    /\ at' = [at EXCEPT ![t] = "idle"]
    /\ UNCHANGED <<token, mine, early, event, seq, run, made, calls>>

\* Under writerMu the event is encoded and flushed; the call returns.  When the write
\* fails nobody is told, and the buffer keeps its error: nothing is written any more.
\* (So it is, for the file, when it could not be opened and stderr takes the trace.)
Write(t) ==
    /\ at[t] = "stamped"
    /\ \/ ~broken /\ file' = Append(file, event[t]) /\ UNCHANGED broken
       \/ broken' = TRUE /\ UNCHANGED file
    /\ at' = [at EXCEPT ![t] = "idle"]
    /\ UNCHANGED <<token, mine, early, event, seq, run, made, calls>>

\* The process ends, in whatever calls its threads are, and another starts: all but the
\* file begins anew, the counter too.
Restart ==
    /\ run < MaxRuns /\ run' = run + 1
    /\ initialized' = ("C_Initialize" \notin Functions) /\ loggedin' = FALSE
    /\ sessions' = {} /\ active' = {} /\ given' = {} /\ unclosed' = {} /\ dangling' = {}
    /\ mine' = [t \in Threads |-> {}]
    /\ at' = [t \in Threads |-> "idle"]
    /\ event' = [t \in Threads |-> NoEvent(t)]
    /\ made' = [t \in Threads |-> 0]
    /\ seq' = 0 /\ broken' = FALSE /\ early' = {}
    /\ UNCHANGED <<file, calls>>

Next == Restart \/ \E t \in Threads : Call(t) \/ Stamp(t) \/ Write(t)

Spec == Init /\ [][Next]_vars
--------------------------------------------------------------------------------
Quiet == \A t \in Threads : at[t] = "idle"
InFile(seqs) == {file[i] : i \in {j \in DOMAIN file : file[j].seq \in seqs}}

\* A process gives a sequence number once.
SeqsUnique == \A i, j \in DOMAIN file :
    file[i].run = file[j].run /\ file[i].seq = file[j].seq => i = j

\* The events of a thread are written in the order of its calls, with numbers that rise
\* within a process: whatever is used by one thread at a time reads in its true order.
ThreadOrderKept ==
    \A i, j \in DOMAIN file :
        i < j /\ file[i].thread = file[j].thread =>
            /\ file[i].call < file[j].call
            /\ file[i].run = file[j].run => file[i].seq < file[j].seq

\* What a failed write or the end of the process takes from the trace of a thread is its
\* end: of each event the one before is there, too.
NoGaps ==
    \A j \in DOMAIN file : file[j].nth > 1 =>
        \E i \in 1..(j - 1) : /\ file[i].run = file[j].run /\ file[i].thread = file[j].thread
                             /\ file[i].nth = file[j].nth - 1

\* Between calls, and as long as no write failed, every number the process has given is
\* that of one event of its own.
NothingLost ==
    /\ SeqsUnique
    /\ Quiet /\ ~broken =>
          \A n \in 1..seq : \E i \in DOMAIN file : file[i].run = run /\ file[i].seq = n

\* However the threads, the failures and the restarts fall, the file tells of each
\* thread what it called from its first call on, in order, and nothing twice.
TraceFaithful == ThreadOrderKept /\ NoGaps /\ NothingLost

\* A trace that holds one process only, from its beginning (the analyzer takes a file
\* for one run: it knows neither where a process starts nor whose handle it reads).
OneRun == run = 1

\* When the application stands still and has never closed all sessions at once,
\* exactly the sessions nobody closed are reported as leaks.  (With a call of
\* C_CloseAllSessions in the trace none is, whatever was opened since.)
ClosedAll == \E i \in DOMAIN file : file[i].fn = "C_CloseAllSessions"
SessionLeaksExact ==
    Quiet /\ ~ClosedAll =>
        {e.session : e \in InFile(checkSessionLeaks(file))} = unclosed

\* Exactly the operations whose terminating call never came are reported ("never
\* followed by their terminating call on the same session").
OperationLeaksExact ==
    Quiet => {<<e.session, e.fn>> : e \in InFile(checkOperationPairs(file))} = dangling

\* What the trace of one process is said to leak is what the application did leak, as
\* long as every event could be written.
LeaksExact == OneRun /\ ~broken => SessionLeaksExact /\ OperationLeaksExact

\* In a trace of one thread of one process no call is blamed for a missing login when the
\* token was logged in, though the end of the trace be lost.  (Of two threads, one may
\* write a call before the C_Login it followed.)
OneThread == \A i, j \in DOMAIN file : file[i].thread = file[j].thread
BlamedRightly ==
    OneRun /\ OneThread => \A e \in InFile(checkLoginOrdering(file)) :
        e.call \in early \/ e.rv = "CKR_USER_NOT_LOGGED_IN"
================================================================================
