-------------------------- MODULE FlightRecorderProofs --------------------------
(***************************************************************************)
(* FlightRecorder for any number of threads, sessions, calls and processes, *)
(* failed writes included: the trace keeps the order of each thread's       *)
(* calls, numbers each event of a process once, and loses only what comes   *)
(* last; what the analyzer says of the trace of one process, of calls       *)
(* without a login and of leaks, is what the application did.               *)
(*                                                                          *)
(* KeyUsage, for any keys, names and sessions: UsageIInv says of what       *)
(* KeyUsageOf holds which events of the trace made it so, and with it the   *)
(* usage told of each name is that of its keys.                             *)
(***************************************************************************)
EXTENDS FlightRecorder, KeyUsage, ListTheorems, SequenceTheorems, FiniteSetTheorems, TLAPS

USE FlightRecorderAssumption

Places == {"idle", "called", "stamped"}
ThreadsAt(place) == {t \in Threads : at[t] = place}

\* Every call that will get a number has been counted.
Accounted ==
    /\ seq + Cardinality(ThreadsAt("called")) <= calls
    /\ \A t \in Threads : made[t] <= calls

\* The trace of this process has the n-th call of t; has number n.
HasCall(t, n) == \E i \in DOMAIN file :
    file[i].run = run /\ file[i].thread = t /\ file[i].nth = n
HasNumber(n) == \E i \in DOMAIN file : file[i].run = run /\ file[i].seq = n

\* What a thread is about to write comes after what it has written.
Pending(t) ==
    /\ at[t] # "idle" => event[t].thread = t /\ event[t].run = run
    /\ at[t] # "idle" => \A i \in DOMAIN file :
                            file[i].thread = t => file[i].call < event[t].call
    /\ at[t] = "stamped" => \A i \in DOMAIN file : file[i].run = run =>
                            /\ file[i].seq # event[t].seq
                            /\ file[i].thread = t => file[i].seq < event[t].seq
    /\ at[t] = "stamped" => event[t].seq <= seq
    /\ at[t] # "idle" => event[t].call <= calls

\* It is the next of what it has written, as long as the writer serves.
NextInTrace(t) ==
    /\ at[t] # "idle" => event[t].nth = made[t]
    /\ at[t] # "idle" /\ ~broken /\ made[t] > 1 => HasCall(t, made[t] - 1)
    /\ at[t] = "idle" /\ ~broken /\ made[t] > 0 => HasCall(t, made[t])

\* A number is in the trace or with a thread about to write it, as long as the writer
\* serves.
NumbersKept == ~broken => \A n \in 1..seq :
    HasNumber(n) \/ \E t \in Threads : at[t] = "stamped" /\ event[t].seq = n

PairwiseDistinct ==
    \A t, u \in Threads :
        at[t] = "stamped" /\ at[u] = "stamped" /\ t # u => event[t].seq # event[u].seq

Bounded == \A i \in DOMAIN file :
    /\ file[i].run \in 1..run /\ file[i].call <= calls
    /\ file[i].run = run => file[i].seq <= seq

IInv ==
    /\ TypeOK /\ Accounted /\ PairwiseDistinct /\ Bounded
    /\ \A t \in Threads : Pending(t)
    /\ SeqsUnique /\ ThreadOrderKept
    /\ \A t \in Threads : NextInTrace(t)
    /\ NumbersKept /\ NoGaps

\* The set of threads at a place is finite, and a step of one of them changes its
\* size by one.
LEMMA AtFinite == \A place : IsFiniteSet(ThreadsAt(place)) /\ Cardinality(ThreadsAt(place)) \in Nat
  <1> TAKE place
  <1>1. ThreadsAt(place) \subseteq Threads
    BY DEF ThreadsAt
  <1>2. IsFiniteSet(ThreadsAt(place))
    BY <1>1, FS_Subset
  <1>3. QED
    BY <1>2, FS_CardinalityType

LEMMA Enter ==
    ASSUME NEW t \in Threads, NEW from, NEW to, from # to, at \in [Threads -> Places],
           at[t] = from, at' = [at EXCEPT ![t] = to]
    PROVE  /\ Cardinality(ThreadsAt(to)') = Cardinality(ThreadsAt(to)) + 1
           /\ Cardinality(ThreadsAt(from)') = Cardinality(ThreadsAt(from)) - 1
  <1>1. ThreadsAt(to)' = ThreadsAt(to) \cup {t} /\ t \notin ThreadsAt(to)
    BY DEF ThreadsAt
  <1>2. ThreadsAt(from)' = ThreadsAt(from) \ {t} /\ t \in ThreadsAt(from)
    BY DEF ThreadsAt
  <1>3. IsFiniteSet(ThreadsAt(to)) /\ IsFiniteSet(ThreadsAt(from))
    BY AtFinite
  <1>4. Cardinality(ThreadsAt(to)') = Cardinality(ThreadsAt(to)) + 1
    BY <1>1, <1>3, FS_AddElement
  <1>5. Cardinality(ThreadsAt(from)') = Cardinality(ThreadsAt(from)) - 1
    BY <1>2, <1>3, FS_RemoveElement
  <1>6. QED
    BY <1>4, <1>5

\* What the invariant says of the values.
LEMMA Values ==
    ASSUME IInv
    PROVE  /\ seq \in Nat /\ calls \in 0..MaxCalls /\ run \in 1..MaxRuns /\ broken \in BOOLEAN
           /\ at \in [Threads -> Places] /\ event \in [Threads -> Event]
           /\ made \in [Threads -> Nat] /\ \A p \in Threads : made[p] <= calls
           /\ file \in Seq(Event) /\ Len(file) \in Nat /\ DOMAIN file = 1..Len(file)
           /\ \A p \in Threads : event[p].seq \in Nat /\ event[p].call \in Nat
                                 /\ event[p].nth \in Nat /\ event[p].run \in Nat
           /\ \A i \in DOMAIN file : file[i] \in Event /\ file[i].seq \in Nat /\ file[i].call \in Nat
                                     /\ file[i].nth \in Nat /\ file[i].run \in Nat
  <1>1. TypeOK /\ Accounted
    BY DEF IInv
  <1>2. /\ seq \in Nat /\ calls \in 0..MaxCalls /\ run \in 1..MaxRuns /\ broken \in BOOLEAN
        /\ at \in [Threads -> Places] /\ event \in [Threads -> Event]
        /\ made \in [Threads -> Nat] /\ file \in Seq(Event)
    BY <1>1 DEF TypeOK, Places
  <1>3. \A e \in Event : e.seq \in Nat /\ e.call \in Nat /\ e.nth \in Nat /\ e.run \in Nat
    BY DEF Event
  <1>4. \A p \in Threads : event[p] \in Event
    BY <1>2
  <1>5. Len(file) \in Nat /\ DOMAIN file = 1..Len(file) /\ \A i \in DOMAIN file : file[i] \in Event
    BY <1>2
  <1>6. QED
    BY <1>1, <1>2, <1>3, <1>4, <1>5 DEF Accounted

\* Whatever the application calls, the shim's part of the step is that of Calls.
Session == Handles \cup {NoSession}
Result == Errors \cup {"CKR_OK"}
Traced(t) == \E fn \in Functions, s \in Session, rv \in Result : Calls(t, fn, s, rv)

LEMMA TracedBy ==
    ASSUME NEW t \in Threads, NEW fn, NEW s \in Session, NEW rv \in Result, Calls(t, fn, s, rv)
    PROVE  Traced(t)
  <1>1. fn \in Functions
    BY DEF Calls
  <1>2. QED
    BY <1>1 DEF Traced

LEMMA CallIsCalls ==
    ASSUME TypeOK, NEW t \in Threads, Call(t)
    PROVE  Traced(t)
  <1>b. NoSession \in Session /\ mine[t] \subseteq Session
    BY DEF TypeOK, Session
  <1>c. {"CKR_OK", "CKR_CRYPTOKI_ALREADY_INITIALIZED", "CKR_CRYPTOKI_NOT_INITIALIZED",
         "CKR_SESSION_HANDLE_INVALID", "CKR_USER_ALREADY_LOGGED_IN", "CKR_PIN_INCORRECT",
         "CKR_USER_NOT_LOGGED_IN", "CKR_OPERATION_NOT_INITIALIZED"} \subseteq Result
    BY DEF Result, Errors
  <1>1. CASE C_Initialize(t)
    <2>1. PICK rv \in Result : Calls(t, "C_Initialize", NoSession, rv)
      BY <1>1, <1>b, <1>c DEF C_Initialize
    <2>2. QED
      BY <2>1, <1>b, TracedBy
  <1>2. CASE C_Finalize(t)
    <2>1. PICK rv \in Result : Calls(t, "C_Finalize", NoSession, rv)
      BY <1>2, <1>b, <1>c DEF C_Finalize
    <2>2. QED
      BY <2>1, <1>b, TracedBy
  <1>3. CASE C_OpenSession(t)
    <2>1. PICK s \in Session, rv \in Result : Calls(t, "C_OpenSession", s, rv)
      BY <1>3, <1>b, <1>c DEF C_OpenSession, Fresh, Session
    <2>2. QED
      BY <2>1, TracedBy
  <1>4. CASE C_CloseSession(t)
    <2>1. PICK s \in Session, rv \in Result : Calls(t, "C_CloseSession", s, rv)
      BY <1>4, <1>b, <1>c DEF C_CloseSession
    <2>2. QED
      BY <2>1, TracedBy
  <1>5. CASE C_CloseAllSessions(t)
    <2>1. PICK s \in Session, rv \in Result : Calls(t, "C_CloseAllSessions", s, rv)
      BY <1>5, <1>b, <1>c DEF C_CloseAllSessions
    <2>2. QED
      BY <2>1, TracedBy
  <1>6. CASE C_Login(t)
    <2>1. PICK s \in Session, rv \in Result : Calls(t, "C_Login", s, rv)
      BY <1>6, <1>b, <1>c DEF C_Login
    <2>2. QED
      BY <2>1, TracedBy
  <1>7. CASE C_Logout(t)
    <2>1. PICK s \in Session, rv \in Result : Calls(t, "C_Logout", s, rv)
      BY <1>7, <1>b, <1>c DEF C_Logout
    <2>2. QED
      BY <2>1, TracedBy
  <1>8. CASE StartOperation(t)
    <2>1. PICK init \in Inits, s \in Session, rv \in Result : Calls(t, init, s, rv)
      BY <1>8, <1>b, <1>c DEF StartOperation, Result
    <2>2. QED
      BY <2>1, TracedBy
  <1>9. CASE EndOperation(t)
    <2>1. PICK s \in Session, init \in Inits :
              \E fn \in operationPairs[init] : \E rv \in Result : Calls(t, fn, s, rv)
      BY <1>9, <1>b, <1>c DEF EndOperation
    <2>2. QED
      BY <2>1, TracedBy
  <1>10. QED
    BY <1>1, <1>2, <1>3, <1>4, <1>5, <1>6, <1>7, <1>8, <1>9 DEF Call

\* The module's state keeps its types.
TokenTypeOK ==
    /\ initialized \in BOOLEAN /\ loggedin \in BOOLEAN
    /\ sessions \subseteq Handles /\ given \subseteq Handles /\ unclosed \subseteq Handles
    /\ active \subseteq Handles \X Inits /\ dangling \subseteq Handles \X Inits
    /\ mine \in [Threads -> SUBSET Handles]

ShimTypeOK ==
    /\ early \subseteq 1..MaxCalls
    /\ at \in [Threads -> {"idle", "called", "stamped"}]
    /\ event \in [Threads -> Event]
    /\ seq \in 0..MaxCalls /\ calls \in 0..MaxCalls
    /\ file \in Seq(Event)
    /\ broken \in BOOLEAN /\ run \in 1..MaxRuns
    /\ made \in [Threads -> 0..MaxCalls]

LEMMA TypeSplit == TypeOK <=> TokenTypeOK /\ ShimTypeOK
  BY DEF TypeOK, TokenTypeOK, ShimTypeOK

LEMMA TokenTypeStep ==
    ASSUME TokenTypeOK, NEW t \in Threads, Call(t)
    PROVE  TokenTypeOK'
  <1> USE DEF TokenTypeOK
  <1>1. CASE C_Initialize(t)
    BY <1>1 DEF C_Initialize
  <1>2. CASE C_Finalize(t)
    BY <1>2 DEF C_Finalize
  <1>3. CASE C_OpenSession(t)
    BY <1>3 DEF C_OpenSession, Fresh, token
  <1>4. CASE C_CloseSession(t)
    <2>1. PICK h \in mine[t] :
            /\ sessions' = sessions \ {h} /\ unclosed' = unclosed \ {h}
            /\ active' = {o \in active : o[1] # h}
            /\ loggedin' = (loggedin /\ sessions' # {})
            /\ mine' = [mine EXCEPT ![t] = @ \ {h}]
            /\ UNCHANGED <<initialized, given, dangling>>
      BY <1>4 DEF C_CloseSession
    <2>2. QED
      BY <2>1
  <1>5. CASE C_CloseAllSessions(t)
    BY <1>5 DEF C_CloseAllSessions
  <1>6. CASE C_Login(t)
    BY <1>6 DEF C_Login
  <1>7. CASE C_Logout(t)
    BY <1>7 DEF C_Logout
  <1>8. CASE StartOperation(t)
    <2>1. PICK h \in mine[t], init \in Inits :
            /\ \/ /\ active' = active \cup {<<h, init>>}
                  /\ dangling' = dangling \cup {<<h, init>>}
               \/ UNCHANGED <<active, dangling>>
            /\ UNCHANGED <<initialized, loggedin, sessions, given, unclosed, mine>>
      BY <1>8 DEF StartOperation
    <2>2. <<h, init>> \in Handles \X Inits
      OBVIOUS
    <2>3. QED
      BY <2>1, <2>2
  <1>9. CASE EndOperation(t)
    BY <1>9 DEF EndOperation
  <1>10. QED
    BY <1>1, <1>2, <1>3, <1>4, <1>5, <1>6, <1>7, <1>8, <1>9 DEF Call

\* What a call changes in the shim: nothing, or the thread's event.
LEMMA CallEffect ==
    ASSUME IInv, NEW t \in Threads, Call(t)
    PROVE  /\ at[t] = "idle"
           /\ calls < MaxCalls /\ calls' = calls + 1
           /\ seq' = seq /\ file' = file /\ broken' = broken /\ run' = run
           /\ early' \subseteq early \cup {calls + 1}
           /\ \/ at' = at /\ event' = event /\ made' = made
              \/ /\ at' = [at EXCEPT ![t] = "called"]
                 /\ made' = [made EXCEPT ![t] = made[t] + 1]
                 /\ \E e \in Event : /\ event' = [event EXCEPT ![t] = e]
                                    /\ e.call = calls + 1 /\ e.thread = t
                                    /\ e.run = run /\ e.nth = made[t] + 1
  <1>1. PICK fn \in Functions, s \in Session, rv \in Result : Calls(t, fn, s, rv)
    BY CallIsCalls DEF Traced, IInv
  <1> DEFINE e == [fn |-> fn, session |-> s, rv |-> rv, seq |-> 0, call |-> calls + 1,
                   run |-> run, nth |-> made[t] + 1, thread |-> t]
  <1>2. calls < MaxCalls /\ calls \in 0..MaxCalls
    BY <1>1, Values DEF Calls
  <1>3. e \in Event
    <2>1. calls + 1 \in 0..MaxCalls /\ 0 \in 0..MaxCalls /\ run \in 0..MaxRuns
      BY <1>2, Values
    <2>2. made[t] + 1 \in 0..MaxCalls
      BY <1>2, Values
    <2>3. QED
      BY <2>1, <2>2 DEF Event, Session, Result
  <1>4. e.call = calls + 1 /\ e.thread = t /\ e.run = run /\ e.nth = made[t] + 1
    OBVIOUS
  <1>5. \/ at' = at /\ event' = event /\ made' = made
        \/ /\ at' = [at EXCEPT ![t] = "called"] /\ made' = [made EXCEPT ![t] = made[t] + 1]
           /\ event' = [event EXCEPT ![t] = e]
    BY <1>1 DEF Calls
  <1>6. /\ at[t] = "idle" /\ calls' = calls + 1 /\ seq' = seq /\ file' = file
        /\ broken' = broken /\ run' = run /\ early' \subseteq early \cup {calls + 1}
    BY <1>1 DEF Calls
  <1> HIDE DEF e
  <1>7. QED
    BY <1>2, <1>3, <1>4, <1>5, <1>6

LEMMA StampEffect ==
    ASSUME IInv, NEW t \in Threads, Stamp(t)
    PROVE  /\ at[t] = "called"
           /\ seq' = seq + 1 /\ seq' \in 0..MaxCalls
           /\ event'[t] \in Event /\ event'[t].seq = seq'
           /\ event'[t].call = event[t].call /\ event'[t].thread = event[t].thread
           /\ event'[t].run = event[t].run /\ event'[t].nth = event[t].nth
           /\ \A u \in Threads : u # t => event'[u] = event[u]
           /\ event' \in [Threads -> Event]
           /\ file' = file /\ calls' = calls /\ broken' = broken /\ run' = run /\ made' = made
           /\ at'[t] = "stamped" /\ \A u \in Threads : u # t => at'[u] = at[u]
  <1>0. /\ event[t] \in Event /\ event \in [Threads -> Event] /\ seq \in Nat /\ calls \in 0..MaxCalls
        /\ at \in [Threads -> Places]
    BY Values
  <1>1. /\ at[t] = "called" /\ seq' = seq + 1 /\ at' = [at EXCEPT ![t] = "stamped"]
        /\ file' = file /\ calls' = calls /\ broken' = broken /\ run' = run /\ made' = made
    BY DEF Stamp
  <1>2. Cardinality(ThreadsAt("called")) >= 1
    <2>1. ThreadsAt("called") # {}
      BY <1>1 DEF ThreadsAt
    <2>2. IsFiniteSet(ThreadsAt("called")) /\ Cardinality(ThreadsAt("called")) \in Nat
      BY AtFinite
    <2>3. Cardinality(ThreadsAt("called")) # 0
      BY <2>1, <2>2, FS_EmptySet
    <2>4. QED
      BY <2>2, <2>3
  <1>3. seq + Cardinality(ThreadsAt("called")) <= calls /\ Cardinality(ThreadsAt("called")) \in Nat
    BY AtFinite DEF IInv, Accounted
  <1>4. seq' \in 0..MaxCalls
    BY <1>0, <1>1, <1>2, <1>3
  <1>5. event' = [event EXCEPT ![t] = [event[t] EXCEPT !.seq = seq']]
    BY DEF Stamp
  <1>6. [event[t] EXCEPT !.seq = seq'] \in Event
    BY <1>0, <1>4 DEF Event
  <1>7. event'[t] = [event[t] EXCEPT !.seq = seq']
    BY <1>0, <1>5
  <1>8. /\ event'[t].seq = seq' /\ event'[t].call = event[t].call /\ event'[t].thread = event[t].thread
        /\ event'[t].run = event[t].run /\ event'[t].nth = event[t].nth
    BY <1>0, <1>7 DEF Event
  <1>9. event' \in [Threads -> Event] /\ \A u \in Threads : u # t => event'[u] = event[u]
    BY <1>0, <1>5, <1>6
  <1>a. at'[t] = "stamped" /\ \A u \in Threads : u # t => at'[u] = at[u]
    BY <1>0, <1>1
  <1>10. QED
    BY <1>1, <1>4, <1>6, <1>7, <1>8, <1>9, <1>a

\* A write adds the event to the file, or fails and leaves the file for good.
EventWritten(t) ==
    /\ ~broken /\ broken' = broken
    /\ file' \in Seq(Event) /\ file'[Len(file) + 1] = event[t]
    /\ \A i \in DOMAIN file : i \in DOMAIN file' /\ file'[i] = file[i]
    /\ DOMAIN file' = DOMAIN file \cup {Len(file) + 1}

LEMMA WriteEffect ==
    ASSUME IInv, NEW t \in Threads, Write(t)
    PROVE  /\ at[t] = "stamped" /\ at'[t] = "idle" /\ \A u \in Threads : u # t => at'[u] = at[u]
           /\ event' = event /\ seq' = seq /\ calls' = calls /\ run' = run /\ made' = made
           /\ at' = [at EXCEPT ![t] = "idle"]
           /\ EventWritten(t) \/ (broken' = TRUE /\ file' = file)
  <1>1. file \in Seq(Event) /\ event[t] \in Event /\ at \in [Threads -> Places]
    BY Values
  <1>2. /\ at[t] = "stamped" /\ at' = [at EXCEPT ![t] = "idle"]
        /\ event' = event /\ seq' = seq /\ calls' = calls /\ run' = run /\ made' = made
    BY DEF Write
  <1>3. CASE ~broken /\ file' = Append(file, event[t]) /\ broken' = broken
    <2>1. EventWritten(t)
      BY <1>1, <1>3 DEF EventWritten
    <2> QED BY <1>1, <1>2, <2>1
  <1>4. CASE broken' = TRUE /\ file' = file
    BY <1>1, <1>2, <1>4
  <1> QED BY <1>3, <1>4 DEF Write

\* The next process: only the file is left.
LEMMA RestartEffect ==
    ASSUME IInv, Restart
    PROVE  /\ run' = run + 1 /\ run' \in 1..MaxRuns /\ file' = file /\ calls' = calls /\ seq' = 0
           /\ broken' = FALSE
           /\ \A t \in Threads : at'[t] = "idle" /\ made'[t] = 0
           /\ \A i \in DOMAIN file : file[i].run < run'
  <1>1. /\ run < MaxRuns /\ run' = run + 1 /\ file' = file /\ calls' = calls /\ seq' = 0 /\ broken' = FALSE
        /\ \A t \in Threads : at'[t] = "idle" /\ made'[t] = 0
    BY DEF Restart
  <1>2. \A i \in DOMAIN file : file[i].run \in 1..run
    BY DEF IInv, Bounded
  <1>3. run \in 1..MaxRuns
    BY Values
  <1> QED BY <1>1, <1>2, <1>3

LEMMA TypeStep == IInv /\ [Next]_vars => TypeOK'
  <1> SUFFICES ASSUME IInv, [Next]_vars PROVE TypeOK'
    OBVIOUS
  <1>0. TypeOK /\ TokenTypeOK /\ ShimTypeOK
    BY TypeSplit DEF IInv
  <1>1. CASE UNCHANGED vars
    BY <1>0, <1>1 DEF vars, token, TypeOK
  <1>2. ASSUME NEW t \in Threads, Call(t) PROVE TypeOK'
    <2>1. TokenTypeOK'
      BY <1>0, <1>2, TokenTypeStep
    <2>2. calls' \in 0..MaxCalls /\ early' \subseteq 1..MaxCalls
      <3>1. /\ calls \in 0..MaxCalls /\ calls < MaxCalls /\ calls' = calls + 1
            /\ early \subseteq 1..MaxCalls /\ early' \subseteq early \cup {calls + 1}
        BY <1>0, <1>2, CallEffect DEF ShimTypeOK
      <3>2. calls + 1 \in 1..MaxCalls
        BY <3>1
      <3>3. QED
        BY <3>1, <3>2
    <2>3. seq' \in 0..MaxCalls /\ file' \in Seq(Event) /\ broken' \in BOOLEAN /\ run' \in 1..MaxRuns
      BY <1>0, <1>2, CallEffect DEF ShimTypeOK
    <2>4. at' \in [Threads -> {"idle", "called", "stamped"}] /\ event' \in [Threads -> Event]
      <3>1. at \in [Threads -> {"idle", "called", "stamped"}] /\ event \in [Threads -> Event]
        BY <1>0 DEF ShimTypeOK
      <3>2. CASE at' = at /\ event' = event
        BY <3>1, <3>2
      <3>3. CASE /\ at' = [at EXCEPT ![t] = "called"]
                 /\ \E e \in Event : event' = [event EXCEPT ![t] = e]
        BY <3>1, <3>3
      <3> QED BY <1>2, <3>2, <3>3, CallEffect
    <2>6. made' \in [Threads -> 0..MaxCalls]
      <3>1. made[t] + 1 \in 0..MaxCalls /\ made \in [Threads -> 0..MaxCalls]
        BY <1>0, <1>2, CallEffect, Values DEF ShimTypeOK
      <3> QED BY <1>2, <3>1, CallEffect
    <2>5. QED
      BY <2>1, <2>2, <2>3, <2>4, <2>6 DEF TypeOK, TokenTypeOK
  <1>3. ASSUME NEW t \in Threads, Stamp(t) PROVE TypeOK'
    <2>1. seq' \in 0..MaxCalls /\ event' \in [Threads -> Event]
      BY <1>3, StampEffect
    <2>2. at' \in [Threads -> {"idle", "called", "stamped"}]
      BY <1>0, <1>3 DEF Stamp, ShimTypeOK
    <2>3. QED
      BY <1>0, <1>3, <2>1, <2>2 DEF Stamp, token, TypeOK
  <1>4. ASSUME NEW t \in Threads, Write(t) PROVE TypeOK'
    <2>1. file' \in Seq(Event) /\ broken' \in BOOLEAN
      BY <1>0, <1>4, WriteEffect DEF EventWritten, ShimTypeOK
    <2>2. at' \in [Threads -> {"idle", "called", "stamped"}]
      BY <1>0, <1>4 DEF Write, ShimTypeOK
    <2>3. QED
      BY <1>0, <1>4, <2>1, <2>2 DEF Write, token, TypeOK
  <1>6. CASE Restart
    <2>1. \A t \in Threads : NoEvent(t) \in Event
      BY DEF NoEvent, Event
    <2>2. event' \in [Threads -> Event] /\ at' \in [Threads -> {"idle", "called", "stamped"}]
      BY <1>6, <2>1 DEF Restart
    <2>3. made' \in [Threads -> 0..MaxCalls] /\ run' \in 1..MaxRuns
      <3>1. made' = [t \in Threads |-> 0] /\ 0 \in 0..MaxCalls
        BY <1>6 DEF Restart
      <3> QED BY <1>6, <3>1, RestartEffect
    <2>4. TokenTypeOK'
      BY <1>6 DEF Restart, TokenTypeOK
    <2>5. ShimTypeOK'
      BY <1>0, <1>6, <2>2, <2>3 DEF Restart, ShimTypeOK
    <2> QED BY <2>4, <2>5, TypeSplit DEF TypeOK, TokenTypeOK, ShimTypeOK
  <1>5. QED
    BY <1>1, <1>2, <1>3, <1>4, <1>6 DEF Next

LEMMA AccountedStep == IInv /\ [Next]_vars => Accounted'
  <1> SUFFICES ASSUME IInv, [Next]_vars PROVE Accounted'
    OBVIOUS
  <1>0. /\ at \in [Threads -> Places] /\ seq \in Nat /\ calls \in Nat /\ made \in [Threads -> Nat]
        /\ seq + Cardinality(ThreadsAt("called")) <= calls
        /\ \A u \in Threads : made[u] <= calls
    BY Values DEF IInv, Accounted
  <1>a. Cardinality(ThreadsAt("called")) \in Nat
    BY AtFinite
  <1>1. CASE UNCHANGED vars
    BY <1>0, <1>1 DEF vars, token, Accounted, ThreadsAt
  <1>2. ASSUME NEW t \in Threads, Call(t) PROVE Accounted'
    <2>0. at[t] = "idle" /\ seq' = seq /\ file' = file /\ calls' = calls + 1
      BY <1>2, CallEffect
    <2>1. CASE at' = at /\ made' = made
      <3>1. ThreadsAt("called")' = ThreadsAt("called")
        BY <2>1 DEF ThreadsAt
      <3>2. QED
        BY <1>0, <1>a, <2>0, <2>1, <3>1 DEF Accounted
    <2>2. CASE at' = [at EXCEPT ![t] = "called"] /\ made' = [made EXCEPT ![t] = made[t] + 1]
      <3>1. Cardinality(ThreadsAt("called")') = Cardinality(ThreadsAt("called")) + 1
        BY <1>0, <2>0, <2>2, Enter
      <3>2. \A u \in Threads : made'[u] <= calls + 1
        BY <1>0, <2>2
      <3>3. QED
        BY <1>0, <1>a, <2>0, <3>1, <3>2 DEF Accounted
    <2>3. QED
      BY <1>2, <2>1, <2>2, CallEffect
  <1>3. ASSUME NEW t \in Threads, Stamp(t) PROVE Accounted'
    <2>1. /\ at[t] = "called" /\ at' = [at EXCEPT ![t] = "stamped"]
          /\ seq' = seq + 1 /\ calls' = calls /\ made' = made
      BY <1>3 DEF Stamp
    <2>2. Cardinality(ThreadsAt("called")') = Cardinality(ThreadsAt("called")) - 1
      BY <1>0, <2>1, Enter
    <2>3. QED
      BY <1>0, <1>a, <2>1, <2>2 DEF Accounted
  <1>4. ASSUME NEW t \in Threads, Write(t) PROVE Accounted'
    <2>1. /\ at[t] = "stamped" /\ at' = [at EXCEPT ![t] = "idle"]
          /\ seq' = seq /\ calls' = calls /\ made' = made
      BY <1>4 DEF Write
    <2>4. ThreadsAt("called")' = ThreadsAt("called")
      BY <1>0, <2>1 DEF ThreadsAt
    <2>5. QED
      BY <1>0, <1>a, <2>1, <2>4 DEF Accounted
  <1>6. CASE Restart
    <2>1. seq' = 0 /\ calls' = calls /\ \A t \in Threads : at'[t] = "idle" /\ made'[t] = 0
      BY <1>6, RestartEffect
    <2>2. ThreadsAt("called")' = {}
      BY <2>1 DEF ThreadsAt
    <2>3. Cardinality(ThreadsAt("called")') = 0
      BY <2>2, FS_EmptySet
    <2> QED BY <1>0, <2>1, <2>3 DEF Accounted
  <1>5. QED
    BY <1>1, <1>2, <1>3, <1>4, <1>6 DEF Next

LEMMA OrderStep == IInv /\ [Next]_vars =>
    /\ PairwiseDistinct' /\ Bounded' /\ SeqsUnique' /\ ThreadOrderKept'
    /\ \A p \in Threads : Pending(p)'
  <1> DEFINE Goal == /\ PairwiseDistinct' /\ Bounded' /\ SeqsUnique' /\ ThreadOrderKept'
                     /\ \A p \in Threads : Pending(p)'
  <1> SUFFICES ASSUME IInv, [Next]_vars PROVE Goal
    OBVIOUS
  <1>0. /\ PairwiseDistinct /\ Bounded /\ SeqsUnique /\ ThreadOrderKept
        /\ \A p \in Threads : Pending(p)
    BY DEF IInv
  <1>t. /\ \A p \in Threads : event[p].seq \in Nat /\ event[p].call \in Nat
        /\ \A i \in DOMAIN file : file[i].seq \in Nat /\ file[i].call \in Nat /\ file[i].run \in Nat
        /\ seq \in Nat /\ calls \in Nat /\ run \in Nat \ {0}
        /\ at \in [Threads -> Places]
        /\ event \in [Threads -> Event]
    BY Values
  <1>1. CASE UNCHANGED vars
    <2>1. at' = at /\ event' = event /\ seq' = seq /\ file' = file /\ calls' = calls /\ run' = run
      BY <1>1 DEF vars
    <2>2. QED
      BY <1>0, <2>1 DEF PairwiseDistinct, Bounded, SeqsUnique, ThreadOrderKept, Pending
  <1>2. ASSUME NEW t \in Threads, Call(t) PROVE Goal
    <2>1. at[t] = "idle" /\ seq' = seq /\ file' = file /\ calls' = calls + 1 /\ run' = run
      BY <1>2, CallEffect
    <2>a. \A i \in DOMAIN file : /\ file[i].run \in 1..run /\ file[i].call < calls + 1
                                 /\ file[i].run = run => file[i].seq <= seq
      BY <1>0, <1>t DEF Bounded
    <2>b. Bounded'
      BY <1>t, <2>1, <2>a DEF Bounded
    <2>2. Bounded' /\ SeqsUnique' /\ ThreadOrderKept'
      BY <1>0, <2>1, <2>b DEF SeqsUnique, ThreadOrderKept
    <2>3. CASE at' = at /\ event' = event
      <3>1. PairwiseDistinct'
        BY <1>0, <2>3 DEF PairwiseDistinct
      <3>2. ASSUME NEW p \in Threads PROVE Pending(p)'
        BY <1>0, <1>t, <2>1, <2>3 DEF Pending
      <3>3. QED
        BY <2>2, <3>1, <3>2
    <2>4. CASE at' = [at EXCEPT ![t] = "called"]
      <3>1. PICK e \in Event : /\ event' = [event EXCEPT ![t] = e]
                               /\ e.call = calls + 1 /\ e.thread = t /\ e.run = run
        <4>1. at'[t] # at[t]
          BY <1>t, <2>1, <2>4
        <4>2. QED
          BY <1>2, <4>1, CallEffect
      <3>2. /\ at'[t] = "called" /\ event'[t] = e
            /\ \A u \in Threads : u # t => at'[u] = at[u] /\ event'[u] = event[u]
        BY <1>t, <2>4, <3>1
      <3>3. PairwiseDistinct'
        BY <1>0, <3>2 DEF PairwiseDistinct
      <3>4. Pending(t)'
        BY <1>t, <2>1, <2>a, <3>1, <3>2 DEF Pending
      <3>5. ASSUME NEW p \in Threads, p # t PROVE Pending(p)'
        BY <1>0, <1>t, <2>1, <3>2, <3>5 DEF Pending
      <3>6. QED
        BY <2>2, <3>3, <3>4, <3>5
    <2>5. QED
      BY <1>2, <2>3, <2>4, CallEffect
  <1>3. ASSUME NEW t \in Threads, Stamp(t) PROVE Goal
    <2>1. /\ at[t] = "called" /\ seq' = seq + 1
          /\ event'[t].seq = seq' /\ event'[t].call = event[t].call /\ event'[t].thread = event[t].thread
          /\ event'[t].run = event[t].run
          /\ \A u \in Threads : u # t => event'[u] = event[u]
      BY <1>3, StampEffect
    <2>2. /\ file' = file /\ calls' = calls /\ run' = run /\ at'[t] = "stamped"
          /\ \A u \in Threads : u # t => at'[u] = at[u]
      BY <1>3, StampEffect
    <2>3. Bounded' /\ SeqsUnique' /\ ThreadOrderKept'
      BY <1>0, <1>t, <2>1, <2>2 DEF Bounded, SeqsUnique, ThreadOrderKept
    <2>4. ASSUME NEW u \in Threads, u # t, at[u] = "stamped" PROVE event[u].seq # seq'
      BY <1>0, <1>t, <2>1, <2>4 DEF Pending
    <2>5. PairwiseDistinct'
      BY <1>0, <2>1, <2>2, <2>4 DEF PairwiseDistinct
    <2>6. Pending(t)'
      BY <1>0, <1>t, <2>1, <2>2 DEF Pending, Bounded
    <2>7. ASSUME NEW p \in Threads, p # t PROVE Pending(p)'
      BY <1>0, <1>t, <2>1, <2>2, <2>7 DEF Pending
    <2>8. QED
      BY <2>3, <2>5, <2>6, <2>7
  <1>4. ASSUME NEW t \in Threads, Write(t) PROVE Goal
    <2>1. /\ at[t] = "stamped" /\ at'[t] = "idle" /\ \A u \in Threads : u # t => at'[u] = at[u]
          /\ event' = event /\ seq' = seq /\ calls' = calls /\ run' = run
          /\ EventWritten(t) \/ file' = file
      BY <1>4, WriteEffect
    <2>2. PairwiseDistinct'
      BY <1>0, <2>1 DEF PairwiseDistinct
    <2>3. CASE file' = file
      <3>1. Bounded' /\ SeqsUnique' /\ ThreadOrderKept'
        BY <1>0, <2>1, <2>3 DEF Bounded, SeqsUnique, ThreadOrderKept
      <3>2. ASSUME NEW p \in Threads PROVE Pending(p)'
        BY <1>0, <2>1, <2>3 DEF Pending
      <3> QED BY <2>2, <3>1, <3>2
    <2>4. CASE EventWritten(t)
      <3>1. /\ file'[Len(file) + 1] = event[t]
            /\ \A i \in DOMAIN file : file'[i] = file[i]
            /\ DOMAIN file' = DOMAIN file \cup {Len(file) + 1}
        BY <2>4 DEF EventWritten
      <3>d. DOMAIN file = 1..Len(file) /\ Len(file) \in Nat
        BY Values
      <3>3. event[t].thread = t /\ event[t].run = run /\ event[t].seq <= seq /\ event[t].call <= calls
        BY <1>0, <2>1 DEF Pending
      <3>4. /\ \A i \in DOMAIN file : file[i].run = run => file[i].seq # event[t].seq
            /\ \A i \in DOMAIN file : file[i].thread = t => file[i].call < event[t].call
            /\ \A i \in DOMAIN file : file[i].run = run /\ file[i].thread = t =>
                  file[i].seq < event[t].seq
        BY <1>0, <2>1 DEF Pending
      <3>5. Bounded'
        BY <1>0, <1>t, <2>1, <3>1, <3>3 DEF Bounded
      <3>6. SeqsUnique'
        BY <1>0, <3>1, <3>3, <3>4, <3>d DEF SeqsUnique
      <3>7. ThreadOrderKept'
        BY <1>0, <3>1, <3>3, <3>4, <3>d DEF ThreadOrderKept
      <3>8. ASSUME NEW p \in Threads PROVE Pending(p)'
        BY <1>0, <2>1, <3>1, <3>3 DEF Pending, PairwiseDistinct
      <3> QED BY <2>2, <3>5, <3>6, <3>7, <3>8
    <2> QED BY <2>1, <2>3, <2>4
  <1>6. CASE Restart
    <2>1. /\ run' = run + 1 /\ file' = file /\ calls' = calls
          /\ \A p \in Threads : at'[p] = "idle"
          /\ \A i \in DOMAIN file : file[i].run < run'
      BY <1>6, RestartEffect
    <2>2. PairwiseDistinct' /\ \A p \in Threads : Pending(p)'
      BY <2>1 DEF PairwiseDistinct, Pending
    <2>3. SeqsUnique' /\ ThreadOrderKept'
      BY <1>0, <2>1 DEF SeqsUnique, ThreadOrderKept
    <2>4. Bounded'
      BY <1>0, <1>t, <2>1 DEF Bounded
    <2> QED BY <2>2, <2>3, <2>4
  <1>5. QED
    BY <1>1, <1>2, <1>3, <1>4, <1>6 DEF Next

\* The trace of a thread has no gaps: a call is written after the one before it, or not
\* at all.
LEMMA GapStep == IInv /\ [Next]_vars => NoGaps' /\ \A p \in Threads : NextInTrace(p)'
  <1> DEFINE Goal == NoGaps' /\ \A p \in Threads : NextInTrace(p)'
  <1> SUFFICES ASSUME IInv, [Next]_vars PROVE Goal
    OBVIOUS
  <1>0. NoGaps /\ \A p \in Threads : NextInTrace(p) /\ Pending(p)
    BY DEF IInv
  <1>t. /\ made \in [Threads -> Nat] /\ at \in [Threads -> Places] /\ event \in [Threads -> Event]
        /\ broken \in BOOLEAN
    BY Values
  <1>1. CASE UNCHANGED vars
    BY <1>0, <1>1 DEF vars, NoGaps, NextInTrace, HasCall
  <1>2. ASSUME NEW t \in Threads, Call(t) PROVE Goal
    <2>1. at[t] = "idle" /\ file' = file /\ broken' = broken /\ run' = run
      BY <1>2, CallEffect
    <2>2. NoGaps'
      BY <1>0, <2>1 DEF NoGaps
    <2>3. \A p \in Threads : \A n : HasCall(p, n)' <=> HasCall(p, n)
      BY <2>1 DEF HasCall
    <2>4. CASE at' = at /\ event' = event /\ made' = made
      BY <1>0, <2>1, <2>2, <2>3, <2>4 DEF NextInTrace
    <2>5. CASE at' = [at EXCEPT ![t] = "called"] /\ made' = [made EXCEPT ![t] = made[t] + 1]
      <3>1. PICK e \in Event : event' = [event EXCEPT ![t] = e] /\ e.nth = made[t] + 1
        <4>1. at'[t] # at[t]
          BY <1>t, <2>1, <2>5
        <4> QED BY <1>2, <4>1, CallEffect
      <3>2. /\ at'[t] = "called" /\ made'[t] = made[t] + 1 /\ event'[t].nth = made[t] + 1
            /\ \A p \in Threads : p # t => at'[p] = at[p] /\ event'[p] = event[p] /\ made'[p] = made[p]
        BY <1>t, <2>5, <3>1
      <3>3. made'[t] - 1 = made[t] /\ (made'[t] > 1 => made[t] > 0)
        BY <1>t, <3>2
      <3>4. NextInTrace(t)'
        BY <1>0, <2>1, <2>3, <3>2, <3>3 DEF NextInTrace
      <3>5. ASSUME NEW p \in Threads, p # t PROVE NextInTrace(p)'
        BY <1>0, <2>1, <2>3, <3>2, <3>5 DEF NextInTrace
      <3> QED BY <2>2, <3>4, <3>5
    <2> QED BY <1>2, <2>4, <2>5, CallEffect
  <1>3. ASSUME NEW t \in Threads, Stamp(t) PROVE Goal
    <2>1. /\ at[t] = "called" /\ at'[t] = "stamped" /\ event'[t].nth = event[t].nth
          /\ file' = file /\ broken' = broken /\ run' = run /\ made' = made
          /\ \A p \in Threads : p # t => at'[p] = at[p] /\ event'[p] = event[p]
      BY <1>3, StampEffect
    <2>2. NoGaps'
      BY <1>0, <2>1 DEF NoGaps
    <2>3. \A p \in Threads : \A n : HasCall(p, n)' <=> HasCall(p, n)
      BY <2>1 DEF HasCall
    <2>4. NextInTrace(t)'
      BY <1>0, <2>1, <2>3 DEF NextInTrace
    <2>5. ASSUME NEW p \in Threads, p # t PROVE NextInTrace(p)'
      BY <1>0, <2>1, <2>3, <2>5 DEF NextInTrace
    <2> QED BY <2>2, <2>4, <2>5
  <1>4. ASSUME NEW t \in Threads, Write(t) PROVE Goal
    <2>1. /\ at[t] = "stamped" /\ at'[t] = "idle" /\ \A p \in Threads : p # t => at'[p] = at[p]
          /\ event' = event /\ run' = run /\ made' = made
          /\ EventWritten(t) \/ (broken' = TRUE /\ file' = file)
      BY <1>4, WriteEffect
    <2>2. CASE broken' = TRUE /\ file' = file
      <3>1. NoGaps'
        BY <1>0, <2>2 DEF NoGaps
      <3>2. \A p \in Threads : NextInTrace(p)'
        <4> SUFFICES ASSUME NEW p \in Threads PROVE NextInTrace(p)'
          OBVIOUS
        <4>1. at'[p] # "idle" => event'[p].nth = made'[p]
          BY <1>0, <2>1 DEF NextInTrace
        <4> QED BY <2>2, <4>1 DEF NextInTrace
      <3> QED BY <3>1, <3>2
    <2>3. CASE EventWritten(t)
      <3>1. /\ ~broken /\ broken' = broken /\ file'[Len(file) + 1] = event[t]
            /\ \A i \in DOMAIN file : i \in DOMAIN file' /\ file'[i] = file[i]
            /\ DOMAIN file' = DOMAIN file \cup {Len(file) + 1}
        BY <2>3 DEF EventWritten
      <3>d. DOMAIN file = 1..Len(file) /\ Len(file) \in Nat
        BY Values
      <3>2. event[t].thread = t /\ event[t].run = run /\ event[t].nth = made[t]
        BY <1>0, <2>1 DEF NextInTrace, Pending
      <3>3. \A p \in Threads : \A n : HasCall(p, n) => HasCall(p, n)'
        BY <2>1, <3>1 DEF HasCall
      <3>4. HasCall(t, made[t])'
        <4>1. Len(file) + 1 \in DOMAIN file'
          BY <3>1
        <4> QED BY <2>1, <3>1, <3>2, <4>1 DEF HasCall
      <3>5. NextInTrace(t)'
        BY <2>1, <3>4 DEF NextInTrace
      <3>6. ASSUME NEW p \in Threads, p # t PROVE NextInTrace(p)'
        BY <1>0, <2>1, <3>1, <3>3, <3>6 DEF NextInTrace
      <3>7. NoGaps'
        <4> SUFFICES ASSUME NEW j \in DOMAIN file', file'[j].nth > 1
                     PROVE  \E i \in 1..(j - 1) : /\ file'[i].run = file'[j].run
                                                  /\ file'[i].thread = file'[j].thread
                                                  /\ file'[i].nth = file'[j].nth - 1
          BY DEF NoGaps
        <4>1. CASE j \in DOMAIN file
          <5>1. PICK i \in 1..(j - 1) : /\ file[i].run = file[j].run /\ file[i].thread = file[j].thread
                                        /\ file[i].nth = file[j].nth - 1
            BY <1>0, <3>1, <4>1 DEF NoGaps
          <5>2. i \in DOMAIN file
            BY <3>d, <4>1, <5>1
          <5> QED BY <3>1, <4>1, <5>1, <5>2
        <4>2. CASE j = Len(file) + 1
          <5>1. HasCall(t, made[t] - 1)
            BY <1>0, <2>1, <3>1, <3>2, <4>2 DEF NextInTrace
          <5>2. PICK i \in DOMAIN file : /\ file[i].run = run /\ file[i].thread = t
                                         /\ file[i].nth = made[t] - 1
            BY <5>1 DEF HasCall
          <5>3. i \in 1..(j - 1)
            BY <3>d, <4>2, <5>2
          <5> QED BY <3>1, <3>2, <4>2, <5>2, <5>3
        <4> QED BY <3>1, <4>1, <4>2
      <3> QED BY <3>5, <3>6, <3>7
    <2> QED BY <2>1, <2>2, <2>3
  <1>6. CASE Restart
    <2>1. file' = file /\ \A p \in Threads : at'[p] = "idle" /\ made'[p] = 0
      BY <1>6, RestartEffect
    <2>2. NoGaps'
      BY <1>0, <2>1 DEF NoGaps
    <2> QED BY <2>1, <2>2 DEF NextInTrace
  <1>5. QED
    BY <1>1, <1>2, <1>3, <1>4, <1>6 DEF Next

\* No number is lost while the writer serves.
LEMMA NumberStep == IInv /\ [Next]_vars => NumbersKept'
  <1> SUFFICES ASSUME IInv, [Next]_vars, ~broken', NEW n \in 1..seq'
               PROVE  HasNumber(n)' \/ \E t \in Threads : at'[t] = "stamped" /\ event'[t].seq = n
    BY DEF NumbersKept
  <1>t. seq \in Nat /\ at \in [Threads -> Places] /\ event \in [Threads -> Event] /\ broken \in BOOLEAN
    BY Values
  <1>0. ~broken /\ n \in 1..seq => HasNumber(n) \/ \E t \in Threads : at[t] = "stamped" /\ event[t].seq = n
    BY DEF IInv, NumbersKept
  <1>1. CASE UNCHANGED vars
    <2>1. at' = at /\ event' = event /\ seq' = seq /\ file' = file /\ run' = run /\ broken' = broken
      BY <1>1 DEF vars
    <2> QED BY <1>0, <2>1 DEF HasNumber
  <1>2. ASSUME NEW t \in Threads, Call(t)
        PROVE  HasNumber(n)' \/ \E u \in Threads : at'[u] = "stamped" /\ event'[u].seq = n
    <2>1. at[t] = "idle" /\ file' = file /\ broken' = broken /\ run' = run /\ seq' = seq
      BY <1>2, CallEffect
    <2>2. \A u \in Threads : at[u] = "stamped" => at'[u] = at[u] /\ event'[u] = event[u]
      <3>1. CASE at' = at /\ event' = event
        BY <3>1
      <3>2. CASE at' = [at EXCEPT ![t] = "called"] /\ \E e \in Event : event' = [event EXCEPT ![t] = e]
        BY <1>t, <2>1, <3>2
      <3> QED BY <1>2, <3>1, <3>2, CallEffect
    <2>3. HasNumber(n)' <=> HasNumber(n)
      BY <2>1 DEF HasNumber
    <2> QED BY <1>0, <2>1, <2>2, <2>3
  <1>3. ASSUME NEW t \in Threads, Stamp(t)
        PROVE  HasNumber(n)' \/ \E u \in Threads : at'[u] = "stamped" /\ event'[u].seq = n
    <2>1. /\ at[t] = "called" /\ at'[t] = "stamped" /\ seq' = seq + 1 /\ event'[t].seq = seq'
          /\ file' = file /\ broken' = broken /\ run' = run
          /\ \A u \in Threads : u # t => at'[u] = at[u] /\ event'[u] = event[u]
      BY <1>3, StampEffect
    <2>2. HasNumber(n)' <=> HasNumber(n)
      BY <2>1 DEF HasNumber
    <2>3. CASE n = seq'
      BY <2>1, <2>3
    <2>4. CASE n \in 1..seq
      BY <1>0, <2>1, <2>2, <2>4
    <2>5. n = seq' \/ n \in 1..seq
      BY <1>t, <2>1
    <2> QED BY <2>3, <2>4, <2>5
  <1>4. ASSUME NEW t \in Threads, Write(t)
        PROVE  HasNumber(n)' \/ \E u \in Threads : at'[u] = "stamped" /\ event'[u].seq = n
    <2>1. /\ at[t] = "stamped" /\ at'[t] = "idle" /\ \A u \in Threads : u # t => at'[u] = at[u]
          /\ event' = event /\ run' = run /\ seq' = seq /\ EventWritten(t)
      BY <1>4, WriteEffect
    <2>2. /\ ~broken /\ file'[Len(file) + 1] = event[t]
          /\ \A i \in DOMAIN file : i \in DOMAIN file' /\ file'[i] = file[i]
          /\ Len(file) + 1 \in DOMAIN file'
      BY <2>1 DEF EventWritten
    <2>3. HasNumber(n) => HasNumber(n)'
      BY <2>1, <2>2 DEF HasNumber
    <2>4. event[t].run = run
      BY <2>1 DEF IInv, Pending
    <2>5. event[t].seq = n => HasNumber(n)'
      BY <2>1, <2>2, <2>4 DEF HasNumber
    <2> QED BY <1>0, <2>1, <2>2, <2>3, <2>5
  <1>6. CASE Restart
    BY <1>6, RestartEffect
  <1>5. QED
    BY <1>1, <1>2, <1>3, <1>4, <1>6 DEF Next

LEMMA InitIInv == Init => IInv
  <1> SUFFICES ASSUME Init PROVE IInv
    OBVIOUS
  <1> USE DEF Init
  <1>1. \A t \in Threads : NoEvent(t) \in Event
    BY DEF NoEvent, Event
  <1>2. TypeOK
    <2>1. TokenTypeOK
      BY DEF TokenTypeOK
    <2>2. event \in [Threads -> Event] /\ file \in Seq(Event)
      BY <1>1
    <2>3. made \in [Threads -> 0..MaxCalls] /\ run \in 1..MaxRuns /\ 0 \in 0..MaxCalls
      BY FlightRecorderAssumption
    <2>5. ShimTypeOK
      BY <2>2, <2>3 DEF ShimTypeOK
    <2>4. QED
      BY <2>1, <2>5, TypeSplit
  <1>3. Accounted
    <2>1. ThreadsAt("called") = {}
      BY DEF ThreadsAt
    <2>2. Cardinality(ThreadsAt("called")) = 0
      BY <2>1, FS_EmptySet
    <2>3. seq = 0 /\ calls = 0 /\ \A t \in Threads : made[t] = 0
      OBVIOUS
    <2>4. QED
      BY <2>2, <2>3 DEF Accounted
  <1>4. PairwiseDistinct /\ Bounded /\ SeqsUnique /\ ThreadOrderKept /\ \A t \in Threads : Pending(t)
    BY DEF PairwiseDistinct, Bounded, SeqsUnique, ThreadOrderKept, Pending
  <1>6. NoGaps /\ NumbersKept /\ \A t \in Threads : NextInTrace(t)
    BY DEF NoGaps, NumbersKept, NextInTrace
  <1>5. QED
    BY <1>2, <1>3, <1>4, <1>6 DEF IInv

LEMMA SpecIInv == Spec => []IInv
  <1>1. IInv /\ [Next]_vars => IInv'
    BY TypeStep, AccountedStep, OrderStep, GapStep, NumberStep DEF IInv
  <1>2. QED
    BY InitIInv, <1>1, PTL DEF Spec

\* Type correctness; the counter of the shim never runs ahead of the calls.
THEOREM TypeCorrect == Spec => []TypeOK
  <1>1. IInv => TypeOK
    BY DEF IInv
  <1>2. QED
    BY SpecIInv, <1>1, PTL

\* No two events of a process carry one number, however many threads call at once.
THEOREM NumbersAreUnique == Spec => []SeqsUnique
  <1>1. IInv => SeqsUnique
    BY DEF IInv
  <1>2. QED
    BY SpecIInv, <1>1, PTL

\* The trace keeps each thread's calls in their order, which is what the analyzer
\* relies on when it reads the events of a session one after the other.
THEOREM ThreadsReadInOrder == Spec => []ThreadOrderKept
  <1>1. IInv => ThreadOrderKept
    BY DEF IInv
  <1>2. QED
    BY SpecIInv, <1>1, PTL

\* Whatever write fails and wherever a process ends, of each of its threads the trace
\* has the calls from the first to some last one (main.go: the error of Write is
\* dropped, and the file of an earlier process is appended to).
THEOREM FailuresCutTheEnd == Spec => []NoGaps
  <1>1. IInv => NoGaps
    BY DEF IInv
  <1>2. QED
    BY SpecIInv, <1>1, PTL

\* No event is doubled, and when no call is under way and no write of the process has
\* failed, the trace has every number it gave, also in a file others wrote before.
THEOREM TraceIsComplete == Spec => []NothingLost
  <1>1. IInv => NothingLost
    <2> SUFFICES ASSUME IInv, Quiet, ~broken, NEW n \in 1..seq PROVE HasNumber(n)
      BY DEF NothingLost, IInv, HasNumber
    <2>1. HasNumber(n) \/ \E t \in Threads : at[t] = "stamped"
      BY DEF IInv, NumbersKept
    <2>2. QED
      BY <2>1 DEF Quiet
  <1>2. QED
    BY SpecIInv, <1>1, PTL

\* However threads, failed writes and restarts fall, the trace tells of each thread what
\* it called from its first call on, in order, and nothing twice.
THEOREM TraceIsFaithful == Spec => []TraceFaithful
  <1> QED BY ThreadsReadInOrder, FailuresCutTheEnd, TraceIsComplete, PTL DEF TraceFaithful

--------------------------------------------------------------------------------
(* Calls without a login.                                                   *)

\* A thread has written an event; a login that succeeded is in the file; an event that
\* would be blamed, had there been no login.
Written(t) == \E i \in DOMAIN file : file[i].thread = t
LoginWritten == \E i \in DOMAIN file : file[i].fn = "C_Login" /\ OK(file[i])
Unexcused(e) == e.fn \in loginRequiring /\ OK(e) /\ e.call \notin early

\* Who has a session has opened it, with a call that came before any other on it: a
\* login is that of a thread that is in the file already.  So a call that needed the
\* login and was written before it is not alone in the file.
LoginsTold ==
    /\ \A t \in Threads : mine[t] # {} => Written(t) \/ at[t] # "idle"
    /\ \A t \in Threads : at[t] # "idle" /\ event[t].fn = "C_Login" => Written(t)
    /\ loggedin => \/ LoginWritten
                   \/ \E t \in Threads : at[t] # "idle" /\ event[t].fn = "C_Login" /\ OK(event[t])
    /\ \A t \in Threads : at[t] # "idle" /\ Unexcused(event[t]) =>
          LoginWritten \/ \E u \in Threads \ {t} : Written(u)

\* What the file says already, a failed write does not change.
BlamedInFile == \A j \in DOMAIN file : Unexcused(file[j]) => loggedIn(file, j) \/ ~OneThread
BlameInv == OneRun => (~broken => LoginsTold) /\ BlamedInFile

\* In the file of the first process a number names one event.
LEMMA OneProcess ==
    ASSUME IInv, OneRun, NEW i \in DOMAIN file, NEW j \in DOMAIN file, file[i].seq = file[j].seq
    PROVE  i = j
  <1>1. file[i].run = 1 /\ file[j].run = 1
    BY DEF IInv, Bounded, OneRun
  <1> QED BY <1>1 DEF IInv, SeqsUnique

LEMMA CallRecords ==
    ASSUME TypeOK, NEW t \in Threads, NEW fn, NEW s, NEW rv, Calls(t, fn, s, rv)
    PROVE  /\ at[t] = "idle" /\ early \subseteq early' /\ file' = file
           /\ run' = run /\ broken' = broken
           /\ fn \in RecordableFunctions <=> at'[t] # "idle"
           /\ at'[t] # "idle" => /\ event'[t].fn = fn /\ event'[t].rv = rv
                                 /\ event'[t].session = s
                                 /\ event'[t].call = calls + 1 /\ event'[t].thread = t
           /\ fn \in loginRequiring /\ ~loggedin => calls + 1 \in early'
           /\ \A u \in Threads \ {t} : at'[u] = at[u] /\ event'[u] = event[u]
  <1>1. at \in [Threads -> Places] /\ event \in [Threads -> Event] /\ at[t] = "idle"
    BY DEF TypeOK, Places, Calls
  <1>2. /\ file' = file /\ run' = run /\ broken' = broken
        /\ early' = IF fn \in loginRequiring /\ ~loggedin THEN early \cup {calls + 1} ELSE early
    BY DEF Calls
  <1>3. CASE fn \in RecordableFunctions
    <2>1. /\ at' = [at EXCEPT ![t] = "called"]
          /\ event' = [event EXCEPT ![t] =
                [fn |-> fn, session |-> s, rv |-> rv, seq |-> 0, call |-> calls + 1,
                 run |-> run, nth |-> made[t] + 1, thread |-> t]]
      BY <1>3 DEF Calls
    <2> QED BY <1>1, <1>2, <1>3, <2>1
  <1>4. CASE fn \notin RecordableFunctions
    <2>1. at' = at /\ event' = event
      BY <1>4 DEF Calls
    <2> QED BY <1>1, <1>2, <1>4, <2>1
  <1> QED BY <1>3, <1>4

\* Sessions are opened, and the token is logged in, by calls that are recorded.
LEMMA SessionsAndLogins ==
    ASSUME TypeOK, NEW t \in Threads, Call(t)
    PROVE  /\ at'[t] # "idle" \/ mine'[t] \subseteq mine[t]
           /\ \A u \in Threads \ {t} : mine'[u] \subseteq mine[u]
           /\ at'[t] # "idle" /\ event'[t].fn = "C_Login" => mine[t] # {}
           /\ loggedin' => \/ loggedin
                           \/ at'[t] # "idle" /\ event'[t].fn = "C_Login" /\ OK(event'[t])
  <1> DEFINE Goal == /\ at'[t] # "idle" \/ mine'[t] \subseteq mine[t]
                     /\ \A u \in Threads \ {t} : mine'[u] \subseteq mine[u]
                     /\ at'[t] # "idle" /\ event'[t].fn = "C_Login" => mine[t] # {}
                     /\ loggedin' => \/ loggedin
                                     \/ at'[t] # "idle" /\ event'[t].fn = "C_Login" /\ OK(event'[t])
  <1>m. mine \in [Threads -> SUBSET Handles]
    BY DEF TypeOK
  <1>l. {"C_OpenSession", "C_Login"} \subseteq RecordableFunctions
    BY DEF RecordableFunctions
  <1>1. CASE C_Initialize(t)
    <2>1. PICK rv : Calls(t, "C_Initialize", NoSession, rv)
      BY <1>1 DEF C_Initialize
    <2>2. mine' = mine /\ loggedin' = loggedin
      BY <1>1 DEF C_Initialize
    <2> QED BY <2>1, <2>2, CallRecords
  <1>2. CASE C_Finalize(t)
    <2>1. PICK rv : Calls(t, "C_Finalize", NoSession, rv)
      BY <1>2 DEF C_Finalize
    <2>2. mine' = mine /\ loggedin' = FALSE
      BY <1>2 DEF C_Finalize
    <2> QED BY <2>1, <2>2, CallRecords
  <1>3. CASE C_OpenSession(t)
    <2>1. PICK s, rv : Calls(t, "C_OpenSession", s, rv)
      BY <1>3 DEF C_OpenSession
    <2>2. at'[t] # "idle" /\ event'[t].fn = "C_OpenSession"
      BY <1>l, <2>1, CallRecords
    <2>3. loggedin' = loggedin
      BY <1>3 DEF C_OpenSession, token
    <2>4. mine' = mine \/ \E h : mine' = [mine EXCEPT ![t] = @ \cup {h}]
      BY <1>3 DEF C_OpenSession
    <2>5. \A u \in Threads \ {t} : mine'[u] = mine[u]
      BY <1>m, <2>4
    <2> QED BY <2>2, <2>3, <2>5
  <1>4. CASE C_CloseSession(t)
    <2>1. PICK s, rv : Calls(t, "C_CloseSession", s, rv)
      BY <1>4 DEF C_CloseSession
    <2>2. loggedin' => loggedin
      BY <1>4 DEF C_CloseSession
    <2>3. \E h : mine' = [mine EXCEPT ![t] = @ \ {h}]
      BY <1>4 DEF C_CloseSession
    <2>4. \A u \in Threads : mine'[u] \subseteq mine[u]
      BY <1>m, <2>3
    <2> QED BY <2>1, <2>2, <2>4, CallRecords
  <1>5. CASE C_CloseAllSessions(t)
    <2>1. PICK rv : Calls(t, "C_CloseAllSessions", NoSession, rv)
      BY <1>5 DEF C_CloseAllSessions
    <2>2. mine' = [u \in Threads |-> {}] /\ loggedin' = FALSE
      BY <1>5 DEF C_CloseAllSessions
    <2> QED BY <2>1, <2>2, CallRecords
  <1>6. CASE C_Login(t)
    <2>1. PICK h \in mine[t] : \E r : Calls(t, "C_Login", h, r) /\ (r = "CKR_OK" \/ loggedin' = loggedin)
      BY <1>6 DEF C_Login
    <2>r. PICK rv : Calls(t, "C_Login", h, rv) /\ (rv = "CKR_OK" \/ loggedin' = loggedin)
      BY <2>1
    <2>2. mine' = mine
      BY <1>6 DEF C_Login
    <2>3. at'[t] # "idle" /\ event'[t].fn = "C_Login" /\ event'[t].rv = rv
      BY <1>l, <2>r, CallRecords
    <2>4. loggedin' => loggedin \/ OK(event'[t])
      <3>1. rv = "CKR_OK" => OK(event'[t])
        BY <2>3 DEF OK
      <3> QED BY <2>r, <3>1
    <2>5. mine[t] # {} /\ \A u \in Threads : mine'[u] \subseteq mine[u]
      BY <2>1, <2>2
    <2> QED BY <2>3, <2>4, <2>5
  <1>7. CASE C_Logout(t)
    <2>1. PICK s, rv : Calls(t, "C_Logout", s, rv)
      BY <1>7 DEF C_Logout
    <2>2. mine' = mine /\ loggedin' = FALSE
      BY <1>7 DEF C_Logout
    <2> QED BY <2>1, <2>2, CallRecords
  <1>8. CASE StartOperation(t)
    <2>1. PICK init \in Inits : \E s, rv : Calls(t, init, s, rv)
      BY <1>8 DEF StartOperation
    <2>2. mine' = mine /\ loggedin' = loggedin
      BY <1>8 DEF StartOperation
    <2>3. init # "C_Login"
      BY DEF Inits, operationPairs
    <2> QED BY <2>1, <2>2, <2>3, CallRecords
  <1>9. CASE EndOperation(t)
    <2>1. PICK init \in Inits : \E fn \in operationPairs[init] : \E s, rv : Calls(t, fn, s, rv)
      BY <1>9 DEF EndOperation
    <2>2. mine' = mine /\ loggedin' = loggedin
      BY <1>9 DEF EndOperation
    <2>3. "C_Login" \notin operationPairs[init]
      BY DEF Inits, operationPairs
    <2> QED BY <2>1, <2>2, <2>3, CallRecords
  <1> QED BY <1>1, <1>2, <1>3, <1>4, <1>5, <1>6, <1>7, <1>8, <1>9 DEF Call

LEMMA CallTold ==
    ASSUME TypeOK, LoginsTold, NEW t \in Threads, Call(t)
    PROVE  LoginsTold'
  <1>1. PICK fn, s, rv : Calls(t, fn, s, rv)
    BY CallIsCalls DEF Traced
  <1>2. /\ at[t] = "idle" /\ early \subseteq early' /\ file' = file
        /\ at'[t] # "idle" => /\ event'[t].fn = fn /\ event'[t].rv = rv
                              /\ event'[t].call = calls + 1
        /\ fn \in loginRequiring /\ ~loggedin => calls + 1 \in early'
        /\ \A u \in Threads \ {t} : at'[u] = at[u] /\ event'[u] = event[u]
    BY <1>1, CallRecords
  <1>3. LoginWritten' = LoginWritten /\ \A u \in Threads : Written(u)' = Written(u)
    BY <1>2 DEF LoginWritten, Written
  <1>4. \A u \in Threads : mine'[u] # {} => Written(u)' \/ at'[u] # "idle"
    BY <1>2, <1>3, SessionsAndLogins DEF LoginsTold
  <1>5. \A u \in Threads : at'[u] # "idle" /\ event'[u].fn = "C_Login" => Written(u)'
    BY <1>2, <1>3, SessionsAndLogins DEF LoginsTold
  <1>6. loggedin' => \/ LoginWritten'
                     \/ \E u \in Threads : at'[u] # "idle" /\ event'[u].fn = "C_Login" /\ OK(event'[u])
    BY <1>2, <1>3, SessionsAndLogins DEF LoginsTold
  <1>7. ASSUME at'[t] # "idle", Unexcused(event[t])'
        PROVE  LoginWritten' \/ \E v \in Threads \ {t} : Written(v)'
    <2>1. loggedin
      BY <1>2, <1>7 DEF Unexcused
    <2>2. CASE LoginWritten
      BY <1>3, <2>2
    <2>3. ASSUME NEW v \in Threads, at[v] # "idle", event[v].fn = "C_Login"
          PROVE  v # t /\ Written(v)'
      BY <1>2, <1>3, <2>3 DEF LoginsTold
    <2> QED BY <2>1, <2>2, <2>3 DEF LoginsTold
  <1>8. ASSUME NEW u \in Threads \ {t}, at'[u] # "idle", Unexcused(event[u])'
        PROVE  LoginWritten' \/ \E v \in Threads \ {u} : Written(v)'
    <2>1. at[u] # "idle" /\ Unexcused(event[u])
      BY <1>2, <1>8 DEF Unexcused
    <2> QED BY <1>3, <2>1 DEF LoginsTold
  <1> QED BY <1>4, <1>5, <1>6, <1>7, <1>8 DEF LoginsTold

\* A call, as any step that leaves the file, leaves what the file says.
LEMMA CallBlames ==
    ASSUME BlamedInFile, file' = file, early \subseteq early'
    PROVE  BlamedInFile'
  <1> SUFFICES ASSUME NEW j \in DOMAIN file', Unexcused(file[j])'
               PROVE  loggedIn(file, j)' \/ ~OneThread'
    BY DEF BlamedInFile
  <1>1. j \in DOMAIN file /\ Unexcused(file[j])
    BY DEF Unexcused
  <1> QED BY <1>1 DEF BlamedInFile, loggedIn, OneThread

LEMMA StampKeepsEvents ==
    ASSUME IInv, NEW t \in Threads, Stamp(t)
    PROVE  \A u \in Threads : /\ event'[u].fn = event[u].fn /\ event'[u].rv = event[u].rv
                               /\ event'[u].call = event[u].call /\ event'[u].session = event[u].session
  <1>1. event \in [Threads -> Event] /\ event' = [event EXCEPT ![t] = [event[t] EXCEPT !.seq = seq']]
    BY DEF IInv, TypeOK, Stamp
  <1>2. event[t] \in Event
    BY <1>1
  <1>3. /\ event'[t].fn = event[t].fn /\ event'[t].rv = event[t].rv
        /\ event'[t].call = event[t].call /\ event'[t].session = event[t].session
    BY <1>1, <1>2 DEF Event
  <1> QED BY <1>1, <1>3

LEMMA StampTold ==
    ASSUME IInv, LoginsTold, NEW t \in Threads, Stamp(t)
    PROVE  LoginsTold'
  <1>1. /\ file' = file /\ early' = early /\ mine' = mine /\ loggedin' = loggedin
        /\ \A u \in Threads : at'[u] # "idle" <=> at[u] # "idle"
    <2>1. at \in [Threads -> Places]
      BY DEF IInv, TypeOK, Places
    <2> QED BY <2>1 DEF Stamp, token
  <1>2. \A u \in Threads : /\ event'[u].fn = event[u].fn /\ event'[u].rv = event[u].rv
                           /\ event'[u].call = event[u].call
    BY StampKeepsEvents
  <1>3. LoginWritten' = LoginWritten /\ \A u \in Threads : Written(u)' = Written(u)
    BY <1>1 DEF LoginWritten, Written
  <1>4. \A u \in Threads : Unexcused(event[u])' <=> Unexcused(event[u])
    BY <1>1, <1>2 DEF Unexcused, OK
  <1> QED BY <1>1, <1>2, <1>3, <1>4 DEF LoginsTold, OK

\* The event written, in the new file.
LEMMA FileAfter ==
    ASSUME IInv, NEW t \in Threads, Write(t), EventWritten(t), NEW n, n = Len(file) + 1
    PROVE  /\ n \in DOMAIN file' /\ file'[n] = event[t] /\ event[t].thread = t
           /\ DOMAIN file' = DOMAIN file \cup {n} /\ DOMAIN file = 1..Len(file) /\ Len(file) \in Nat
           /\ \A i \in DOMAIN file : i \in DOMAIN file' /\ file'[i] = file[i]
  <1>1. Pending(t) /\ at[t] = "stamped"
    BY DEF IInv, Write
  <1>2. DOMAIN file = 1..Len(file) /\ Len(file) \in Nat
    BY Values
  <1> QED BY <1>1, <1>2 DEF Pending, EventWritten

LEMMA WriteTold ==
    ASSUME IInv, LoginsTold, NEW t \in Threads, Write(t), EventWritten(t)
    PROVE  LoginsTold'
  <1>n. PICK n : n = Len(file) + 1
    OBVIOUS
  <1>1. /\ early' = early /\ mine' = mine /\ loggedin' = loggedin /\ event' = event
        /\ at[t] # "idle" /\ at'[t] = "idle" /\ \A u \in Threads \ {t} : at'[u] = at[u]
    <2>1. at \in [Threads -> Places]
      BY DEF IInv, TypeOK, Places
    <2> QED BY <2>1 DEF Write, token
  <1>2. /\ n \in DOMAIN file' /\ file'[n] = event[t] /\ event[t].thread = t
        /\ \A i \in DOMAIN file : i \in DOMAIN file' /\ file'[i] = file[i]
    BY <1>n, FileAfter
  <1>3. /\ Written(t)'
        /\ LoginWritten => LoginWritten'
        /\ \A u \in Threads : Written(u) => Written(u)'
    BY <1>2 DEF Written, LoginWritten
  <1>4. event[t].fn = "C_Login" /\ OK(event[t]) => LoginWritten'
    BY <1>2 DEF LoginWritten
  <1>5. \A u \in Threads : Unexcused(event[u])' <=> Unexcused(event[u])
    BY <1>1 DEF Unexcused
  <1>8. \A u \in Threads : mine'[u] # {} => Written(u)' \/ at'[u] # "idle"
    BY <1>1, <1>3 DEF LoginsTold
  <1>9. \A u \in Threads : at'[u] # "idle" /\ event'[u].fn = "C_Login" => Written(u)'
    BY <1>1, <1>3 DEF LoginsTold
  <1>10. loggedin' => \/ LoginWritten'
                      \/ \E u \in Threads : at'[u] # "idle" /\ event'[u].fn = "C_Login" /\ OK(event'[u])
    BY <1>1, <1>3, <1>4 DEF LoginsTold
  <1>11. ASSUME NEW u \in Threads, at'[u] # "idle", Unexcused(event[u])'
         PROVE  LoginWritten' \/ \E v \in Threads \ {u} : Written(v)'
    BY <1>1, <1>3, <1>5, <1>11 DEF LoginsTold
  <1> QED BY <1>8, <1>9, <1>10, <1>11 DEF LoginsTold

LEMMA WriteBlames ==
    ASSUME IInv, LoginsTold, BlamedInFile, NEW t \in Threads, Write(t), EventWritten(t)
    PROVE  BlamedInFile'
  <1>n. PICK n : n = Len(file) + 1
    OBVIOUS
  <1>1. early' = early /\ at[t] # "idle"
    BY DEF Write
  <1>2. /\ n \in DOMAIN file' /\ file'[n] = event[t] /\ event[t].thread = t
        /\ DOMAIN file' = DOMAIN file \cup {n} /\ DOMAIN file = 1..Len(file) /\ Len(file) \in Nat
        /\ \A i \in DOMAIN file : i \in DOMAIN file' /\ file'[i] = file[i]
    BY <1>n, FileAfter
  <1>3. ~OneThread => ~OneThread'
    BY <1>2 DEF OneThread
  <1>6. ASSUME NEW j \in DOMAIN file, Unexcused(file[j])' PROVE loggedIn(file, j)' \/ ~OneThread'
    <2>1. Unexcused(file[j])
      BY <1>1, <1>2, <1>6 DEF Unexcused
    <2>2. loggedIn(file, j) => loggedIn(file, j)'
      <3>1. \A k \in 1..j : k \in DOMAIN file
        BY <1>2
      <3> QED BY <1>2, <3>1 DEF loggedIn
    <2> QED BY <1>3, <2>1, <2>2 DEF BlamedInFile
  <1>7. ASSUME Unexcused(file[n])' PROVE loggedIn(file, n)' \/ ~OneThread'
    <2>1. Unexcused(event[t])
      BY <1>1, <1>2, <1>7 DEF Unexcused
    <2>2. CASE LoginWritten
      <3>1. PICK i \in DOMAIN file : file[i].fn = "C_Login" /\ OK(file[i])
        BY <2>2 DEF LoginWritten
      <3>2. i \in 1..n
        BY <1>2, <1>n
      <3> QED BY <1>2, <3>1, <3>2 DEF loggedIn
    <2>3. ASSUME NEW u \in Threads \ {t}, Written(u) PROVE ~OneThread'
      BY <1>2, <2>3 DEF Written, OneThread
    <2> QED BY <1>1, <2>1, <2>2, <2>3 DEF LoginsTold
  <1> QED BY <1>2, <1>6, <1>7 DEF BlamedInFile

LEMMA BlameInvariant == Spec => []BlameInv
  <1>1. Init => BlameInv
    BY DEF Init, BlameInv, LoginsTold, BlamedInFile, Written, LoginWritten
  <1>2. ASSUME IInv, BlameInv, [Next]_vars PROVE BlameInv'
    <2>0. TypeOK
      BY <1>2 DEF IInv
    <2>1. CASE UNCHANGED vars
      BY <1>2, <2>1 DEF vars, token, BlameInv, LoginsTold, BlamedInFile, OneRun, Written, LoginWritten,
         Unexcused, OneThread, loggedIn
    <2>2. ASSUME NEW t \in Threads, Call(t) PROVE BlameInv'
      <3>1. run' = run /\ broken' = broken /\ file' = file /\ early \subseteq early'
        BY <2>0, <2>2, CallIsCalls, CallRecords DEF Traced
      <3>2. ASSUME OneRun' PROVE BlamedInFile'
        BY <1>2, <3>1, <3>2, CallBlames DEF BlameInv, OneRun
      <3>3. ASSUME OneRun', ~broken' PROVE LoginsTold'
        BY <1>2, <2>0, <2>2, <3>1, <3>3, CallTold DEF BlameInv, OneRun
      <3> QED BY <3>2, <3>3 DEF BlameInv
    <2>3. ASSUME NEW t \in Threads, Stamp(t) PROVE BlameInv'
      <3>1. run' = run /\ broken' = broken /\ file' = file /\ early' = early
        BY <2>3 DEF Stamp
      <3>2. ASSUME OneRun' PROVE BlamedInFile'
        BY <1>2, <3>1, <3>2, CallBlames DEF BlameInv, OneRun
      <3>3. ASSUME OneRun', ~broken' PROVE LoginsTold'
        BY <1>2, <2>3, <3>1, <3>3, StampTold DEF BlameInv, OneRun
      <3> QED BY <3>2, <3>3 DEF BlameInv
    <2>4. ASSUME NEW t \in Threads, Write(t) PROVE BlameInv'
      <3>1. run' = run /\ early' = early /\ (EventWritten(t) \/ (broken' = TRUE /\ file' = file))
        BY <1>2, <2>4, WriteEffect DEF Write
      <3>2. CASE EventWritten(t)
        <4>1. ASSUME OneRun' PROVE LoginsTold /\ BlamedInFile
          BY <1>2, <3>1, <3>2, <4>1 DEF BlameInv, OneRun, EventWritten
        <4> QED BY <1>2, <2>4, <3>2, <4>1, WriteTold, WriteBlames DEF BlameInv
      <3>3. CASE broken' = TRUE /\ file' = file
        <4>1. ASSUME OneRun' PROVE BlamedInFile'
          BY <1>2, <3>1, <3>3, <4>1, CallBlames DEF BlameInv, OneRun
        <4> QED BY <3>3, <4>1 DEF BlameInv
      <3> QED BY <3>1, <3>2, <3>3
    <2>5. CASE Restart
      <3>1. run' = run + 1 /\ run \in Nat \ {0}
        BY <1>2, <2>5, RestartEffect, Values
      <3> QED BY <3>1 DEF BlameInv, OneRun
    <2> QED BY <1>2, <2>1, <2>2, <2>3, <2>4, <2>5 DEF Next
  <1> QED BY <1>1, <1>2, SpecIInv, PTL DEF Spec

\* A call of a lone thread is blamed for a missing login only if the token was not
\* logged in, or said so itself (checkLoginOrdering on the trace of one process, for any
\* number of calls, and wherever a failed write has cut it).
THEOREM LoneThreadsAreBlamedRightly == Spec => []BlamedRightly
  <1>1. ASSUME IInv, BlameInv PROVE BlamedRightly
    <2> SUFFICES ASSUME OneRun, OneThread, NEW e \in InFile(checkLoginOrdering(file))
                 PROVE  e.call \in early \/ e.rv = "CKR_USER_NOT_LOGGED_IN"
      BY DEF BlamedRightly
    <2>1. PICK j \in DOMAIN file : e = file[j] /\ file[j].seq \in checkLoginOrdering(file)
      BY DEF InFile
    <2>2. PICK i \in DOMAIN file : /\ file[i].seq = file[j].seq
                                   /\ \/ file[i].rv = "CKR_USER_NOT_LOGGED_IN"
                                      \/ /\ ~loggedIn(file, i)
                                         /\ file[i].fn \in loginRequiring /\ OK(file[i])
      BY <2>1 DEF checkLoginOrdering
    <2>3. i = j
      BY <1>1, <2>2, OneProcess
    <2> QED BY <1>1, <2>1, <2>2, <2>3 DEF BlameInv, BlamedInFile, Unexcused
  <1> QED BY <1>1, SpecIInv, BlameInvariant, PTL

--------------------------------------------------------------------------------
(* Leaks: the maps of the analyzer, event by event.                         *)

\* Kinds of calls the loops tell apart.
Apart(start, ends, endsAll) == start \notin ends \cup endsAll /\ ends \cap endsAll = {}

\* The recursion of MapAfter, with the last event taken first.
Loop(f, start, ends, endsAll, trail) ==
    f = [s \in SUBSET DOMAIN trail |->
            IF s = {} THEN {}
            ELSE AfterEvent(f[s \ {Max(s)}], trail[Max(s)], start, ends, endsAll)]

\* What f says the loop holds after each event.
Runs(f, start, ends, endsAll, trail) ==
    /\ MapAfter(start, ends, endsAll, trail) = f[1..Len(trail)]
    /\ f[1..0] = {}
    /\ \A k \in 1..Len(trail) : f[1..k] = AfterEvent(f[1..k - 1], trail[k], start, ends, endsAll)

LEMMA AfterEventIsMap ==
    ASSUME NEW A, NEW B, NEW map \in SUBSET (A \X B), NEW e, e.session \in A, e.seq \in B,
           NEW start, NEW ends, NEW endsAll, Apart(start, ends, endsAll)
    PROVE  AfterEvent(map, e, start, ends, endsAll) \in SUBSET (A \X B)
  BY DEF AfterEvent, With, Without, Apart

LEMMA MapByEvent ==
    ASSUME NEW start, NEW ends, NEW endsAll, Apart(start, ends, endsAll), NEW trail \in Seq(Event)
    PROVE  \E f : Runs(f, start, ends, endsAll, trail)
  <1> DEFINE n == Len(trail)
             V == SUBSET ((Handles \cup {NoSession}) \X (0..MaxCalls))
             H == [p \in (1..n) \X V |-> AfterEvent(p[2], trail[p[1]], start, ends, endsAll)]
             F == CHOOSE f : Loop(f, start, ends, endsAll, trail)
  <1>1. n \in Nat /\ DOMAIN trail = 1..n /\ \A k \in 1..n : trail[k] \in Event
    OBVIOUS
  <1>2. H \in [(1..n) \X V -> V]
    <2> SUFFICES ASSUME NEW k \in 1..n, NEW map \in V
                 PROVE  AfterEvent(map, trail[k], start, ends, endsAll) \in V
      OBVIOUS
    <2>1. trail[k].session \in Handles \cup {NoSession} /\ trail[k].seq \in 0..MaxCalls
      BY <1>1 DEF Event
    <2> QED BY <2>1, AfterEventIsMap
  <1>3. PICK f \in [SUBSET (1..n) -> V] : FoldsBy(f, n, {}, H)
    <2> HIDE DEF n, H
    <2> QED BY <1>1, <1>2, FoldExists
  <1>4. \A s \in SUBSET (1..n) : s # {} => Max(s) \in 1..n /\ s \ {Max(s)} \in SUBSET (1..n)
    <2> HIDE DEF n
    <2> QED BY <1>1, LastOf
  <1>5. \A s \in SUBSET (1..n) :
            f[s] = IF s = {} THEN {} ELSE AfterEvent(f[s \ {Max(s)}], trail[Max(s)], start, ends, endsAll)
    BY <1>3, <1>4 DEF FoldsBy
  <1>6. Loop(f, start, ends, endsAll, trail)
    BY <1>1, <1>3, <1>5 DEF Loop
  <1>7. Loop(F, start, ends, endsAll, trail)
    BY <1>6
  <1>8. MapAfter(start, ends, endsAll, trail) = F[DOMAIN trail]
    BY DEF MapAfter, FoldLeft, MapThenFoldSet, Loop
  <1> HIDE DEF F, n
  <1>9. F[1..0] = {}
    <2>1. 1..0 = {}
      OBVIOUS
    <2> QED BY <1>7, <2>1 DEF Loop
  <1>10. ASSUME NEW k \in 1..n
         PROVE  F[1..k] = AfterEvent(F[1..k - 1], trail[k], start, ends, endsAll)
    <2>1. 1..k \in SUBSET DOMAIN trail /\ k \in 1..k
      BY <1>1
    <2>2. Max(1..k) = k /\ (1..k) \ {k} = 1..k - 1
      BY <1>1, LastOf
    <2>3. F[1..k] = AfterEvent(F[(1..k) \ {Max(1..k)}], trail[Max(1..k)], start, ends, endsAll)
      BY <1>7, <2>1 DEF Loop
    <2> QED BY <2>2, <2>3
  <1> QED BY <1>1, <1>8, <1>9, <1>10 DEF n, Runs

\* One more event at the end of the trace is one more turn of the loop.
LEMMA MapOfLonger ==
    ASSUME NEW start, NEW ends, NEW endsAll, Apart(start, ends, endsAll), NEW trail \in Seq(Event),
           NEW e \in Event
    PROVE  MapAfter(start, ends, endsAll, Append(trail, e)) =
                AfterEvent(MapAfter(start, ends, endsAll, trail), e, start, ends, endsAll)
  <1> DEFINE n == Len(trail)
             more == Append(trail, e)
  <1>1. more \in Seq(Event) /\ Len(more) = n + 1 /\ n \in Nat
        /\ more[n + 1] = e /\ \A k \in 1..n : more[k] = trail[k]
    OBVIOUS
  <1> HIDE DEF n, more
  <1>2. PICK f : /\ MapAfter(start, ends, endsAll, trail) = f[1..n]
                 /\ f[1..0] = {}
                 /\ \A k \in 1..n : f[1..k] = AfterEvent(f[1..k - 1], trail[k], start, ends, endsAll)
    <2>1. \E f : Runs(f, start, ends, endsAll, trail)
      BY MapByEvent
    <2> QED BY <2>1 DEF n, Runs
  <1>3. PICK g : /\ MapAfter(start, ends, endsAll, more) = g[1..n + 1]
                 /\ g[1..0] = {}
                 /\ \A k \in 1..n + 1 : g[1..k] = AfterEvent(g[1..k - 1], more[k], start, ends, endsAll)
    <2>1. more \in Seq(Event) /\ Len(more) = n + 1
      BY <1>1
    <2>2. \E g : Runs(g, start, ends, endsAll, more)
      BY <2>1, MapByEvent
    <2> QED BY <2>1, <2>2 DEF Runs
  <1> DEFINE S == {k \in 0..n : f[1..k] = g[1..k]}
  <1>4. 0 \in S
    <2>1. f[1..0] = g[1..0]
      BY <1>2, <1>3
    <2>2. 0 \in 0..n
      BY <1>1
    <2> QED BY <2>1, <2>2
  <1>5. ASSUME NEW k \in 1..n, k - 1 \in S PROVE k \in S
    <2>1. k \in 1..n + 1 /\ k \in 0..n
      BY <1>1
    <2>2. f[1..k - 1] = g[1..k - 1]
      BY <1>5
    <2> QED BY <1>1, <1>2, <1>3, <2>1, <2>2
  <1>6. f[1..n] = g[1..n]
    <2>1. n \in 0..n
      BY <1>1
    <2>2. 0..n \subseteq S
      <3> HIDE DEF S
      <3> QED BY <1>1, <1>4, <1>5, UpTo
    <2> QED BY <2>1, <2>2
  <1>7. g[1..n + 1] = AfterEvent(g[1..(n + 1) - 1], more[n + 1], start, ends, endsAll)
    <2>1. n + 1 \in 1..n + 1
      BY <1>1
    <2> QED BY <1>3, <2>1
  <1>8. (n + 1) - 1 = n
    BY <1>1
  <1> QED BY <1>1, <1>2, <1>3, <1>6, <1>7, <1>8 DEF more

LEMMA MapOfNothing ==
    ASSUME NEW start, NEW ends, NEW endsAll, Apart(start, ends, endsAll)
    PROVE  MapAfter(start, ends, endsAll, <<>>) = {}
  <1>1. <<>> \in Seq(Event)
    OBVIOUS
  <1>2. \E f : Runs(f, start, ends, endsAll, <<>>)
    BY <1>1, MapByEvent
  <1> QED BY <1>2 DEF Runs

\* What a loop holds are trail of its trace.
LEMMA MapFromTrace ==
    ASSUME NEW start, NEW ends, NEW endsAll, Apart(start, ends, endsAll), NEW trail \in Seq(Event),
           NEW p \in MapAfter(start, ends, endsAll, trail)
    PROVE  \E i \in DOMAIN trail : /\ p = <<trail[i].session, trail[i].seq>>
                                    /\ trail[i].fn = start /\ OK(trail[i])
  <1> DEFINE n == Len(trail)
             FromFile(q) == \E i \in DOMAIN trail : /\ q = <<trail[i].session, trail[i].seq>>
                                               /\ trail[i].fn = start /\ OK(trail[i])
  <1>1. n \in Nat /\ DOMAIN trail = 1..n
    OBVIOUS
  <1>2. PICK f : /\ MapAfter(start, ends, endsAll, trail) = f[1..n]
                 /\ f[1..0] = {}
                 /\ \A k \in 1..n : f[1..k] = AfterEvent(f[1..k - 1], trail[k], start, ends, endsAll)
    <2>1. \E f : Runs(f, start, ends, endsAll, trail)
      BY MapByEvent
    <2> QED BY <2>1 DEF Runs
  <1> HIDE DEF n
  <1> DEFINE S == {k \in 0..n : \A q \in f[1..k] : FromFile(q)}
  <1>3. 0 \in S
    BY <1>1, <1>2
  <1>4. ASSUME NEW k \in 1..n, k - 1 \in S PROVE k \in S
    <2>1. \A q \in f[1..k - 1] : FromFile(q)
      BY <1>4
    <2>2. k \in DOMAIN trail /\ k \in 0..n
      BY <1>1
    <2>3. f[1..k] = AfterEvent(f[1..k - 1], trail[k], start, ends, endsAll)
      BY <1>2
    <2>4. ASSUME NEW q \in f[1..k] PROVE FromFile(q)
      <3>1. \/ q \in f[1..k - 1]
            \/ /\ trail[k].fn = start /\ OK(trail[k])
               /\ q = <<trail[k].session, trail[k].seq>>
        BY <2>3, <2>4 DEF AfterEvent, With, Without, Apart
      <3> QED BY <2>1, <2>2, <3>1
    <2> QED BY <2>2, <2>4
  <1>5. 0..n \subseteq S
    <2> HIDE DEF S
    <2> QED BY <1>1, <1>3, <1>4, UpTo
  <1>6. n \in S
    <2>1. n \in 0..n
      BY <1>1
    <2> HIDE DEF S
    <2> QED BY <1>5, <2>1
  <1> QED BY <1>2, <1>6

InMap(h, map) == \E p \in map : p[1] = h
Underway(t, h) == at[t] # "idle" /\ event[t].session = h

\* What the loop will hold of a session once the call under way on it, if any, is written.
Expected(h, start, ends, endsAll) ==
    \/ \E t \in Threads : Underway(t, h) /\ event[t].fn = start /\ OK(event[t])
    \/ /\ \A t \in Threads : Underway(t, h) => event[t].fn \notin ends
       /\ InMap(h, MapAfter(start, ends, endsAll, file))

Open(h) == Expected(h, "C_OpenSession", {"C_CloseSession"}, {"C_CloseAllSessions"})
Started(h, init) == Expected(h, init, operationPairs[init], {})

NotClosedAll ==
    /\ ~ClosedAll
    /\ \A t \in Threads : at[t] # "idle" => event[t].fn # "C_CloseAllSessions"

\* A session is used by one thread, and on it one call at a time.
SessionsApart ==
    /\ \A t, u \in Threads : t # u => mine[t] \cap mine[u] = {}
    /\ \A t \in Threads : mine[t] \subseteq given
    /\ \A t \in Threads, h \in Handles : Underway(t, h) =>
          h \in given /\ \A u \in Threads \ {t} : h \notin mine[u] /\ ~Underway(u, h)

\* What begins something begins it on a session.
Begins(e) == OK(e) /\ e.fn \in {"C_OpenSession"} \cup DOMAIN operationPairs
BegunOnSessions ==
    /\ \A i \in DOMAIN file : Begins(file[i]) => file[i].session \in Handles
    /\ \A t \in Threads : at[t] # "idle" /\ Begins(event[t]) => event[t].session \in Handles

LeakIInv ==
    /\ SessionsApart /\ BegunOnSessions
    /\ NotClosedAll => \A h \in Handles : h \in unclosed <=> Open(h)
    /\ \A h \in Handles, init \in DOMAIN operationPairs : <<h, init>> \in dangling <=> Started(h, init)
LeakInv == OneRun /\ ~broken => LeakIInv

LEMMA PairsApart ==
    /\ \A init \in DOMAIN operationPairs : Apart(init, operationPairs[init], {})
    /\ \A init, other \in DOMAIN operationPairs : init \notin operationPairs[other]
    /\ \A init, other \in DOMAIN operationPairs :
          init # other => operationPairs[init] \cap operationPairs[other] = {}
    /\ \A fn \in {"C_OpenSession", "C_CloseSession", "C_CloseAllSessions", "C_Initialize", "C_Finalize",
                  "C_Login", "C_Logout"} :
          fn \notin DOMAIN operationPairs
          /\ \A init \in DOMAIN operationPairs : fn \notin operationPairs[init]
    /\ Apart("C_OpenSession", {"C_CloseSession"}, {"C_CloseAllSessions"})
  BY DEF operationPairs, Apart

\* A call on a session that no other uses.
LEMMA ExpectedAtCall ==
    ASSUME TypeOK, NEW t \in Threads, NEW fn \in RecordableFunctions, NEW s, NEW rv, Calls(t, fn, s, rv),
           NEW start, NEW ends, NEW endsAll, start \notin ends, NEW h,
           h = s => \A u \in Threads : ~Underway(u, h)
    PROVE  Expected(h, start, ends, endsAll)' <=>
              \/ h = s /\ fn = start /\ rv = "CKR_OK"
              \/ ~(h = s /\ fn \in ends) /\ Expected(h, start, ends, endsAll)
  <1>1. /\ at[t] = "idle" /\ file' = file /\ at'[t] # "idle"
        /\ event'[t].fn = fn /\ event'[t].rv = rv /\ event'[t].session = s
        /\ \A u \in Threads \ {t} : at'[u] = at[u] /\ event'[u] = event[u]
    BY CallRecords
  <1> DEFINE inMap == InMap(h, MapAfter(start, ends, endsAll, file))
  <1>2. inMap' <=> inMap
    BY <1>1
  <1> HIDE DEF inMap
  <1>3. \A u \in Threads \ {t} : Underway(u, h)' <=> Underway(u, h)
    BY <1>1 DEF Underway
  <1>4. ~Underway(t, h) /\ (Underway(t, h)' <=> h = s)
    BY <1>1 DEF Underway
  <1>5. CASE h = s
    <2>1. \A u \in Threads : ~Underway(u, h)
      BY <1>5
    <2>2. Expected(h, start, ends, endsAll) <=> inMap
      BY <2>1 DEF Expected, inMap
    <2>3. Expected(h, start, ends, endsAll)' <=> (fn = start /\ rv = "CKR_OK") \/ (fn \notin ends /\ inMap')
      BY <1>1, <1>3, <1>4, <1>5, <2>1 DEF Expected, inMap, OK
    <2> QED BY <1>2, <1>5, <2>2, <2>3
  <1>6. CASE h # s
    <2>1. \A u \in Threads : Underway(u, h)' <=> Underway(u, h)
      BY <1>3, <1>4, <1>6
    <2>2. \A u \in Threads : Underway(u, h) => event'[u] = event[u]
      BY <1>1, <1>4
    <2> QED BY <1>2, <1>6, <2>1, <2>2 DEF Expected, inMap
  <1> QED BY <1>5, <1>6

\* A number changes nothing, and when an event is written the loop catches up with it.
LEMMA ExpectedAtStamp ==
    ASSUME IInv, NEW t \in Threads, Stamp(t), NEW start, NEW ends, NEW endsAll, NEW h
    PROVE  Expected(h, start, ends, endsAll)' <=> Expected(h, start, ends, endsAll)
  <1>1. file' = file /\ \A u \in Threads : at'[u] # "idle" <=> at[u] # "idle"
    <2>1. at \in [Threads -> Places]
      BY DEF IInv, TypeOK, Places
    <2> QED BY <2>1 DEF Stamp
  <1>2. \A u \in Threads : /\ event'[u].fn = event[u].fn /\ event'[u].rv = event[u].rv
                           /\ event'[u].session = event[u].session
    BY StampKeepsEvents
  <1> QED BY <1>1, <1>2 DEF Expected, Underway, OK

LEMMA InMapAfter ==
    ASSUME NEW map, NEW e, NEW start, NEW ends, NEW endsAll, start \notin ends, e.fn \notin endsAll, NEW h
    PROVE  InMap(h, AfterEvent(map, e, start, ends, endsAll)) <=>
              \/ h = e.session /\ e.fn = start /\ OK(e)
              \/ ~(h = e.session /\ e.fn \in ends) /\ InMap(h, map)
  <1>1. InMap(h, With(map, e.session, e.seq)) <=> h = e.session \/ InMap(h, map)
    <2>1. CASE h = e.session
      <3>1. <<h, e.seq>> \in With(map, e.session, e.seq)
        BY <2>1 DEF With
      <3> QED BY <2>1, <3>1 DEF InMap
    <2>2. CASE h # e.session
      BY <2>2 DEF InMap, With, Without
    <2> QED BY <2>1, <2>2
  <1>2. InMap(h, Without(map, e.session)) <=> h # e.session /\ InMap(h, map)
    BY DEF InMap, Without
  <1> QED BY <1>1, <1>2 DEF AfterEvent

LEMMA ExpectedAtWrite ==
    ASSUME IInv, SessionsApart, NEW t \in Threads, Write(t), EventWritten(t), NEW start, NEW ends, NEW endsAll,
           Apart(start, ends, endsAll), event[t].fn \notin endsAll, NEW h \in Handles
    PROVE  Expected(h, start, ends, endsAll)' <=> Expected(h, start, ends, endsAll)
  <1>1. /\ event' = event /\ at[t] # "idle" /\ at'[t] = "idle"
        /\ \A u \in Threads \ {t} : at'[u] = at[u]
        /\ file' = Append(file, event[t])
    <2>1. at \in [Threads -> Places]
      BY DEF IInv, TypeOK, Places
    <2> QED BY <2>1 DEF Write, EventWritten
  <1> DEFINE map == MapAfter(start, ends, endsAll, file)
  <1>2. MapAfter(start, ends, endsAll, file)' = AfterEvent(map, event[t], start, ends, endsAll)
    <2>1. file \in Seq(Event) /\ event[t] \in Event
      BY DEF IInv, TypeOK
    <2>2. MapAfter(start, ends, endsAll, Append(file, event[t])) =
              AfterEvent(map, event[t], start, ends, endsAll)
      BY <2>1, MapOfLonger
    <2> QED BY <1>1, <2>2
  <1> HIDE DEF map
  <1>3. InMap(h, MapAfter(start, ends, endsAll, file))' <=>
              \/ h = event[t].session /\ event[t].fn = start /\ OK(event[t])
              \/ ~(h = event[t].session /\ event[t].fn \in ends) /\ InMap(h, map)
    <2>1. InMap(h, AfterEvent(map, event[t], start, ends, endsAll)) <=>
              \/ h = event[t].session /\ event[t].fn = start /\ OK(event[t])
              \/ ~(h = event[t].session /\ event[t].fn \in ends) /\ InMap(h, map)
      BY InMapAfter DEF Apart
    <2> QED BY <1>2, <2>1 DEF InMap
  <1>4. /\ \A u \in Threads \ {t} : Underway(u, h)' <=> Underway(u, h)
        /\ ~Underway(t, h)' /\ (Underway(t, h) <=> h = event[t].session)
    BY <1>1 DEF Underway
  <1>5. CASE h = event[t].session
    <2>1. Underway(t, h) /\ \A u \in Threads \ {t} : ~Underway(u, h)
      BY <1>4, <1>5 DEF SessionsApart
    <2>2. Expected(h, start, ends, endsAll)' <=> InMap(h, MapAfter(start, ends, endsAll, file))'
      BY <1>4, <2>1 DEF Expected
    <2>3. Expected(h, start, ends, endsAll) <=>
              \/ event[t].fn = start /\ OK(event[t])
              \/ event[t].fn \notin ends /\ InMap(h, map)
      BY <2>1 DEF Expected, map
    <2> QED BY <1>3, <1>5, <2>2, <2>3
  <1>6. CASE h # event[t].session
    <2>1. \A u \in Threads : Underway(u, h)' <=> Underway(u, h)
      BY <1>4, <1>6
    <2>2. InMap(h, MapAfter(start, ends, endsAll, file))' <=> InMap(h, map)
      BY <1>3, <1>6
    <2> QED BY <1>1, <2>1, <2>2 DEF Expected, map
  <1> QED BY <1>5, <1>6

\* What a call of t does to the sessions: it is on one of t's own, on a new one or on none.
OnSessions(t, fn, s, rv) ==
    /\ s \in mine[t] \/ s \in Handles \ given \/ s = NoSession
    /\ given \subseteq given' /\ (s \in Handles => s \in given')
    /\ mine'[t] \subseteq mine[t] \cup {s} /\ mine'[t] \subseteq given'
    /\ \A u \in Threads \ {t} : mine'[u] \subseteq mine[u]
    /\ rv = "CKR_OK" /\ fn \in {"C_OpenSession"} \cup DOMAIN operationPairs => s \in Handles
    /\ fn # "C_CloseAllSessions" => \A h \in Handles :
          h \in unclosed' <=> \/ h = s /\ fn = "C_OpenSession" /\ rv = "CKR_OK"
                              \/ ~(h = s /\ fn = "C_CloseSession") /\ h \in unclosed
    /\ \A h \in Handles, init \in DOMAIN operationPairs :
          <<h, init>> \in dangling' <=>
              \/ h = s /\ fn = init /\ rv = "CKR_OK"
              \/ ~(h = s /\ fn \in operationPairs[init]) /\ <<h, init>> \in dangling

\* A call that opens, closes, starts or ends nothing.
LEMMA OtherCalls ==
    ASSUME TypeOK, SessionsApart, NEW t \in Threads,
           NEW fn \in {"C_Initialize", "C_Finalize", "C_Login", "C_Logout"},
           NEW s \in mine[t] \cup {NoSession}, NEW rv, UNCHANGED <<given, unclosed, dangling, mine>>
    PROVE  OnSessions(t, fn, s, rv)
  <1>1. mine[t] \subseteq given /\ mine[t] \subseteq Handles /\ NoSession \notin Handles
    BY FlightRecorderAssumption DEF TypeOK, SessionsApart
  <1>2. fn \notin DOMAIN operationPairs /\ \A init \in DOMAIN operationPairs : fn \notin operationPairs[init]
    BY PairsApart
  <1> QED BY <1>1, <1>2 DEF OnSessions

LEMMA CallOnSession ==
    ASSUME ~ReuseHandles, TypeOK, SessionsApart, NEW t \in Threads, Call(t)
    PROVE  \E fn, s, rv : Calls(t, fn, s, rv) /\ OnSessions(t, fn, s, rv)
  <1>m. /\ mine \in [Threads -> SUBSET Handles] /\ mine[t] \subseteq given /\ mine[t] \subseteq Handles
        /\ NoSession \notin Handles
    BY FlightRecorderAssumption DEF TypeOK, SessionsApart
  <1>1. CASE C_Initialize(t)
    <2>1. PICK rv : Calls(t, "C_Initialize", NoSession, rv)
      BY <1>1 DEF C_Initialize
    <2>2. UNCHANGED <<given, unclosed, dangling, mine>>
      BY <1>1 DEF C_Initialize
    <2> QED BY <2>1, <2>2, OtherCalls
  <1>2. CASE C_Finalize(t)
    <2>1. PICK rv : Calls(t, "C_Finalize", NoSession, rv)
      BY <1>2 DEF C_Finalize
    <2>2. UNCHANGED <<given, unclosed, dangling, mine>>
      BY <1>2 DEF C_Finalize
    <2> QED BY <2>1, <2>2, OtherCalls
  <1>3. CASE C_OpenSession(t)
    <2>p. "C_OpenSession" \notin DOMAIN operationPairs
          /\ \A init \in DOMAIN operationPairs : "C_OpenSession" \notin operationPairs[init]
      BY PairsApart
    <2>1. CASE initialized
      <3>1. PICK h \in Fresh : /\ Calls(t, "C_OpenSession", h, "CKR_OK")
                               /\ given' = given \cup {h} /\ unclosed' = unclosed \cup {h}
                               /\ mine' = [mine EXCEPT ![t] = @ \cup {h}]
        BY <1>3, <2>1 DEF C_OpenSession
      <3>2. dangling' = dangling
        BY <1>3, <2>1 DEF C_OpenSession
      <3>3. h \in Handles \ given
        BY <3>1 DEF Fresh
      <3>4. mine'[t] = mine[t] \cup {h} /\ \A u \in Threads \ {t} : mine'[u] = mine[u]
        BY <1>m, <3>1
      <3>5. OnSessions(t, "C_OpenSession", h, "CKR_OK")
        BY <1>m, <2>p, <3>1, <3>2, <3>3, <3>4 DEF OnSessions
      <3> QED BY <3>1, <3>5
    <2>2. CASE ~initialized
      <3>1. /\ Calls(t, "C_OpenSession", NoSession, "CKR_CRYPTOKI_NOT_INITIALIZED")
            /\ UNCHANGED <<token, mine>>
        BY <1>3, <2>2 DEF C_OpenSession
      <3>2. OnSessions(t, "C_OpenSession", NoSession, "CKR_CRYPTOKI_NOT_INITIALIZED")
        BY <1>m, <2>p, <3>1 DEF OnSessions, token
      <3> QED BY <3>1, <3>2
    <2> QED BY <2>1, <2>2
  <1>4. CASE C_CloseSession(t)
    <2>p. "C_CloseSession" \notin DOMAIN operationPairs
          /\ \A init \in DOMAIN operationPairs : "C_CloseSession" \notin operationPairs[init]
      BY PairsApart
    <2>1. PICK h \in mine[t] : /\ \E rv : Calls(t, "C_CloseSession", h, rv)
                               /\ unclosed' = unclosed \ {h}
                               /\ mine' = [mine EXCEPT ![t] = @ \ {h}]
                               /\ given' = given /\ dangling' = dangling
      BY <1>4 DEF C_CloseSession
    <2>2. PICK rv : Calls(t, "C_CloseSession", h, rv)
      BY <2>1
    <2>3. mine'[t] = mine[t] \ {h} /\ \A u \in Threads \ {t} : mine'[u] = mine[u]
      BY <1>m, <2>1
    <2>4. OnSessions(t, "C_CloseSession", h, rv)
      BY <1>m, <2>p, <2>1, <2>3 DEF OnSessions
    <2> QED BY <2>2, <2>4
  <1>5. CASE C_CloseAllSessions(t)
    <2>p. "C_CloseAllSessions" \notin DOMAIN operationPairs
          /\ \A init \in DOMAIN operationPairs : "C_CloseAllSessions" \notin operationPairs[init]
      BY PairsApart
    <2>1. /\ Calls(t, "C_CloseAllSessions", NoSession, "CKR_OK")
          /\ mine' = [u \in Threads |-> {}] /\ given' = given /\ dangling' = dangling
      BY <1>5 DEF C_CloseAllSessions
    <2>2. OnSessions(t, "C_CloseAllSessions", NoSession, "CKR_OK")
      BY <1>m, <2>p, <2>1 DEF OnSessions
    <2> QED BY <2>1, <2>2
  <1>6. CASE C_Login(t)
    <2>1. PICK h \in mine[t] : \E rv : Calls(t, "C_Login", h, rv)
      BY <1>6 DEF C_Login
    <2>2. UNCHANGED <<given, unclosed, dangling, mine>>
      BY <1>6 DEF C_Login
    <2> QED BY <2>1, <2>2, OtherCalls
  <1>7. CASE C_Logout(t)
    <2>1. PICK h \in mine[t] : \E rv : Calls(t, "C_Logout", h, rv)
      BY <1>7 DEF C_Logout
    <2>2. UNCHANGED <<given, unclosed, dangling, mine>>
      BY <1>7 DEF C_Logout
    <2> QED BY <2>1, <2>2, OtherCalls
  <1>8. CASE StartOperation(t)
    <2>1. PICK h \in mine[t], init \in Inits :
              \E rv : /\ Calls(t, init, h, rv)
                      /\ dangling' = IF rv = "CKR_OK" THEN dangling \cup {<<h, init>>} ELSE dangling
      BY <1>8 DEF StartOperation
    <2>2. PICK rv : /\ Calls(t, init, h, rv)
                    /\ dangling' = IF rv = "CKR_OK" THEN dangling \cup {<<h, init>>} ELSE dangling
      BY <2>1
    <2>3. UNCHANGED <<given, unclosed, mine>>
      BY <1>8 DEF StartOperation
    <2>4. /\ init \in DOMAIN operationPairs
          /\ init \notin {"C_OpenSession", "C_CloseSession"}
          /\ \A other \in DOMAIN operationPairs : init \notin operationPairs[other]
      BY PairsApart DEF Inits
    <2>5. OnSessions(t, init, h, rv)
      BY <1>m, <2>2, <2>3, <2>4 DEF OnSessions
    <2> QED BY <2>2, <2>5
  <1>9. CASE EndOperation(t)
    <2>1. PICK h \in mine[t], init \in Inits :
              \E fn \in operationPairs[init] : \E rv : Calls(t, fn, h, rv) /\ dangling' = dangling \ {<<h, init>>}
      BY <1>9 DEF EndOperation
    <2>2. PICK fn, rv : /\ fn \in operationPairs[init] /\ Calls(t, fn, h, rv)
                         /\ dangling' = dangling \ {<<h, init>>}
      BY <2>1
    <2>3. UNCHANGED <<given, unclosed, mine>>
      BY <1>9 DEF EndOperation
    <2>4. /\ init \in DOMAIN operationPairs /\ fn \notin DOMAIN operationPairs
          /\ fn \notin {"C_OpenSession", "C_CloseSession"}
          /\ \A other \in DOMAIN operationPairs : other # init => fn \notin operationPairs[other]
      <3>1. init \in DOMAIN operationPairs
        BY DEF Inits
      <3> QED BY <2>2, <3>1, PairsApart
    <2>5. OnSessions(t, fn, h, rv)
      BY <1>m, <2>2, <2>3, <2>4 DEF OnSessions
    <2> QED BY <2>2, <2>5
  <1> QED BY <1>1, <1>2, <1>3, <1>4, <1>5, <1>6, <1>7, <1>8, <1>9 DEF Call

\* A call keeps sessions apart.
LEMMA CallKeepsApart ==
    ASSUME TypeOK, SessionsApart, NEW t \in Threads, NEW fn \in RecordableFunctions, NEW s, NEW rv,
           Calls(t, fn, s, rv), OnSessions(t, fn, s, rv)
    PROVE  /\ SessionsApart'
           /\ \A h \in Handles : h = s => \A u \in Threads : ~Underway(u, h)
  <1>1. /\ at[t] = "idle" /\ at'[t] # "idle" /\ event'[t].session = s
        /\ \A u \in Threads \ {t} : at'[u] = at[u] /\ event'[u] = event[u]
    BY CallRecords
  <1>2. ~Underway(t, s) /\ \A h : Underway(t, h)' <=> h = s
    BY <1>1 DEF Underway
  <1>3. \A u \in Threads \ {t} : \A h : Underway(u, h)' <=> Underway(u, h)
    BY <1>1 DEF Underway
  <1>4. /\ s \in mine[t] \/ s \in Handles \ given \/ s = NoSession
        /\ given \subseteq given' /\ (s \in Handles => s \in given')
        /\ mine'[t] \subseteq mine[t] \cup {s} /\ mine'[t] \subseteq given'
        /\ \A u \in Threads \ {t} : mine'[u] \subseteq mine[u]
    BY DEF OnSessions
  <1>5. \A u \in Threads : mine[u] \subseteq given /\ mine[u] \subseteq Handles
    BY DEF TypeOK, SessionsApart
  <1>6. s \in Handles => \A u \in Threads \ {t} : s \notin mine[u] /\ ~Underway(u, s)
    <2>1. CASE s \in mine[t]
      BY <2>1 DEF SessionsApart
    <2>2. CASE s \in Handles \ given
      BY <1>5, <2>2 DEF SessionsApart
    <2>3. NoSession \notin Handles
      BY FlightRecorderAssumption
    <2> QED BY <1>4, <2>1, <2>2, <2>3
  <1>7. \A u \in Threads \ {t} : mine'[t] \cap mine[u] = {}
    <2>1. \A u \in Threads \ {t} : mine[t] \cap mine[u] = {}
      BY DEF SessionsApart
    <2> QED BY <1>4, <1>5, <1>6, <2>1
  <1>8. \A u, v \in Threads : u # v => mine'[u] \cap mine'[v] = {}
    <2>1. \A u, v \in Threads : u # v => mine[u] \cap mine[v] = {}
      BY DEF SessionsApart
    <2> QED BY <1>4, <1>7, <2>1
  <1>9. \A u \in Threads : mine'[u] \subseteq given'
    BY <1>4, <1>5
  <1>10. ASSUME NEW h \in Handles, Underway(t, h)'
         PROVE  h \in given' /\ \A u \in Threads \ {t} : h \notin mine'[u] /\ ~Underway(u, h)'
    BY <1>2, <1>3, <1>4, <1>6, <1>10
  <1>11. ASSUME NEW u \in Threads \ {t}, NEW h \in Handles, Underway(u, h)'
         PROVE  h \in given' /\ \A v \in Threads \ {u} : h \notin mine'[v] /\ ~Underway(v, h)'
    <2>1. Underway(u, h)
      BY <1>3, <1>11
    <2>2. h \in given /\ \A v \in Threads \ {u} : h \notin mine[v] /\ ~Underway(v, h)
      BY <2>1 DEF SessionsApart
    <2>3. h # s
      BY <1>6, <2>1
    <2>4. h \notin mine'[t] /\ ~Underway(t, h)'
      BY <1>2, <1>4, <2>2, <2>3
    <2> QED BY <1>3, <1>4, <2>2, <2>4
  <1> QED BY <1>2, <1>6, <1>8, <1>9, <1>10, <1>11 DEF SessionsApart

LEMMA CallLeaks ==
    ASSUME ~ReuseHandles, Functions \subseteq RecordableFunctions, IInv, LeakIInv,
           NEW t \in Threads, Call(t)
    PROVE  LeakIInv'
  <1>1. TypeOK /\ SessionsApart /\ BegunOnSessions
    BY DEF IInv, LeakIInv
  <1>2. PICK fn, s, rv : Calls(t, fn, s, rv) /\ OnSessions(t, fn, s, rv)
    BY <1>1, CallOnSession
  <1>3. fn \in RecordableFunctions
    BY <1>2 DEF Calls
  <1>4. SessionsApart' /\ \A h \in Handles : h = s => \A u \in Threads : ~Underway(u, h)
    BY <1>1, <1>2, <1>3, CallKeepsApart
  <1>5. /\ file' = file /\ at'[t] # "idle" /\ at[t] = "idle"
        /\ event'[t].fn = fn /\ event'[t].rv = rv /\ event'[t].session = s
        /\ \A u \in Threads \ {t} : at'[u] = at[u] /\ event'[u] = event[u]
    BY <1>1, <1>2, <1>3, CallRecords
  <1>6. BegunOnSessions'
    <2>1. Begins(event[t])' => event'[t].session \in Handles
      BY <1>2, <1>5 DEF OnSessions, Begins, OK
    <2>2. \A u \in Threads \ {t} : (at[u] # "idle" /\ Begins(event[u]))' => event'[u].session \in Handles
      BY <1>1, <1>5 DEF BegunOnSessions, Begins
    <2>3. \A i \in DOMAIN file' : Begins(file[i])' => file'[i].session \in Handles
      BY <1>1, <1>5 DEF BegunOnSessions, Begins
    <2> QED BY <2>1, <2>2, <2>3 DEF BegunOnSessions
  <1>7. ASSUME NotClosedAll', NEW h \in Handles PROVE h \in unclosed' <=> Open(h)'
    <2>1. NotClosedAll /\ fn # "C_CloseAllSessions"
      BY <1>5, <1>7 DEF NotClosedAll, ClosedAll
    <2>2. h \in unclosed <=> Open(h)
      BY <2>1 DEF LeakIInv
    <2>3. h \in unclosed' <=> \/ h = s /\ fn = "C_OpenSession" /\ rv = "CKR_OK"
                              \/ ~(h = s /\ fn = "C_CloseSession") /\ h \in unclosed
      BY <1>2, <2>1 DEF OnSessions
    <2>4. Open(h)' <=> \/ h = s /\ fn = "C_OpenSession" /\ rv = "CKR_OK"
                       \/ ~(h = s /\ fn \in {"C_CloseSession"}) /\ Open(h)
      BY <1>1, <1>2, <1>3, <1>4, ExpectedAtCall DEF Open
    <2> QED BY <2>2, <2>3, <2>4
  <1>8. ASSUME NEW h \in Handles, NEW init \in DOMAIN operationPairs
        PROVE  <<h, init>> \in dangling' <=> Started(h, init)'
    <2>1. <<h, init>> \in dangling <=> Started(h, init)
      BY DEF LeakIInv
    <2>2. <<h, init>> \in dangling' <=>
              \/ h = s /\ fn = init /\ rv = "CKR_OK"
              \/ ~(h = s /\ fn \in operationPairs[init]) /\ <<h, init>> \in dangling
      BY <1>2 DEF OnSessions
    <2>3. init \notin operationPairs[init]
      BY PairsApart
    <2>4. Started(h, init)' <=> \/ h = s /\ fn = init /\ rv = "CKR_OK"
                                \/ ~(h = s /\ fn \in operationPairs[init]) /\ Started(h, init)
      <3> DEFINE ends == operationPairs[init]
      <3>1. Expected(h, init, ends, {})' <=> \/ h = s /\ fn = init /\ rv = "CKR_OK"
                                             \/ ~(h = s /\ fn \in ends) /\ Expected(h, init, ends, {})
        <4>1. h = s => \A u \in Threads : ~Underway(u, h)
          BY <1>4
        <4>2. init \notin ends
          BY <2>3
        <4> HIDE DEF ends
        <4> QED BY <1>1, <1>2, <1>3, <4>1, <4>2, ExpectedAtCall
      <3> QED BY <3>1 DEF Started
    <2> QED BY <2>1, <2>2, <2>4
  <1> QED BY <1>4, <1>6, <1>7, <1>8 DEF LeakIInv

LEMMA StampLeaks ==
    ASSUME IInv, LeakIInv, NEW t \in Threads, Stamp(t)
    PROVE  LeakIInv'
  <1>1. /\ file' = file /\ UNCHANGED <<token, mine>>
        /\ \A u \in Threads : at'[u] # "idle" <=> at[u] # "idle"
    <2>1. at \in [Threads -> Places]
      BY DEF IInv, TypeOK, Places
    <2> QED BY <2>1 DEF Stamp
  <1>2. \A u \in Threads : /\ event'[u].fn = event[u].fn /\ event'[u].rv = event[u].rv
                           /\ event'[u].session = event[u].session
    BY StampKeepsEvents
  <1>3. \A u \in Threads : \A h : Underway(u, h)' <=> Underway(u, h)
    BY <1>1, <1>2 DEF Underway
  <1>4. SessionsApart'
    <2>1. SessionsApart /\ mine' = mine /\ given' = given
      BY <1>1 DEF LeakIInv, token
    <2> QED BY <1>3, <2>1 DEF SessionsApart
  <1>5. BegunOnSessions' /\ (NotClosedAll' => NotClosedAll)
    <2>1. BegunOnSessions
      BY DEF LeakIInv
    <2>2. \A u \in Threads : Begins(event[u])' <=> Begins(event[u])
      BY <1>2 DEF Begins, OK
    <2>3. \A i \in DOMAIN file : Begins(file[i])' <=> Begins(file[i])
      BY <1>1 DEF Begins
    <2> QED BY <1>1, <1>2, <2>1, <2>2, <2>3 DEF BegunOnSessions, NotClosedAll, ClosedAll
  <1>6. \A h : Open(h)' <=> Open(h)
    BY ExpectedAtStamp DEF Open
  <1>7. \A h, init : Started(h, init)' <=> Started(h, init)
    <2> TAKE h, init
    <2> DEFINE ends == operationPairs[init]
    <2>1. Expected(h, init, ends, {})' <=> Expected(h, init, ends, {})
      <3> HIDE DEF ends
      <3> QED BY ExpectedAtStamp
    <2> QED BY <2>1 DEF Started
  <1>8. unclosed' = unclosed /\ dangling' = dangling
    BY <1>1 DEF token
  <1> QED BY <1>4, <1>5, <1>6, <1>7, <1>8 DEF LeakIInv

LEMMA WriteLeaks ==
    ASSUME IInv, LeakIInv, NEW t \in Threads, Write(t), EventWritten(t)
    PROVE  LeakIInv'
  <1>0. SessionsApart /\ BegunOnSessions
    BY DEF LeakIInv
  <1>1. /\ UNCHANGED <<token, mine>> /\ event' = event /\ at[t] # "idle" /\ at'[t] = "idle"
        /\ \A u \in Threads \ {t} : at'[u] = at[u]
    <2>1. at \in [Threads -> Places]
      BY DEF IInv, TypeOK, Places
    <2> QED BY <2>1 DEF Write
  <1>2. PICK n : /\ DOMAIN file' = DOMAIN file \cup {n} /\ file'[n] = event[t]
                 /\ \A i \in DOMAIN file : file'[i] = file[i]
    <2>1. PICK n : n = Len(file) + 1
      OBVIOUS
    <2> QED BY <2>1, FileAfter
  <1>3. SessionsApart'
    <2>1. mine' = mine /\ given' = given
      BY <1>1 DEF token
    <2>2. \A u \in Threads : \A h : Underway(u, h)' => Underway(u, h)
      BY <1>1 DEF Underway
    <2> QED BY <1>0, <2>1, <2>2 DEF SessionsApart
  <1>4. BegunOnSessions'
    <2>1. \A u \in Threads : Begins(event[u])' <=> Begins(event[u])
      BY <1>1 DEF Begins
    <2>2. \A i \in DOMAIN file : Begins(file[i])' <=> Begins(file[i])
      BY <1>2 DEF Begins, OK
    <2>3. Begins(file[n])' <=> Begins(event[t])
      BY <1>2 DEF Begins, OK
    <2> QED BY <1>0, <1>1, <1>2, <2>1, <2>2, <2>3 DEF BegunOnSessions
  <1>5. ASSUME NotClosedAll' PROVE NotClosedAll
    <2>1. \A i \in DOMAIN file : file[i].fn # "C_CloseAllSessions"
      BY <1>2, <1>5 DEF NotClosedAll, ClosedAll
    <2>2. event[t].fn # "C_CloseAllSessions"
      BY <1>2, <1>5 DEF NotClosedAll, ClosedAll
    <2> QED BY <1>1, <1>5, <2>1, <2>2 DEF NotClosedAll, ClosedAll
  <1>6. unclosed' = unclosed /\ dangling' = dangling
    BY <1>1 DEF token
  <1>7. ASSUME NotClosedAll', NEW h \in Handles PROVE h \in unclosed' <=> Open(h)'
    <2>1. h \in unclosed <=> Open(h)
      BY <1>5, <1>7 DEF LeakIInv
    <2>2. event[t].fn \notin {"C_CloseAllSessions"}
      BY <1>1, <1>5, <1>7 DEF NotClosedAll
    <2>3. Open(h)' <=> Open(h)
      BY <1>0, <2>2, PairsApart, ExpectedAtWrite DEF Open
    <2> QED BY <1>6, <2>1, <2>3
  <1>8. ASSUME NEW h \in Handles, NEW init \in DOMAIN operationPairs
        PROVE  <<h, init>> \in dangling' <=> Started(h, init)'
    <2>1. <<h, init>> \in dangling <=> Started(h, init)
      BY DEF LeakIInv
    <2> DEFINE ends == operationPairs[init]
    <2>2. Apart(init, ends, {})
      BY PairsApart
    <2>3. Expected(h, init, ends, {})' <=> Expected(h, init, ends, {})
      <3> HIDE DEF ends
      <3> QED BY <1>0, <2>2, ExpectedAtWrite
    <2> QED BY <1>6, <2>1, <2>3 DEF Started
  <1> QED BY <1>3, <1>4, <1>7, <1>8 DEF LeakIInv

LEMMA LeakInvariant ==
    ASSUME ~ReuseHandles, Functions \subseteq RecordableFunctions
    PROVE  Spec => []LeakInv
  <1>1. Init => LeakInv
    <2> SUFFICES ASSUME Init PROVE LeakIInv
      BY DEF LeakInv
    <2>1. file = <<>> /\ given = {} /\ unclosed = {} /\ dangling = {} /\ DOMAIN file = {}
          /\ (\A t \in Threads : at[t] = "idle") /\ (\A t \in Threads : mine[t] = {})
      BY DEF Init
    <2>2. \A h : ~Open(h)
      <3>1. MapAfter("C_OpenSession", {"C_CloseSession"}, {"C_CloseAllSessions"}, <<>>) = {}
        BY PairsApart, MapOfNothing
      <3> QED BY <2>1, <3>1 DEF Open, Expected, Underway, InMap
    <2>4. \A h \in Handles, init \in DOMAIN operationPairs : ~Started(h, init)
      <3> SUFFICES ASSUME NEW h \in Handles, NEW init \in DOMAIN operationPairs PROVE ~Started(h, init)
        OBVIOUS
      <3>1. MapAfter(init, operationPairs[init], {}, <<>>) = {}
        BY PairsApart, MapOfNothing
      <3> QED BY <2>1, <3>1 DEF Started, Expected, Underway, InMap
    <2>5. SessionsApart /\ BegunOnSessions
      BY <2>1 DEF SessionsApart, BegunOnSessions, Underway
    <2> QED BY <2>1, <2>2, <2>4, <2>5 DEF LeakIInv
  <1>2. ASSUME IInv, LeakInv, [Next]_vars PROVE LeakInv'
    <2> SUFFICES ASSUME run' = 1, ~broken' PROVE LeakIInv'
      BY DEF LeakInv, OneRun
    <2>1. CASE UNCHANGED vars
      <3>1. LeakIInv
        BY <1>2, <2>1 DEF vars, LeakInv, OneRun
      <3> QED BY <2>1, <3>1 DEF vars, token, LeakIInv, SessionsApart, BegunOnSessions, Begins, OK,
           NotClosedAll, ClosedAll, Open, Started, Expected, Underway, InMap
    <2>2. ASSUME NEW t \in Threads, Call(t) PROVE LeakIInv'
      <3>1. run' = run /\ broken' = broken
        BY <1>2, <2>2, CallEffect
      <3> QED BY <1>2, <2>2, <3>1, CallLeaks DEF LeakInv, OneRun
    <2>3. ASSUME NEW t \in Threads, Stamp(t) PROVE LeakIInv'
      <3>1. run' = run /\ broken' = broken
        BY <2>3 DEF Stamp
      <3> QED BY <1>2, <2>3, <3>1, StampLeaks DEF LeakInv, OneRun
    <2>4. ASSUME NEW t \in Threads, Write(t) PROVE LeakIInv'
      <3>1. run' = run /\ EventWritten(t)
        BY <1>2, <2>4, WriteEffect
      <3>2. ~broken
        BY <3>1 DEF EventWritten
      <3> QED BY <1>2, <2>4, <3>1, <3>2, WriteLeaks DEF LeakInv, OneRun
    <2>5. CASE Restart
      BY <1>2, <2>5, RestartEffect, Values
    <2> QED BY <1>2, <2>1, <2>2, <2>3, <2>4, <2>5 DEF Next
  <1> QED BY <1>1, <1>2, SpecIInv, PTL DEF Spec

\* Of the loop's map, what the findings point at in the trace.
LEMMA PointedAt ==
    ASSUME IInv, OneRun, BegunOnSessions, NEW start, NEW ends, NEW endsAll, Apart(start, ends, endsAll),
           start \in {"C_OpenSession"} \cup DOMAIN operationPairs
    PROVE  LET map == MapAfter(start, ends, endsAll, file) IN
           /\ \A j \in DOMAIN file : file[j].seq \in SeqsOf(map) =>
                 /\ file[j].fn = start /\ file[j].session \in Handles
                 /\ InMap(file[j].session, map)
           /\ \A h : InMap(h, map) =>
                 \E j \in DOMAIN file : /\ file[j].seq \in SeqsOf(map)
                                        /\ file[j].fn = start /\ file[j].session = h
  <1> DEFINE map == MapAfter(start, ends, endsAll, file)
  <1>1. \A p \in map : \E i \in DOMAIN file : /\ p = <<file[i].session, file[i].seq>>
                                              /\ file[i].fn = start /\ OK(file[i])
    BY MapFromTrace DEF IInv, TypeOK
  <1> HIDE DEF map
  <1>2. ASSUME NEW j \in DOMAIN file, file[j].seq \in SeqsOf(map)
        PROVE  /\ file[j].fn = start /\ file[j].session \in Handles
               /\ InMap(file[j].session, map)
    <2>1. PICK p \in map : p[2] = file[j].seq
      BY <1>2 DEF SeqsOf
    <2>2. PICK i \in DOMAIN file : /\ p = <<file[i].session, file[i].seq>>
                                   /\ file[i].fn = start /\ OK(file[i])
      BY <1>1
    <2>3. i = j
      BY <2>1, <2>2, OneProcess
    <2>4. file[j].session \in Handles
      BY <2>2, <2>3 DEF BegunOnSessions, Begins
    <2> QED BY <2>2, <2>3, <2>4 DEF InMap
  <1>3. ASSUME NEW h, InMap(h, map)
        PROVE  \E j \in DOMAIN file : /\ file[j].seq \in SeqsOf(map)
                                      /\ file[j].fn = start /\ file[j].session = h
    <2>1. PICK p \in map : p[1] = h
      BY <1>3 DEF InMap
    <2>2. PICK i \in DOMAIN file : p = <<file[i].session, file[i].seq>> /\ file[i].fn = start
      BY <1>1
    <2> QED BY <2>1, <2>2 DEF SeqsOf
  <1> QED BY <1>2, <1>3 DEF map

\* What the trace of one process, written without a failure, is said to leak is what the
\* application did leak, for any number of threads, sessions and calls.  Two limits of
\* the analyzer are conditions here: a handle given out again hides the leak of its
\* former session, and an end that the shim does not record (C_SignFinal, C_Digest)
\* leaves its operation open in the trace.
THEOREM LeaksAreExact ==
    ASSUME ~ReuseHandles, Functions \subseteq RecordableFunctions
    PROVE  Spec => []LeaksExact
  <1>1. ASSUME IInv, LeakInv, OneRun, ~broken
        PROVE  SessionLeaksExact /\ OperationLeaksExact
    <2>0. BegunOnSessions /\ TypeOK
      BY <1>1 DEF LeakInv, LeakIInv, IInv
    <2>1. ASSUME Quiet, ~ClosedAll
          PROVE  {e.session : e \in InFile(checkSessionLeaks(file))} = unclosed
      <3> DEFINE map == openSessions(file)
      <3>1. checkSessionLeaks(file) = SeqsOf(map)
        BY <2>1 DEF checkSessionLeaks, ClosedAll
      <3>2. \A h \in Handles : h \in unclosed <=> InMap(h, map)
        BY <1>1, <2>1 DEF LeakInv, LeakIInv, NotClosedAll, Open, Expected, Underway, Quiet, openSessions
      <3>3. /\ \A j \in DOMAIN file : file[j].seq \in SeqsOf(map) =>
                 /\ file[j].session \in Handles /\ InMap(file[j].session, map)
            /\ \A h : InMap(h, map) =>
                 \E j \in DOMAIN file : file[j].seq \in SeqsOf(map) /\ file[j].session = h
        BY <1>1, <2>0, PairsApart, PointedAt DEF openSessions
      <3> HIDE DEF map
      <3>4. unclosed \subseteq Handles
        BY <2>0 DEF TypeOK
      <3> QED BY <3>1, <3>2, <3>3, <3>4 DEF InFile
    <2>2. ASSUME Quiet
          PROVE  {<<e.session, e.fn>> : e \in InFile(checkOperationPairs(file))} = dangling
      <3>1. \A h \in Handles, init \in DOMAIN operationPairs :
                <<h, init>> \in dangling <=> InMap(h, pendingOf(init, file))
        <4>1. \A h \in Handles, init \in DOMAIN operationPairs : <<h, init>> \in dangling <=> Started(h, init)
          BY <1>1 DEF LeakInv, LeakIInv
        <4> QED BY <2>2, <4>1 DEF Started, Expected, Underway, Quiet, pendingOf
      <3>2. ASSUME NEW init \in DOMAIN operationPairs
            PROVE  LET map == pendingOf(init, file) IN
                   /\ \A j \in DOMAIN file : file[j].seq \in SeqsOf(map) =>
                         /\ file[j].fn = init /\ file[j].session \in Handles
                         /\ InMap(file[j].session, map)
                   /\ \A h : InMap(h, map) =>
                         \E j \in DOMAIN file : /\ file[j].seq \in SeqsOf(map)
                                                /\ file[j].fn = init /\ file[j].session = h
        <4>1. Apart(init, operationPairs[init], {})
          BY PairsApart
        <4> QED BY <1>1, <2>0, <4>1, PointedAt DEF pendingOf
      <3>3. \A p \in dangling : \E h \in Handles, init \in DOMAIN operationPairs : p = <<h, init>>
        BY <2>0 DEF TypeOK, Inits
      <3>4. ASSUME NEW j \in DOMAIN file, file[j].seq \in checkOperationPairs(file)
            PROVE  <<file[j].session, file[j].fn>> \in dangling
        <4>1. PICK init \in DOMAIN operationPairs : file[j].seq \in SeqsOf(pendingOf(init, file))
          BY <3>4 DEF checkOperationPairs
        <4> QED BY <3>1, <3>2, <4>1
      <3>5. ASSUME NEW p \in dangling
            PROVE  \E j \in DOMAIN file : /\ file[j].seq \in checkOperationPairs(file)
                                          /\ p = <<file[j].session, file[j].fn>>
        <4>1. PICK h \in Handles, init \in DOMAIN operationPairs : p = <<h, init>>
          BY <3>3
        <4>2. PICK j \in DOMAIN file : /\ file[j].seq \in SeqsOf(pendingOf(init, file))
                                       /\ file[j].fn = init /\ file[j].session = h
          BY <3>1, <3>2, <4>1
        <4> QED BY <4>1, <4>2 DEF checkOperationPairs
      <3> QED BY <3>4, <3>5 DEF InFile
    <2> QED BY <2>1, <2>2 DEF SessionLeaksExact, OperationLeaksExact
  <1>2. IInv /\ LeakInv => LeaksExact
    BY <1>1 DEF LeaksExact
  <1> QED BY <1>2, SpecIInv, LeakInvariant, PTL

HIDE FlightRecorderAssumption

-----------------------------------------------------------------------------
(* The keys of a trace (module KeyUsage, with a specification of its own).    *)

NamesOrNot == Names \cup {Unnamed}
UsageStates == [pending : [Sessions -> NamesOrNot],
                bindings : [Sessions -> [Keys -> NamesOrNot]],
                uses : Seq([name : NamesOrNot, handle : Keys])]

LEMMA UsageObserved ==
    ASSUME NEW u \in UsageStates, NEW e \in UsageEvent
    PROVE  Observe(u, e) \in UsageStates
  <1>1. Observe(u, e).pending \in [Sessions -> NamesOrNot]
    BY DEF Observe, UsageEvent, UsageStates, NamesOrNot
  <1>2. Observe(u, e).bindings \in [Sessions -> [Keys -> NamesOrNot]]
    BY DEF Observe, UsageEvent, UsageStates, NamesOrNot
  <1>3. Observe(u, e).uses \in Seq([name : NamesOrNot, handle : Keys])
    <2>1. CASE e.fn \in operationInit /\ e.object # NoKey
      <3> DEFINE use == [name |-> u.bindings[e.session][e.object], handle |-> e.object]
      <3>1. Observe(u, e).uses = Append(u.uses, use)
        BY <2>1 DEF Observe
      <3>2. use \in [name : NamesOrNot, handle : Keys]
        BY <2>1 DEF UsageStates, UsageEvent, NamesOrNot
      <3>3. u.uses \in Seq([name : NamesOrNot, handle : Keys])
        BY DEF UsageStates
      <3> HIDE DEF use
      <3> QED BY <3>1, <3>2, <3>3
    <2>2. CASE ~(e.fn \in operationInit /\ e.object # NoKey)
      BY <2>2 DEF Observe, UsageStates
    <2> QED BY <2>1, <2>2
  <1> QED BY <1>1, <1>2, <1>3 DEF Observe, UsageStates

LEMMA NoUsageYet == NoUsage \in UsageStates
  BY DEF NoUsage, UsageStates, NamesOrNot

\* The recursion of KeyUsageOf, with the last event taken first.
UsageLoop(f, trace) ==
    f = [s \in SUBSET DOMAIN trace |->
            IF s = {} THEN NoUsage ELSE Observe(f[s \ {Max(s)}], trace[Max(s)])]

\* What f says is known after each event.
UsageRuns(f, trace) ==
    /\ KeyUsageOf(trace) = f[1..Len(trace)]
    /\ f[1..0] = NoUsage
    /\ \A k \in 1..Len(trace) : f[1..k] = Observe(f[1..k - 1], trace[k])
    /\ f[1..Len(trace)] \in UsageStates

LEMMA UsageByEvent ==
    ASSUME NEW trace \in Seq(UsageEvent)
    PROVE  \E f : UsageRuns(f, trace)
  <1> DEFINE n == Len(trace)
             H == [p \in (1..n) \X UsageStates |-> Observe(p[2], trace[p[1]])]
             F == CHOOSE f : UsageLoop(f, trace)
  <1>1. n \in Nat /\ DOMAIN trace = 1..n /\ \A k \in 1..n : trace[k] \in UsageEvent
    OBVIOUS
  <1>2. H \in [(1..n) \X UsageStates -> UsageStates]
    <2> SUFFICES ASSUME NEW k \in 1..n, NEW u \in UsageStates
                 PROVE  Observe(u, trace[k]) \in UsageStates
      OBVIOUS
    <2> QED BY <1>1, UsageObserved
  <1>3. PICK f \in [SUBSET (1..n) -> UsageStates] : FoldsBy(f, n, NoUsage, H)
    <2> HIDE DEF n, H
    <2> QED BY <1>1, <1>2, FoldExists, NoUsageYet
  <1>4. \A s \in SUBSET (1..n) : s # {} => Max(s) \in 1..n /\ s \ {Max(s)} \in SUBSET (1..n)
    <2> HIDE DEF n
    <2> QED BY <1>1, LastOf
  <1>5. \A s \in SUBSET (1..n) :
            f[s] = IF s = {} THEN NoUsage ELSE Observe(f[s \ {Max(s)}], trace[Max(s)])
    BY <1>3, <1>4 DEF FoldsBy
  <1>6. UsageLoop(f, trace)
    BY <1>1, <1>3, <1>5 DEF UsageLoop
  <1>7. UsageLoop(F, trace)
    BY <1>6
  <1>8. KeyUsageOf(trace) = F[DOMAIN trace]
    BY DEF KeyUsageOf, FoldLeft, MapThenFoldSet, UsageLoop
  <1> HIDE DEF F, n
  <1>9. F[1..0] = NoUsage
    <2>1. 1..0 = {}
      OBVIOUS
    <2> QED BY <1>7, <2>1 DEF UsageLoop
  <1>10. ASSUME NEW k \in 1..n
         PROVE  F[1..k] = Observe(F[1..k - 1], trace[k])
    <2>1. 1..k \in SUBSET DOMAIN trace /\ k \in 1..k
      BY <1>1
    <2>2. Max(1..k) = k /\ (1..k) \ {k} = 1..k - 1
      BY <1>1, LastOf
    <2>3. F[1..k] = Observe(F[(1..k) \ {Max(1..k)}], trace[Max(1..k)])
      BY <1>7, <2>1 DEF UsageLoop
    <2> QED BY <2>2, <2>3
  <1>11. F[1..n] \in UsageStates
    <2> DEFINE S == {k \in 0..n : F[1..k] \in UsageStates}
    <2>1. 0 \in S
      BY <1>1, <1>9, NoUsageYet
    <2>2. ASSUME NEW k \in 1..n, k - 1 \in S PROVE k \in S
      <3>1. F[1..k - 1] \in UsageStates /\ trace[k] \in UsageEvent
        BY <1>1, <2>2
      <3>2. F[1..k] \in UsageStates
        BY <1>10, <3>1, UsageObserved
      <3> QED BY <1>1, <3>2
    <2>3. 0..n \subseteq S
      <3> HIDE DEF S
      <3> QED BY <1>1, <2>1, <2>2, UpTo
    <2> QED BY <1>1, <2>3
  <1>12. UsageRuns(F, trace)
    BY <1>1, <1>8, <1>9, <1>10, <1>11 DEF n, UsageRuns
  <1> QED BY <1>12

\* One more event at the end of the trace is one more turn of the loop.
LEMMA UsageOfLonger ==
    ASSUME NEW trace \in Seq(UsageEvent), NEW e \in UsageEvent
    PROVE  /\ KeyUsageOf(Append(trace, e)) = Observe(KeyUsageOf(trace), e)
           /\ KeyUsageOf(trace) \in UsageStates
  <1> DEFINE n == Len(trace)
             more == Append(trace, e)
  <1>1. more \in Seq(UsageEvent) /\ Len(more) = n + 1 /\ n \in Nat
        /\ more[n + 1] = e /\ \A k \in 1..n : more[k] = trace[k]
    OBVIOUS
  <1> HIDE DEF n, more
  <1>2. PICK f : /\ KeyUsageOf(trace) = f[1..n]
                 /\ f[1..0] = NoUsage
                 /\ \A k \in 1..n : f[1..k] = Observe(f[1..k - 1], trace[k])
                 /\ f[1..n] \in UsageStates
    <2>1. \E f : UsageRuns(f, trace)
      BY UsageByEvent
    <2> QED BY <2>1 DEF n, UsageRuns
  <1>3. PICK g : /\ KeyUsageOf(more) = g[1..n + 1]
                 /\ g[1..0] = NoUsage
                 /\ \A k \in 1..n + 1 : g[1..k] = Observe(g[1..k - 1], more[k])
    <2>1. more \in Seq(UsageEvent) /\ Len(more) = n + 1
      BY <1>1
    <2>2. \E g : UsageRuns(g, more)
      BY <2>1, UsageByEvent
    <2> QED BY <2>1, <2>2 DEF UsageRuns
  <1> DEFINE S == {k \in 0..n : f[1..k] = g[1..k]}
  <1>4. 0 \in S
    <2>1. f[1..0] = g[1..0]
      BY <1>2, <1>3
    <2>2. 0 \in 0..n
      BY <1>1
    <2> QED BY <2>1, <2>2
  <1>5. ASSUME NEW k \in 1..n, k - 1 \in S PROVE k \in S
    <2>1. k \in 1..n + 1 /\ k \in 0..n
      BY <1>1
    <2>2. f[1..k - 1] = g[1..k - 1]
      BY <1>5
    <2> QED BY <1>1, <1>2, <1>3, <2>1, <2>2
  <1>6. f[1..n] = g[1..n]
    <2>1. n \in 0..n
      BY <1>1
    <2>2. 0..n \subseteq S
      <3> HIDE DEF S
      <3> QED BY <1>1, <1>4, <1>5, UpTo
    <2> QED BY <2>1, <2>2
  <1>7. g[1..n + 1] = Observe(g[1..(n + 1) - 1], more[n + 1])
    <2>1. n + 1 \in 1..n + 1
      BY <1>1
    <2> QED BY <1>3, <2>1
  <1>8. (n + 1) - 1 = n
    BY <1>1
  <1> QED BY <1>1, <1>2, <1>3, <1>6, <1>7, <1>8 DEF more

LEMMA UsageOfNothing == KeyUsageOf(<<>>) = NoUsage
  <1>1. <<>> \in Seq(UsageEvent)
    OBVIOUS
  <1>2. \E f : UsageRuns(f, <<>>)
    BY <1>1, UsageByEvent
  <1> QED BY <1>2 DEF UsageRuns

\* What KeyUsageOf knows of the trace: the name a session last asked for, the names
\* tied to the handles its searches returned, and whose the operations are.
Told == KeyUsageOf(events)
PendingInv == \A s \in Sessions :
    /\ \A j \in DOMAIN events : LastAsked(j, Len(events) + 1, s) => events[j].name = Told.pending[s]
    /\ Told.pending[s] # Unnamed => \E j \in DOMAIN events : LastAsked(j, Len(events) + 1, s)
Bound(s, k) == Told.bindings[s][k] = NameOf[k]
BindingInv == \A s \in Sessions, k \in Keys :
    NameOf[k] # Unnamed => (Bound(s, k) <=> LocatedByName(k, Len(events), s))
Counts(k, i) == Told.uses[i].name = NameOf[k] /\ Told.uses[i].handle = k
CountInv == \A k \in Keys : NameOf[k] # Unnamed =>
    /\ (\E i \in DOMAIN Told.uses : Counts(k, i)) <=> LocatedOperations(k) # {}
    /\ Total(events, NameOf[k]) >= Cardinality(LocatedOperations(k))
\* As long as searches were ended, what a session still finds is what it last asked for.
SearchInv == SearchesEnded =>
    /\ \A s \in Sessions : \A k \in found[s] : Told.pending[s] \in {NameOf[k], Unnamed}
    /\ \A s \in Sessions, k \in Keys : Told.bindings[s][k] \in {NameOf[k], Unnamed}
    /\ \A i \in DOMAIN Told.uses : Told.uses[i].name \in {NameOf[Told.uses[i].handle], Unnamed}

KnownInv == PendingInv /\ BindingInv /\ CountInv
UsageIInv == UsageTypeOK /\ KnownInv /\ SearchInv

\* What was said of the events before the last is still true of them.
LEMMA EarlierEvents ==
    ASSUME events \in Seq(UsageEvent), NEW e \in UsageEvent, events' = Append(events, e)
    PROVE  LET n == Len(events)
           IN  /\ n \in Nat /\ DOMAIN events = 1..n /\ DOMAIN events' = 1..n + 1 /\ Len(events') = n + 1
               /\ \A i \in 1..n : events'[i] = events[i]
               /\ events'[n + 1] = e
               /\ \A j, l \in 1..n + 1, s \in Sessions :
                    j < l => (LastAsked(j, l, s)' <=> LastAsked(j, l, s))
               /\ \A l \in 1..n, k \in Keys, s \in Sessions : Returns(l, k, s)' <=> Returns(l, k, s)
               /\ \A i \in 1..n, k \in Keys, s \in Sessions :
                    LocatedByName(k, i, s)' <=> LocatedByName(k, i, s)
  <1> DEFINE n == Len(events)
  <1>1. /\ n \in Nat /\ DOMAIN events = 1..n /\ DOMAIN events' = 1..n + 1 /\ Len(events') = n + 1
        /\ \A i \in 1..n : events'[i] = events[i]
        /\ events'[n + 1] = e
    OBVIOUS
  <1> HIDE DEF n
  <1>2. \A j \in 1..n, s \in Sessions : Asks(j, s)' <=> Asks(j, s)
    BY <1>1 DEF Asks
  <1>3. ASSUME NEW j \in 1..n + 1, NEW l \in 1..n + 1, NEW s \in Sessions, j < l
        PROVE  LastAsked(j, l, s)' <=> LastAsked(j, l, s)
    <2>1. j \in 1..n /\ \A m \in j + 1..l - 1 : m \in 1..n
      BY <1>1, <1>3
    <2> QED BY <1>2, <2>1 DEF LastAsked
  <1>4. \A l \in 1..n, k \in Keys, s \in Sessions : Returns(l, k, s)' <=> Returns(l, k, s)
    BY <1>1 DEF Returns
  <1>5. ASSUME NEW i \in 1..n, NEW k \in Keys, NEW s \in Sessions
        PROVE  LocatedByName(k, i, s)' <=> LocatedByName(k, i, s)
    <2>1. \A l \in 1..i : l \in 1..n /\ l \in 1..n + 1
      BY <1>1
    <2>2. \A l, j \in 1..i : LastAsked(j, l, s)' <=> LastAsked(j, l, s)
      <3> SUFFICES ASSUME NEW l \in 1..i, NEW j \in 1..i PROVE LastAsked(j, l, s)' <=> LastAsked(j, l, s)
        OBVIOUS
      <3>1. CASE j < l
        BY <1>3, <2>1, <3>1
      <3>2. CASE ~(j < l)
        BY <3>2 DEF LastAsked
      <3> QED BY <3>1, <3>2
    <2>3. \A l \in 1..i : (Returns(l, k, s)' <=> Returns(l, k, s)) /\ events'[l] = events[l]
      BY <1>1, <1>4, <2>1
    <2>4. \A l \in 1..i : \A m \in l + 1..i : m \in 1..i
      BY <1>1
    <2> DEFINE only(l) == \A m \in l + 1..i, n1 \in 1..i : Returns(m, k, s) /\ LastAsked(n1, m, s) =>
                              events[n1].name \in {NameOf[k], Unnamed}
               onlyAfter(l) == \A m \in l + 1..i, n1 \in 1..i : Returns(m, k, s)' /\ LastAsked(n1, m, s)' =>
                              events'[n1].name \in {NameOf[k], Unnamed}
               by(l, j) == Returns(l, k, s) /\ LastAsked(j, l, s) /\ events[j].name = NameOf[k]
               byAfter(l, j) == Returns(l, k, s)' /\ LastAsked(j, l, s)' /\ events'[j].name = NameOf[k]
    <2>5. \A l \in 1..i : onlyAfter(l) <=> only(l)
      BY <2>2, <2>3, <2>4
    <2>6. \A l, j \in 1..i : byAfter(l, j) <=> by(l, j)
      BY <2>2, <2>3
    <2>7. LocatedByName(k, i, s) <=> NameOf[k] # Unnamed /\ \E l, j \in 1..i : by(l, j) /\ only(l)
      BY DEF LocatedByName
    <2>8. LocatedByName(k, i, s)' <=> NameOf[k] # Unnamed /\ \E l, j \in 1..i : byAfter(l, j) /\ onlyAfter(l)
      BY DEF LocatedByName
    <2> HIDE DEF by, byAfter, only, onlyAfter
    <2> QED BY <2>5, <2>6, <2>7, <2>8
  <1> QED BY <1>1, <1>3, <1>4, <1>5 DEF n

LEMMA KnownAfter ==
    ASSUME events \in Seq(UsageEvent), NEW e \in UsageEvent, events' = Append(events, e)
    PROVE  /\ Told \in UsageStates /\ Told' \in UsageStates
           /\ Told'.pending =
                IF e.fn = "C_FindObjectsInit" THEN [Told.pending EXCEPT ![e.session] = e.name] ELSE Told.pending
           /\ Told'.bindings =
                IF e.fn = "C_FindObjects" /\ e.object # NoKey /\ Told.pending[e.session] # Unnamed
                THEN [Told.bindings EXCEPT ![e.session][e.object] = Told.pending[e.session]]
                ELSE Told.bindings
           /\ Told'.uses =
                IF e.fn \in operationInit /\ e.object # NoKey
                THEN Append(Told.uses, [name |-> Told.bindings[e.session][e.object], handle |-> e.object])
                ELSE Told.uses
  <1>1. Told' = Observe(Told, e) /\ Told \in UsageStates
    BY UsageOfLonger DEF Told
  <1>2. Told' \in UsageStates
    BY <1>1, UsageObserved
  <1> QED BY <1>1, <1>2 DEF Observe

\* The search last asked for by a session, once one more event has been traced.
LEMMA AskedNext ==
    ASSUME events \in Seq(UsageEvent), NEW e \in UsageEvent, events' = Append(events, e),
           NEW s \in Sessions, NEW n \in Nat, n = Len(events)
    PROVE  IF e.fn = "C_FindObjectsInit" /\ e.session = s
           THEN \A j \in 1..n + 1 : LastAsked(j, n + 2, s)' <=> j = n + 1
           ELSE \A j \in 1..n + 1 : LastAsked(j, n + 2, s)' <=> j \in 1..n /\ LastAsked(j, n + 1, s)
  <1>1. n \in Nat /\ events'[n + 1] = e /\ \A i \in 1..n : events'[i] = events[i]
    OBVIOUS
  <1>2. Asks(n + 1, s)' <=> e.fn = "C_FindObjectsInit" /\ e.session = s
    BY <1>1 DEF Asks
  <1>3. \A i \in 1..n : Asks(i, s)' <=> Asks(i, s)
    BY <1>1 DEF Asks
  <1>4. CASE Asks(n + 1, s)'
    <2> SUFFICES ASSUME NEW j \in 1..n + 1 PROVE LastAsked(j, n + 2, s)' <=> j = n + 1
      BY <1>2, <1>4
    <2>1. CASE j = n + 1
      BY <1>1, <1>4, <2>1 DEF LastAsked
    <2>2. CASE j # n + 1
      <3>1. n + 1 \in j + 1..(n + 2) - 1
        BY <1>1, <2>2
      <3> QED BY <1>4, <2>2, <3>1 DEF LastAsked
    <2> QED BY <2>1, <2>2
  <1>5. CASE ~Asks(n + 1, s)'
    <2> SUFFICES ASSUME NEW j \in 1..n + 1
                 PROVE  LastAsked(j, n + 2, s)' <=> j \in 1..n /\ LastAsked(j, n + 1, s)
      BY <1>2, <1>5
    <2>1. CASE j = n + 1
      BY <1>1, <1>5, <2>1 DEF LastAsked
    <2>2. CASE j \in 1..n
      <3>1. \A m \in j + 1..(n + 1) - 1 : m \in 1..n /\ m \in j + 1..(n + 2) - 1
        BY <1>1, <2>2
      <3>2. \A m \in j + 1..(n + 2) - 1 : m = n + 1 \/ (m \in 1..n /\ m \in j + 1..(n + 1) - 1)
        BY <1>1, <2>2
      <3>3. j < n + 1 /\ j < n + 2
        BY <1>1, <2>2
      <3> QED BY <1>3, <1>5, <2>2, <3>1, <3>2, <3>3 DEF LastAsked
    <2>3. j = n + 1 \/ j \in 1..n
      BY <1>1
    <2> QED BY <2>1, <2>2, <2>3
  <1> QED BY <1>4, <1>5

LEMMA PendingStep ==
    ASSUME events \in Seq(UsageEvent), PendingInv, NEW e \in UsageEvent, events' = Append(events, e)
    PROVE  PendingInv'
  <1> PICK n \in Nat : n = Len(events)
    OBVIOUS
  <1>1. /\ n \in Nat /\ Len(events') = n + 1 /\ DOMAIN events = 1..n /\ DOMAIN events' = 1..n + 1
        /\ events'[n + 1] = e /\ \A i \in 1..n : events'[i] = events[i]
    OBVIOUS
  <1>2. (n + 1) + 1 = n + 2
    BY <1>1
  <1> SUFFICES ASSUME NEW s \in Sessions
               PROVE  /\ \A j \in 1..n + 1 : LastAsked(j, n + 2, s)' => events'[j].name = Told'.pending[s]
                      /\ Told'.pending[s] # Unnamed => \E j \in 1..n + 1 : LastAsked(j, n + 2, s)'
    BY <1>1, <1>2 DEF PendingInv
  <1>3. /\ \A j \in 1..n : LastAsked(j, n + 1, s) => events[j].name = Told.pending[s]
        /\ Told.pending[s] # Unnamed => \E j \in 1..n : LastAsked(j, n + 1, s)
    BY <1>1 DEF PendingInv
  <1>4. CASE e.fn = "C_FindObjectsInit" /\ e.session = s
    <2>1. \A j \in 1..n + 1 : LastAsked(j, n + 2, s)' <=> j = n + 1
      BY <1>4, AskedNext
    <2>2. Told'.pending[s] = e.name
      BY <1>4, KnownAfter DEF UsageStates
    <2>3. n + 1 \in 1..n + 1
      BY <1>1
    <2> QED BY <1>1, <2>1, <2>2, <2>3
  <1>5. CASE ~(e.fn = "C_FindObjectsInit" /\ e.session = s)
    <2>1. \A j \in 1..n + 1 : LastAsked(j, n + 2, s)' <=> j \in 1..n /\ LastAsked(j, n + 1, s)
      BY <1>5, AskedNext
    <2>2. Told'.pending[s] = Told.pending[s]
      BY <1>5, KnownAfter DEF UsageStates
    <2>3. \A j \in 1..n : j \in 1..n + 1
      BY <1>1
    <2> QED BY <1>1, <1>3, <2>1, <2>2, <2>3
  <1> QED BY <1>4, <1>5

\* Whether a session has located a key by its name, after one more event.
LEMMA BindingStep ==
    ASSUME events \in Seq(UsageEvent), PendingInv, BindingInv, NEW e \in UsageEvent,
           events' = Append(events, e)
    PROVE  BindingInv'
  <1> PICK n \in Nat : n = Len(events)
    OBVIOUS
  <1>1. /\ n \in Nat /\ Len(events') = n + 1 /\ DOMAIN events = 1..n /\ DOMAIN events' = 1..n + 1
        /\ events'[n + 1] = e /\ \A i \in 1..n : events'[i] = events[i]
    OBVIOUS
  <1>2. /\ \A j, l \in 1..n + 1, s \in Sessions : j < l => (LastAsked(j, l, s)' <=> LastAsked(j, l, s))
        /\ \A l \in 1..n, k \in Keys, s \in Sessions : Returns(l, k, s)' <=> Returns(l, k, s)
    BY EarlierEvents
  <1> SUFFICES ASSUME NEW s \in Sessions, NEW k \in Keys, NameOf[k] # Unnamed
               PROVE  Told'.bindings[s][k] = NameOf[k] <=> LocatedByName(k, n + 1, s)'
    BY <1>1 DEF BindingInv, Bound
  <1>3. Told.bindings[s][k] = NameOf[k] <=> LocatedByName(k, n, s)
    BY <1>1 DEF BindingInv, Bound
  <1>4. NameOf' = NameOf /\ n + 1 \in 1..n + 1 /\ ~(n + 1 \in 1..n)
    BY <1>1
  <1> DEFINE by(l, j) == Returns(l, k, s) /\ LastAsked(j, l, s) /\ events[j].name = NameOf[k]
             other(m, j) == Returns(m, k, s) /\ LastAsked(j, m, s) /\ events[j].name \notin {NameOf[k], Unnamed}
             after(l, j) == Returns(l, k, s)' /\ LastAsked(j, l, s)' /\ events'[j].name = NameOf[k]
             otherAfter(m, j) == /\ Returns(m, k, s)' /\ LastAsked(j, m, s)'
                                 /\ events'[j].name \notin {NameOf[k], Unnamed}
  <1>5. LocatedByName(k, n, s) <=>
            \E l, j \in 1..n : by(l, j) /\ \A m \in l + 1..n, i \in 1..n : ~other(m, i)
    BY DEF LocatedByName
  <1>6. LocatedByName(k, n + 1, s)' <=>
            \E l, j \in 1..n + 1 : after(l, j) /\ \A m \in l + 1..n + 1, i \in 1..n + 1 : ~otherAfter(m, i)
    BY DEF LocatedByName
  <1>7. ASSUME NEW l \in 1..n, NEW j \in 1..n
        PROVE  (after(l, j) <=> by(l, j)) /\ (otherAfter(l, j) <=> other(l, j))
    <2>1. CASE j < l
      BY <1>1, <1>2, <2>1
    <2>2. CASE ~(j < l)
      BY <2>2 DEF LastAsked
    <2> QED BY <2>1, <2>2
  <1>8. \A l \in 1..n : ~after(l, n + 1) /\ ~otherAfter(l, n + 1)
    BY <1>1 DEF LastAsked
  <1>9. ~after(n + 1, n + 1) /\ ~otherAfter(n + 1, n + 1)
    BY <1>1 DEF LastAsked
  <1>10. Returns(n + 1, k, s)' <=> e.fn = "C_FindObjects" /\ e.object = k /\ e.session = s
    BY <1>1 DEF Returns
  <1>11. \A j \in 1..n : LastAsked(j, n + 1, s)' <=> LastAsked(j, n + 1, s)
    <2>1. \A j \in 1..n : j \in 1..n + 1 /\ n + 1 \in 1..n + 1 /\ j < n + 1
      BY <1>1
    <2> QED BY <1>2, <2>1
  <1>12. /\ \A j \in 1..n : LastAsked(j, n + 1, s) => events[j].name = Told.pending[s]
         /\ Told.pending[s] # Unnamed => \E j \in 1..n : LastAsked(j, n + 1, s)
    BY <1>1 DEF PendingInv
  <1>13. \A j \in 1..n : /\ after(n + 1, j) => Returns(n + 1, k, s)' /\ Told.pending[s] = NameOf[k]
                         /\ otherAfter(n + 1, j) =>
                                Returns(n + 1, k, s)' /\ Told.pending[s] \notin {NameOf[k], Unnamed}
    BY <1>1, <1>11, <1>12
  <1>14. \A l \in 1..n + 1 : l \in 1..n \/ l = n + 1
    BY <1>1
  <1>15. \A l \in 1..n : l \in 1..n + 1 /\ n + 1 \in l + 1..n + 1 /\ \A m \in l + 1..n : m \in l + 1..n + 1 /\ m \in 1..n
    BY <1>1
  <1>16. \A l \in 1..n : \A m \in l + 1..n + 1 : m = n + 1 \/ m \in l + 1..n
    BY <1>1
  <1>17. \A m \in n + 1 + 1..n + 1 : FALSE
    BY <1>1
  <1>18. CASE ~(Returns(n + 1, k, s)' /\ Told.pending[s] # Unnamed)
    <2>1. Told'.bindings[s][k] = Told.bindings[s][k]
      <3>1. CASE e.fn = "C_FindObjects" /\ e.object # NoKey /\ Told.pending[e.session] # Unnamed
        <4>1. Told'.bindings = [Told.bindings EXCEPT ![e.session][e.object] = Told.pending[e.session]]
          BY <3>1, KnownAfter
        <4>2. ~(e.session = s /\ e.object = k)
          BY <1>10, <1>18, <3>1
        <4>3. Told.bindings \in [Sessions -> [Keys -> NamesOrNot]]
          BY KnownAfter DEF UsageStates
        <4> QED BY <4>1, <4>2, <4>3
      <3>2. CASE ~(e.fn = "C_FindObjects" /\ e.object # NoKey /\ Told.pending[e.session] # Unnamed)
        BY <3>2, KnownAfter
      <3> QED BY <3>1, <3>2
    <2>2. \A j \in 1..n + 1 : ~after(n + 1, j) /\ ~otherAfter(n + 1, j)
      <3> HIDE DEF after, otherAfter
      <3> QED BY <1>9, <1>13, <1>14, <1>18
    <2> HIDE DEF by, other, after, otherAfter
    <2>3. ASSUME LocatedByName(k, n, s) PROVE LocatedByName(k, n + 1, s)'
      <3>1. PICK l \in 1..n, j \in 1..n : by(l, j) /\ \A m \in l + 1..n, i \in 1..n : ~other(m, i)
        BY <1>5, <2>3
      <3>2. ASSUME NEW m \in l + 1..n + 1, NEW i \in 1..n + 1 PROVE ~otherAfter(m, i)
        <4>1. CASE m = n + 1
          BY <2>2, <4>1
        <4>2. CASE m \in l + 1..n /\ i \in 1..n
          BY <1>7, <1>15, <3>1, <4>2
        <4>3. CASE m \in l + 1..n /\ i = n + 1
          BY <1>8, <1>15, <4>3
        <4> QED BY <1>14, <1>16, <4>1, <4>2, <4>3
      <3> QED BY <1>6, <1>7, <1>15, <3>1, <3>2
    <2>4. ASSUME LocatedByName(k, n + 1, s)' PROVE LocatedByName(k, n, s)
      <3>1. PICK l \in 1..n + 1, j \in 1..n + 1 :
                after(l, j) /\ \A m \in l + 1..n + 1, i \in 1..n + 1 : ~otherAfter(m, i)
        BY <1>6, <2>4
      <3>2. l \in 1..n /\ j \in 1..n
        BY <1>8, <1>14, <2>2, <3>1
      <3>3. by(l, j)
        BY <1>7, <3>1, <3>2
      <3>4. \A m \in l + 1..n, i \in 1..n : ~other(m, i)
        BY <1>7, <1>15, <3>1, <3>2
      <3> QED BY <1>5, <3>2, <3>3, <3>4
    <2> QED BY <1>3, <2>1, <2>3, <2>4
  <1>19. CASE Returns(n + 1, k, s)' /\ Told.pending[s] # Unnamed
    <2>1. Told'.bindings[s][k] = Told.pending[s]
      <3>1. k # NoKey
        BY KeyUsageAssumption DEF KeyUsageAssumption
      <3>2. Told'.bindings = [Told.bindings EXCEPT ![s][k] = Told.pending[s]]
        BY <1>10, <1>19, <3>1, KnownAfter
      <3>3. Told.bindings \in [Sessions -> [Keys -> NamesOrNot]]
        BY KnownAfter DEF UsageStates
      <3> QED BY <3>2, <3>3
    <2>2. PICK j \in 1..n : LastAsked(j, n + 1, s) /\ events[j].name = Told.pending[s]
      BY <1>12, <1>19
    <2>3. CASE Told.pending[s] = NameOf[k]
      <3>1. after(n + 1, j)
        BY <1>1, <1>11, <1>19, <2>2, <2>3
      <3> HIDE DEF after, otherAfter
      <3>2. LocatedByName(k, n + 1, s)'
        BY <1>4, <1>6, <1>15, <1>17, <3>1
      <3> QED BY <2>1, <2>3, <3>2
    <2>4. CASE Told.pending[s] # NameOf[k]
      <3>1. otherAfter(n + 1, j)
        BY <1>1, <1>11, <1>19, <2>2, <2>4
      <3> HIDE DEF after, otherAfter
      <3>2. ~LocatedByName(k, n + 1, s)'
        <4> SUFFICES ASSUME NEW l \in 1..n + 1, NEW i \in 1..n + 1, after(l, i),
                            \A m \in l + 1..n + 1, j1 \in 1..n + 1 : ~otherAfter(m, j1)
                     PROVE  FALSE
          BY <1>6
        <4>1. l = n + 1 => i \in 1..n
          BY <1>9, <1>14
        <4>2. l # n + 1
          BY <1>13, <2>4, <4>1
        <4>3. n + 1 \in l + 1..n + 1 /\ j \in 1..n + 1
          BY <1>14, <1>15, <4>2
        <4> QED BY <3>1, <4>3
      <3> QED BY <2>1, <2>4, <3>2
    <2> QED BY <2>3, <2>4
  <1> QED BY <1>18, <1>19

Called(list, name) == {i \in DOMAIN list : list[i].name = name}

LEMMA CountAppended ==
    ASSUME NEW S, NEW list \in Seq(S), NEW x \in S, NEW name
    PROVE  /\ Cardinality(Called(list, name)) \in Nat
           /\ x.name = name => Cardinality(Called(Append(list, x), name)) = Cardinality(Called(list, name)) + 1
           /\ x.name # name => Cardinality(Called(Append(list, x), name)) = Cardinality(Called(list, name))
  <1> DEFINE of(l) == Called(l, name)
             n == Len(list)
  <1>1. /\ n \in Nat /\ DOMAIN list = 1..n /\ DOMAIN Append(list, x) = 1..n + 1
        /\ Append(list, x)[n + 1] = x /\ \A i \in 1..n : Append(list, x)[i] = list[i]
    OBVIOUS
  <1> HIDE DEF n
  <1>2. IsFiniteSet(of(list)) /\ Cardinality(of(list)) \in Nat
    <2>1. IsFiniteSet(1..n) /\ of(list) \subseteq 1..n
      BY <1>1, FS_Interval DEF Called
    <2>2. IsFiniteSet(of(list))
      BY <2>1, FS_Subset
    <2> QED BY <2>2, FS_CardinalityType
  <1>3. n + 1 \notin of(list)
    BY <1>1 DEF Called
  <1>4. CASE x.name = name
    <2>1. of(Append(list, x)) = of(list) \cup {n + 1}
      BY <1>1, <1>4 DEF Called
    <2> HIDE DEF of
    <2>2. Cardinality(of(list) \cup {n + 1}) = Cardinality(of(list)) + 1
      BY <1>2, <1>3, FS_AddElement
    <2> QED BY <1>2, <1>4, <2>1, <2>2 DEF of
  <1>5. CASE x.name # name
    <2>1. of(Append(list, x)) = of(list)
      BY <1>1, <1>5 DEF Called
    <2> HIDE DEF of
    <2> QED BY <1>2, <1>5, <2>1 DEF of
  <1> QED BY <1>4, <1>5

LEMMA CountStep ==
    ASSUME events \in Seq(UsageEvent), BindingInv, BindingInv', CountInv, NEW e \in UsageEvent,
           events' = Append(events, e)
    PROVE  CountInv'
  <1> PICK n \in Nat : n = Len(events)
    OBVIOUS
  <1>1. /\ Len(events') = n + 1 /\ DOMAIN events = 1..n /\ DOMAIN events' = 1..n + 1
        /\ events'[n + 1] = e /\ \A i \in 1..n : events'[i] = events[i]
    OBVIOUS
  <1>2. \A i \in 1..n, k \in Keys, s \in Sessions : LocatedByName(k, i, s)' <=> LocatedByName(k, i, s)
    BY EarlierEvents
  <1>3. \A i \in 1..n : events[i].session \in Sessions
    <2>1. \A i \in 1..n : events[i] \in UsageEvent
      BY <1>1
    <2> QED BY <2>1 DEF UsageEvent
  <1>4. e.session \in Sessions
    BY DEF UsageEvent
  <1> SUFFICES ASSUME NEW k \in Keys, NameOf[k] # Unnamed
               PROVE  /\ (\E i \in DOMAIN Told'.uses : Counts(k, i)') <=> LocatedOperations(k)' # {}
                      /\ Total(events, NameOf[k])' >= Cardinality(LocatedOperations(k)')
    BY DEF CountInv
  <1> DEFINE uses == Told.uses
             usesAfter == Told'.uses
             told == \E i \in DOMAIN uses : uses[i].name = NameOf[k] /\ uses[i].handle = k
             toldAfter == \E i \in DOMAIN usesAfter : usesAfter[i].name = NameOf[k] /\ usesAfter[i].handle = k
             of(l) == Called(l, NameOf[k])
  <1>5. /\ told <=> LocatedOperations(k) # {}
        /\ Cardinality(of(uses)) >= Cardinality(LocatedOperations(k))
    BY DEF CountInv, Counts, Total, Told, Called
  <1>6. Total(events, NameOf[k])' = Cardinality(of(usesAfter))
    BY DEF Total, Told, Called
  <1>7. (\E i \in DOMAIN Told'.uses : Counts(k, i)') <=> toldAfter
    BY DEF Counts
  <1>8. IsFiniteSet(LocatedOperations(k)) /\ Cardinality(LocatedOperations(k)) \in Nat
        /\ LocatedOperations(k) \in SUBSET (1..n)
    <2>1. IsFiniteSet(1..n) /\ LocatedOperations(k) \subseteq 1..n
      BY <1>1, FS_Interval DEF LocatedOperations, Operations
    <2>2. IsFiniteSet(LocatedOperations(k))
      BY <2>1, FS_Subset
    <2> QED BY <2>1, <2>2, FS_CardinalityType
  <1>9. LocatedOperations(k)' =
            LocatedOperations(k) \cup
            (IF e.fn \in operationInit /\ e.object = k /\ LocatedByName(k, n + 1, e.session)' THEN {n + 1} ELSE {})
    <2>1. LocatedOperations(k)' =
            {i \in 1..n + 1 : /\ events'[i].fn \in operationInit /\ events'[i].object = k
                              /\ LocatedByName(k, i, events[i].session)'}
      BY <1>1 DEF LocatedOperations, Operations
    <2>2. LocatedOperations(k) =
            {i \in 1..n : /\ events[i].fn \in operationInit /\ events[i].object = k
                          /\ LocatedByName(k, i, events[i].session)}
      BY <1>1 DEF LocatedOperations, Operations
    <2>3. ASSUME NEW i \in 1..n
          PROVE  LocatedByName(k, i, events[i].session)' <=> LocatedByName(k, i, events[i].session)
      <3>1. PICK s \in Sessions : s = events[i].session /\ s = events'[i].session
        BY <1>1, <1>3
      <3>2. LocatedByName(k, i, events[i].session)' <=> LocatedByName(k, i, s)'
        BY <3>1
      <3> QED BY <1>2, <3>1, <3>2
    <2>4. LocatedByName(k, n + 1, events[n + 1].session)' <=> LocatedByName(k, n + 1, e.session)'
      BY <1>1
    <2>5. \A i \in 1..n + 1 : i \in 1..n \/ i = n + 1
      OBVIOUS
    <2>6. \A i \in 1..n : i \in 1..n + 1 /\ i # n + 1
      OBVIOUS
    <2>7. n + 1 \in 1..n + 1
      OBVIOUS
    <2>8. \A i \in 1..n : i \in LocatedOperations(k)' <=> i \in LocatedOperations(k)
      BY <1>1, <2>1, <2>2, <2>3, <2>6
    <2>9. n + 1 \in LocatedOperations(k)' <=>
            e.fn \in operationInit /\ e.object = k /\ LocatedByName(k, n + 1, e.session)'
      BY <1>1, <2>1, <2>4, <2>7
    <2>10. LocatedOperations(k)' \subseteq 1..n + 1 /\ LocatedOperations(k) \subseteq 1..n
      BY <2>1, <2>2
    <2> QED BY <2>5, <2>6, <2>8, <2>9, <2>10
  <1>10. e.fn \in operationInit => (LocatedByName(k, n + 1, e.session)' <=> Told.bindings[e.session][k] = NameOf[k])
    <2>1. SUFFICES ASSUME e.fn \in operationInit
                   PROVE  LocatedByName(k, n + 1, e.session)' <=> Told.bindings[e.session][k] = NameOf[k]
      OBVIOUS
    <2>2. Told'.bindings = Told.bindings
      BY <2>1, KnownAfter DEF operationInit
    <2>3. PICK s \in Sessions : s = e.session
      BY <1>4
    <2>4. Told'.bindings[s][k] = NameOf[k] <=> LocatedByName(k, Len(events), s)'
      BY DEF BindingInv, Bound
    <2>5. LocatedByName(k, Len(events), s)' <=> LocatedByName(k, n + 1, s)'
      BY <1>1
    <2> QED BY <2>2, <2>3, <2>4, <2>5
  <1>11. uses \in Seq([name : NamesOrNot, handle : Keys])
    BY KnownAfter DEF UsageStates
  <1> HIDE DEF uses, usesAfter, of
  <1>12. CASE e.fn \in operationInit /\ e.object # NoKey
    <2> DEFINE use == [name |-> Told.bindings[e.session][e.object], handle |-> e.object]
    <2>1. usesAfter = Append(uses, use)
      BY <1>12, KnownAfter DEF uses, usesAfter
    <2>2. use \in [name : NamesOrNot, handle : Keys]
      <3>1. e.object \in Keys /\ Told.bindings[e.session] \in [Keys -> NamesOrNot]
        BY <1>4, <1>12, KnownAfter DEF UsageStates, UsageEvent
      <3> QED BY <3>1
    <2> HIDE DEF use
    <2>3. /\ Cardinality(of(uses)) \in Nat /\ Cardinality(of(usesAfter)) \in Nat
          /\ Cardinality(of(usesAfter)) >= Cardinality(of(uses))
          /\ use.name = NameOf[k] => Cardinality(of(usesAfter)) = Cardinality(of(uses)) + 1
      <3> DEFINE S == [name : NamesOrNot, handle : Keys]
      <3>1. uses \in Seq(S) /\ use \in S
        BY <1>11, <2>2
      <3> HIDE DEF S
      <3>2. /\ Cardinality(Called(uses, NameOf[k])) \in Nat
            /\ use.name = NameOf[k] => Cardinality(Called(Append(uses, use), NameOf[k])) = Cardinality(Called(uses, NameOf[k])) + 1
            /\ use.name # NameOf[k] => Cardinality(Called(Append(uses, use), NameOf[k])) = Cardinality(Called(uses, NameOf[k]))
        BY <3>1, CountAppended
      <3> QED BY <2>1, <3>2 DEF of
    <2>4. toldAfter <=> told \/ (use.name = NameOf[k] /\ use.handle = k)
      <3> PICK m \in Nat : m = Len(uses)
        BY <1>11
      <3>1. /\ DOMAIN uses = 1..m /\ DOMAIN usesAfter = 1..m + 1
            /\ usesAfter[m + 1] = use /\ \A i \in 1..m : usesAfter[i] = uses[i]
        BY <1>11, <2>1
      <3>2. (\A i \in 1..m : i \in 1..m + 1) /\ m + 1 \in 1..m + 1 /\ \A i \in 1..m + 1 : i \in 1..m \/ i = m + 1
        OBVIOUS
      <3> QED BY <3>1, <3>2
    <2>5. CASE e.object = k /\ Told.bindings[e.session][k] = NameOf[k]
      <3>1. LocatedOperations(k)' = LocatedOperations(k) \cup {n + 1} /\ n + 1 \notin LocatedOperations(k)
        BY <1>8, <1>9, <1>10, <1>12, <2>5
      <3>2. Cardinality(LocatedOperations(k)') = Cardinality(LocatedOperations(k)) + 1
        BY <1>8, <3>1, FS_AddElement
      <3>3. use.name = NameOf[k] /\ use.handle = k
        BY <2>5 DEF use
      <3>4. Cardinality(of(usesAfter)) >= Cardinality(LocatedOperations(k)')
        BY <1>5, <1>8, <2>3, <3>2, <3>3
      <3>5. toldAfter /\ LocatedOperations(k)' # {}
        BY <2>4, <3>1, <3>3
      <3> QED BY <1>6, <1>7, <3>4, <3>5
    <2>6. CASE ~(e.object = k /\ Told.bindings[e.session][k] = NameOf[k])
      <3>1. LocatedOperations(k)' = LocatedOperations(k)
        BY <1>9, <1>10, <1>12, <2>6
      <3>2. ~(use.name = NameOf[k] /\ use.handle = k)
        BY <2>6 DEF use
      <3>3. Cardinality(of(usesAfter)) >= Cardinality(LocatedOperations(k)')
        BY <1>5, <1>8, <2>3, <3>1
      <3>4. toldAfter <=> LocatedOperations(k)' # {}
        BY <1>5, <2>4, <3>1, <3>2
      <3> QED BY <1>6, <1>7, <3>3, <3>4
    <2> QED BY <2>5, <2>6
  <1>13. CASE ~(e.fn \in operationInit /\ e.object # NoKey)
    <2>1. usesAfter = uses
      BY <1>13, KnownAfter DEF uses, usesAfter
    <2>2. k # NoKey
      BY KeyUsageAssumption DEF KeyUsageAssumption
    <2>3. LocatedOperations(k)' = LocatedOperations(k)
      BY <1>9, <1>13, <2>2
    <2>4. Cardinality(of(usesAfter)) >= Cardinality(LocatedOperations(k)')
      BY <1>5, <2>1, <2>3
    <2>5. toldAfter <=> LocatedOperations(k)' # {}
      BY <1>5, <2>1, <2>3
    <2> QED BY <1>6, <1>7, <2>4, <2>5
  <1> QED BY <1>12, <1>13

\* One step of the application, as far as the analysis of its trace goes: one event.
LEMMA KnownStep ==
    ASSUME UsageTypeOK, KnownInv, [UsageNext]_usageVars
    PROVE  /\ KnownInv'
           /\ UNCHANGED events \/ \E e \in UsageEvent : events' = Append(events, e)
  <1>1. CASE UNCHANGED usageVars
    <2>1. UNCHANGED <<events, found>>
      BY <1>1 DEF usageVars
    <2>2. PendingInv' <=> PendingInv
      BY <2>1 DEF PendingInv, Told, LastAsked, Asks
    <2>3. BindingInv' <=> BindingInv
      BY <2>1 DEF BindingInv, Bound, Told, LocatedByName, Returns, LastAsked, Asks
    <2>4. CountInv' <=> CountInv
      BY <2>1 DEF CountInv, Counts, Told, Total, LocatedOperations, Operations, LocatedByName, Returns,
                  LastAsked, Asks
    <2> QED BY <2>1, <2>2, <2>3, <2>4 DEF KnownInv
  <1>2. CASE UsageNext
    <2>1. PICK e \in UsageEvent : events' = Append(events, e)
      <3>1. ASSUME NEW fn \in {"C_FindObjectsInit", "C_FindObjects", "C_FindObjectsFinal", "C_SignInit"},
                   NEW s \in Sessions, NEW name \in NamesOrNot, NEW object \in Keys \cup {NoKey},
                   NEW ok \in BOOLEAN, Trace(fn, s, name, object, ok)
            PROVE  \E e \in UsageEvent : events' = Append(events, e)
        <4> DEFINE e == [fn |-> fn, session |-> s, name |-> name, object |-> object, ok |-> ok]
        <4>1. e \in UsageEvent
          BY DEF UsageEvent, NamesOrNot
        <4>2. events' = Append(events, e)
          BY <3>1 DEF Trace
        <4> QED BY <4>1, <4>2
      <3>2. Unnamed \in NamesOrNot
        BY DEF NamesOrNot
      <3>3. ASSUME NEW s \in Sessions, NEW name \in NamesOrNot, FindObjectsInit(s, name)
            PROVE  \E e \in UsageEvent : events' = Append(events, e)
        BY <3>1, <3>3 DEF FindObjectsInit
      <3>4. ASSUME NEW s \in Sessions, FindObjects(s)
            PROVE  \E e \in UsageEvent : events' = Append(events, e)
        <4>1. found[s] \subseteq Keys
          BY DEF UsageTypeOK
        <4> QED BY <3>1, <3>2, <3>4, <4>1 DEF FindObjects
      <3>5. ASSUME NEW s \in Sessions, FindObjectsFinal(s)
            PROVE  \E e \in UsageEvent : events' = Append(events, e)
        BY <3>1, <3>2, <3>5 DEF FindObjectsFinal
      <3>6. ASSUME NEW s \in Sessions, NEW k \in Keys, Use(s, k)
            PROVE  \E e \in UsageEvent : events' = Append(events, e)
        <4>1. PICK ok \in {TRUE} \cup {~Refusals} : Trace("C_SignInit", s, Unnamed, k, ok)
          BY <3>6 DEF Use
        <4>2. ok \in BOOLEAN
          OBVIOUS
        <4> QED BY <3>1, <3>2, <4>1, <4>2
      <3> QED BY <1>2, <3>3, <3>4, <3>5, <3>6 DEF UsageNext, NamesOrNot
    <2>2. events \in Seq(UsageEvent)
      BY DEF UsageTypeOK
    <2>3. PendingInv'
      BY <2>1, <2>2, PendingStep DEF KnownInv
    <2>4. BindingInv'
      BY <2>1, <2>2, BindingStep DEF KnownInv
    <2>5. CountInv'
      BY <2>1, <2>2, <2>4, CountStep DEF KnownInv
    <2> QED BY <2>1, <2>3, <2>4, <2>5 DEF KnownInv
  <1> QED BY <1>1, <1>2

LEMMA UsageTyped ==
    ASSUME UsageTypeOK, [UsageNext]_usageVars
    PROVE  UsageTypeOK'
  <1>1. ASSUME NEW fn, NEW s, NEW name, NEW object, NEW ok, Trace(fn, s, name, object, ok)
        PROVE  Len(events) < MaxEvents
    BY <1>1 DEF Trace
  <1>2. MaxEvents \in Nat /\ events \in Seq(UsageEvent)
    BY KeyUsageAssumption DEF KeyUsageAssumption, UsageTypeOK
  <1>3. ASSUME NEW e \in UsageEvent, Len(events) < MaxEvents, events' = Append(events, e)
        PROVE  events' \in Seq(UsageEvent) /\ Len(events') <= MaxEvents
    BY <1>2, <1>3
  <1>4. ASSUME NEW fn \in {"C_FindObjectsInit", "C_FindObjects", "C_FindObjectsFinal", "C_SignInit"},
               NEW s \in Sessions, NEW name \in NamesOrNot, NEW object \in Keys \cup {NoKey},
               NEW ok \in BOOLEAN, Trace(fn, s, name, object, ok)
        PROVE  events' \in Seq(UsageEvent) /\ Len(events') <= MaxEvents
    <2> DEFINE e == [fn |-> fn, session |-> s, name |-> name, object |-> object, ok |-> ok]
    <2>1. e \in UsageEvent
      BY DEF UsageEvent, NamesOrNot
    <2>2. Len(events) < MaxEvents /\ events' = Append(events, e)
      BY <1>4 DEF Trace
    <2> QED BY <1>3, <2>1, <2>2
  <1>5. Unnamed \in NamesOrNot
    BY DEF NamesOrNot
  <1>6. CASE UNCHANGED usageVars
    BY <1>6 DEF usageVars, UsageTypeOK
  <1>7. ASSUME NEW s \in Sessions, NEW name \in NamesOrNot, FindObjectsInit(s, name) PROVE UsageTypeOK'
    <2>1. events' \in Seq(UsageEvent) /\ Len(events') <= MaxEvents
      BY <1>4, <1>7 DEF FindObjectsInit
    <2> QED BY <1>7, <2>1 DEF FindObjectsInit, UsageTypeOK
  <1>8. ASSUME NEW s \in Sessions, FindObjects(s) PROVE UsageTypeOK'
    <2>1. found[s] \subseteq Keys
      BY DEF UsageTypeOK
    <2>2. events' \in Seq(UsageEvent) /\ Len(events') <= MaxEvents
      BY <1>4, <1>5, <1>8, <2>1 DEF FindObjects
    <2> QED BY <1>8, <2>1, <2>2 DEF FindObjects, UsageTypeOK
  <1>9. ASSUME NEW s \in Sessions, FindObjectsFinal(s) PROVE UsageTypeOK'
    <2>1. events' \in Seq(UsageEvent) /\ Len(events') <= MaxEvents
      BY <1>4, <1>5, <1>9 DEF FindObjectsFinal
    <2> QED BY <1>9, <2>1 DEF FindObjectsFinal, UsageTypeOK
  <1>10. ASSUME NEW s \in Sessions, NEW k \in Keys, Use(s, k) PROVE UsageTypeOK'
    <2>1. PICK ok \in {TRUE} \cup {~Refusals} : Trace("C_SignInit", s, Unnamed, k, ok)
      BY <1>10 DEF Use
    <2>2. ok \in BOOLEAN
      OBVIOUS
    <2>3. events' \in Seq(UsageEvent) /\ Len(events') <= MaxEvents
      BY <1>4, <1>5, <2>1, <2>2
    <2> QED BY <1>10, <2>3 DEF Use, UsageTypeOK
  <1> QED BY <1>6, <1>7, <1>8, <1>9, <1>10 DEF UsageNext, NamesOrNot

\* While searches are ended before the next, keys are told apart.
LEMMA SearchStep ==
    ASSUME UsageTypeOK, SearchInv, [UsageNext]_usageVars
    PROVE  SearchInv'
  <1>1. CASE UNCHANGED usageVars
    <2>1. UNCHANGED <<events, found>>
      BY <1>1 DEF usageVars
    <2> QED BY <2>1 DEF SearchInv, SearchesEnded, Told
  <1>2. ASSUME UsageNext, SearchesEnded' PROVE SearchInv'
    <2> DEFINE safe(s, f, p) == \A k \in f[s] : p[s] \in {NameOf[k], Unnamed}
    <2>1. events \in Seq(UsageEvent) /\ found \in [Sessions -> SUBSET Keys]
      BY DEF UsageTypeOK
    <2>2. ASSUME NEW e \in UsageEvent, events' = Append(events, e)
          PROVE  SearchesEnded /\ (e.fn = "C_FindObjectsInit" => e.ok)
      <3> PICK n \in Nat : n = Len(events)
        BY <2>1
      <3>1. /\ DOMAIN events = 1..n /\ DOMAIN events' = 1..n + 1 /\ events'[n + 1] = e
            /\ \A i \in 1..n : events'[i] = events[i] /\ i \in 1..n + 1
        BY <2>1, <2>2
      <3>2. n + 1 \in 1..n + 1
        OBVIOUS
      <3> QED BY <1>2, <3>1, <3>2 DEF SearchesEnded
    <2>3. ASSUME NEW e \in UsageEvent, events' = Append(events, e),
                 e.fn = "C_FindObjects" /\ e.object # NoKey => e.object \in found[e.session],
                 \A s \in Sessions : \A k \in found'[s] : Told'.pending[s] \in {NameOf[k], Unnamed}
          PROVE  SearchInv'
      <3>1. /\ \A s \in Sessions : \A k \in found[s] : Told.pending[s] \in {NameOf[k], Unnamed}
            /\ \A s \in Sessions, k \in Keys : Told.bindings[s][k] \in {NameOf[k], Unnamed}
            /\ \A i \in DOMAIN Told.uses : Told.uses[i].name \in {NameOf[Told.uses[i].handle], Unnamed}
        BY <2>2, <2>3 DEF SearchInv
      <3>2. e.session \in Sessions /\ (e.object # NoKey => e.object \in Keys)
        BY DEF UsageEvent
      <3>3. /\ Told.bindings \in [Sessions -> [Keys -> NamesOrNot]]
            /\ Told.uses \in Seq([name : NamesOrNot, handle : Keys])
        BY <2>1, <2>3, KnownAfter DEF UsageStates
      <3>4. \A s \in Sessions, k \in Keys : Told'.bindings[s][k] \in {NameOf[k], Unnamed}
        <4>1. CASE e.fn = "C_FindObjects" /\ e.object # NoKey /\ Told.pending[e.session] # Unnamed
          <5>1. Told'.bindings = [Told.bindings EXCEPT ![e.session][e.object] = Told.pending[e.session]]
            BY <2>1, <2>3, <4>1, KnownAfter
          <5>2. Told.pending[e.session] \in {NameOf[e.object], Unnamed}
            BY <2>3, <3>1, <3>2, <4>1
          <5> QED BY <3>1, <3>2, <3>3, <5>1, <5>2
        <4>2. CASE ~(e.fn = "C_FindObjects" /\ e.object # NoKey /\ Told.pending[e.session] # Unnamed)
          <5>1. Told'.bindings = Told.bindings
            BY <2>1, <2>3, <4>2, KnownAfter
          <5> QED BY <3>1, <5>1
        <4> QED BY <4>1, <4>2
      <3>5. \A i \in DOMAIN Told'.uses : Told'.uses[i].name \in {NameOf[Told'.uses[i].handle], Unnamed}
        <4>1. CASE e.fn \in operationInit /\ e.object # NoKey
          <5> PICK m \in Nat : m = Len(Told.uses)
            BY <3>3
          <5> PICK use : use = [name |-> Told.bindings[e.session][e.object], handle |-> e.object]
            OBVIOUS
          <5>1. Told'.uses = Append(Told.uses, use)
            BY <2>1, <2>3, <4>1, KnownAfter
          <5>2. /\ DOMAIN Told.uses = 1..m /\ DOMAIN Told'.uses = 1..m + 1 /\ Told'.uses[m + 1] = use
                /\ \A i \in 1..m : Told'.uses[i] = Told.uses[i]
            BY <3>3, <5>1
          <5>3. use.name \in {NameOf[use.handle], Unnamed}
            BY <3>1, <3>2, <4>1
          <5>4. \A i \in 1..m + 1 : i \in 1..m \/ i = m + 1
            OBVIOUS
          <5> QED BY <3>1, <5>2, <5>3, <5>4
        <4>2. CASE ~(e.fn \in operationInit /\ e.object # NoKey)
          <5>1. Told'.uses = Told.uses
            BY <2>1, <2>3, <4>2, KnownAfter
          <5> QED BY <3>1, <5>1
        <4> QED BY <4>1, <4>2
      <3> QED BY <2>3, <3>4, <3>5 DEF SearchInv
    <2>4. ASSUME NEW e \in UsageEvent, events' = Append(events, e), e.fn # "C_FindObjectsInit",
                 e.fn = "C_FindObjects" /\ e.object # NoKey => e.object \in found[e.session],
                 \A s \in Sessions : found'[s] \subseteq found[s]
          PROVE  SearchInv'
      <3>1. Told'.pending = Told.pending
        BY <2>1, <2>4, KnownAfter
      <3>2. \A s \in Sessions : \A k \in found[s] : Told.pending[s] \in {NameOf[k], Unnamed}
        BY <2>2, <2>4 DEF SearchInv
      <3>3. \A s \in Sessions : \A k \in found'[s] : Told'.pending[s] \in {NameOf[k], Unnamed}
        BY <2>4, <3>1, <3>2
      <3> QED BY <2>3, <2>4, <3>3
    <2>5. ASSUME NEW t \in Sessions, NEW name \in NamesOrNot, FindObjectsInit(t, name) PROVE SearchInv'
      <3>1. ASSUME NEW ok \in BOOLEAN, Trace("C_FindObjectsInit", t, name, NoKey, ok)
            PROVE  \E e \in UsageEvent : /\ events' = Append(events, e) /\ e.fn = "C_FindObjectsInit"
                                         /\ e.session = t /\ e.name = name /\ e.object = NoKey /\ e.ok = ok
        <4> DEFINE e == [fn |-> "C_FindObjectsInit", session |-> t, name |-> name, object |-> NoKey, ok |-> ok]
        <4>1. e \in UsageEvent
          BY DEF UsageEvent, NamesOrNot
        <4>2. events' = Append(events, e)
          BY <3>1 DEF Trace
        <4> QED BY <4>1, <4>2
      <3>2. CASE Trace("C_FindObjectsInit", t, name, NoKey, FALSE)
        <4>1. PICK e \in UsageEvent : events' = Append(events, e) /\ e.fn = "C_FindObjectsInit" /\ e.ok = FALSE
          BY <3>1, <3>2
        <4> QED BY <2>2, <4>1
      <3>3. CASE Trace("C_FindObjectsInit", t, name, NoKey, TRUE)
                 /\ found' = [found EXCEPT ![t] = {k \in Keys : name \in {NameOf[k], Unnamed}}]
        <4>1. PICK e \in UsageEvent : /\ events' = Append(events, e) /\ e.fn = "C_FindObjectsInit"
                                      /\ e.session = t /\ e.name = name /\ e.object = NoKey
          BY <3>1, <3>3
        <4>2. Told'.pending = [Told.pending EXCEPT ![t] = name]
              /\ Told.pending \in [Sessions -> NamesOrNot]
          BY <2>1, <4>1, KnownAfter DEF UsageStates
        <4>3. \A s \in Sessions : \A k \in found[s] : Told.pending[s] \in {NameOf[k], Unnamed}
          BY <2>2, <4>1 DEF SearchInv
        <4>4. \A s \in Sessions : \A k \in found'[s] : Told'.pending[s] \in {NameOf[k], Unnamed}
          <5> SUFFICES ASSUME NEW s \in Sessions, NEW k \in found'[s]
                       PROVE  Told'.pending[s] \in {NameOf[k], Unnamed}
            OBVIOUS
          <5>1. CASE s = t
            BY <2>1, <3>3, <4>2, <5>1
          <5>2. CASE s # t
            BY <2>1, <3>3, <4>2, <4>3, <5>2
          <5> QED BY <5>1, <5>2
        <4> QED BY <2>3, <4>1, <4>4
      <3> QED BY <2>5, <3>2, <3>3 DEF FindObjectsInit
    <2>6. ASSUME NEW fn \in {"C_FindObjects", "C_FindObjectsFinal", "C_SignInit"},
                 NEW t \in Sessions, NEW object \in Keys \cup {NoKey}, NEW ok \in BOOLEAN,
                 Trace(fn, t, Unnamed, object, ok),
                 fn = "C_FindObjects" /\ object # NoKey => object \in found[t],
                 \A s \in Sessions : found'[s] \subseteq found[s]
          PROVE  SearchInv'
      <3> DEFINE e == [fn |-> fn, session |-> t, name |-> Unnamed, object |-> object, ok |-> ok]
      <3>1. e \in UsageEvent
        BY DEF UsageEvent
      <3>2. events' = Append(events, e)
        BY <2>6 DEF Trace
      <3>3. e.fn = fn /\ e.session = t /\ e.object = object
        OBVIOUS
      <3> HIDE DEF e
      <3> QED BY <2>4, <2>6, <3>1, <3>2, <3>3
    <2>7. ASSUME NEW t \in Sessions, FindObjects(t) PROVE SearchInv'
      <3>1. CASE \E k \in found[t], batch \in {{}, found[t]} :
                    /\ Trace("C_FindObjects", t, Unnamed, k, TRUE)
                    /\ found' = [found EXCEPT ![t] = @ \ (batch \cup {k})]
        <4>1. PICK k \in found[t], batch \in {{}, found[t]} :
                    /\ Trace("C_FindObjects", t, Unnamed, k, TRUE)
                    /\ found' = [found EXCEPT ![t] = @ \ (batch \cup {k})]
          BY <3>1
        <4>2. k \in Keys /\ \A s \in Sessions : found'[s] \subseteq found[s]
          BY <2>1, <4>1
        <4> QED BY <2>6, <4>1, <4>2
      <3>2. CASE Trace("C_FindObjects", t, Unnamed, NoKey, TRUE) /\ UNCHANGED found
        BY <2>6, <3>2
      <3> QED BY <2>7, <3>1, <3>2 DEF FindObjects
    <2>8. ASSUME NEW t \in Sessions, FindObjectsFinal(t) PROVE SearchInv'
      <3>1. Trace("C_FindObjectsFinal", t, Unnamed, NoKey, TRUE) /\ \A s \in Sessions : found'[s] \subseteq found[s]
        BY <2>1, <2>8 DEF FindObjectsFinal
      <3> QED BY <2>6, <3>1
    <2>9. ASSUME NEW t \in Sessions, NEW k \in Keys, Use(t, k) PROVE SearchInv'
      <3>1. PICK ok \in {TRUE} \cup {~Refusals} : Trace("C_SignInit", t, Unnamed, k, ok)
        BY <2>9 DEF Use
      <3>2. ok \in BOOLEAN /\ UNCHANGED found
        BY <2>9 DEF Use
      <3> QED BY <2>6, <3>1, <3>2
    <2> QED BY <1>2, <2>5, <2>7, <2>8, <2>9 DEF UsageNext, NamesOrNot
  <1>3. ~SearchesEnded' => SearchInv'
    BY DEF SearchInv
  <1> QED BY <1>1, <1>2, <1>3

\* The usage told of a key is the application's own (KeyUsageOf, IdleKeys), however many
\* sessions search and use keys, in whatever order.
THEOREM UsageToldExactly == UsageSpec => []UsageExact
  <1>1. UsageInit => UsageIInv
    <2> SUFFICES ASSUME UsageInit PROVE UsageIInv
      OBVIOUS
    <2>1. UsageTypeOK
      BY KeyUsageAssumption DEF UsageInit, UsageTypeOK, KeyUsageAssumption
    <2>2. events = <<>> /\ Told = NoUsage /\ DOMAIN events = {} /\ Len(events) = 0
      BY UsageOfNothing DEF UsageInit, Told
    <2>3. DOMAIN NoUsage.uses = {} /\ DOMAIN Told.uses = {}
      BY <2>2 DEF NoUsage
    <2>4. PendingInv
      BY <2>2 DEF PendingInv, NoUsage
    <2>5. BindingInv
      <3>1. \A i \in 1..0 : FALSE
        OBVIOUS
      <3>2. \A k \in Keys, s \in Sessions : ~LocatedByName(k, Len(events), s)
        BY <2>2, <3>1 DEF LocatedByName
      <3> QED BY <2>2, <3>2 DEF BindingInv, Bound, NoUsage
    <2>6. CountInv
      <3>1. \A k \in Keys : LocatedOperations(k) = {}
        BY <2>2 DEF LocatedOperations, Operations
      <3>2. \A name : Total(events, name) = Cardinality({})
        BY <2>3 DEF Total, Told
      <3>3. Cardinality({}) = 0
        BY FS_EmptySet
      <3> QED BY <2>3, <3>1, <3>2, <3>3 DEF CountInv
    <2>7. SearchInv
      BY <2>2, <2>3 DEF SearchInv, UsageInit, NoUsage
    <2> QED BY <2>1, <2>4, <2>5, <2>6, <2>7 DEF UsageIInv, KnownInv
  <1>2. UsageIInv /\ [UsageNext]_usageVars => UsageIInv'
    BY KnownStep, UsageTyped, SearchStep DEF UsageIInv
  <1>3. ASSUME UsageIInv PROVE UsageExact
    <2>1. CountedWhereFound
      BY <1>3 DEF UsageIInv, KnownInv, CountInv, CountedWhereFound
    <2>2. AttributedRightly
      BY <1>3 DEF UsageIInv, SearchInv, AttributedRightly, Told
    <2>3. ASSUME SearchesEnded, \A k, l \in Keys : NameOf[k] = NameOf[l] => k = l,
                 NEW k \in Keys
          PROVE  NameOf[k] \notin Resolved(events) <=> LocatedOperations(k) = {}
      <3>1. Resolved(events) = {Told.uses[i].name : i \in DOMAIN Told.uses} \ {Unnamed}
        BY DEF Resolved, Told
      <3>2. CASE NameOf[k] = Unnamed
        BY <3>1, <3>2 DEF LocatedOperations, LocatedByName
      <3>3. CASE NameOf[k] # Unnamed
        <4>1. (\E i \in DOMAIN Told.uses : Counts(k, i)) <=> LocatedOperations(k) # {}
          BY <1>3, <3>3 DEF UsageIInv, KnownInv, CountInv
        <4>2. \A i \in DOMAIN Told.uses : /\ Told.uses[i].name \in {NameOf[Told.uses[i].handle], Unnamed}
                                           /\ Told.uses[i].handle \in Keys
          <5>1. Told \in UsageStates
            BY <1>3, NoUsageYet, UsageByEvent DEF UsageIInv, UsageTypeOK, UsageRuns, Told
          <5>2. \A i \in DOMAIN Told.uses : Told.uses[i] \in [name : NamesOrNot, handle : Keys]
            <6>1. Told.uses \in Seq([name : NamesOrNot, handle : Keys])
              BY <5>1 DEF UsageStates
            <6>2. ASSUME NEW T, NEW list \in Seq(T), NEW i \in DOMAIN list PROVE list[i] \in T
              BY <6>2
            <6> QED BY <6>1, <6>2
          <5>3. \A i \in DOMAIN Told.uses : Told.uses[i].name \in {NameOf[Told.uses[i].handle], Unnamed}
            BY <1>3, <2>3 DEF UsageIInv, SearchInv
          <5>4. \A i \in DOMAIN Told.uses : Told.uses[i].handle \in Keys
            BY <5>2
          <5> QED BY <5>3, <5>4
        <4>3. \A i \in DOMAIN Told.uses : Told.uses[i].name = NameOf[k] => Counts(k, i)
          BY <2>3, <3>3, <4>2 DEF Counts
        <4> QED BY <3>1, <3>3, <4>1, <4>3 DEF Counts
      <3> QED BY <3>2, <3>3
    <2>4. IdleExactly
      BY <2>3 DEF IdleExactly, IdleKeys
    <2> QED BY <2>1, <2>2, <2>4 DEF UsageExact
  <1> QED BY <1>1, <1>2, <1>3, PTL DEF UsageSpec

=============================================================================
