----------------------------- MODULE BenchWorkers -----------------------------
(***************************************************************************)
(* runPrimitive and benchWorker (internal/bench/bench.go): the workers of   *)
(* one measurement share a budget of operations, count what they did in     *)
(* another counter and note in a third when measuring began; all three are  *)
(* atomics.  The workers' sessions are those of TokenLogin.                 *)
(***************************************************************************)
EXTENDS Integers, FiniteSets

CONSTANTS Workers,                                \* goroutines that can be started
          DefaultDuration, MaxDuration,           \* the limits of Options,
          DefaultMaxOps, HardMaxOps,              \* in ticks of the clock
          DefaultSessions,                        \* and operations
          Durations, Budgets, SessionCounts,      \* options a caller may pass
          MaxTime                                 \* bound: ticks of the clock

\* MaxSessions, the limit on sessions, is the number of workers.
MaxSessions == Cardinality(Workers)

ASSUME LimitsAssumption ==
    /\ IsFiniteSet(Workers)
    /\ DefaultDuration \in 1..MaxDuration /\ MaxDuration \in Nat
    /\ DefaultMaxOps \in 1..HardMaxOps /\ HardMaxOps \in Nat
    /\ DefaultSessions \in 1..MaxSessions
    /\ Durations \subseteq Int /\ Budgets \subseteq Int /\ SessionCounts \subseteq Int
    /\ MaxTime \in Nat

Clamp(n, default, max) == IF n <= 0 THEN default ELSE IF n > max THEN max ELSE n

Normalize(o) == [duration |-> Clamp(o.duration, DefaultDuration, MaxDuration),
                 maxOps   |-> Clamp(o.maxOps, DefaultMaxOps, HardMaxOps),
                 sessions |-> Clamp(o.sessions, DefaultSessions, MaxSessions)]

VARIABLES
    opts,           \* normalised options
    phase,          \* where each worker is
    start,          \* the worker's own clock reading after its set-up
    budget,         \* operations left; below zero once it is exhausted
    done,           \* operations that succeeded
    measureStart,   \* when the first worker began measuring; 0 is never
    now,            \* the clock
    failed,         \* errCh: the workers that returned an error
    issued,         \* history: operations the token was asked for
    firstOp,        \* history: when it was asked for the first; 0 is never
    result          \* the Measurement, or Pending

benchVars == <<opts, phase, start, budget, done, measureStart, now, failed, issued, firstOp, result>>

Pending == [ops |-> -1, elapsed |-> -1, error |-> FALSE]
Measuring == {"stamp", "check", "take", "op"}
Phases == {"off", "setup", "end"} \cup Measuring
Running == {w \in Workers : phase[w] \notin {"off", "end"}}
InOp == {w \in Workers : phase[w] = "op"}

BenchTypeOK ==
    /\ opts \in [duration : 1..MaxDuration, maxOps : 1..HardMaxOps, sessions : 1..MaxSessions]
    /\ phase \in [Workers -> Phases]
    /\ start \in [Workers -> Nat]
    /\ budget \in Int /\ done \in Nat /\ measureStart \in Nat /\ now \in Nat
    /\ failed \subseteq Workers
    /\ issued \in Nat /\ firstOp \in Nat
    /\ result \in [ops : Nat, elapsed : Int, error : BOOLEAN] \cup {Pending}

\* runPrimitive starts opts.Sessions goroutines.
BenchInit ==
    /\ \E d \in Durations, m \in Budgets, n \in SessionCounts :
         opts = Normalize([duration |-> d, maxOps |-> m, sessions |-> n])
    /\ \E started \in SUBSET Workers :
         /\ Cardinality(started) = opts.sessions
         /\ phase = [w \in Workers |-> IF w \in started THEN "setup" ELSE "off"]
    /\ start = [w \in Workers |-> 0]
    /\ budget = opts.maxOps /\ done = 0
    /\ measureStart = 0 /\ now = 1
    /\ failed = {} /\ issued = 0 /\ firstOp = 0
    /\ result = Pending

Enter(w, place) == phase' = [phase EXCEPT ![w] = place]
\* Mutant: errCh has no room, and nobody reads it before every worker has ended.
FailBlocks(w) == Enter(w, "sending") /\ failed' = failed \cup {w}

\* errCh has room for every worker, so returning an error never blocks.
WorkerFails(w) == Enter(w, "end") /\ failed' = failed \cup {w}

\* The session and the worker's own keys; then the worker's clock starts.
SetUp(w) ==
    /\ phase[w] = "setup"
    /\ \/ start' = [start EXCEPT ![w] = now] /\ Enter(w, "stamp") /\ UNCHANGED failed
       \/ WorkerFails(w) /\ UNCHANGED start
    /\ UNCHANGED <<opts, budget, done, measureStart, now, issued, firstOp, result>>

\* Mutant: every worker stores its own clock.
StampLast(w) ==
    /\ phase[w] = "stamp"
    /\ measureStart' = start[w]
    /\ Enter(w, "check")
    /\ UNCHANGED <<opts, start, budget, done, now, failed, issued, firstOp, result>>

\* measureStart.CompareAndSwap(0, now)
Stamp(w) ==
    /\ phase[w] = "stamp"
    /\ measureStart' = IF measureStart = 0 THEN start[w] ELSE measureStart
    /\ Enter(w, "check")
    /\ UNCHANGED <<opts, start, budget, done, now, failed, issued, firstOp, result>>

\* time.Now().Before(deadline)
CheckDeadline(w) ==
    /\ phase[w] = "check"
    /\ Enter(w, IF now < start[w] + opts.duration THEN "take" ELSE "end")
    /\ UNCHANGED <<opts, start, budget, done, measureStart, now, failed, issued, firstOp, result>>

\* The token is asked for an operation.
Ask == /\ issued' = issued + 1
       /\ firstOp' = IF firstOp = 0 THEN now ELSE firstOp

\* Mutant: the budget is tested before it is decremented, by one step too many.
TakeOneMore(w) ==
    /\ phase[w] = "take"
    /\ budget' = budget - 1
    /\ IF budget < 0
       THEN Enter(w, "end") /\ UNCHANGED <<issued, firstOp>>
       ELSE Enter(w, "op") /\ Ask
    /\ UNCHANGED <<opts, start, done, measureStart, now, failed, result>>

\* budget.Add(-1) < 0
Take(w) ==
    /\ phase[w] = "take"
    /\ budget' = budget - 1
    /\ IF budget' < 0
       THEN Enter(w, "end") /\ UNCHANGED <<issued, firstOp>>
       ELSE Enter(w, "op") /\ Ask
    /\ UNCHANGED <<opts, start, done, measureStart, now, failed, result>>

\* The operation, counted once it has succeeded; an error ends the worker.
Operate(w) ==
    /\ phase[w] = "op"
    /\ \/ done' = done + 1 /\ Enter(w, "check") /\ UNCHANGED failed
       \/ WorkerFails(w) /\ UNCHANGED done
    /\ UNCHANGED <<opts, start, budget, measureStart, now, issued, firstOp, result>>

\* wg.Wait() returns; the elapsed time runs from measureStart until now.
Finish ==
    /\ result = Pending /\ Running = {}
    /\ result' = [ops     |-> done,
                  elapsed |-> IF measureStart = 0 THEN now - 1 ELSE now - measureStart,
                  error   |-> failed # {}]
    /\ UNCHANGED <<opts, phase, start, budget, done, measureStart, now, failed, issued, firstOp>>

\* Time passes, whatever the workers are doing.
Tick ==
    /\ now < MaxTime /\ result = Pending
    /\ now' = now + 1
    /\ UNCHANGED <<opts, phase, start, budget, done, measureStart, failed, issued, firstOp, result>>

benchWorker(w) == SetUp(w) \/ Stamp(w) \/ CheckDeadline(w) \/ Take(w) \/ Operate(w)

BenchNext == (\E w \in Workers : benchWorker(w)) \/ Finish \/ Tick

BenchSpec == BenchInit /\ [][BenchNext]_benchVars

\* Goroutines run, operations of the token return, time passes.
BenchFairSpec ==
    /\ BenchSpec /\ WF_benchVars(Tick) /\ WF_benchVars(Finish)
    /\ \A w \in Workers : WF_benchVars(benchWorker(w))
--------------------------------------------------------------------------------
\* "Limits protecting tokens from unbounded load": however many workers draw on
\* the budget at once, the token is asked for no more operations than it holds.
LoadBounded == issued <= opts.maxOps

\* No operation is lost or counted twice: the budget that is gone has become
\* successes, one failure at most per failed worker, and operations under way.
NoOpLost ==
    LET left == IF budget < 0 THEN 0 ELSE budget
        lost == opts.maxOps - left - done - Cardinality(InOp)
    IN 0 <= lost /\ lost <= Cardinality(failed)

\* The budget is kept to the operation, although workers take from it without a lock
\* and below zero.
BudgetExact == LoadBounded /\ NoOpLost

\* All operations fall into the time the rate is taken over, however the
\* workers race for the stamp.
OpsInsideMeasurement ==
    firstOp # 0 => measureStart # 0 /\ measureStart <= firstOp

\* A measurement that has begun ends, whichever workers fail.
Ends == Running # {} ~> result # Pending
================================================================================
