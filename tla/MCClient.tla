-------------------------------- MODULE MCClient --------------------------------
(***************************************************************************)
(* TokenLogin and BenchWorkers, which share no state here, side by side: a  *)
(* behaviour is one of sessions that come and go, without a measurement, or *)
(* one of a measurement, whose options lie below, at and above each of a    *)
(* few operations and ticks.                                                *)
(***************************************************************************)
EXTENDS TokenLogin, BenchWorkers

VARIABLE part

partsVars == <<part, vars, benchVars>>

MCDurations == {-1, 9}
MCBudgets == {0, 2, 9}
MCSessionCounts == {0, 2, 9}

NoMeasurement ==
    /\ opts = Normalize([duration |-> 0, maxOps |-> 0, sessions |-> 0])
    /\ phase = [w \in Workers |-> "off"] /\ start = [w \in Workers |-> 0]
    /\ budget = opts.maxOps /\ done = 0 /\ measureStart = 0 /\ now = 1
    /\ failed = {} /\ issued = 0 /\ firstOp = 0 /\ result = Pending
NoSession == Init /\ \A s \in Sessions : slot[s] = CHOOSE sl \in Slots : TRUE

PartsInit == \/ part = "login" /\ Init /\ NoMeasurement
             \/ part = "bench" /\ NoSession /\ BenchInit

LoginStep(A) == part = "login" /\ A /\ UNCHANGED <<part, benchVars>>
BenchStep(A) == part = "bench" /\ A /\ UNCHANGED <<part, vars>>

\* A measurement that is over stays so; the sessions have always a next step.
Over == part = "bench" /\ result # Pending /\ UNCHANGED partsVars

PartsNext == LoginStep(Next) \/ BenchStep(BenchNext) \/ Over

\* The fairness of FairSpec and of BenchFairSpec.
PartsSpec ==
    /\ PartsInit /\ [][PartsNext]_partsVars
    /\ \A s \in Sessions : /\ WF_partsVars(LoginStep(Work(s)))
                           /\ SF_partsVars(LoginStep(Lock(s)))
    /\ WF_partsVars(BenchStep(Tick)) /\ WF_partsVars(BenchStep(Finish))
    /\ \A w \in Workers : WF_partsVars(BenchStep(benchWorker(w)))
================================================================================
