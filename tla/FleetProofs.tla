------------------------------ MODULE FleetProofs ------------------------------
(***************************************************************************)
(* Agents, the server and its gauges, for any number of agents, names,      *)
(* requests and reports, any bounds and any failures.                       *)
(*                                                                          *)
(* TokenServes says nothing of what is under way.  IInv adds that an agent  *)
(* and the request it waits for know of each other, that an agent which     *)
(* enrols has no token yet, and that an answer which brings it one brings   *)
(* the one that is stored for its name.                                     *)
(*                                                                          *)
(* PushInv follows each report by its identity from the list of its agent   *)
(* through one request into one row.  GaugeInv and RecountInv say of the    *)
(* gauges what the handling that is under way has still to set, and what a  *)
(* recount of the shared keys has read.                                     *)
(***************************************************************************)
EXTENDS Fleet, FiniteSetTheorems, TLAPS

\* The fields the steps below read and write are there.
Shapes ==
    /\ DOMAIN file = Agents /\ DOMAIN agent = Agents
    /\ DOMAIN call = Calls /\ DOMAIN agents = Names
    /\ issued \in Nat
    /\ \A a \in Agents : {"at", "token", "reports", "waits"} \subseteq DOMAIN agent[a]
    /\ \A p \in Calls : \/ call[p] = Idle
                        \/ {"at", "by"} \subseteq DOMAIN call[p] /\ call[p].at # "idle"

\* What an agent may expect of the request it waits for.
Awaited(a, c) ==
    /\ c.at # "idle" /\ c.by = a
    /\ agent[a].at \in {"enroll", "push"}
    /\ agent[a].at = "enroll" => c.at \in {"enroll", "answer"}
    /\ c.at = "enroll" => agent[a].at = "enroll" /\ c.name = NameOf[a]

\* An answer that brings a token brings the one that is stored.
Brings(a, c) ==
    agent[a].at = "enroll" /\ c.at = "answer" /\ c.answer # Refused /\ Alone(a) /\ NameOf[a] \notin late
        => agents[NameOf[a]] = c.answer

Waiting == \A a \in Agents : agent[a].waits # None =>
    /\ agent[a].waits \in Calls
    /\ Awaited(a, call[agent[a].waits])
    /\ Brings(a, call[agent[a].waits])

Serving == \A p \in Calls : call[p].at # "idle" =>
    \/ call[p].by = None
    \/ call[p].by \in Agents /\ agent[call[p].by].waits = p

Unenrolled == \A a \in Agents : agent[a].at = "enroll" => file[a] = NoToken

IInv == Shapes /\ Waiting /\ Serving /\ Unenrolled /\ TokenServes

--------------------------------------------------------------------------------
LEMMA NamesAreNames == \A a \in Agents : NameOf[a] \in Names
  BY DEF Names

LEMMA InitIInv == Init => IInv
  <1> SUFFICES ASSUME Init PROVE IInv
    OBVIOUS
  <1>a. {"at", "token", "reports", "waits"} \subseteq DOMAIN Down
    BY DEF Down
  <1>1. Shapes
    BY <1>a DEF Init, Shapes
  <1>2. Waiting /\ Serving /\ Unenrolled
    BY DEF Init, Waiting, Serving, Unenrolled, Down, Idle
  <1>3. TokenServes
    BY DEF Init, TokenServes
  <1> QED BY <1>1, <1>2, <1>3 DEF IInv

--------------------------------------------------------------------------------
(* Steps of an agent that concern nobody else.                              *)

LEMMA StartKeeps == ASSUME IInv, NEW a \in Agents, loadOrEnroll(a) PROVE IInv'
  <1> USE DEF loadOrEnroll, process, gauges, database, history
  <1>0. /\ DOMAIN agent' = Agents
        /\ \A b \in Agents : agent'[b].waits = agent[b].waits
        /\ \A b \in Agents \ {a} : agent'[b] = agent[b]
        /\ agent'[a].at = IF file[a] = NoToken THEN "enroll" ELSE "scan"
        /\ \A b \in Agents : DOMAIN agent'[b] = DOMAIN agent[b]
    BY DEF IInv, Shapes
  <1>1. Shapes'
    BY <1>0 DEF IInv, Shapes
  <1>2. agent[a].waits = None
    BY DEF IInv, Waiting, Awaited
  <1>3. Waiting'
    BY <1>0, <1>2 DEF IInv, Waiting, Awaited, Brings, Alone
  <1>4. Serving'
    BY <1>0 DEF IInv, Serving
  <1>5. Unenrolled'
    BY <1>0 DEF IInv, Unenrolled
  <1>6. TokenServes'
    BY DEF IInv, TokenServes, Alone
  <1> QED BY <1>1, <1>3, <1>4, <1>5, <1>6 DEF IInv

\* A request is posted: the agent waits for it, and it for the agent.
LEMMA PostKeeps ==
  ASSUME IInv, NEW a \in Agents, NEW c, Post(a, c),
         c.at # "idle", c.by = a, c.at # "answer", {"at", "by"} \subseteq DOMAIN c,
         agent[a].at \in {"enroll", "push"},
         agent[a].at = "enroll" <=> c.at = "enroll",
         c.at = "enroll" => c.name = NameOf[a]
  PROVE  IInv'
  <1> USE DEF Post, gauges, database, history
  <1>1. PICK p \in Calls : /\ call[p] = Idle
                           /\ call' = [call EXCEPT ![p] = c]
                           /\ agent' = [agent EXCEPT ![a].waits = p]
    OBVIOUS
  <1>2. /\ agent[a].waits = None /\ p # None
        /\ UNCHANGED <<file, agents, issued, late>>
    BY FleetAssumption DEF FleetAssumption
  <1>3. /\ DOMAIN agent' = Agents
        /\ \A b \in Agents : agent'[b].at = agent[b].at
        /\ \A b \in Agents \ {a} : agent'[b] = agent[b]
        /\ agent'[a].waits = p
        /\ \A b \in Agents : DOMAIN agent'[b] = DOMAIN agent[b]
    BY <1>1 DEF IInv, Shapes
  <1>4. /\ DOMAIN call' = Calls /\ call'[p] = c
        /\ \A q \in Calls \ {p} : call'[q] = call[q]
    BY <1>1 DEF IInv, Shapes
  <1>5. Shapes'
    BY <1>2, <1>3, <1>4 DEF IInv, Shapes
  <1>6. \A b \in Agents : agent[b].waits # p
    BY <1>1, <1>2 DEF IInv, Waiting, Awaited, Idle
  <1>7. Waiting'
    BY <1>2, <1>3, <1>4, <1>6 DEF IInv, Waiting, Awaited, Brings, Alone
  <1>8. Serving'
    BY <1>2, <1>3, <1>4, FleetAssumption DEF IInv, Serving, FleetAssumption
  <1>9. Unenrolled'
    BY <1>2, <1>3 DEF IInv, Unenrolled
  <1>10. TokenServes'
    BY <1>2 DEF IInv, TokenServes, Alone
  <1> QED BY <1>5, <1>7, <1>8, <1>9, <1>10 DEF IInv

\* An agent stops waiting, if it did, without a token that is new to it; the request it
\* waited for loses it or is gone.
LEMMA DoneKeeps ==
  ASSUME IInv, NEW a \in Agents,
         DOMAIN agent' = Agents, DOMAIN call' = Calls,
         \A b \in Agents \ {a} : agent'[b] = agent[b],
         agent'[a].waits = None, agent'[a].at # "enroll",
         {"at", "token", "reports", "waits"} \subseteq DOMAIN agent'[a],
         \A p \in Calls : agent[a].waits # p => call'[p] = call[p],
         \A p \in Calls : agent[a].waits = p =>
            \/ call'[p] = Idle
            \/ /\ {"at", "by"} \subseteq DOMAIN call'[p]
               /\ call'[p].at # "idle" /\ call'[p].by = None,
         DOMAIN file' = Agents, \A b \in Agents \ {a} : file'[b] = file[b],
         UNCHANGED <<agents, issued, late>>,
         \/ file'[a] \in {file[a], NoToken}
         \/ Alone(a) /\ NameOf[a] \notin late => agents[NameOf[a]] = file'[a]
  PROVE  IInv'
  <1>1. Shapes'
    BY DEF IInv, Shapes
  <1>2. \A b \in Agents \ {a} : b \in Agents /\ agent[b].waits # None => agent[b].waits # agent[a].waits
    BY FleetAssumption DEF IInv, Waiting, Awaited
  <1>3. Waiting'
    BY <1>2 DEF IInv, Waiting, Awaited, Brings, Alone
  <1>4. Serving'
    BY DEF IInv, Serving, Idle
  <1>5. Unenrolled'
    BY DEF IInv, Unenrolled
  <1>6. TokenServes'
    BY DEF IInv, TokenServes, Alone
  <1> QED BY <1>1, <1>3, <1>4, <1>5, <1>6 DEF IInv

--------------------------------------------------------------------------------
(* Steps of the server.                                                     *)

\* A request that does not enrol goes on, or is answered.
LEMMA HandlingKeeps ==
  ASSUME IInv, NEW p \in Calls, NEW c,
         call[p].at \notin {"idle", "enroll", "answer"},
         DOMAIN call' = Calls, call'[p] = c, \A q \in Calls \ {p} : call'[q] = call[q],
         \/ call[p].by = None /\ c = Idle
         \/ /\ {"at", "by"} \subseteq DOMAIN c
            /\ c.at \notin {"idle", "enroll"} /\ c.by = call[p].by,
         UNCHANGED <<file, agent, agents, issued, late>>
  PROVE  IInv'
  <1>1. Shapes'
    BY DEF IInv, Shapes
  <1>2. ASSUME NEW a \in Agents, agent[a].waits = p, p # None
        PROVE  agent[a].at = "push" /\ c.at \notin {"idle", "enroll"} /\ c.by = a
    <2>1. call[p].by = a /\ agent[a].at = "push"
      BY <1>2 DEF IInv, Waiting, Awaited
    <2>2. call[p].by # None
      BY <2>1, FleetAssumption DEF FleetAssumption
    <2> QED BY <2>1, <2>2
  <1>3. Waiting'
    BY <1>2 DEF IInv, Waiting, Awaited, Brings, Alone
  <1>4. Serving'
    BY DEF IInv, Serving, Idle
  <1>5. Unenrolled' /\ TokenServes'
    BY DEF IInv, Unenrolled, TokenServes, Alone
  <1> QED BY <1>1, <1>3, <1>4, <1>5 DEF IInv

LEMMA EnrollKeeps == ASSUME IInv, NEW p \in Calls, handleEnroll(p) PROVE IInv'
  <1> USE DEF handleEnroll, process
  <1>0. /\ call[p].at = "enroll" /\ call[p] # Idle
        /\ {"at", "by"} \subseteq DOMAIN call[p]
        /\ UNCHANGED <<file, agent>>
    BY DEF IInv, Shapes, Idle
  <1>1. ASSUME NEW a \in Agents, agent[a].waits = p, p # None
        PROVE  agent[a].at = "enroll" /\ call[p].by = a /\ call[p].name = NameOf[a]
    BY <1>0, <1>1 DEF IInv, Waiting, Awaited
  <1>2. \/ call[p].by = None
        \/ call[p].by \in Agents /\ agent[call[p].by].waits = p
    BY <1>0 DEF IInv, Serving
  <1>3. p # None
    BY FleetAssumption DEF FleetAssumption
  <1>4. PICK answer : Answer(p, answer) /\ answer \in {issued + 1, Refused}
    OBVIOUS
  <1>5. /\ DOMAIN call' = Calls
        /\ \A q \in Calls \ {p} : call'[q] = call[q]
        /\ call[p].by = None => call'[p] = Idle
        /\ call[p].by # None => call'[p] = [at |-> "answer", by |-> call[p].by, answer |-> answer]
    BY <1>4 DEF IInv, Shapes, Answer
  <1>6. issued' \in Nat /\ DOMAIN agents' = Names
    BY DEF IInv, Shapes, UpsertAgent
  <1>7. Shapes'
    <2>1. \A q \in Calls : \/ call'[q] = Idle
                           \/ {"at", "by"} \subseteq DOMAIN call'[q] /\ call'[q].at # "idle"
      BY <1>5 DEF IInv, Shapes
    <2> QED BY <1>0, <1>5, <1>6, <2>1 DEF IInv, Shapes
  <1>9. CASE /\ UpsertAgent(call[p].name, issued') /\ issued' = issued + 1
             /\ Answer(p, issued')
             /\ late' = IF call[p].by = None THEN late \cup {call[p].name} ELSE late
    <2>1. \A n \in Names : n # call[p].name => agents'[n] = agents[n]
      BY <1>9 DEF UpsertAgent, IInv, Shapes
    <2>2. \A n \in Names : n = call[p].name => agents'[n] = issued'
      BY <1>9 DEF UpsertAgent, IInv, Shapes
    <2>3. /\ call[p].by = None => call'[p] = Idle
          /\ call[p].by # None => call'[p] = [at |-> "answer", by |-> call[p].by, answer |-> issued']
      BY <1>9 DEF IInv, Shapes, Answer
    <2>4. \A a \in Agents : Alone(a) /\ NameOf[a] \notin late' /\ agent[a].waits # p
                              => NameOf[a] \notin late /\ agents'[NameOf[a]] = agents[NameOf[a]]
      <3> SUFFICES ASSUME NEW a \in Agents, Alone(a), NameOf[a] \notin late', agent[a].waits # p
                   PROVE  NameOf[a] \notin late /\ agents'[NameOf[a]] = agents[NameOf[a]]
        OBVIOUS
      <3>1. NameOf[a] \notin late
        BY <1>9
      <3>2. NameOf[a] # call[p].name
        BY <1>1, <1>2, <1>3, <1>9 DEF Alone
      <3> QED BY <2>1, <3>1, <3>2, NamesAreNames
    <2>5. Waiting'
      <3> SUFFICES ASSUME NEW a \in Agents, agent[a].waits # None
                   PROVE  /\ agent[a].waits \in Calls
                          /\ Awaited(a, call[agent[a].waits])'
                          /\ Brings(a, call[agent[a].waits])'
        BY <1>0 DEF Waiting
      <3>1. CASE agent[a].waits = p
        <4>1. call'[p] = [at |-> "answer", by |-> a, answer |-> issued']
          BY <1>1, <1>3, <2>3, <3>1, FleetAssumption DEF FleetAssumption
        <4>2. NameOf[a] \in Names /\ NameOf[a] = call[p].name
          BY <1>1, <1>3, <3>1, NamesAreNames
        <4> QED BY <1>0, <1>1, <1>3, <2>2, <3>1, <4>1, <4>2 DEF Awaited, Brings
      <3>2. CASE agent[a].waits # p
        BY <1>0, <1>5, <2>4, <3>2 DEF IInv, Waiting, Awaited, Brings, Alone
      <3> QED BY <3>1, <3>2
    <2>6. Serving'
      BY <1>0, <1>2, <1>5 DEF IInv, Serving, Idle
    <2>7. Unenrolled'
      BY <1>0 DEF IInv, Unenrolled
    <2>8. TokenServes'
      <3> SUFFICES ASSUME NEW a \in Agents, file[a] # NoToken, Alone(a), NameOf[a] \notin late'
                   PROVE  agents'[NameOf[a]] = file[a]
        BY <1>0 DEF TokenServes, Alone
      <3>1. agent[a].waits # p
        BY <1>1, <1>3 DEF IInv, Unenrolled
      <3> QED BY <2>4, <3>1 DEF IInv, TokenServes
    <2> QED BY <1>7, <2>5, <2>6, <2>7, <2>8 DEF IInv
  <1>10. CASE Answer(p, Refused) /\ UNCHANGED <<agents, late>>
    <2>1. call[p].by # None => call'[p] = [at |-> "answer", by |-> call[p].by, answer |-> Refused]
      BY <1>10 DEF IInv, Shapes, Answer
    <2>2. Waiting'
      BY <1>0, <1>1, <1>3, <1>5, <1>10, <2>1, FleetAssumption
      DEF IInv, Waiting, Awaited, Brings, Alone, FleetAssumption
    <2>3. Serving'
      BY <1>0, <1>2, <1>5 DEF IInv, Serving, Idle
    <2>4. Unenrolled' /\ TokenServes'
      BY <1>0, <1>10 DEF IInv, Unenrolled, TokenServes, Alone
    <2> QED BY <1>7, <2>2, <2>3, <2>4 DEF IInv
  <1> QED BY <1>9, <1>10

LEMMA RestartKeeps == ASSUME IInv, Restart PROVE IInv'
  <1> USE DEF Restart, database
  <1>1. /\ DOMAIN agent' = Agents
        /\ \A a \in Agents : agent'[a].waits = None
        /\ \A a \in Agents : agent'[a].at = "enroll" => agent[a].at = "enroll"
        /\ \A a \in Agents : {"at", "token", "reports", "waits"} \subseteq DOMAIN agent'[a]
    <2> SUFFICES ASSUME NEW a \in Agents
                 PROVE  /\ agent'[a].waits = None
                        /\ agent'[a].at = "enroll" => agent[a].at = "enroll"
                        /\ {"at", "token", "reports", "waits"} \subseteq DOMAIN agent'[a]
      OBVIOUS
    <2>1. CASE agent[a].waits = None
      BY <2>1 DEF IInv, Shapes
    <2>2. CASE agent[a].waits # None /\ agent[a].at = "enroll"
      BY <2>2 DEF Down
    <2>3. CASE agent[a].waits # None /\ agent[a].at # "enroll"
      BY <2>3 DEF IInv, Shapes
    <2> QED BY <2>1, <2>2, <2>3
  <1>2. Shapes'
    BY <1>1 DEF IInv, Shapes
  <1>3. Waiting' /\ Serving'
    BY <1>1 DEF Waiting, Serving, Idle
  <1>4. Unenrolled' /\ TokenServes'
    BY <1>1 DEF IInv, Unenrolled, TokenServes, Alone
  <1> QED BY <1>2, <1>3, <1>4 DEF IInv

--------------------------------------------------------------------------------
(* Every step.                                                              *)

LEMMA AgentStepKeeps == ASSUME IInv, NEW a \in Agents, AgentStep(a) PROVE IInv'
  <1>0. /\ \A b \in Agents : {"at", "token", "reports", "waits"} \subseteq DOMAIN agent[b]
        /\ DOMAIN file = Agents /\ DOMAIN agent = Agents /\ DOMAIN call = Calls
    BY DEF IInv, Shapes
  <1>1. CASE loadOrEnroll(a)
    BY <1>1, StartKeeps
  <1>2. CASE Enroll(a)
    <2> DEFINE c == [at |-> "enroll", by |-> a, name |-> NameOf[a]]
    <2>1. /\ c.at = "enroll" /\ c.by = a /\ c.name = NameOf[a]
          /\ {"at", "by"} \subseteq DOMAIN c
      OBVIOUS
    <2>2. agent[a].at = "enroll" /\ Post(a, c)
      BY <1>2 DEF Enroll
    <2> HIDE DEF c
    <2> QED BY <2>1, <2>2, PostKeeps
  <1>3. CASE Push(a)
    <2> DEFINE c == [at |-> "lookup", by |-> a, token |-> agent[a].token,
                     report |-> Head(agent[a].reports), source |-> None,
                     todo |-> {}, keys |-> {}]
    <2>1. c.at = "lookup" /\ c.by = a /\ {"at", "by"} \subseteq DOMAIN c
      OBVIOUS
    <2>2. agent[a].at = "push" /\ Post(a, c)
      BY <1>3 DEF Push
    <2> HIDE DEF c
    <2> QED BY <2>1, <2>2, PostKeeps
  <1>4. ASSUME NEW p \in Calls, Answered(a, p)
        PROVE  /\ agent[a].waits = p /\ call[p].at = "answer" /\ p # None
               /\ DOMAIN call' = Calls /\ call'[p] = Idle
               /\ \A q \in Calls : agent[a].waits # q => call'[q] = call[q]
               /\ \A q \in Calls : agent[a].waits = q => call'[q] = Idle
    BY <1>0, <1>4 DEF Answered
  <1>5. CASE Enrolled(a)
    <2>1. PICK p \in Calls : agent[a].at = "enroll" /\ Answered(a, p)
      BY <1>5 DEF Enrolled
    <2>2. UNCHANGED <<agents, issued, late>>
      BY <1>5 DEF Enrolled, gauges, database, history
    <2>3. call[p].answer # Refused /\ Alone(a) /\ NameOf[a] \notin late
            => agents[NameOf[a]] = call[p].answer
      BY <1>4, <2>1 DEF IInv, Waiting, Brings
    <2>4. \/ /\ call[p].answer # Refused
             /\ file' = [file EXCEPT ![a] = call[p].answer]
             /\ agent' = [agent EXCEPT ![a].at = "scan", ![a].token = call[p].answer,
                                       ![a].waits = None]
          \/ file' = [file EXCEPT ![a] = NoToken] /\ Exit(a)
          \/ UNCHANGED file /\ Exit(a)
      <3>1. \A q \in Calls : Answered(a, q) => q = p
        BY <2>1 DEF Answered
      <3> QED BY <1>5, <3>1 DEF Enrolled
    <2>5. /\ DOMAIN agent' = Agents
          /\ \A b \in Agents \ {a} : agent'[b] = agent[b]
          /\ agent'[a].waits = None /\ agent'[a].at # "enroll"
          /\ {"at", "token", "reports", "waits"} \subseteq DOMAIN agent'[a]
      BY <1>0, <2>4 DEF Exit, Down
    <2>6. /\ DOMAIN file' = Agents
          /\ \A b \in Agents \ {a} : file'[b] = file[b]
          /\ \/ file'[a] \in {file[a], NoToken}
             \/ Alone(a) /\ NameOf[a] \notin late => agents[NameOf[a]] = file'[a]
      BY <1>0, <2>3, <2>4
    <2> QED BY <1>4, <2>1, <2>2, <2>5, <2>6, DoneKeeps
  <1>6. ASSUME NEW at, NEW reports, Becomes(a, at, reports), at # "enroll"
        PROVE  /\ DOMAIN agent' = Agents
               /\ \A b \in Agents \ {a} : agent'[b] = agent[b]
               /\ agent'[a].waits = None /\ agent'[a].at # "enroll"
               /\ {"at", "token", "reports", "waits"} \subseteq DOMAIN agent'[a]
    BY <1>0, <1>6 DEF Becomes
  <1>7. ASSUME Exit(a)
        PROVE  /\ DOMAIN agent' = Agents
               /\ \A b \in Agents \ {a} : agent'[b] = agent[b]
               /\ agent'[a].waits = None /\ agent'[a].at # "enroll"
               /\ {"at", "token", "reports", "waits"} \subseteq DOMAIN agent'[a]
    BY <1>0, <1>7 DEF Exit, Down
  <1>8. ASSUME Leave(a)
        PROVE  /\ DOMAIN call' = Calls
               /\ \A q \in Calls : agent[a].waits # q => call'[q] = call[q]
               /\ \A q \in Calls : agent[a].waits = q =>
                    \/ call'[q] = Idle
                    \/ /\ {"at", "by"} \subseteq DOMAIN call'[q]
                       /\ call'[q].at # "idle" /\ call'[q].by = None
    <2>1. \A q \in Calls : agent[a].waits = q =>
            {"at", "by"} \subseteq DOMAIN call[q] /\ call[q].at # "idle"
      BY FleetAssumption DEF FleetAssumption, IInv, Shapes, Waiting, Awaited, Idle
    <2> QED BY <1>8, <2>1 DEF Leave
  <1>9. CASE CollectReports(a)
    <2>1. /\ agent[a].at = "scan" /\ UNCHANGED <<file, call, agents, issued, late>>
          /\ \E at \in {"scan", "push"} : \E reports : Becomes(a, at, reports)
      BY <1>9 DEF CollectReports, gauges, database, history
    <2>2. agent[a].waits = None
      BY <2>1 DEF IInv, Waiting, Awaited
    <2>3. \A q \in Calls : agent[a].waits # q
      BY <2>2, FleetAssumption DEF FleetAssumption
    <2> QED BY <1>0, <1>6, <2>1, <2>3, DoneKeeps
  <1>10. CASE Pushed(a)
    <2>1. PICK p \in Calls : /\ agent[a].at = "push" /\ Answered(a, p)
                             /\ Becomes(a, "scan", <<>>) \/ NextReport(a)
      BY <1>10 DEF Pushed
    <2>2. UNCHANGED <<file, agents, issued, late>>
      BY <1>10 DEF Pushed, gauges, database
    <2>3. \E at \in {"scan", "push"} : \E reports : Becomes(a, at, reports)
      BY <2>1 DEF NextReport
    <2> QED BY <1>0, <1>4, <1>6, <2>1, <2>2, <2>3, DoneKeeps
  <1>11. CASE GiveUp(a)
    <2>1. /\ Exit(a) \/ Becomes(a, "scan", <<>>)
          /\ Leave(a) /\ UNCHANGED <<file, agents, issued, late>>
      BY <1>11 DEF GiveUp, gauges, database, history
    <2> QED BY <1>0, <1>6, <1>7, <1>8, <2>1, DoneKeeps
  <1>12. CASE Stop(a)
    <2>1. Exit(a) /\ Leave(a) /\ UNCHANGED <<file, agents, issued, late>>
      BY <1>12 DEF Stop, gauges, database, history
    <2> QED BY <1>0, <1>7, <1>8, <2>1, DoneKeeps
  <1> QED BY <1>1, <1>2, <1>3, <1>5, <1>9, <1>10, <1>11, <1>12 DEF AgentStep

LEMMA ServerStepKeeps == ASSUME IInv, NEW p \in Calls, ServerStep(p) PROVE IInv'
  <1>0. /\ call[p] = Idle \/ {"at", "by"} \subseteq DOMAIN call[p]
        /\ DOMAIN call = Calls /\ Idle.at = "idle"
    BY DEF IInv, Shapes, Idle
  <1>1. ASSUME NEW c, call[p].at \notin {"idle", "enroll", "answer"},
               call' = [call EXCEPT ![p] = c],
               {"at", "by"} \subseteq DOMAIN c, c.at \notin {"idle", "enroll"},
               c.by = call[p].by,
               UNCHANGED <<file, agent, agents, issued, late>>
        PROVE  IInv'
    <2>1. /\ DOMAIN call' = Calls /\ call'[p] = c
          /\ \A q \in Calls \ {p} : call'[q] = call[q]
      BY <1>0, <1>1
    <2> QED BY <1>1, <2>1, HandlingKeeps
  <1>2. ASSUME NEW answer, Answer(p, answer), call[p].at \notin {"idle", "enroll", "answer"},
               UNCHANGED <<file, agent, agents, issued, late>>
        PROVE  IInv'
    <2> DEFINE c == [at |-> "answer", by |-> call[p].by, answer |-> answer]
    <2>1. c.at = "answer" /\ c.by = call[p].by /\ {"at", "by"} \subseteq DOMAIN c
      OBVIOUS
    <2>2. /\ DOMAIN call' = Calls /\ \A q \in Calls \ {p} : call'[q] = call[q]
          /\ call'[p] = IF call[p].by = None THEN Idle ELSE c
      BY <1>0, <1>2 DEF Answer
    <2> HIDE DEF c
    <2>3. CASE call[p].by = None
      BY <1>2, <2>2, <2>3, HandlingKeeps
    <2>4. CASE call[p].by # None
      BY <1>2, <2>1, <2>2, <2>4, HandlingKeeps
    <2> QED BY <2>3, <2>4
  <1>3. ASSUME NEW at, Goto(p, at), at \notin {"idle", "enroll"},
               call[p].at \notin {"idle", "enroll", "answer"},
               UNCHANGED <<file, agent, agents, issued, late>>
        PROVE  IInv'
    <2> DEFINE c == [call[p] EXCEPT !.at = at]
    <2>1. c.at = at /\ c.by = call[p].by /\ {"at", "by"} \subseteq DOMAIN c
      BY <1>0, <1>3
    <2>2. call' = [call EXCEPT ![p] = c]
      BY <1>0, <1>3 DEF Goto
    <2> HIDE DEF c
    <2> QED BY <1>1, <1>3, <2>1, <2>2
  <1>4. CASE handleEnroll(p)
    BY <1>4, EnrollKeeps
  <1>5. CASE handleIngestReport(p)
    <2>1. /\ call[p].at = "lookup" /\ UNCHANGED <<file, agent, agents, issued, late>>
          /\ \/ \E n : call' = [call EXCEPT ![p].at = "insert", ![p].source = n]
             \/ Answer(p, Refused)
      BY <1>5 DEF handleIngestReport, process, database
    <2>2. ASSUME NEW n, call' = [call EXCEPT ![p].at = "insert", ![p].source = n]
          PROVE  IInv'
      <3> DEFINE c == [call[p] EXCEPT !.at = "insert", !.source = n]
      <3>1. c.at = "insert" /\ c.by = call[p].by /\ {"at", "by"} \subseteq DOMAIN c
        BY <1>0, <2>1
      <3>2. call' = [call EXCEPT ![p] = c]
        BY <1>0, <2>2
      <3> HIDE DEF c
      <3> QED BY <1>1, <2>1, <3>1, <3>2
    <2> QED BY <1>2, <2>1, <2>2
  <1>6. CASE InsertScan(p)
    <2>1. /\ call[p].at = "insert"
          /\ Goto(p, "list") \/ Goto(p, "observe")
          /\ UNCHANGED <<file, agent, agents, issued, late>>
      BY <1>6 DEF InsertScan, process
    <2> QED BY <1>3, <2>1
  <1>7. CASE ListHSMs(p)
    <2>1. /\ call[p].at = "list"
          /\ call' = [call EXCEPT ![p].at = "read", ![p].todo = HSMs] \/ Goto(p, "observe")
          /\ UNCHANGED <<file, agent, agents, issued, late>>
      BY <1>7 DEF ListHSMs, process, database
    <2>2. ASSUME call' = [call EXCEPT ![p].at = "read", ![p].todo = HSMs]
          PROVE  IInv'
      <3> DEFINE c == [call[p] EXCEPT !.at = "read", !.todo = HSMs]
      <3>1. c.at = "read" /\ c.by = call[p].by /\ {"at", "by"} \subseteq DOMAIN c
        BY <1>0, <2>1
      <3>2. call' = [call EXCEPT ![p] = c]
        BY <1>0, <2>2
      <3> HIDE DEF c
      <3> QED BY <1>1, <2>1, <3>1, <3>2
    <2> QED BY <1>3, <2>1, <2>2
  <1>8. CASE ReadLatest(p)
    <2>1. /\ call[p].at = "read"
          /\ \/ \E todo, keys : call' = [call EXCEPT ![p].todo = todo, ![p].keys = keys]
             \/ Goto(p, "observe")
          /\ UNCHANGED <<file, agent, agents, issued, late>>
      <3>1. \A h : [call EXCEPT ![p].todo = @ \ {h},
                                ![p].keys = @ \cup ({h} \X LatestScan(h).content.keys)]
                 = [call EXCEPT ![p].todo = call[p].todo \ {h},
                                ![p].keys = call[p].keys \cup ({h} \X LatestScan(h).content.keys)]
        OBVIOUS
      <3> QED BY <1>8, <3>1 DEF ReadLatest, process, database
    <2>2. ASSUME NEW todo, NEW keys, call' = [call EXCEPT ![p].todo = todo, ![p].keys = keys]
          PROVE  IInv'
      <3> DEFINE c == [call[p] EXCEPT !.todo = todo, !.keys = keys]
      <3>1. c.at = "read" /\ c.by = call[p].by /\ {"at", "by"} \subseteq DOMAIN c
        BY <1>0, <2>1
      <3>2. call' = [call EXCEPT ![p] = c]
        BY <1>0, <2>2
      <3> HIDE DEF c
      <3> QED BY <1>1, <2>1, <3>1, <3>2
    <2> QED BY <1>3, <2>1, <2>2
  <1>9. CASE SharedKeys(p)
    <2>1. /\ call[p].at = "read"
          /\ call' = [call EXCEPT ![p].at = "observe", ![p].keys = {}]
          /\ UNCHANGED <<file, agent, agents, issued, late>>
      BY <1>9 DEF SharedKeys, process, database, history
    <2> DEFINE c == [call[p] EXCEPT !.at = "observe", !.keys = {}]
    <2>2. c.at = "observe" /\ c.by = call[p].by /\ {"at", "by"} \subseteq DOMAIN c
      BY <1>0, <2>1
    <2>3. call' = [call EXCEPT ![p] = c]
      BY <1>0, <2>1
    <2> HIDE DEF c
    <2> QED BY <1>1, <2>1, <2>2, <2>3
  <1>10. CASE observeScan(p)
    <2>1. /\ call[p].at = "observe" /\ Goto(p, "observeRest")
          /\ UNCHANGED <<file, agent, agents, issued, late>>
      BY <1>10 DEF observeScan, process, database, history
    <2> QED BY <1>3, <2>1
  <1>11. CASE observeExpiry(p)
    <2>1. /\ call[p].at = "observeRest" /\ Answer(p, Accepted)
          /\ UNCHANGED <<file, agent, agents, issued, late>>
      BY <1>11 DEF observeExpiry, process, database, history
    <2> QED BY <1>2, <2>1
  <1> QED BY <1>4, <1>5, <1>6, <1>7, <1>8, <1>9, <1>10, <1>11 DEF ServerStep

\* Nothing here depends on a bound.
THEOREM Inductive == Spec => []IInv
  <1>1. ASSUME IInv, [Next]_vars PROVE IInv'
    <2>1. CASE UNCHANGED vars
      <3>1. UNCHANGED <<file, agent, call, agents, issued, late>>
        BY <2>1 DEF vars, process, database, history
      <3>2. Shapes' /\ Serving' /\ Unenrolled'
        BY <1>1, <3>1 DEF IInv, Shapes, Serving, Unenrolled
      <3>3. Waiting' /\ TokenServes'
        BY <1>1, <3>1 DEF IInv, Waiting, Awaited, Brings, Alone, TokenServes
      <3> QED BY <3>2, <3>3 DEF IInv
    <2>2. CASE Next
      BY <1>1, <2>2, AgentStepKeeps, ServerStepKeeps, RestartKeeps DEF Next
    <2> QED BY <1>1, <2>1, <2>2
  <1> QED BY InitIInv, <1>1, PTL DEF Spec

\* An agent that has its name to itself is served with the token in its file, unless an
\* enrolment it had given up was carried out late: loadOrEnroll, handleEnroll and
\* GetAgentByTokenHash, with any number of agents, requests, restarts and failures.
THEOREM TokensServe == Spec => []TokenServes
  BY Inductive, PTL DEF IInv
--------------------------------------------------------------------------------
(* What becomes of a report.  The invariant follows its identity: from the   *)
(* list of one agent into one request, and from there into at most one row.  *)

\* The token t was issued, and not to another name than n.
TokenOf(t, n) == t \in 1..issued /\ \A m \in Names : agents[m] = t => m = n

\* An agent by the name of n sees the token with serial number s.
Sees(n, s) == \E a \in Agents :
    NameOf[a] = n /\ \E k \in DOMAIN SlotsOf[a] : SlotsOf[a][k] = s

TokenInv ==
    /\ \A n \in Names : agents[n] \in 0..issued
    /\ \A a \in Agents :
        /\ file[a] # NoToken => TokenOf(file[a], NameOf[a])
        /\ agent[a].at \in {"scan", "push"} => TokenOf(agent[a].token, NameOf[a])
        /\ agent[a].at = "enroll" /\ agent[a].waits # None =>
            LET c == call[agent[a].waits]
            IN  c.at = "answer" /\ c.answer # Refused => TokenOf(c.answer, NameOf[a])

\* A request that carries a report, and what is known of the report with this identity.
Holding == {"lookup"} \cup Handling
Carried == {"token", "report", "source", "todo", "keys"}
Holds(p, id) == call[p].at \in Holding /\ call[p].report.id = id
Unknown(id) ==
    /\ \A p \in Calls : ~Holds(p, id)
    /\ \A i \in DOMAIN rows : rows[i].report.id # id
    /\ \A s \in Serials : handled[s] # id
Settles(id) == StoredAs(id) # {} \/ id \in unstored

\* The reports an agent has still to send are its own, and nobody else knows of them.
ListInv == \A a \in Agents :
    /\ agent[a].reports \in Seq(Report)
    /\ agent[a].at = "push" <=> agent[a].reports # <<>>
    /\ \A i \in DOMAIN agent[a].reports : LET r == agent[a].reports[i] IN
        /\ r.id <= clock
        /\ \E k \in DOMAIN SlotsOf[a] : SlotsOf[a][k] = r.serial
        /\ agent[a].waits = None \/ i > 1 => Unknown(r.id)
        /\ \A b \in Agents : \A j \in DOMAIN agent[b].reports :
            agent[b].reports[j].id = r.id => b = a /\ j = i

\* The agent waits for the first report of its list.
AnswerInv == \A a \in Agents : agent[a].at = "push" /\ agent[a].waits # None =>
    LET c == call[agent[a].waits]
        r == agent[a].reports[1]
    IN  /\ c.at \in Holding => c.report = r
        /\ c.at = "answer" /\ c.answer # Refused => Settles(r.id)

\* A report is in one request at a time, and in the history once it was inserted there.
Sound(c, p) == LET r == c.report IN
    /\ Carried \subseteq DOMAIN c /\ r \in Report /\ r.id <= clock
    /\ \A q \in Calls : Holds(q, r.id) => q = p
    /\ c.at \in {"lookup", "insert"} => StoredAs(r.id) = {}
    /\ c.at \notin {"lookup", "insert"} => Settles(r.id)
    /\ \A i \in StoredAs(r.id) : rows[i].report = r
    /\ \A s \in Serials : handled[s] = r.id => c.at # "lookup" /\ s = r.serial
    /\ c.at = "lookup" =>
        /\ c.token \in 1..issued
        /\ \A n \in Names : agents[n] = c.token => Sees(n, r.serial)
    /\ c.at = "insert" => c.source \in Names /\ Sees(c.source, r.serial)
RequestInv == \A p \in Calls : call[p].at \in Holding => Sound(call[p], p)

RowInv ==
    /\ clock \in 0..MaxReports
    /\ rows \in Seq(Row)
    /\ \A s \in Serials : handled[s] \in 0..clock
    /\ \A i \in DOMAIN rows :
        /\ rows[i].report.id <= clock
        /\ Sees(rows[i].hsm[2], rows[i].report.serial)
        /\ \A j \in DOMAIN rows : rows[j].report.id = rows[i].report.id => j = i
    /\ \A id \in pushed : Settles(id)

PushInv == TokenInv /\ ListInv /\ AnswerInv /\ RequestInv /\ RowInv

LEMMA InitPushInv == Init => PushInv
  <1> SUFFICES ASSUME Init PROVE PushInv
    OBVIOUS
  <1>a. Down.reports = <<>> /\ Down.at = "down" /\ Idle.at \notin Holding
    BY DEF Down, Idle, Holding, Handling, Recounting
  <1>1. TokenInv
    BY <1>a DEF Init, TokenInv, NoToken
  <1>2. ListInv /\ AnswerInv
    <2>1. \A a \in Agents : agent[a].reports = <<>> /\ agent[a].at = "down"
      BY <1>a DEF Init
    <2>2. DOMAIN <<>> = {} /\ <<>> \in Seq(Report)
      OBVIOUS
    <2> QED BY <2>1, <2>2 DEF ListInv, AnswerInv
  <1>3. RequestInv
    BY <1>a DEF Init, RequestInv
  <1>4. RowInv
    BY FleetAssumption DEF Init, RowInv, FleetAssumption
  <1> QED BY <1>1, <1>2, <1>3, <1>4 DEF PushInv

\* A request that goes on with what it carries, while the tables say no more and no less
\* of its report.
LEMMA SoundKept ==
  ASSUME NEW p \in Calls, NEW c, NEW d, c.at \in Holding, Sound(c, p),
         d.report = c.report, d.token = c.token, d.source = c.source, Carried \subseteq DOMAIN d,
         d.at = c.at \/ {d.at, c.at} \cap {"lookup", "insert"} = {},
         clock \in Nat, clock' \in Nat, clock <= clock',
         \A q \in Calls : call'[q].at \in Holding /\ q # p =>
            call[q].at \in Holding /\ call'[q].report = call[q].report,
         \A i \in DOMAIN rows : i \in DOMAIN rows' /\ rows'[i] = rows[i],
         \A i \in DOMAIN rows' : rows'[i].report.id = c.report.id => i \in DOMAIN rows,
         unstored \subseteq unstored',
         \A s \in Serials : handled'[s] # 0 /\ handled'[s] = c.report.id => handled[s] = c.report.id,
         issued \in Nat, issued' \in Nat, issued <= issued',
         \A n \in Names : agents'[n] \in 1..issued => agents[n] = agents'[n]
  PROVE  Sound(d, p)'
  <1> DEFINE r == c.report
  <1>2. r \in Report /\ r.id \in Nat \ {0} /\ r.id <= clock
    BY FleetAssumption DEF Sound, Report, FleetAssumption
  <1>3. StoredAs(r.id)' = StoredAs(r.id)
    BY DEF StoredAs
  <1>4. \A q \in Calls : Holds(q, r.id)' /\ q # p => Holds(q, r.id)
    BY DEF Holds
  <1>5. \A s \in Serials : handled'[s] = r.id => handled[s] = r.id
    BY <1>2
  <1>6. \A i \in StoredAs(r.id)' : rows'[i].report = r
    BY <1>3 DEF Sound, StoredAs
  <1>7. /\ \A q \in Calls : Holds(q, r.id)' => q = p
        /\ d.at \in {"lookup", "insert"} => StoredAs(r.id)' = {}
    BY <1>3, <1>4 DEF Sound
  <1>8. d.at \notin {"lookup", "insert"} => Settles(r.id)'
    <2>1. d.at \notin {"lookup", "insert"} => Settles(r.id)
      BY DEF Sound
    <2> QED BY <2>1, <1>3 DEF Settles
  <1>9. \A s \in Serials : handled'[s] = r.id => d.at # "lookup" /\ s = r.serial
    BY <1>5 DEF Sound
  <1>10. d.at = "lookup" => d.token \in 1..issued /\ d.token \in 1..issued'
    <2>1. d.at = "lookup" => d.token \in 1..issued
      BY DEF Sound
    <2> QED BY <2>1
  <1>11. /\ d.at = "lookup" => \A n \in Names : agents'[n] = d.token => Sees(n, r.serial)
         /\ d.at = "insert" => d.source \in Names /\ Sees(d.source, r.serial)
    BY <1>10 DEF Sound
  <1> QED BY <1>2, <1>6, <1>7, <1>8, <1>9, <1>10, <1>11 DEF Sound, Sees

\* Requests that go on, or end, and nothing new in the tables.
LEMMA RequestsKept ==
  ASSUME RequestInv, UNCHANGED <<rows, unstored, agents, issued>>, issued \in Nat,
         clock \in Nat, clock' \in Nat, clock <= clock',
         \A s \in Serials : handled'[s] \in {0, handled[s]},
         \A q \in Calls : call'[q].at \in Holding =>
            /\ call[q].at \in Holding /\ call'[q].report = call[q].report
            /\ call'[q].token = call[q].token /\ call'[q].source = call[q].source
            /\ Carried \subseteq DOMAIN call'[q]
            /\ \/ call'[q].at = call[q].at
               \/ {call'[q].at, call[q].at} \cap {"lookup", "insert"} = {}
  PROVE  RequestInv'
  <1> SUFFICES ASSUME NEW p \in Calls, call'[p].at \in Holding,
                      NEW c, c = call[p], NEW d, d = call'[p]
               PROVE  Sound(d, p)'
    BY DEF RequestInv, Holding
  <1>1. /\ c.at \in Holding /\ Sound(c, p)
        /\ d.report = c.report /\ d.token = c.token /\ d.source = c.source
        /\ Carried \subseteq DOMAIN d
        /\ d.at = c.at \/ {d.at, c.at} \cap {"lookup", "insert"} = {}
    BY DEF RequestInv
  <1>2. \A n \in Names : agents'[n] \in 1..issued => agents[n] = agents'[n]
    OBVIOUS
  <1>3. /\ \A i \in DOMAIN rows : i \in DOMAIN rows' /\ rows'[i] = rows[i]
        /\ \A i \in DOMAIN rows' : rows'[i].report.id = c.report.id => i \in DOMAIN rows
    OBVIOUS
  <1>4. issued' \in Nat /\ issued <= issued' /\ unstored \subseteq unstored'
    OBVIOUS
  <1>5. \A s \in Serials : handled'[s] # 0 /\ handled'[s] = c.report.id => handled[s] = c.report.id
    OBVIOUS
  <1>6. \A q \in Calls : call'[q].at \in Holding /\ q # p =>
            call[q].at \in Holding /\ call'[q].report = call[q].report
    OBVIOUS
  <1> HIDE DEF Sound
  <1> QED BY <1>1, <1>2, <1>3, <1>4, <1>5, <1>6, SoundKept

\* Nobody comes to know of a report that nobody knew of.
LEMMA UnknownKept ==
  ASSUME NEW id, Unknown(id), id # 0,
         \A q \in Calls : call'[q].at \in Holding =>
            call[q].at \in Holding /\ call'[q].report = call[q].report,
         \A i \in DOMAIN rows' :
            \/ i \in DOMAIN rows /\ rows'[i] = rows[i]
            \/ \E q \in Calls : call[q].at \in Holding /\ rows'[i].report = call[q].report,
         \A s \in Serials :
            \/ handled'[s] \in {0, handled[s]}
            \/ \E q \in Calls : call[q].at \in Holding /\ handled'[s] = call[q].report.id
  PROVE  Unknown(id)'
  <1>1. \A q \in Calls : ~Holds(q, id)'
    BY DEF Unknown, Holds
  <1>2. \A i \in DOMAIN rows' : rows'[i].report.id # id
    BY DEF Unknown, Holds
  <1>3. \A s \in Serials : handled'[s] # id
    BY DEF Unknown, Holds
  <1> QED BY <1>1, <1>2, <1>3 DEF Unknown

\* Agents that keep the reports they have still to send, or drop them all; one may be
\* sent, the first of its agent.
LEMMA ListsKept ==
  ASSUME ListInv, clock \in Nat, clock' \in Nat, clock <= clock',
         NEW spent,
         \A id \in Nat \ {0, spent} : Unknown(id) => Unknown(id)',
         \/ spent = 0
         \/ \A b \in Agents : \A i \in DOMAIN agent[b].reports :
              agent[b].reports[i].id = spent => i = 1 /\ agent'[b].waits # None,
         \A b \in Agents :
            \/ /\ agent'[b].reports = agent[b].reports
               /\ agent'[b].waits = None => agent[b].waits = None
               /\ agent'[b].at = "push" <=> agent[b].at = "push"
            \/ agent'[b].reports = <<>> /\ agent'[b].at # "push"
  PROVE  ListInv'
  <1>1. ASSUME NEW a \in Agents
        PROVE  /\ agent'[a].reports \in Seq(Report)
               /\ agent'[a].at = "push" <=> agent'[a].reports # <<>>
    <2>1. <<>> \in Seq(Report)
      OBVIOUS
    <2> QED BY <2>1 DEF ListInv
  <1>2. \A a \in Agents : \A i \in DOMAIN agent'[a].reports :
            i \in DOMAIN agent[a].reports /\ agent'[a].reports[i] = agent[a].reports[i]
                                         /\ agent'[a].reports = agent[a].reports
    OBVIOUS
  <1>3. ASSUME NEW a \in Agents, NEW i \in DOMAIN agent'[a].reports, NEW r, r = agent'[a].reports[i]
        PROVE  /\ r.id <= clock'
               /\ \E k \in DOMAIN SlotsOf[a] : SlotsOf[a][k] = r.serial
               /\ agent'[a].waits = None \/ i > 1 => Unknown(r.id)'
               /\ \A b \in Agents : \A j \in DOMAIN agent'[b].reports :
                    agent'[b].reports[j].id = r.id => b = a /\ j = i
    <2>1. /\ i \in DOMAIN agent[a].reports /\ r = agent[a].reports[i]
          /\ agent[a].reports \in Seq(Report)
      BY <1>2, <1>3 DEF ListInv
    <2>2. r \in Report /\ r.id \in Nat \ {0}
      <3>1. r \in Report
        BY <2>1
      <3> QED BY <3>1, FleetAssumption DEF Report, FleetAssumption
    <2>3. r.id <= clock /\ \E k \in DOMAIN SlotsOf[a] : SlotsOf[a][k] = r.serial
      BY <2>1 DEF ListInv
    <2>4. agent[a].waits = None \/ i > 1 => Unknown(r.id)
      BY <2>1 DEF ListInv
    <2>5. agent'[a].waits = None => agent[a].waits = None
      BY <1>3
    <2>6. \A b \in Agents : \A j \in DOMAIN agent[b].reports :
                    agent[b].reports[j].id = r.id => b = a /\ j = i
      BY <2>1 DEF ListInv
    <2>7. agent'[a].waits = None \/ i > 1 => Unknown(r.id)'
      <3>1. agent'[a].waits = None \/ i > 1 => r.id # spent /\ Unknown(r.id)
        BY <2>1, <2>2, <2>4, <2>5
      <3> QED BY <2>2, <3>1
    <2> QED BY <1>2, <2>2, <2>3, <2>6, <2>7
  <1> QED BY <1>1, <1>3 DEF ListInv

\* Agents that go on waiting for the request they waited for, and this one either for
\* the same or with an answer that is true.
LEMMA AnswersKept ==
  ASSUME AnswerInv,
         \A id : Settles(id) => Settles(id)',
         \A b \in Agents : agent'[b].at = "push" /\ agent'[b].waits # None =>
            /\ agent[b].at = "push" /\ agent[b].waits = agent'[b].waits
            /\ agent'[b].reports = agent[b].reports,
         \A b \in Agents : agent[b].at = "push" /\ agent'[b].waits # None =>
            LET c == call[agent[b].waits]
                d == call'[agent[b].waits]
            IN  /\ d.at \in Holding => c.at \in Holding /\ d.report = c.report
                /\ d.at = "answer" /\ d.answer # Refused =>
                    \/ c.at = "answer" /\ c.answer = d.answer
                    \/ c.at \in Holding /\ \E id : id = c.report.id /\ Settles(id)'
  PROVE  AnswerInv'
  <1> SUFFICES ASSUME NEW a \in Agents, agent'[a].at = "push", agent'[a].waits # None,
                      NEW p, p = agent'[a].waits, NEW r, r = agent'[a].reports[1]
               PROVE  /\ call'[p].at \in Holding => call'[p].report = r
                      /\ call'[p].at = "answer" /\ call'[p].answer # Refused => Settles(r.id)'
    BY DEF AnswerInv, Holding
  <1>1. agent[a].at = "push" /\ agent[a].waits = p /\ agent[a].reports[1] = r
    OBVIOUS
  <1>2. /\ call[p].at \in Holding => call[p].report = r
        /\ call[p].at = "answer" /\ call[p].answer # Refused => Settles(r.id)
    BY <1>1 DEF AnswerInv
  <1> QED BY <1>1, <1>2

\* No step takes back what is in the history.
LEMMA RowsKept ==
  ASSUME RowInv, UNCHANGED <<rows, pushed, unstored>>, clock' \in 0..MaxReports, clock <= clock',
         \A s \in Serials : handled'[s] \in 0..clock'
  PROVE  RowInv'
  <1>0. clock \in Nat /\ clock' \in Nat
    BY FleetAssumption DEF RowInv, FleetAssumption
  <1>1. ASSUME NEW i \in DOMAIN rows
        PROVE  /\ rows[i].report.id <= clock'
               /\ Sees(rows[i].hsm[2], rows[i].report.serial)
               /\ \A j \in DOMAIN rows : rows[j].report.id = rows[i].report.id => j = i
    <2>1. rows[i].report.id \in Nat
      <3>1. rows[i] \in Row
        BY DEF RowInv
      <3> QED BY <3>1, FleetAssumption DEF Row, Report, FleetAssumption
    <2> QED BY <1>0, <2>1 DEF RowInv
  <1>2. \A id \in pushed : Settles(id)'
    BY DEF RowInv, Settles, StoredAs
  <1> QED BY <1>1, <1>2 DEF RowInv, Sees


\* Tokens stay with the name they were issued to.
LEMMA TokensKept ==
  ASSUME TokenInv, UNCHANGED <<agents, issued>>,
         \A b \in Agents : file'[b] # NoToken => TokenOf(file'[b], NameOf[b]),
         \A b \in Agents : agent'[b].at \in {"scan", "push"} => TokenOf(agent'[b].token, NameOf[b]),
         \A b \in Agents : agent'[b].at = "enroll" /\ agent'[b].waits # None =>
            LET d == call'[agent'[b].waits]
            IN  d.at = "answer" /\ d.answer # Refused => TokenOf(d.answer, NameOf[b])
  PROVE  TokenInv'
BY DEF TokenInv, TokenOf


LEMMA Basics ==
  ASSUME IInv, PushInv
  PROVE  /\ DOMAIN file = Agents /\ DOMAIN agent = Agents
         /\ DOMAIN call = Calls /\ DOMAIN agents = Names
         /\ \A b \in Agents : {"at", "token", "reports", "waits"} \subseteq DOMAIN agent[b]
         /\ \A p \in Calls : \/ call[p] = Idle
                             \/ {"at", "by"} \subseteq DOMAIN call[p] /\ call[p].at # "idle"
         /\ \A p \in Calls : call[p].at \in Holding => Carried \subseteq DOMAIN call[p]
         /\ issued \in Nat /\ clock \in Nat /\ clock \in 0..MaxReports
         /\ \A s \in Serials : handled[s] \in 0..clock
         /\ Idle.at = "idle" /\ None \notin Calls /\ None \notin Agents
         /\ "idle" \notin Holding /\ "answer" \notin Holding /\ "enroll" \notin Holding
  <1>1. \A p \in Calls : call[p].at \in Holding => Carried \subseteq DOMAIN call[p]
    BY DEF PushInv, RequestInv, Sound
  <1>2. clock \in 0..MaxReports /\ clock \in Nat /\ \A s \in Serials : handled[s] \in 0..clock
    BY FleetAssumption DEF PushInv, RowInv, FleetAssumption
  <1>3. /\ Idle.at = "idle"
        /\ "idle" \notin Holding /\ "answer" \notin Holding /\ "enroll" \notin Holding
    BY DEF Idle, Holding, Handling, Recounting
  <1>4. Shapes
    BY DEF IInv
  <1>5. None \notin Calls /\ None \notin Agents
    BY FleetAssumption DEF FleetAssumption
  <1>6. /\ DOMAIN file = Agents /\ DOMAIN agent = Agents
        /\ DOMAIN call = Calls /\ DOMAIN agents = Names /\ issued \in Nat
        /\ \A b \in Agents : {"at", "token", "reports", "waits"} \subseteq DOMAIN agent[b]
    BY <1>4 DEF Shapes
  <1>7. \A p \in Calls : call[p] = Idle \/ ({"at", "by"} \subseteq DOMAIN call[p] /\ call[p].at # "idle")
    BY <1>4 DEF Shapes
  <1> QED BY <1>1, <1>2, <1>3, <1>5, <1>6, <1>7

\* The steps of an agent that need no answer and bring none.
LEMMA AloneKeepsPush ==
  ASSUME IInv, PushInv, NEW a \in Agents,
         DOMAIN agent' = Agents, \A b \in Agents \ {a} : agent'[b] = agent[b],
         \/ agent'[a].at \in {"down", "enroll"}
         \/ agent'[a].at = "scan" /\ TokenOf(agent'[a].token, NameOf[a]),
         agent'[a].reports = <<>>, agent'[a].waits = None,
         \A q \in Calls : \/ call'[q] = call[q] \/ call'[q] = Idle
                          \/ /\ call[q].at # "idle" /\ call'[q] = [call[q] EXCEPT !.by = None],
         \A b \in Agents : file'[b] # NoToken => file'[b] = file[b] \/ TokenOf(file'[b], NameOf[b]),
         UNCHANGED <<agents, issued, rows, clock, unstored, handled, pushed>>
  PROVE  PushInv'
  <1>0. /\ clock \in Nat /\ issued \in Nat
        /\ \A q \in Calls : call'[q].at \in Holding =>
             /\ call[q].at = call'[q].at /\ call'[q].report = call[q].report
             /\ call'[q].token = call[q].token /\ call'[q].source = call[q].source
             /\ Carried \subseteq DOMAIN call'[q]
        /\ \A q \in Calls : call'[q].at = "answer" =>
             call[q].at = "answer" /\ call'[q].answer = call[q].answer
    <2> SUFFICES ASSUME NEW q \in Calls
                 PROVE  /\ call'[q].at \in Holding =>
                             /\ call[q].at = call'[q].at /\ call'[q].report = call[q].report
                             /\ call'[q].token = call[q].token /\ call'[q].source = call[q].source
                             /\ Carried \subseteq DOMAIN call'[q]
                        /\ call'[q].at = "answer" =>
                             call[q].at = "answer" /\ call'[q].answer = call[q].answer
      BY Basics
    <2>1. CASE call'[q] = call[q]
      BY <2>1, Basics
    <2>2. CASE call'[q] = Idle
      BY <2>2, Basics
    <2>3. CASE call'[q] = [call[q] EXCEPT !.by = None]
      BY <2>3, Basics
    <2> QED BY <2>1, <2>2, <2>3
  <1>1. TokenInv'
    <2>1. \A b \in Agents : file'[b] # NoToken => TokenOf(file'[b], NameOf[b])
      BY DEF PushInv, TokenInv
    <2>2. \A b \in Agents : agent'[b].at \in {"scan", "push"} => TokenOf(agent'[b].token, NameOf[b])
      BY DEF PushInv, TokenInv
    <2>3. \A b \in Agents : agent'[b].waits # None => b # a /\ agent'[b] = agent[b] /\ agent[b].waits \in Calls
      BY DEF IInv, Waiting
    <2>4. ASSUME NEW b \in Agents, agent'[b].at = "enroll", agent'[b].waits # None,
                 NEW p, p = agent'[b].waits, call'[p].at = "answer", call'[p].answer # Refused
          PROVE  TokenOf(call'[p].answer, NameOf[b])
      BY <1>0, <2>3, <2>4 DEF PushInv, TokenInv
    <2> QED BY <2>1, <2>2, <2>4, TokensKept DEF PushInv
  <1>2. ListInv'
    <2>1. \A id \in Nat \ {0} : Unknown(id) => Unknown(id)'
      BY <1>0, UnknownKept
    <2> QED BY <1>0, <2>1, ListsKept DEF PushInv
  <1>3. AnswerInv'
    <2>1. \A id : Settles(id) => Settles(id)'
      BY DEF Settles, StoredAs
    <2>2. \A b \in Agents : agent'[b].waits # None => b # a /\ agent'[b] = agent[b] /\ agent[b].waits \in Calls
      BY DEF IInv, Waiting
    <2> QED BY <1>0, <2>1, <2>2, AnswersKept DEF PushInv
  <1>4. RequestInv'
    BY <1>0, RequestsKept DEF PushInv
  <1>5. RowInv'
    BY Basics, RowsKept DEF PushInv
  <1> QED BY <1>1, <1>2, <1>3, <1>4, <1>5 DEF PushInv

\* A request to enrol carries no report.
LEMMA EnrollKeepsPush == ASSUME IInv, PushInv, NEW a \in Agents, Enroll(a) PROVE PushInv'
  <1> USE DEF Enroll, Post, gauges, database, history
  <1>1. PICK p \in Calls : /\ call[p] = Idle
                           /\ call' = [call EXCEPT ![p] = [at |-> "enroll", by |-> a, name |-> NameOf[a]]]
                           /\ agent' = [agent EXCEPT ![a].waits = p]
    OBVIOUS
  <1>2. /\ agent[a].at = "enroll" /\ agent[a].waits = None
        /\ UNCHANGED <<file, agents, issued, rows, clock, unstored, handled, pushed>>
    OBVIOUS
  <1>3. /\ \A b \in Agents : /\ agent'[b].at = agent[b].at /\ agent'[b].token = agent[b].token
                             /\ agent'[b].reports = agent[b].reports
        /\ \A b \in Agents \ {a} : agent'[b] = agent[b]
        /\ agent'[a].waits = p
        /\ call'[p].at = "enroll" /\ \A q \in Calls \ {p} : call'[q] = call[q]
    BY <1>1, Basics
  <1>4. \A q \in Calls : call'[q].at \in Holding => call'[q] = call[q]
    BY <1>3, Basics
  <1>5. \A b \in Agents : b # a /\ agent[b].waits # None => agent[b].waits \in Calls /\ agent[b].waits # p
    BY <1>1, Basics DEF IInv, Waiting, Awaited
  <1>6. TokenInv'
    BY <1>2, <1>3, <1>5, TokensKept DEF PushInv, TokenInv
  <1>7. ListInv'
    <2>1. \A id \in Nat \ {0} : Unknown(id) => Unknown(id)'
      BY <1>2, <1>4, UnknownKept
    <2>2. \A b \in Agents : agent'[b].waits = None => agent[b].waits = None
      BY <1>2, <1>3
    <2> QED BY <1>2, <1>3, <2>1, <2>2, Basics, ListsKept DEF PushInv
  <1>8. AnswerInv'
    <2>1. \A id : Settles(id) => Settles(id)'
      BY <1>2 DEF Settles, StoredAs
    <2>2. \A b \in Agents : agent[b].at = "push" => b # a /\ agent'[b] = agent[b]
      BY <1>2, <1>3
    <2> QED BY <1>3, <1>5, <2>1, <2>2, AnswersKept DEF PushInv
  <1>9. RequestInv'
    BY <1>2, <1>4, Basics, RequestsKept DEF PushInv
  <1>10. RowInv'
    BY <1>2, Basics, RowsKept DEF PushInv
  <1> QED BY <1>6, <1>7, <1>8, <1>9, <1>10 DEF PushInv

\* The first report of the list goes out, with the token of its agent.
LEMMA SendKeepsPush == ASSUME IInv, PushInv, NEW a \in Agents, Push(a) PROVE PushInv'
  <1> USE DEF Push, Post, gauges, database, history
  <1>a. PICK r : r = agent[a].reports[1]
    OBVIOUS
  <1>b. PICK c : c = [at |-> "lookup", by |-> a, token |-> agent[a].token, report |-> r,
                      source |-> None, todo |-> {}, keys |-> {}]
    OBVIOUS
  <1>0. agent[a].at = "push" /\ agent[a].reports \in Seq(Report) /\ agent[a].reports # <<>>
    BY DEF PushInv, ListInv
  <1>1. PICK p \in Calls : /\ call[p] = Idle
                           /\ call' = [call EXCEPT ![p] = c]
                           /\ agent' = [agent EXCEPT ![a].waits = p]
    <2>1. Head(agent[a].reports) = r
      BY <1>0, <1>a
    <2> QED BY <1>b, <2>1
  <1>2. /\ agent[a].waits = None
        /\ UNCHANGED <<file, agents, issued, rows, clock, unstored, handled, pushed>>
    OBVIOUS
  <1>3. /\ \A b \in Agents : /\ agent'[b].at = agent[b].at /\ agent'[b].token = agent[b].token
                             /\ agent'[b].reports = agent[b].reports
        /\ \A b \in Agents \ {a} : agent'[b] = agent[b]
        /\ agent'[a].waits = p
        /\ call'[p] = c /\ \A q \in Calls \ {p} : call'[q] = call[q]
    BY <1>1, Basics
  <1>4. /\ c.at = "lookup" /\ c.token = agent[a].token /\ c.report = r
        /\ Carried \subseteq DOMAIN c
    BY <1>b DEF Carried
  <1>5. \A b \in Agents : b # a /\ agent[b].waits # None => agent[b].waits \in Calls /\ agent[b].waits # p
    BY <1>1, Basics DEF IInv, Waiting, Awaited
  <1>6. /\ 1 \in DOMAIN agent[a].reports /\ r \in Report /\ r.id \in Nat \ {0} /\ r.id <= clock
        /\ \E k \in DOMAIN SlotsOf[a] : SlotsOf[a][k] = r.serial
        /\ Unknown(r.id)
        /\ \A b \in Agents : \A j \in DOMAIN agent[b].reports :
             agent[b].reports[j].id = r.id => b = a /\ j = 1
    <2>1. 1 \in DOMAIN agent[a].reports /\ r \in Report
      BY <1>0, <1>a
    <2>2. r.id \in Nat \ {0}
      BY <2>1, FleetAssumption DEF Report, FleetAssumption
    <2> QED BY <1>2, <1>a, <2>1, <2>2 DEF PushInv, ListInv
  <1>7. TokenInv'
    BY <1>0, <1>2, <1>3, <1>5, TokensKept DEF PushInv, TokenInv
  <1>8. ListInv'
    <2>0. PICK spent : spent = r.id
      OBVIOUS
    <2>1. ASSUME NEW id \in Nat \ {0, spent}, Unknown(id) PROVE Unknown(id)'
      <3>1. \A q \in Calls : ~Holds(q, id)'
        BY <1>3, <1>4, <2>0, <2>1 DEF Unknown, Holds
      <3> QED BY <1>2, <2>1, <3>1 DEF Unknown
    <2>2. \A b \in Agents : agent'[b].waits = None => agent[b].waits = None
      BY <1>2, <1>3
    <2>3. \A b \in Agents : \A i \in DOMAIN agent[b].reports :
            agent[b].reports[i].id = spent => i = 1 /\ agent'[b].waits # None
      BY <1>3, <1>6, <2>0, Basics
    <2>4. \A b \in Agents : /\ agent'[b].reports = agent[b].reports
                            /\ agent'[b].at = "push" <=> agent[b].at = "push"
      BY <1>3
    <2>5. ListInv /\ clock \in Nat /\ clock' \in Nat /\ clock <= clock'
      BY <1>2, Basics DEF PushInv
    <2> QED BY <2>1, <2>2, <2>3, <2>4, <2>5, ListsKept
  <1>9. AnswerInv'
    <2>1. ASSUME NEW b \in Agents, agent'[b].at = "push", agent'[b].waits # None,
                 NEW q, q = agent'[b].waits, NEW s, s = agent'[b].reports[1]
          PROVE  /\ call'[q].at \in Holding => call'[q].report = s
                 /\ call'[q].at = "answer" /\ call'[q].answer # Refused => Settles(s.id)'
      <3>1. CASE b = a
        BY <1>3, <1>4, <1>a, <2>1, <3>1, Basics
      <3>2. CASE b # a
        <4>1. call'[q] = call[q] /\ agent'[b] = agent[b]
          BY <1>3, <1>5, <2>1, <3>2
        <4>2. Settles(s.id)' = Settles(s.id)
          BY <1>2 DEF Settles, StoredAs
        <4>3. /\ call[q].at \in Holding => call[q].report = s
              /\ call[q].at = "answer" /\ call[q].answer # Refused => Settles(s.id)
          BY <2>1, <4>1 DEF PushInv, AnswerInv
        <4> QED BY <4>1, <4>2, <4>3
      <3> QED BY <3>1, <3>2
    <2> QED BY <2>1 DEF AnswerInv, Holding
  <1>10. RequestInv'
    <2>1. Sound(c, p)'
      <3>1. StoredAs(r.id)' = {}
        BY <1>2, <1>6 DEF Unknown, StoredAs
      <3>2. \A q \in Calls : Holds(q, r.id)' => q = p
        BY <1>3, <1>6 DEF Unknown, Holds
      <3>3. \A s \in Serials : handled'[s] # r.id
        BY <1>2, <1>6 DEF Unknown
      <3>4. c.token \in 1..issued /\ \A n \in Names : agents[n] = c.token => Sees(n, r.serial)
        BY <1>0, <1>4, <1>6 DEF PushInv, TokenInv, TokenOf, Sees
      <3> QED BY <1>2, <1>4, <1>6, <3>1, <3>2, <3>3, <3>4 DEF Sound, Sees
    <2>2. ASSUME NEW q \in Calls, q # p, call'[q].at \in Holding, NEW d, d = call[q]
          PROVE  Sound(d, q)'
      <3>1. call'[q] = d /\ Sound(d, q) /\ d.at \in Holding
        BY <1>3, <2>2 DEF PushInv, RequestInv
      <3>2. d.report.id # r.id
        BY <1>6, <2>2, <3>1 DEF Unknown, Holds
      <3>3. \A o \in Calls : Holds(o, d.report.id)' => Holds(o, d.report.id)
        BY <1>3, <1>4, <3>2 DEF Holds
      <3>4. StoredAs(d.report.id)' = StoredAs(d.report.id) /\ Settles(d.report.id)' = Settles(d.report.id)
        BY <1>2 DEF Settles, StoredAs
      <3>5. \A o \in Calls : Holds(o, d.report.id)' => o = q
        BY <3>1, <3>3 DEF Sound
      <3> QED BY <1>2, <3>1, <3>4, <3>5 DEF Sound, Sees
    <2> QED BY <1>3, <2>1, <2>2 DEF RequestInv, Holding
  <1>11. RowInv'
    BY <1>2, Basics, RowsKept DEF PushInv
  <1> QED BY <1>7, <1>8, <1>9, <1>10, <1>11 DEF PushInv

\* An accepted report leaves the list; it was settled when the answer was given.
LEMMA AcceptedKeepsPush ==
  ASSUME IInv, PushInv, NEW a \in Agents, NEW p \in Calls,
         agent[a].at = "push", Answered(a, p), call[p].answer # Refused,
         pushed' = pushed \cup {Head(agent[a].reports).id}, NextReport(a),
         UNCHANGED <<file, agents, issued, rows, clock, unstored, handled>>
  PROVE  PushInv'
  <1>a. PICK list : list = agent[a].reports
    OBVIOUS
  <1>0. /\ list \in Seq(Report) /\ list # <<>> /\ Len(list) \in Nat /\ Head(list) = list[1]
        /\ agent[a].waits = p /\ p # None /\ call[p].at = "answer"
        /\ call' = [call EXCEPT ![p] = Idle]
    BY <1>a DEF PushInv, ListInv, Answered
  <1>1. PICK rest : rest = Tail(list)
    OBVIOUS
  <1>2. /\ rest \in Seq(Report) /\ DOMAIN rest = 1..(Len(list) - 1) /\ DOMAIN list = 1..Len(list)
        /\ \A i \in DOMAIN rest : rest[i] = list[i + 1] /\ i + 1 \in DOMAIN list /\ i \in Nat
        /\ rest = <<>> <=> DOMAIN rest = {}
    BY <1>0, <1>1
  <1>3. /\ \A b \in Agents \ {a} : agent'[b] = agent[b]
        /\ agent'[a].reports = rest /\ agent'[a].waits = None
        /\ agent'[a].at = IF rest = <<>> THEN "scan" ELSE "push"
        /\ agent'[a].token = agent[a].token
    BY <1>a, <1>1, Basics DEF NextReport, Becomes
  <1>4. /\ \A q \in Calls \ {p} : call'[q] = call[q]
        /\ call'[p].at = "idle"
    BY <1>0, Basics
  <1>5. \A q \in Calls : call'[q].at \in Holding => call'[q] = call[q] /\ call[q].at \in Holding
    BY <1>4, Basics
  <1>6. \A b \in Agents : b # a /\ agent[b].waits # None => agent[b].waits \in Calls /\ agent[b].waits # p
    BY <1>0 DEF IInv, Waiting, Awaited
  <1>7. TokenInv'
    BY <1>3, <1>4, <1>6, TokensKept DEF PushInv, TokenInv
  <1>8. ListInv'
    <2>1. \A id \in Nat \ {0} : Unknown(id) => Unknown(id)'
      BY <1>5, UnknownKept
    <2>2. ASSUME NEW b \in Agents, NEW i \in DOMAIN agent'[b].reports
          PROVE  \E k \in DOMAIN agent[b].reports :
                    /\ agent'[b].reports[i] = agent[b].reports[k]
                    /\ b = a => k = i + 1 /\ i \in Nat
                    /\ b # a => k = i
      BY <1>2, <1>3, <1>a, <2>2
    <2>3. ASSUME NEW b \in Agents, NEW i \in DOMAIN agent'[b].reports, NEW r, r = agent'[b].reports[i]
          PROVE  /\ r.id <= clock /\ \E k \in DOMAIN SlotsOf[b] : SlotsOf[b][k] = r.serial
                 /\ agent'[b].waits = None \/ i > 1 => Unknown(r.id)'
                 /\ \A c \in Agents : \A j \in DOMAIN agent'[c].reports :
                      agent'[c].reports[j].id = r.id => c = b /\ j = i
      <3>1. PICK k \in DOMAIN agent[b].reports : /\ r = agent[b].reports[k]
                                                 /\ b = a => k = i + 1 /\ i \in Nat
                                                 /\ b # a => k = i
        BY <2>2, <2>3
      <3>2. r \in Report /\ r.id \in Nat \ {0}
        <4>1. r \in Report
          BY <3>1 DEF PushInv, ListInv
        <4> QED BY <4>1, FleetAssumption DEF Report, FleetAssumption
      <3>3. /\ r.id <= clock /\ \E m \in DOMAIN SlotsOf[b] : SlotsOf[b][m] = r.serial
            /\ agent[b].waits = None \/ k > 1 => Unknown(r.id)
            /\ \A c \in Agents : \A j \in DOMAIN agent[c].reports :
                      agent[c].reports[j].id = r.id => c = b /\ j = k
        BY <3>1 DEF PushInv, ListInv
      <3>4. agent'[b].waits = None \/ i > 1 => Unknown(r.id)'
        <4>1. CASE b = a
          <5>1. k > 1
            <6>1. k = i + 1 /\ i \in 1..(Len(list) - 1)
              BY <1>2, <1>3, <3>1, <4>1
            <6> QED BY <1>0, <6>1
          <5> QED BY <2>1, <3>2, <3>3, <5>1
        <4>2. CASE b # a
          BY <1>3, <2>1, <3>1, <3>2, <3>3, <4>2
        <4> QED BY <4>1, <4>2
      <3>5. ASSUME NEW c \in Agents, NEW j \in DOMAIN agent'[c].reports, agent'[c].reports[j].id = r.id
            PROVE  c = b /\ j = i
        <4>1. PICK m \in DOMAIN agent[c].reports : /\ agent'[c].reports[j] = agent[c].reports[m]
                                                   /\ c = a => m = j + 1 /\ j \in Nat
                                                   /\ c # a => m = j
          BY <2>2
        <4>2. c = b /\ m = k
          BY <3>3, <3>5, <4>1
        <4> QED BY <3>1, <4>1, <4>2
      <3> QED BY <3>3, <3>4, <3>5
    <2>4. ASSUME NEW b \in Agents
          PROVE  /\ agent'[b].reports \in Seq(Report)
                 /\ agent'[b].at = "push" <=> agent'[b].reports # <<>>
      BY <1>2, <1>3 DEF PushInv, ListInv
    <2> QED BY <2>3, <2>4 DEF ListInv
  <1>9. AnswerInv'
    <2>1. \A id : Settles(id) => Settles(id)'
      BY DEF Settles, StoredAs
    <2>2. \A b \in Agents : agent'[b].waits # None => b # a /\ agent'[b] = agent[b]
      BY <1>3
    <2> QED BY <1>4, <1>6, <2>1, <2>2, AnswersKept DEF PushInv
  <1>10. RequestInv'
    BY <1>5, Basics, RequestsKept DEF PushInv
  <1>11. RowInv'
    <2>1. Settles(list[1].id)
      BY <1>0, <1>a DEF PushInv, AnswerInv
    <2>2. \A id : Settles(id) => Settles(id)'
      BY DEF Settles, StoredAs
    <2>3. \A id \in pushed' : Settles(id)'
      BY <1>0, <1>a, <2>1, <2>2 DEF PushInv, RowInv
    <2> QED BY <2>3 DEF PushInv, RowInv, Sees
  <1> QED BY <1>7, <1>8, <1>9, <1>10, <1>11 DEF PushInv

\* New reports: their identities are younger than any that is known.
LEMMA CollectKeepsPush ==
  ASSUME IInv, PushInv, NEW a \in Agents, CollectReports(a) PROVE PushInv'
  <1> USE DEF CollectReports, gauges, database, history
  <1>1. PICK n \in 0..Len(SlotsOf[a]) :
        \E slot \in [1..n -> DOMAIN SlotsOf[a]], found \in [1..n -> Found] :
            /\ clock' = clock + n /\ clock' <= MaxReports
            /\ Becomes(a, IF n = 0 THEN "scan" ELSE "push",
                       [i \in 1..n |-> [id |-> clock + i, serial |-> SlotsOf[a][slot[i]],
                                        content |-> found[i]]])
    OBVIOUS
  <1>2. PICK slot \in [1..n -> DOMAIN SlotsOf[a]], found \in [1..n -> Found] :
            Becomes(a, IF n = 0 THEN "scan" ELSE "push",
                    [i \in 1..n |-> [id |-> clock + i, serial |-> SlotsOf[a][slot[i]],
                                     content |-> found[i]]])
    BY <1>1
  <1>3. PICK list : list = [i \in 1..n |-> [id |-> clock + i, serial |-> SlotsOf[a][slot[i]],
                                            content |-> found[i]]]
    OBVIOUS
  <1>4. /\ n \in Nat /\ clock' = clock + n /\ clock' \in 0..MaxReports /\ clock <= clock'
        /\ clock \in Nat /\ clock' \in Nat
        /\ SlotsOf[a] \in Seq(Serials)
        /\ agent[a].at = "scan"
        /\ UNCHANGED <<file, call, agents, issued, rows, unstored, handled, pushed>>
    BY <1>1, Basics, FleetAssumption DEF FleetAssumption
  <1>5. /\ DOMAIN list = 1..n
        /\ \A i \in 1..n : /\ list[i].id = clock + i
                           /\ list[i].serial = SlotsOf[a][slot[i]]
                           /\ slot[i] \in DOMAIN SlotsOf[a]
                           /\ list[i] \in Report
    <2>1. DOMAIN list = 1..n
      BY <1>3
    <2>2. ASSUME NEW i \in 1..n
          PROVE  /\ list[i].id = clock + i
                 /\ list[i].serial = SlotsOf[a][slot[i]]
                 /\ slot[i] \in DOMAIN SlotsOf[a]
                 /\ list[i] \in Report
      <3>1. list[i] = [id |-> clock + i, serial |-> SlotsOf[a][slot[i]], content |-> found[i]]
        BY <1>3
      <3>2. clock + i \in 1..MaxReports
        BY <1>4, FleetAssumption DEF FleetAssumption
      <3>3. slot[i] \in DOMAIN SlotsOf[a] /\ found[i] \in Found
        BY <1>2
      <3>4. SlotsOf[a][slot[i]] \in Serials
        BY <1>4, <3>3
      <3> QED BY <3>1, <3>2, <3>3, <3>4 DEF Report
    <2> QED BY <2>1, <2>2
  <1>6. list \in Seq(Report) /\ (list = <<>> <=> n = 0)
    <2>1. list \in [1..n -> Report]
      BY <1>3, <1>5
    <2>2. list \in Seq(Report) /\ Len(list) = n
      BY <1>4, <1>5, <2>1
    <2> QED BY <2>2
  <1>7. /\ \A b \in Agents \ {a} : agent'[b] = agent[b]
        /\ agent'[a].reports = list /\ agent'[a].waits = None
        /\ agent'[a].at = IF n = 0 THEN "scan" ELSE "push"
        /\ agent'[a].token = agent[a].token
    BY <1>2, <1>3, Basics DEF Becomes
  <1>8. TokenInv'
    BY <1>4, <1>7, TokensKept DEF PushInv, TokenInv
  <1>9. \A id \in Nat \ {0} : Unknown(id) => Unknown(id)'
    BY <1>4, UnknownKept
  <1>10. ASSUME NEW i \in 1..n PROVE Unknown(clock + i)
    <2>1. \A q \in Calls : ~Holds(q, clock + i)
      <3>1. ASSUME NEW q \in Calls, call[q].at \in Holding
            PROVE  call[q].report.id <= clock /\ call[q].report.id \in Nat
        <4>1. call[q].report \in Report /\ call[q].report.id <= clock
          BY <3>1 DEF PushInv, RequestInv, Sound
        <4> QED BY <4>1, FleetAssumption DEF Report, FleetAssumption
      <3> QED BY <1>4, <3>1 DEF Holds
    <2>2. \A j \in DOMAIN rows : rows[j].report.id # clock + i
      <3>1. ASSUME NEW j \in DOMAIN rows PROVE rows[j].report.id <= clock /\ rows[j].report.id \in Nat
        <4>1. rows[j] \in Row /\ rows[j].report.id <= clock
          BY DEF PushInv, RowInv
        <4> QED BY <4>1, FleetAssumption DEF Row, Report, FleetAssumption
      <3> QED BY <1>4, <3>1
    <2>3. \A s \in Serials : handled[s] # clock + i
      BY <1>4, Basics
    <2> QED BY <2>1, <2>2, <2>3 DEF Unknown
  <1>11. ListInv'
    <2>1. ASSUME NEW b \in Agents, b # a, NEW i \in DOMAIN agent[b].reports
          PROVE  agent[b].reports[i].id \in Nat /\ agent[b].reports[i].id <= clock /\ agent[b].reports[i].id # 0
      <3>1. agent[b].reports[i] \in Report
        BY DEF PushInv, ListInv
      <3> QED BY <3>1, FleetAssumption DEF Report, FleetAssumption, PushInv, ListInv
    <2>2. \A b \in Agents : /\ agent'[b].reports \in Seq(Report)
                            /\ agent'[b].at = "push" <=> agent'[b].reports # <<>>
      BY <1>6, <1>7 DEF PushInv, ListInv
    <2>3. ASSUME NEW b \in Agents, NEW i \in DOMAIN agent'[b].reports, NEW r, r = agent'[b].reports[i]
          PROVE  /\ r.id <= clock' /\ \E k \in DOMAIN SlotsOf[b] : SlotsOf[b][k] = r.serial
                 /\ agent'[b].waits = None \/ i > 1 => Unknown(r.id)'
                 /\ \A c \in Agents : \A j \in DOMAIN agent'[c].reports :
                      agent'[c].reports[j].id = r.id => c = b /\ j = i
      <3>1. CASE b = a
        <4>0. agent'[b].reports = list
          BY <1>7, <3>1
        <4>a. i \in 1..n /\ r = list[i]
          BY <1>5, <2>3, <4>0
        <4>1. i \in 1..n /\ r = list[i] /\ r.id = clock + i /\ r.id \in Nat \ {0}
          BY <1>4, <1>5, <4>a
        <4>2. Unknown(r.id)'
          <5>1. Unknown(r.id)
            BY <1>10, <4>1
          <5> QED BY <1>9, <4>1, <5>1
        <4>3. \E k \in DOMAIN SlotsOf[b] : SlotsOf[b][k] = r.serial
          BY <1>5, <3>1, <4>1
        <4>4. ASSUME NEW c \in Agents, NEW j \in DOMAIN agent'[c].reports, agent'[c].reports[j].id = r.id
              PROVE  c = b /\ j = i
          <5>1. CASE c = a
            <6>1. j \in 1..n /\ list[j].id = clock + i
              BY <1>5, <1>7, <4>1, <4>4, <5>1
            <6>2. list[j].id = clock + j
              BY <1>5, <6>1
            <6>3. i \in Nat /\ j \in Nat
              BY <1>4, <4>1, <6>1
            <6> QED BY <1>4, <3>1, <5>1, <6>1, <6>2, <6>3
          <5>2. CASE c # a
            <6>1. agent'[c] = agent[c]
              BY <1>7, <5>2
            <6>2. agent[c].reports[j].id \in Nat /\ agent[c].reports[j].id <= clock
              BY <2>1, <5>2, <6>1
            <6>3. r.id = clock + i /\ i \in Nat /\ i > 0
              BY <1>4, <4>1
            <6> QED BY <1>4, <4>4, <6>1, <6>2, <6>3
          <5> QED BY <5>1, <5>2
        <4> QED BY <1>4, <4>1, <4>2, <4>3, <4>4
      <3>2. CASE b # a
        <4>1. agent'[b] = agent[b] /\ i \in DOMAIN agent[b].reports /\ r = agent[b].reports[i]
          BY <1>7, <2>3, <3>2
        <4>2. r.id \in Nat \ {0} /\ r.id <= clock
          BY <2>1, <3>2, <4>1
        <4>a. ListInv
          BY DEF PushInv
        <4>3. /\ \E k \in DOMAIN SlotsOf[b] : SlotsOf[b][k] = r.serial
              /\ agent[b].waits = None \/ i > 1 => Unknown(r.id)
              /\ \A c \in Agents : \A j \in DOMAIN agent[c].reports :
                   agent[c].reports[j].id = r.id => c = b /\ j = i
          BY <4>1, <4>a DEF ListInv
        <4>4. ASSUME NEW c \in Agents, NEW j \in DOMAIN agent'[c].reports, agent'[c].reports[j].id = r.id
              PROVE  c = b /\ j = i
          <5>1. CASE c = a
            <6>1. j \in 1..n /\ list[j].id = r.id
              BY <1>5, <1>7, <4>4, <5>1
            <6>2. r.id = clock + j /\ j \in Nat /\ j > 0
              BY <1>4, <1>5, <6>1
            <6> QED BY <1>4, <4>2, <6>2
          <5>2. CASE c # a
            BY <1>7, <4>3, <4>4, <5>2
          <5> QED BY <5>1, <5>2
        <4> QED BY <1>4, <1>9, <4>1, <4>2, <4>3, <4>4
      <3> QED BY <3>1, <3>2
    <2>4. \A b \in Agents : \A i \in DOMAIN agent'[b].reports :
             /\ agent'[b].reports[i].id <= clock'
             /\ \E k \in DOMAIN SlotsOf[b] : SlotsOf[b][k] = agent'[b].reports[i].serial
             /\ agent'[b].waits = None \/ i > 1 => Unknown(agent[b].reports[i].id)'
             /\ \A c \in Agents : \A j \in DOMAIN agent'[c].reports :
                  agent'[c].reports[j].id = agent'[b].reports[i].id => c = b /\ j = i
      BY <2>3
    <2> QED BY <2>2, <2>4 DEF ListInv
  <1>12. AnswerInv'
    <2>1. \A id : Settles(id) => Settles(id)'
      BY <1>4 DEF Settles, StoredAs
    <2>2. \A b \in Agents : agent'[b].waits # None => b # a /\ agent'[b] = agent[b]
      BY <1>7
    <2> QED BY <1>4, <2>1, <2>2, AnswersKept DEF PushInv
  <1>13. RequestInv'
    BY <1>4, Basics, RequestsKept DEF PushInv
  <1>14. RowInv'
    <2>1. \A s \in Serials : handled'[s] \in 0..clock'
      BY <1>4, Basics
    <2> QED BY <1>4, <2>1, RowsKept DEF PushInv
  <1> QED BY <1>8, <1>11, <1>12, <1>13, <1>14 DEF PushInv

\* A new token belongs to the name that enrolled, and to no other.
LEMMA IssueKeepsPush == ASSUME IInv, PushInv, NEW p \in Calls, handleEnroll(p) PROVE PushInv'
  <1> USE DEF handleEnroll, process
  <1>1. /\ call[p].at = "enroll"
        /\ UNCHANGED <<file, agent, rows, clock, unstored, handled, pushed>>
    OBVIOUS
  <1>2. PICK answer : /\ Answer(p, answer)
                      /\ \/ answer = Refused /\ UNCHANGED <<agents, issued>>
                         \/ /\ answer = issued + 1 /\ issued' = issued + 1
                            /\ agents' = [agents EXCEPT ![call[p].name] = issued + 1]
    BY DEF UpsertAgent
  <1>3. /\ \A q \in Calls \ {p} : call'[q] = call[q]
        /\ \/ call'[p] = Idle
           \/ call'[p] = [at |-> "answer", by |-> call[p].by, answer |-> answer]
    BY <1>2, Basics DEF Answer
  <1>4. /\ \A q \in Calls : call'[q].at \in Holding => q # p /\ call'[q] = call[q] /\ call[q].at \in Holding
        /\ call'[p].at = "answer" => call'[p].answer = answer
    BY <1>3, Basics
  <1>5. /\ issued' \in Nat /\ issued \in Nat /\ issued <= issued'
        /\ \A n \in Names : agents[n] \in 0..issued /\ agents'[n] \in 0..issued'
        /\ \A n \in Names : agents'[n] = agents[n] \/ (agents'[n] = issued + 1 /\ n = call[p].name
                                                                               /\ issued' = issued + 1)
    BY <1>2, Basics DEF PushInv, TokenInv
  <1>6. TokenInv'
    <2>1. ASSUME NEW t, NEW n, TokenOf(t, n) PROVE TokenOf(t, n)'
      BY <1>5, <2>1 DEF TokenOf
    <2>2. ASSUME NEW a \in Agents, agent[a].at = "enroll", agent[a].waits # None,
                 NEW q, q = agent[a].waits,
                 call'[q].at = "answer", NEW t, t = call'[q].answer, t # Refused
          PROVE  TokenOf(t, NameOf[a])'
      <3>1. CASE q = p
        <4>1. call[p].name = NameOf[a]
          <5>1. Awaited(a, call[p])
            BY <2>2, <3>1 DEF IInv, Waiting
          <5> QED BY <1>1, <5>1 DEF Awaited
        <4>2. t = issued + 1 /\ issued' = issued + 1
          BY <1>2, <1>4, <2>2, <3>1
        <4> QED BY <1>5, <4>1, <4>2 DEF TokenOf
      <3>2. CASE q # p
        <4>1. q \in Calls /\ call'[q] = call[q]
          BY <1>3, <2>2, <3>2 DEF IInv, Waiting
        <4> QED BY <2>1, <2>2, <4>1 DEF PushInv, TokenInv
      <3> QED BY <3>1, <3>2
    <2>3. ASSUME NEW a \in Agents
          PROVE  /\ file[a] # NoToken => TokenOf(file[a], NameOf[a])'
                 /\ agent[a].at \in {"scan", "push"} => TokenOf(agent[a].token, NameOf[a])'
      <3>1. PICK t, u : t = file[a] /\ u = agent[a].token
        OBVIOUS
      <3>2. /\ t # NoToken => TokenOf(t, NameOf[a])
            /\ agent[a].at \in {"scan", "push"} => TokenOf(u, NameOf[a])
        BY <3>1 DEF PushInv, TokenInv
      <3>3. TokenOf(t, NameOf[a])' = TokenOf(file[a], NameOf[a])'
            /\ TokenOf(u, NameOf[a])' = TokenOf(agent[a].token, NameOf[a])'
        BY <1>1, <3>1
      <3> QED BY <2>1, <3>1, <3>2, <3>3
    <2> QED BY <1>1, <1>5, <2>2, <2>3 DEF TokenInv
  <1>7. ListInv'
    <2>1. \A id \in Nat \ {0} : Unknown(id) => Unknown(id)'
      BY <1>1, <1>4, UnknownKept
    <2> QED BY <1>1, <2>1, Basics, ListsKept DEF PushInv
  <1>8. AnswerInv'
    <2>1. \A id : Settles(id) => Settles(id)'
      BY <1>1 DEF Settles, StoredAs
    <2>2. \A b \in Agents : agent[b].at = "push" /\ agent[b].waits # None =>
             agent[b].waits \in Calls /\ agent[b].waits # p
      BY <1>1 DEF IInv, Waiting, Awaited
    <2> QED BY <1>1, <1>3, <2>1, <2>2, AnswersKept DEF PushInv
  <1>9. RequestInv'
    <2> SUFFICES ASSUME NEW q \in Calls, call'[q].at \in Holding, NEW c, c = call'[q]
                 PROVE  Sound(c, q)'
      BY DEF RequestInv, Holding
    <2>1. c = call[q] /\ c.at \in Holding /\ Sound(c, q) /\ Carried \subseteq DOMAIN c
      BY <1>4, Basics DEF PushInv, RequestInv
    <2>2. \A n \in Names : agents'[n] \in 1..issued => agents[n] = agents'[n]
      BY <1>5
    <2>3. /\ \A o \in Calls : call'[o].at \in Holding /\ o # q =>
               call[o].at \in Holding /\ call'[o].report = call[o].report
          /\ \A i \in DOMAIN rows : i \in DOMAIN rows' /\ rows'[i] = rows[i]
          /\ \A i \in DOMAIN rows' : rows'[i].report.id = c.report.id => i \in DOMAIN rows
          /\ unstored \subseteq unstored' /\ clock <= clock' /\ clock \in Nat /\ clock' \in Nat
          /\ \A s \in Serials : handled'[s] # 0 /\ handled'[s] = c.report.id => handled[s] = c.report.id
      BY <1>1, <1>4, Basics
    <2> QED BY <1>5, <2>1, <2>2, <2>3, SoundKept
  <1>10. RowInv'
    BY <1>1, Basics, RowsKept DEF PushInv
  <1> QED BY <1>6, <1>7, <1>8, <1>9, <1>10 DEF PushInv

\* A handler that goes on with its report, or ends: after the insert, or without it when
\* the report is refused.
LEMMA HandlerKeepsPush ==
  ASSUME IInv, PushInv, NEW p \in Calls, call[p].at \in Holding,
         \A q \in Calls \ {p} : call'[q] = call[q],
         \/ /\ call'[p].at \in Holding \ {"lookup", "insert"} /\ call[p].at \in Holding \ {"lookup", "insert"}
            /\ call'[p].report = call[p].report /\ call'[p].token = call[p].token
            /\ call'[p].source = call[p].source /\ Carried \subseteq DOMAIN call'[p]
         \/ call'[p] = Idle
         \/ /\ call'[p].at = "answer"
            /\ call'[p].answer # Refused => call[p].at \notin {"lookup", "insert"},
         UNCHANGED <<file, agent, agents, issued, rows, clock, unstored, handled, pushed>>
  PROVE  PushInv'
  <1>1. \A q \in Calls : call'[q].at \in Holding =>
            /\ call[q].at \in Holding /\ call'[q].report = call[q].report
            /\ call'[q].token = call[q].token /\ call'[q].source = call[q].source
            /\ Carried \subseteq DOMAIN call'[q]
            /\ \/ call'[q].at = call[q].at
               \/ {call'[q].at, call[q].at} \cap {"lookup", "insert"} = {}
    BY Basics
  <1>2. TokenInv'
    <2>1. \A b \in Agents : agent[b].at = "enroll" /\ agent[b].waits # None =>
             agent[b].waits \in Calls /\ agent[b].waits # p
      <3>1. call[p].at \notin {"enroll", "answer"}
        BY DEF Holding, Handling, Recounting
      <3> QED BY <3>1 DEF IInv, Waiting, Awaited
    <2> QED BY <2>1, TokensKept DEF PushInv, TokenInv
  <1>3. ListInv'
    <2>1. \A id \in Nat \ {0} : Unknown(id) => Unknown(id)'
      BY <1>1, UnknownKept
    <2> QED BY <2>1, Basics, ListsKept DEF PushInv
  <1>4. AnswerInv'
    <2>1. \A id : Settles(id) => Settles(id)'
      BY DEF Settles, StoredAs
    <2>2. \A b \in Agents : agent[b].waits # None => agent[b].waits \in Calls
      BY DEF IInv, Waiting
    <2>3. call'[p].at = "answer" /\ call'[p].answer # Refused =>
             \E id : id = call[p].report.id /\ Settles(id)'
      <3>1. call'[p].at = "answer" /\ call'[p].answer # Refused => Settles(call[p].report.id)
        BY Basics DEF PushInv, RequestInv, Sound
      <3> QED BY <2>1, <3>1
    <2> QED BY <1>1, <2>1, <2>2, <2>3, AnswersKept DEF PushInv
  <1>5. RequestInv'
    BY <1>1, Basics, RequestsKept DEF PushInv
  <1>6. RowInv'
    BY Basics, RowsKept DEF PushInv
  <1> QED BY <1>2, <1>3, <1>4, <1>5, <1>6 DEF PushInv

\* The report is now the one of its token that came last.
LEMMA LookupKeepsPush == ASSUME IInv, PushInv, NEW p \in Calls, handleIngestReport(p) PROVE PushInv'
  <1> USE DEF handleIngestReport, process, database
  <1>a. PICK c : c = call[p]
    OBVIOUS
  <1>0. /\ c.at = "lookup" /\ c.at \in Holding /\ Sound(c, p)
        /\ Carried \subseteq DOMAIN c /\ {"at", "by"} \subseteq DOMAIN c
        /\ UNCHANGED <<file, agent, agents, issued, rows, clock, unstored, pushed>>
    BY <1>a, Basics DEF Holding, PushInv, RequestInv
  <1>1. CASE Answer(p, Refused) /\ UNCHANGED handled
    <2>1. /\ \A q \in Calls \ {p} : call'[q] = call[q]
          /\ \/ call'[p] = Idle
             \/ call'[p].at = "answer" /\ call'[p].answer = Refused
      BY <1>1, Basics DEF Answer
    <2> QED BY <1>0, <1>1, <1>a, <2>1, HandlerKeepsPush
  <1>2. ASSUME NEW n \in GetAgentByTokenHash(c.token),
               call' = [call EXCEPT ![p].at = "insert", ![p].source = n],
               handled' = [handled EXCEPT ![c.report.serial] = c.report.id]
        PROVE  PushInv'
    <2>1. PICK d : d = [c EXCEPT !.at = "insert", !.source = n]
      OBVIOUS
    <2>2. /\ \A q \in Calls \ {p} : call'[q] = call[q]
          /\ call'[p] = d
      BY <1>2, <1>a, <2>1, Basics
    <2>3. /\ d.at = "insert" /\ d.source = n /\ d.report = c.report
          /\ Carried \subseteq DOMAIN d /\ d.at \in Holding
      BY <1>0, <2>1 DEF Carried, Holding, Handling
    <2>4. c.report \in Report /\ c.report.id \in Nat \ {0} /\ c.report.id <= clock
      BY <1>0, FleetAssumption DEF Sound, Report, FleetAssumption
    <2>5. /\ \A s \in Serials : handled'[s] = handled[s] \/ (handled'[s] = c.report.id /\ s = c.report.serial)
          /\ \A s \in Serials : handled'[s] \in 0..clock
      BY <1>2, <2>4, Basics DEF PushInv, RowInv
    <2>6. \A q \in Calls : call'[q].at \in Holding => call[q].at \in Holding /\ call'[q].report = call[q].report
      BY <1>0, <1>a, <2>2, <2>3
    <2>7. TokenInv'
      <3>1. \A b \in Agents : agent[b].at = "enroll" /\ agent[b].waits # None =>
               agent[b].waits \in Calls /\ agent[b].waits # p
        BY <1>0, <1>a DEF IInv, Waiting, Awaited
      <3> QED BY <1>0, <2>2, <3>1, TokensKept DEF PushInv, TokenInv
    <2>8. ListInv'
      <3>1. ASSUME NEW s \in Serials
            PROVE  \/ handled'[s] \in {0, handled[s]}
                   \/ \E q \in Calls : call[q].at \in Holding /\ handled'[s] = call[q].report.id
        BY <1>0, <1>a, <2>5
      <3>2. \A id \in Nat \ {0} : Unknown(id) => Unknown(id)'
        BY <1>0, <2>6, <3>1, UnknownKept
      <3> QED BY <1>0, <3>2, Basics, ListsKept DEF PushInv
    <2>9. AnswerInv'
      <3>1. \A id : Settles(id) => Settles(id)'
        BY <1>0 DEF Settles, StoredAs
      <3>2. \A b \in Agents : agent[b].waits # None => agent[b].waits \in Calls
        BY DEF IInv, Waiting
      <3> QED BY <1>0, <2>2, <2>3, <2>6, <3>1, <3>2, AnswersKept DEF PushInv
    <2>10. Sound(d, p)'
      <3>1. /\ n \in Names /\ agents[n] = c.token
            /\ Sees(n, c.report.serial)
        BY <1>0 DEF GetAgentByTokenHash, Sound
      <3>2. StoredAs(c.report.id)' = {}
        BY <1>0 DEF Sound, StoredAs
      <3>3. \A q \in Calls : Holds(q, c.report.id)' => q = p
        BY <1>0, <2>6 DEF Sound, Holds
      <3>4. \A s \in Serials : handled'[s] = c.report.id => s = c.report.serial
        BY <1>0, <2>5 DEF Sound
      <3> QED BY <1>0, <2>3, <2>4, <3>1, <3>2, <3>3, <3>4 DEF Sound, Sees
    <2>11. ASSUME NEW q \in Calls \ {p}, call'[q].at \in Holding, NEW e, e = call[q]
           PROVE  Sound(e, q)'
      <3>1. e.at \in Holding /\ Sound(e, q) /\ Carried \subseteq DOMAIN e
        BY <2>2, <2>11, Basics DEF PushInv, RequestInv
      <3>2. e.report.id # c.report.id
        BY <1>0, <1>a, <2>11, <3>1 DEF Sound, Holds
      <3>3. /\ \A o \in Calls : call'[o].at \in Holding /\ o # q =>
                 call[o].at \in Holding /\ call'[o].report = call[o].report
            /\ \A i \in DOMAIN rows : i \in DOMAIN rows' /\ rows'[i] = rows[i]
            /\ \A i \in DOMAIN rows' : rows'[i].report.id = e.report.id => i \in DOMAIN rows
            /\ unstored \subseteq unstored' /\ clock <= clock' /\ clock \in Nat /\ clock' \in Nat
            /\ \A s \in Serials : handled'[s] # 0 /\ handled'[s] = e.report.id => handled[s] = e.report.id
            /\ issued \in Nat /\ issued' \in Nat /\ issued <= issued'
            /\ \A m \in Names : agents'[m] \in 1..issued => agents[m] = agents'[m]
        BY <1>0, <2>5, <2>6, <3>2, Basics
      <3> QED BY <3>1, <3>3, SoundKept
    <2>12. RequestInv'
      BY <2>2, <2>10, <2>11 DEF RequestInv, Holding
    <2>13. RowInv'
      BY <1>0, <2>5, Basics, RowsKept DEF PushInv
    <2> QED BY <2>7, <2>8, <2>9, <2>12, <2>13 DEF PushInv
  <1> QED BY <1>1, <1>2, <1>a

\* The report is in the history from now on, or counts as not stored.
LEMMA StoreKeepsPush == ASSUME IInv, PushInv, NEW p \in Calls, InsertScan(p) PROVE PushInv'
  <1> USE DEF InsertScan, process
  <1>a. PICK c : c = call[p]
    OBVIOUS
  <1>b. PICK id : id = c.report.id
    OBVIOUS
  <1>0. /\ c.at = "insert" /\ c.at \in Holding /\ Sound(c, p)
        /\ Carried \subseteq DOMAIN c /\ {"at", "by"} \subseteq DOMAIN c
        /\ UNCHANGED <<file, agent, agents, issued, clock, handled, pushed>>
    BY <1>a, Basics DEF Holding, Handling, PushInv, RequestInv
  <1>1. PICK at \in {"list", "observe"} :
            /\ Goto(p, at)
            /\ \/ /\ rows' = Append(rows, [hsm |-> <<c.report.serial, c.source>>, report |-> c.report])
                  /\ UNCHANGED unstored
               \/ UNCHANGED rows /\ unstored' = unstored \cup {id}
    BY <1>a, <1>b
  <1>2. PICK d : d = [c EXCEPT !.at = at]
    OBVIOUS
  <1>3. /\ \A q \in Calls \ {p} : call'[q] = call[q]
        /\ call'[p] = d
    BY <1>1, <1>a, <1>2, Basics DEF Goto
  <1>4. /\ d.at = at /\ d.source = c.source /\ d.report = c.report /\ d.token = c.token
        /\ Carried \subseteq DOMAIN d /\ d.at \in Holding /\ d.at \notin {"lookup", "insert", "answer"}
    BY <1>0, <1>2 DEF Carried, Holding, Handling, Recounting
  <1>5. /\ c.report \in Report /\ id \in Nat \ {0} /\ id <= clock
        /\ StoredAs(id) = {} /\ c.source \in Names /\ Sees(c.source, c.report.serial)
        /\ \A q \in Calls : Holds(q, id) => q = p
        /\ \A s \in Serials : handled[s] = id => s = c.report.serial
    BY <1>0, <1>b, FleetAssumption DEF Sound, Report, FleetAssumption
  <1>6. /\ \A i \in DOMAIN rows : i \in DOMAIN rows' /\ rows'[i] = rows[i]
        /\ \A i \in DOMAIN rows' : \/ i \in DOMAIN rows
                                   \/ /\ rows'[i] = [hsm |-> <<c.report.serial, c.source>>, report |-> c.report]
                                      /\ \A j \in DOMAIN rows' : j \in DOMAIN rows \/ j = i
        /\ rows' \in Seq(Row)
        /\ unstored \subseteq unstored'
        /\ (\E i \in DOMAIN rows' : rows'[i].report = c.report) \/ id \in unstored'
    <2>1. rows \in Seq(Row)
      BY DEF PushInv, RowInv
    <2>2. CASE UNCHANGED rows /\ unstored' = unstored \cup {id}
      BY <2>1, <2>2
    <2>3. CASE /\ rows' = Append(rows, [hsm |-> <<c.report.serial, c.source>>, report |-> c.report])
               /\ UNCHANGED unstored
      <3> DEFINE row == [hsm |-> <<c.report.serial, c.source>>, report |-> c.report]
      <3>1. row \in Row /\ row.report = c.report
        BY <1>5 DEF Row, HSM, Report
      <3> HIDE DEF row
      <3>2. /\ rows' \in Seq(Row) /\ Len(rows) \in Nat /\ DOMAIN rows = 1..Len(rows)
            /\ DOMAIN rows' = 1..(Len(rows) + 1) /\ rows'[Len(rows) + 1] = row
            /\ \A i \in DOMAIN rows : rows'[i] = rows[i]
        BY <2>1, <2>3, <3>1 DEF row
      <3>3. Len(rows) + 1 \in DOMAIN rows'
        BY <3>2
      <3>4. /\ \A i \in DOMAIN rows : i \in DOMAIN rows'
            /\ \A i \in DOMAIN rows' : i \in DOMAIN rows \/ i = Len(rows) + 1
        BY <3>2
      <3> QED BY <2>3, <3>1, <3>2, <3>3, <3>4 DEF row
    <2> QED BY <1>1, <2>2, <2>3
  <1>7. \A q \in Calls : call'[q].at \in Holding => call[q].at \in Holding /\ call'[q].report = call[q].report
    BY <1>0, <1>a, <1>3, <1>4
  <1>8. \A n : Settles(n) => Settles(n)'
    BY <1>6 DEF Settles, StoredAs
  <1>9. Settles(id)'
    BY <1>6, <1>b DEF Settles, StoredAs
  <1>10. TokenInv'
    <2>1. \A b \in Agents : agent[b].at = "enroll" /\ agent[b].waits # None =>
             agent[b].waits \in Calls /\ agent[b].waits # p
      BY <1>0, <1>a DEF IInv, Waiting, Awaited
    <2> QED BY <1>0, <1>3, <2>1, TokensKept DEF PushInv, TokenInv
  <1>11. ListInv'
    <2>1. ASSUME NEW i \in DOMAIN rows'
          PROVE  \/ i \in DOMAIN rows /\ rows'[i] = rows[i]
                 \/ \E q \in Calls : call[q].at \in Holding /\ rows'[i].report = call[q].report
      BY <1>0, <1>a, <1>6
    <2>2. \A n \in Nat \ {0} : Unknown(n) => Unknown(n)'
      BY <1>0, <1>7, <2>1, UnknownKept
    <2> QED BY <1>0, <2>2, Basics, ListsKept DEF PushInv
  <1>12. AnswerInv'
    <2>1. \A b \in Agents : agent[b].waits # None => agent[b].waits \in Calls
      BY DEF IInv, Waiting
    <2> QED BY <1>0, <1>3, <1>4, <1>7, <1>8, <2>1, AnswersKept DEF PushInv
  <1>13. Sound(d, p)'
    <2>1. \A i \in StoredAs(id)' : rows'[i].report = d.report
      BY <1>4, <1>5, <1>6 DEF StoredAs
    <2>2. \A q \in Calls : Holds(q, id)' => q = p
      BY <1>5, <1>7 DEF Holds
    <2> QED BY <1>0, <1>4, <1>5, <1>9, <1>b, <2>1, <2>2 DEF Sound, Sees
  <1>14. ASSUME NEW q \in Calls \ {p}, call'[q].at \in Holding, NEW e, e = call[q]
         PROVE  Sound(e, q)'
    <2>1. e.at \in Holding /\ Sound(e, q) /\ Carried \subseteq DOMAIN e
      BY <1>3, <1>14, Basics DEF PushInv, RequestInv
    <2>2. e.report.id # id
      BY <1>5, <1>14, <2>1 DEF Holds
    <2>3. /\ \A o \in Calls : call'[o].at \in Holding /\ o # q =>
               call[o].at \in Holding /\ call'[o].report = call[o].report
          /\ \A i \in DOMAIN rows : i \in DOMAIN rows' /\ rows'[i] = rows[i]
          /\ unstored \subseteq unstored' /\ clock <= clock' /\ clock \in Nat /\ clock' \in Nat
          /\ \A s \in Serials : handled'[s] # 0 /\ handled'[s] = e.report.id => handled[s] = e.report.id
          /\ issued \in Nat /\ issued' \in Nat /\ issued <= issued'
          /\ \A m \in Names : agents'[m] \in 1..issued => agents[m] = agents'[m]
      BY <1>0, <1>6, <1>7, Basics
    <2>4. \A i \in DOMAIN rows' : rows'[i].report.id = e.report.id => i \in DOMAIN rows
      BY <1>6, <1>b, <2>2
    <2> QED BY <2>1, <2>3, <2>4, SoundKept
  <1>15. RequestInv'
    BY <1>3, <1>13, <1>14 DEF RequestInv, Holding
  <1>16. RowInv'
    <2>1. \A i \in DOMAIN rows : rows[i].report.id # id
      BY <1>5 DEF StoredAs
    <2>2. ASSUME NEW i \in DOMAIN rows'
          PROVE  /\ rows'[i].report.id <= clock
                 /\ Sees(rows'[i].hsm[2], rows'[i].report.serial)
                 /\ \A j \in DOMAIN rows' : rows'[j].report.id = rows'[i].report.id => j = i
      <3>1. CASE i \in DOMAIN rows
        BY <1>6, <1>b, <2>1, <3>1 DEF PushInv, RowInv
      <3>2. CASE i \notin DOMAIN rows
        BY <1>5, <1>6, <1>b, <2>1, <3>2
      <3> QED BY <3>1, <3>2
    <2>3. \A n \in pushed : Settles(n)'
      BY <1>8 DEF PushInv, RowInv
    <2> QED BY <1>0, <1>6, <2>2, <2>3 DEF PushInv, RowInv, Sees
  <1> QED BY <1>10, <1>11, <1>12, <1>15, <1>16 DEF PushInv

\* The server forgets its requests, and those who waited their reports.
LEMMA RestartKeepsPush == ASSUME IInv, PushInv, Restart PROVE PushInv'
  <1>0. clock \in Nat /\ clock \in 0..MaxReports
    BY Basics
  <1> USE DEF Restart, database
  <1>1. /\ \A q \in Calls : call'[q].at = "idle"
        /\ \A q \in Calls : call'[q].at \notin Holding
        /\ UNCHANGED <<file, agents, issued, rows, clock, unstored, pushed>>
        /\ \A s \in Serials : handled'[s] = 0
    BY Basics
  <1>2. ASSUME NEW b \in Agents
        PROVE  /\ agent'[b].waits = None
               /\ agent'[b].at \in {"scan", "push"} => TokenOf(agent'[b].token, NameOf[b])
               /\ \/ /\ agent'[b].reports = agent[b].reports /\ agent[b].waits = None
                     /\ agent'[b].at = "push" <=> agent[b].at = "push"
                  \/ agent'[b].reports = <<>> /\ agent'[b].at # "push"
    <2>1. CASE agent[b].waits = None
      BY <2>1 DEF PushInv, TokenInv
    <2>2. CASE agent[b].waits # None /\ agent[b].at = "enroll"
      BY <2>2 DEF Down
    <2>3. CASE agent[b].waits # None /\ agent[b].at # "enroll"
      <3>1. /\ agent'[b] = [agent[b] EXCEPT !.at = "scan", !.reports = <<>>, !.waits = None]
            /\ agent[b].at = "push"
        BY <2>3 DEF IInv, Waiting, Awaited
      <3>2. TokenOf(agent[b].token, NameOf[b])
        BY <3>1 DEF PushInv, TokenInv
      <3> QED BY <3>1, <3>2, Basics
    <2> QED BY <2>1, <2>2, <2>3
  <1> HIDE DEF Restart, database
  <1>3. TokenInv'
    BY <1>1, <1>2, TokensKept DEF PushInv, TokenInv
  <1>4. ListInv'
    <2>1. \A id \in Nat \ {0} : Unknown(id) => Unknown(id)'
      BY <1>1, UnknownKept
    <2>2. \A b \in Agents :
            \/ /\ agent'[b].reports = agent[b].reports
               /\ agent'[b].waits = None => agent[b].waits = None
               /\ agent'[b].at = "push" <=> agent[b].at = "push"
            \/ agent'[b].reports = <<>> /\ agent'[b].at # "push"
      BY <1>2
    <2>3. ListInv /\ clock' = clock
      BY <1>1 DEF PushInv
    <2>4. clock \in Nat /\ clock' \in Nat /\ clock <= clock'
      BY <1>0, <2>3
    <2> QED BY <2>1, <2>2, <2>3, <2>4, ListsKept
  <1>5. AnswerInv'
    BY <1>2 DEF AnswerInv
  <1>6. RequestInv'
    BY <1>1 DEF RequestInv, Holding
  <1>7. RowInv'
    <2>0. RowInv /\ clock' = clock
      BY <1>1 DEF PushInv
    <2>1. clock' \in 0..MaxReports /\ clock <= clock' /\ 0 \in 0..clock'
      BY <1>0, <2>0
    <2>2. \A s \in Serials : handled'[s] \in 0..clock'
      BY <1>1, <2>1
    <2>3. UNCHANGED <<rows, pushed, unstored>>
      BY <1>1
    <2> QED BY <2>0, <2>1, <2>2, <2>3, RowsKept
  <1> QED BY <1>3, <1>4, <1>5, <1>6, <1>7 DEF PushInv

LEMMA AgentStepKeepsPush == ASSUME IInv, PushInv, NEW a \in Agents, AgentStep(a) PROVE PushInv'
  <1>0. /\ file[a] # NoToken => TokenOf(file[a], NameOf[a])
        /\ agent[a].at \in {"scan", "push"} => TokenOf(agent[a].token, NameOf[a])
        /\ agent[a].reports # <<>> <=> agent[a].at = "push"
    BY DEF PushInv, TokenInv, ListInv
  <1>1. CASE loadOrEnroll(a)
    <2> USE <1>1 DEF loadOrEnroll, gauges, database, history
    <2>1. agent[a].reports = <<>> /\ agent[a].waits = None
      BY <1>0 DEF IInv, Waiting, Awaited
    <2>2. /\ DOMAIN agent' = Agents /\ \A b \in Agents \ {a} : agent'[b] = agent[b]
          /\ agent'[a].reports = <<>> /\ agent'[a].waits = None
          /\ agent'[a].at = IF file[a] = NoToken THEN "enroll" ELSE "scan"
          /\ agent'[a].token = file[a]
      BY <2>1, Basics
    <2> QED BY <1>0, <2>2, AloneKeepsPush
  <1>2. ASSUME Exit(a)
        PROVE  /\ DOMAIN agent' = Agents /\ \A b \in Agents \ {a} : agent'[b] = agent[b]
               /\ agent'[a].at = "down" /\ agent'[a].reports = <<>> /\ agent'[a].waits = None
    BY <1>2, Basics DEF Exit, Down
  <1>3. ASSUME NEW at, Becomes(a, at, <<>>)
        PROVE  /\ DOMAIN agent' = Agents /\ \A b \in Agents \ {a} : agent'[b] = agent[b]
               /\ agent'[a].at = at /\ agent'[a].reports = <<>> /\ agent'[a].waits = None
               /\ agent'[a].token = agent[a].token
    BY <1>3, Basics DEF Becomes
  <1>4. ASSUME NEW p \in Calls, Answered(a, p)
        PROVE  \A q \in Calls : call'[q] = call[q] \/ call'[q] = Idle
    BY <1>4, Basics DEF Answered
  <1>5. CASE Enrolled(a)
    <2> USE DEF gauges, database, history
    <2>1. PICK p \in Calls : /\ agent[a].at = "enroll" /\ Answered(a, p)
                             /\ \/ /\ call[p].answer # Refused
                                   /\ file' = [file EXCEPT ![a] = call[p].answer]
                                   /\ agent' = [agent EXCEPT ![a].at = "scan", ![a].token = call[p].answer,
                                                             ![a].waits = None]
                                \/ file' = [file EXCEPT ![a] = NoToken] /\ Exit(a)
                                \/ UNCHANGED file /\ Exit(a)
      BY <1>5 DEF Enrolled
    <2>2. UNCHANGED <<agents, issued, rows, clock, unstored, handled, pushed>>
      BY <1>5 DEF Enrolled
    <2>3. CASE Exit(a) /\ (file' = [file EXCEPT ![a] = NoToken] \/ UNCHANGED file)
      <3>1. \A b \in Agents : file'[b] # NoToken => file'[b] = file[b]
        BY <2>3, Basics
      <3> QED BY <1>2, <1>4, <2>1, <2>2, <2>3, <3>1, AloneKeepsPush
    <2>4. CASE /\ call[p].answer # Refused
               /\ file' = [file EXCEPT ![a] = call[p].answer]
               /\ agent' = [agent EXCEPT ![a].at = "scan", ![a].token = call[p].answer,
                                         ![a].waits = None]
      <3>1. TokenOf(call[p].answer, NameOf[a])
        <4>1. agent[a].waits = p /\ p # None /\ call[p].at = "answer"
          BY <2>1 DEF Answered
        <4> QED BY <2>1, <2>4, <4>1 DEF PushInv, TokenInv
      <3>2. /\ DOMAIN agent' = Agents /\ \A b \in Agents \ {a} : agent'[b] = agent[b]
            /\ agent'[a].at = "scan" /\ agent'[a].reports = <<>> /\ agent'[a].waits = None
            /\ agent'[a].token = call[p].answer
        BY <1>0, <2>1, <2>4, Basics
      <3>3. \A b \in Agents : file'[b] = file[b] \/ (b = a /\ file'[b] = call[p].answer)
        BY <2>4, Basics
      <3> QED BY <1>4, <2>1, <2>2, <3>1, <3>2, <3>3, AloneKeepsPush
    <2> QED BY <2>1, <2>3, <2>4
  <1>6. CASE Pushed(a)
    <2> USE DEF gauges, database
    <2>1. PICK p \in Calls : /\ agent[a].at = "push" /\ Answered(a, p)
                             /\ IF call[p].answer = Refused
                                THEN Becomes(a, "scan", <<>>) /\ UNCHANGED pushed
                                ELSE pushed' = pushed \cup {Head(agent[a].reports).id} /\ NextReport(a)
      BY <1>6 DEF Pushed
    <2>2. UNCHANGED <<file, agents, issued, rows, clock, unstored, handled>>
      BY <1>6 DEF Pushed
    <2>3. CASE call[p].answer = Refused
      BY <1>0, <1>3, <1>4, <2>1, <2>2, <2>3, AloneKeepsPush
    <2>4. CASE call[p].answer # Refused
      BY <2>1, <2>2, <2>4, AcceptedKeepsPush
    <2> QED BY <2>3, <2>4
  <1>7. ASSUME Leave(a)
        PROVE  \A q \in Calls : \/ call'[q] = call[q]
                                \/ call'[q] = Idle
                                \/ call[q].at # "idle" /\ call'[q] = [call[q] EXCEPT !.by = None]
    <2>1. \A q \in Calls : agent[a].waits = q => call[q].at # "idle"
      BY Basics DEF IInv, Waiting, Awaited
    <2> QED BY <1>7, <2>1 DEF Leave
  <1>8. CASE GiveUp(a) \/ Stop(a)
    <2>1. /\ Exit(a) \/ (agent[a].at = "push" /\ Becomes(a, "scan", <<>>))
          /\ Leave(a)
          /\ UNCHANGED <<file, agents, issued, rows, clock, unstored, handled, pushed>>
      BY <1>8 DEF GiveUp, Stop, gauges, database, history
    <2> QED BY <1>0, <1>2, <1>3, <1>7, <2>1, AloneKeepsPush
  <1> QED BY <1>1, <1>5, <1>6, <1>8, EnrollKeepsPush, SendKeepsPush, CollectKeepsPush DEF AgentStep

LEMMA ServerStepKeepsPush == ASSUME IInv, PushInv, NEW p \in Calls, ServerStep(p) PROVE PushInv'
  <1> USE DEF process, database, history
  <1>a. PICK c : c = call[p]
    OBVIOUS
  <1>b. \A x : call' = [call EXCEPT ![p] = x] =>
           call'[p] = x /\ \A q \in Calls \ {p} : call'[q] = call[q]
    BY Basics
  <1>1. CASE ListHSMs(p) \/ ReadLatest(p) \/ SharedKeys(p) \/ observeScan(p)
    <2>1. /\ c.at \in Handling \ {"insert"}
          /\ UNCHANGED <<file, agent, agents, issued, rows, clock, unstored, handled, pushed>>
      BY <1>1, <1>a DEF ListHSMs, ReadLatest, SharedKeys, observeScan, Handling, Recounting
    <2>2. c.at \in Holding \ {"lookup", "insert"} /\ Carried \subseteq DOMAIN c /\ {"at", "by"} \subseteq DOMAIN c
      BY <1>a, <2>1, Basics DEF Holding, Handling, Recounting
    <2>3. \E at \in {"read", "observe", "observeRest"} : \E todo, keys :
             call' = [call EXCEPT ![p] = [c EXCEPT !.at = at, !.todo = todo, !.keys = keys]]
      <3>1. ASSUME NEW at \in {"observe", "observeRest"}, Goto(p, at)
            PROVE  call' = [call EXCEPT ![p] = [c EXCEPT !.at = at, !.todo = c.todo, !.keys = c.keys]]
        BY <1>a, <2>2, <3>1, Basics DEF Goto, Carried
      <3>2. CASE ListHSMs(p)
        <4>1. CASE call' = [call EXCEPT ![p].at = "read", ![p].todo = HSMs]
          <5>1. call' = [call EXCEPT ![p] = [c EXCEPT !.at = "read", !.todo = HSMs, !.keys = c.keys]]
            BY <1>a, <2>2, <4>1, Basics DEF Carried
          <5> QED BY <5>1
        <4> QED BY <3>1, <3>2, <4>1 DEF ListHSMs
      <3>3. CASE ReadLatest(p)
        <4>1. c.at = "read"
          BY <1>a, <3>3 DEF ReadLatest
        <4>2. ASSUME NEW h, call' = [call EXCEPT ![p].todo = @ \ {h},
                                  ![p].keys = @ \cup ({h} \X LatestScan(h).content.keys)]
              PROVE  \E todo, keys : call' = [call EXCEPT ![p] = [c EXCEPT !.at = "read", !.todo = todo, !.keys = keys]]
          <5>1. call' = [call EXCEPT ![p] = [c EXCEPT !.at = "read", !.todo = c.todo \ {h},
                                      !.keys = c.keys \cup ({h} \X LatestScan(h).content.keys)]]
            BY <1>a, <2>2, <4>1, <4>2, Basics DEF Carried
          <5> QED BY <5>1
        <4> QED BY <3>1, <3>3, <4>2 DEF ReadLatest
      <3>4. CASE SharedKeys(p)
        <4>1. call' = [call EXCEPT ![p] = [c EXCEPT !.at = "observe", !.todo = c.todo, !.keys = {}]]
          BY <1>a, <2>2, <3>4, Basics DEF SharedKeys, Carried
        <4> QED BY <4>1
      <3> QED BY <1>1, <3>1, <3>2, <3>3, <3>4 DEF observeScan
    <2>8. PICK at \in {"read", "observe", "observeRest"} : \E todo, keys :
             call' = [call EXCEPT ![p] = [c EXCEPT !.at = at, !.todo = todo, !.keys = keys]]
      BY <2>3
    <2>4. PICK todo, keys :
             call' = [call EXCEPT ![p] = [c EXCEPT !.at = at, !.todo = todo, !.keys = keys]]
      BY <2>8
    <2>5. PICK d : d = [c EXCEPT !.at = at, !.todo = todo, !.keys = keys]
      OBVIOUS
    <2>6. /\ d.at \in Holding \ {"lookup", "insert"} /\ d.report = c.report /\ d.token = c.token
          /\ d.source = c.source /\ Carried \subseteq DOMAIN d
      BY <2>2, <2>5 DEF Carried, Holding, Handling, Recounting
    <2>7. call'[p] = d /\ \A q \in Calls \ {p} : call'[q] = call[q]
      BY <1>b, <2>4, <2>5
    <2> QED BY <1>a, <2>1, <2>2, <2>6, <2>7, HandlerKeepsPush
  <1>2. CASE observeExpiry(p)
    <2>1. /\ c.at = "observeRest" /\ Answer(p, Accepted)
          /\ UNCHANGED <<file, agent, agents, issued, rows, clock, unstored, handled, pushed>>
      BY <1>2, <1>a DEF observeExpiry
    <2>2. c.at \in Holding \ {"lookup", "insert"}
      BY <2>1 DEF Holding, Handling
    <2>3. call'[p] = Idle \/ call'[p].at = "answer"
      BY <2>1, Basics DEF Answer
    <2>4. \A q \in Calls \ {p} : call'[q] = call[q]
      BY <2>1, Basics DEF Answer
    <2> QED BY <1>a, <2>1, <2>2, <2>3, <2>4, HandlerKeepsPush
  <1> QED BY <1>1, <1>2, IssueKeepsPush, LookupKeepsPush, StoreKeepsPush DEF ServerStep

LEMMA PushInvariant == Spec => []PushInv
  <1>1. ASSUME IInv, PushInv, [Next]_vars PROVE PushInv'
    <2>1. CASE UNCHANGED vars
      <3>1. UNCHANGED <<file, agent, call, agents, issued, rows, clock, unstored, handled, pushed>>
        BY <2>1 DEF vars, process, database, history
      <3>2. TokenInv'
        BY <1>1, <3>1 DEF PushInv, TokenInv, TokenOf
      <3>3. ListInv'
        BY <1>1, <3>1 DEF PushInv, ListInv, Unknown, Holds
      <3>4. AnswerInv' /\ RequestInv'
        BY <1>1, <3>1 DEF PushInv, AnswerInv, RequestInv, Sound, Holds, StoredAs, Settles, Sees
      <3>5. RowInv'
        BY <1>1, <3>1, Basics, RowsKept DEF PushInv
      <3> QED BY <3>2, <3>3, <3>4, <3>5 DEF PushInv
    <2>2. CASE Next
      BY <1>1, <2>2, AgentStepKeepsPush, ServerStepKeepsPush, RestartKeepsPush DEF Next
    <2> QED BY <1>1, <2>1, <2>2
  <1> QED BY InitPushInv, <1>1, Inductive, PTL DEF Spec

\* What an agent counts as pushed is in the history, unless its insert failed; nothing is
\* there twice; and a row has the name of an agent that sees its token: Push,
\* handleIngestReport and persistScan, with any number of agents, requests and failures.
THEOREM PushedStored == Spec => []PushedIsStored
  <1>1. ASSUME PushInv PROVE PushedIsStored
    <2>1. \A id \in pushed : StoredAs(id) # {} \/ id \in unstored
      BY <1>1 DEF PushInv, RowInv, Settles
    <2>2. ASSUME NEW id \in 1..MaxReports PROVE Cardinality(StoredAs(id)) <= 1
      <3>1. CASE StoredAs(id) = {}
        BY <3>1, FS_EmptySet
      <3>2. ASSUME NEW i \in StoredAs(id) PROVE StoredAs(id) = {i}
        BY <1>1, <3>2 DEF PushInv, RowInv, StoredAs
      <3> QED BY <3>1, <3>2, FS_Singleton
    <2>3. ASSUME NEW i \in DOMAIN rows
          PROVE  \E a \in Agents : /\ NameOf[a] = rows[i].hsm[2]
                                   /\ \E k \in DOMAIN SlotsOf[a] : SlotsOf[a][k] = rows[i].report.serial
      BY <1>1 DEF PushInv, RowInv, Sees
    <2> QED BY <2>1, <2>2, <2>3 DEF PushedIsStored
  <1> QED BY <1>1, PushInvariant, PTL

--------------------------------------------------------------------------------
(* What the gauges show.  The steps that matter are few: most leave the      *)
(* requests being handled, the rows and the gauges alone.                    *)

\* A request that was not handled a report before, or does so where it was.
Stays(q) ==
    /\ call'[q].at \in Handling <=> call[q].at \in Handling
    /\ call[q].at \in Handling =>
        /\ call'[q].at = call[q].at /\ call'[q].report = call[q].report
        /\ call'[q].todo = call[q].todo /\ call'[q].keys = call[q].keys
    /\ call'[q].at = "lookup" =>
        call'[q].keys = {} \/ (call[q].at = "lookup" /\ call'[q].keys = call[q].keys)

\* No step of an agent concerns the handlers, the gauges and the history.
LEMMA AgentsStayOut ==
  ASSUME IInv, PushInv, NEW a \in Agents, AgentStep(a)
  PROVE  /\ \A q \in Calls : Stays(q)
         /\ UNCHANGED <<gauge, shared, rows, handled, mixed, stale>>
  <1>1. UNCHANGED <<gauge, shared, rows, handled, mixed, stale>>
    BY DEF AgentStep, loadOrEnroll, Enroll, Push, Post, Enrolled, CollectReports, Pushed, GiveUp, Stop,
           gauges, database, history
  <1>0. "answer" \notin Handling /\ "idle" \notin Handling /\ "enroll" \notin Handling
        /\ "lookup" \notin Handling /\ Handling \subseteq Holding /\ "lookup" \in Holding
    BY DEF Handling, Recounting, Holding
  <1>2. ASSUME NEW q \in Calls
        PROVE  \/ call'[q] = call[q]
               \/ call'[q] = Idle /\ call[q].at \notin Handling
               \/ call[q] = Idle /\ call'[q].at = "enroll"
               \/ call[q] = Idle /\ call'[q].at = "lookup" /\ call'[q].keys = {}
               \/ call[q].at # "idle" /\ call'[q] = [call[q] EXCEPT !.by = None]
    <2>1. CASE loadOrEnroll(a) \/ CollectReports(a)
      BY <2>1 DEF loadOrEnroll, CollectReports
    <2>2. CASE Enroll(a)
      <3>1. \E p \in Calls : call[p] = Idle
                 /\ call' = [call EXCEPT ![p] = [at |-> "enroll", by |-> a, name |-> NameOf[a]]]
        BY <2>2 DEF Enroll, Post
      <3> QED BY <3>1, Basics
    <2>3. CASE Push(a)
      <3>1. PICK request : /\ request = [at |-> "lookup", by |-> a, token |-> agent[a].token,
                                         report |-> Head(agent[a].reports), source |-> None,
                                         todo |-> {}, keys |-> {}]
                           /\ Post(a, request)
        BY <2>3 DEF Push
      <3>2. request.at = "lookup" /\ request.keys = {}
        BY <3>1
      <3>3. \E p \in Calls : call[p] = Idle /\ call' = [call EXCEPT ![p] = request]
        BY <3>1 DEF Post
      <3> QED BY <3>2, <3>3, Basics
    <2>4. CASE Enrolled(a) \/ Pushed(a)
      <3>1. \E p \in Calls : call[p].at = "answer" /\ call' = [call EXCEPT ![p] = Idle]
        BY <2>4 DEF Enrolled, Pushed, Answered
      <3> QED BY <1>0, <3>1, Basics
    <2>5. CASE GiveUp(a) \/ Stop(a)
      <3>1. Leave(a) /\ (agent[a].waits = q => call[q].at # "idle")
        BY <2>5, Basics DEF GiveUp, Stop, IInv, Waiting, Awaited
      <3> QED BY <1>0, <3>1 DEF Leave
    <2> QED BY <2>1, <2>2, <2>3, <2>4, <2>5 DEF AgentStep
  <1>3. ASSUME NEW q \in Calls PROVE Stays(q)
    <2>1. CASE call[q].at # "idle" /\ call'[q] = [call[q] EXCEPT !.by = None]
      <3>1. PICK c : c = call[q]
        OBVIOUS
      <3>2. c.at \in Holding => Carried \subseteq DOMAIN c
        BY <3>1, Basics
      <3>3. "at" \in DOMAIN c
        BY <2>1, <3>1, Basics
      <3>4. c.at \in Holding => {"report", "todo", "keys"} \subseteq DOMAIN c
        BY <3>2 DEF Carried
      <3>5. call'[q].at = c.at
        BY <2>1, <3>1, <3>3
      <3>6. c.at \in Holding => call'[q].report = c.report /\ call'[q].todo = c.todo /\ call'[q].keys = c.keys
        BY <2>1, <3>1, <3>4
      <3> QED BY <1>0, <3>1, <3>5, <3>6 DEF Stays
    <2> QED BY <1>0, <1>2, <2>1, Basics DEF Stays
  <1> QED BY <1>1, <1>3

\* Unless another report of the token came with it, the one being handled came last.
GaugeInv ==
    /\ DOMAIN handled = Serials /\ DOMAIN gauge = Serials
    /\ \A s \in Serials : DOMAIN gauge[s] = {"report", "days"}
    /\ \A s \in Serials \ mixed :
        /\ \A p \in Calls : IsHandling(p, s) =>
            /\ call[p].report.id = handled[s]
            /\ call[p].at = "observeRest" => gauge[s].report = handled[s]
        /\ (\A p \in Calls : ~IsHandling(p, s)) =>
            /\ gauge[s].report = handled[s]
            /\ \A i \in DOMAIN rows : rows[i].report.id = handled[s] =>
                 rows[i].report.content.days \in {gauge[s].days, NoCertificates}

LEMMA InitGaugeInv == ASSUME Init PROVE GaugeInv
  <1>1. /\ \A p \in Calls, s \in Serials : ~IsHandling(p, s)
        /\ \A s \in Serials : gauge[s] = [report |-> 0, days |-> NoCertificates] /\ handled[s] = 0
        /\ DOMAIN rows = {} /\ DOMAIN handled = Serials /\ DOMAIN gauge = Serials
    BY DEF Init, IsHandling, Idle, Handling, Recounting, NoSeries
  <1> QED BY <1>1 DEF GaugeInv

\* Nothing comes, nothing goes, and nothing is shown or stored.
LEMMA GaugesKept ==
  ASSUME GaugeInv, UNCHANGED <<gauge, rows, handled, mixed>>,
         \A q \in Calls :
            /\ call'[q].at \in Handling <=> call[q].at \in Handling
            /\ call'[q].at \in Handling =>
                /\ call'[q].report = call[q].report
                /\ call'[q].at = "observeRest" => call[q].at = "observeRest"
  PROVE  GaugeInv'
  <1>1. ASSUME NEW q \in Calls, NEW s \in Serials
        PROVE  /\ IsHandling(q, s)' <=> IsHandling(q, s)
               /\ IsHandling(q, s)' => call'[q].report = call[q].report
               /\ IsHandling(q, s)' /\ call'[q].at = "observeRest" => call[q].at = "observeRest"
    BY DEF IsHandling
  <1>2. ASSUME NEW s \in Serials \ mixed, NEW p \in Calls, IsHandling(p, s)'
        PROVE  /\ call'[p].report.id = handled[s]
               /\ call'[p].at = "observeRest" => gauge[s].report = handled[s]
    BY <1>1, <1>2 DEF GaugeInv
  <1>3. ASSUME NEW s \in Serials \ mixed, \A p \in Calls : ~IsHandling(p, s)'
        PROVE  /\ gauge[s].report = handled[s]
               /\ \A i \in DOMAIN rows : rows[i].report.id = handled[s] =>
                    rows[i].report.content.days \in {gauge[s].days, NoCertificates}
    BY <1>1, <1>3 DEF GaugeInv
  <1> QED BY <1>2, <1>3 DEF GaugeInv

\* A report that comes while none of its token is handled is the one that came last.
LEMMA LookupKeepsGauges ==
  ASSUME IInv, PushInv, GaugeInv, NEW p \in Calls, handleIngestReport(p) PROVE GaugeInv'
  <1>a. PICK c : c = call[p]
    OBVIOUS
  <1>0. /\ c.at = "lookup" /\ Carried \subseteq DOMAIN c /\ {"at", "by"} \subseteq DOMAIN c
        /\ UNCHANGED <<gauge, rows>> /\ c.report \in Report
        /\ "lookup" \notin Handling /\ "answer" \notin Handling /\ "idle" \notin Handling
    BY <1>a, Basics DEF Holding, PushInv, RequestInv, Sound, handleIngestReport, gauges, database,
                        Handling, Recounting
  <1>1. CASE Answer(p, Refused) /\ UNCHANGED <<handled, mixed>>
    <2>1. /\ \A q \in Calls \ {p} : call'[q] = call[q]
          /\ call'[p].at \in {"idle", "answer"}
      BY <1>1, Basics DEF Answer
    <2> QED BY <1>0, <1>1, <1>a, <2>1, GaugesKept
  <1>2. ASSUME NEW n,
               call' = [call EXCEPT ![p].at = "insert", ![p].source = n],
               handled' = [handled EXCEPT ![c.report.serial] = c.report.id],
               mixed' = IF \E q \in Calls : IsHandling(q, c.report.serial)
                        THEN mixed \cup {c.report.serial} ELSE mixed \ {c.report.serial}
        PROVE  GaugeInv'
    <2>1. PICK d : d = [c EXCEPT !.at = "insert", !.source = n]
      OBVIOUS
    <2>2. /\ \A q \in Calls \ {p} : call'[q] = call[q]
          /\ call'[p] = d
      BY <1>2, <1>a, <2>1, Basics
    <2>3. d.at = "insert" /\ d.report = c.report
      BY <1>0, <2>1 DEF Carried
    <2>4. /\ c.report.serial \in Serials /\ DOMAIN handled' = Serials
          /\ handled'[c.report.serial] = c.report.id
          /\ \A s \in Serials \ {c.report.serial} : handled'[s] = handled[s]
      BY <1>0, <1>2 DEF GaugeInv, Report
    <2>5. ASSUME NEW s \in Serials, s \notin mixed',
                 s = c.report.serial
          PROVE  \A q \in Calls : IsHandling(q, s)' <=> q = p
      <3>1. \A q \in Calls : ~IsHandling(q, s)
        BY <1>2, <2>5
      <3>2. d.at \in Handling
        BY <2>3 DEF Handling
      <3> QED BY <2>2, <2>3, <2>5, <3>1, <3>2 DEF IsHandling
    <2>6. ASSUME NEW s \in Serials, s \notin mixed',
                 s # c.report.serial
          PROVE  /\ s \notin mixed /\ ~IsHandling(p, s)' /\ ~IsHandling(p, s)
                 /\ \A q \in Calls : IsHandling(q, s)' <=> IsHandling(q, s)
      <3>1. s \notin mixed
        BY <1>2, <2>6
      <3>2. ~IsHandling(p, s)' /\ ~IsHandling(p, s)
        BY <1>0, <1>a, <2>2, <2>3, <2>6 DEF IsHandling
      <3> QED BY <2>2, <3>1, <3>2 DEF IsHandling
    <2>7. ASSUME NEW s \in Serials, s \notin mixed'
          PROVE  /\ \A q \in Calls : IsHandling(q, s)' =>
                     /\ call'[q].report.id = handled'[s]
                     /\ call'[q].at = "observeRest" => gauge[s].report = handled'[s]
                 /\ (\A q \in Calls : ~IsHandling(q, s)') =>
                     /\ gauge[s].report = handled'[s]
                     /\ \A i \in DOMAIN rows : rows[i].report.id = handled'[s] =>
                          rows[i].report.content.days \in {gauge[s].days, NoCertificates}
      <3>1. CASE s = c.report.serial
        BY <2>2, <2>3, <2>4, <2>5, <2>7, <3>1
      <3>2. CASE s # c.report.serial
        <4>1. handled'[s] = handled[s]
          BY <2>4, <3>2
        <4>2. ASSUME NEW q \in Calls, IsHandling(q, s)' PROVE q # p /\ IsHandling(q, s) /\ call'[q] = call[q]
          BY <2>2, <2>6, <2>7, <3>2, <4>2
        <4>3. s \in Serials \ mixed /\ ((\A q \in Calls : ~IsHandling(q, s)') => \A q \in Calls : ~IsHandling(q, s))
          BY <2>6, <2>7, <3>2
        <4> QED BY <4>1, <4>2, <4>3 DEF GaugeInv
      <3> QED BY <3>1, <3>2
    <2>8. DOMAIN gauge' = Serials /\ \A s \in Serials : DOMAIN gauge'[s] = {"report", "days"}
      BY <1>0 DEF GaugeInv
    <2> QED BY <1>0, <2>4, <2>7, <2>8 DEF GaugeInv
  <1> QED BY <1>1, <1>2, <1>a DEF handleIngestReport

\* A new row is of a report that is being handled.
LEMMA StoreKeepsGauges ==
  ASSUME IInv, PushInv, GaugeInv, NEW p \in Calls, InsertScan(p) PROVE GaugeInv'
  <1>a. PICK c : c = call[p]
    OBVIOUS
  <1>0. /\ c.at = "insert" /\ Carried \subseteq DOMAIN c /\ {"at", "by"} \subseteq DOMAIN c
        /\ UNCHANGED <<gauge, handled, mixed>> /\ Sound(c, p)
        /\ c.at \in Handling
    BY <1>a, Basics DEF Holding, PushInv, RequestInv, InsertScan, gauges, Handling
  <1>1. PICK at \in {"list", "observe"} :
            /\ Goto(p, at)
            /\ \/ rows' = Append(rows, [hsm |-> <<c.report.serial, c.source>>, report |-> c.report])
               \/ UNCHANGED rows
    BY <1>a DEF InsertScan
  <1>2. PICK d : d = [c EXCEPT !.at = at]
    OBVIOUS
  <1>3. /\ \A q \in Calls \ {p} : call'[q] = call[q]
        /\ call'[p] = d
    BY <1>1, <1>a, <1>2, Basics DEF Goto
  <1>4. d.at \in Handling /\ d.report = c.report /\ d.at # "observeRest"
    BY <1>0, <1>1, <1>2 DEF Carried, Handling, Recounting
  <1>5. ASSUME NEW s \in Serials
        PROVE  /\ \A q \in Calls : IsHandling(q, s)' <=> IsHandling(q, s)
               /\ \A q \in Calls : IsHandling(q, s)' => call'[q].report = call[q].report
               /\ \A q \in Calls : IsHandling(q, s)' /\ call'[q].at = "observeRest" => call[q].at = "observeRest"
    BY <1>0, <1>3, <1>4, <1>a DEF IsHandling
  <1>6. ASSUME NEW i \in DOMAIN rows'
        PROVE  (i \in DOMAIN rows /\ rows'[i] = rows[i]) \/ rows'[i].report = c.report
    BY <1>1, <1>6 DEF PushInv, RowInv
  <1>7. ASSUME NEW s \in Serials, \A q \in Calls : ~IsHandling(q, s) PROVE handled[s] # c.report.id
    <2>1. c.report.serial # s
      BY <1>0, <1>7, <1>a DEF IsHandling
    <2> QED BY <1>0, <2>1 DEF Sound
  <1>8. ASSUME NEW s \in Serials \ mixed, NEW q \in Calls, IsHandling(q, s)'
        PROVE  /\ call'[q].report.id = handled[s]
               /\ call'[q].at = "observeRest" => gauge[s].report = handled[s]
    BY <1>5, <1>8 DEF GaugeInv
  <1>9. ASSUME NEW s \in Serials \ mixed, \A q \in Calls : ~IsHandling(q, s)'
        PROVE  /\ gauge[s].report = handled[s]
               /\ \A i \in DOMAIN rows' : rows'[i].report.id = handled[s] =>
                    rows'[i].report.content.days \in {gauge[s].days, NoCertificates}
    <2>1. \A q \in Calls : ~IsHandling(q, s)
      BY <1>5, <1>9
    <2> QED BY <1>6, <1>7, <2>1 DEF GaugeInv
  <1> QED BY <1>0, <1>8, <1>9 DEF GaugeInv

\* The first series: those of the other tokens stay.
LEMMA ScoreKeepsGauges ==
  ASSUME IInv, PushInv, GaugeInv, NEW p \in Calls, observeScan(p) PROVE GaugeInv'
  <1>a. PICK c : c = call[p]
    OBVIOUS
  <1>0. /\ c.at = "observe" /\ Carried \subseteq DOMAIN c /\ {"at", "by"} \subseteq DOMAIN c
        /\ UNCHANGED <<rows, handled, mixed>> /\ c.report \in Report
        /\ c.at \in Handling /\ "observeRest" \in Handling
    BY <1>a, Basics DEF Holding, PushInv, RequestInv, Sound, observeScan, database, history, Handling
  <1>1. PICK s0 \in Serials : s0 = c.report.serial
    BY <1>0 DEF Report
  <1>2. /\ DOMAIN gauge' = Serials
        /\ \A s \in Serials : DOMAIN gauge'[s] = {"report", "days"}
        /\ gauge'[s0].report = c.report.id
        /\ \A s \in Serials \ {s0} : gauge'[s] = gauge[s]
    BY <1>1, <1>a DEF GaugeInv, observeScan
  <1>3. PICK d : d = [c EXCEPT !.at = "observeRest"]
    OBVIOUS
  <1>4. /\ \A q \in Calls \ {p} : call'[q] = call[q]
        /\ call'[p] = d /\ d.at = "observeRest" /\ d.report = c.report
    BY <1>0, <1>a, <1>3, Basics DEF Goto, observeScan, Carried
  <1>5. ASSUME NEW s \in Serials
        PROVE  /\ \A q \in Calls : IsHandling(q, s)' <=> IsHandling(q, s)
               /\ IsHandling(p, s0) /\ (s # s0 => ~IsHandling(p, s))
    BY <1>0, <1>1, <1>4, <1>a DEF IsHandling
  <1>6. ASSUME NEW s \in Serials \ mixed, NEW q \in Calls, IsHandling(q, s)'
        PROVE  /\ call'[q].report.id = handled[s]
               /\ call'[q].at = "observeRest" => gauge'[s].report = handled[s]
    <2>1. CASE s = s0
      <3>1. call[q].report.id = handled[s] /\ c.report.id = handled[s]
        BY <1>5, <1>6, <1>a, <2>1 DEF GaugeInv
      <3> QED BY <1>2, <1>4, <1>a, <2>1, <3>1
    <2>2. CASE s # s0
      <3>1. IsHandling(q, s) /\ q # p /\ call'[q] = call[q] /\ gauge'[s] = gauge[s]
        BY <1>2, <1>4, <1>5, <1>6, <2>2
      <3> QED BY <3>1 DEF GaugeInv
    <2> QED BY <2>1, <2>2
  <1>7. ASSUME NEW s \in Serials \ mixed, \A q \in Calls : ~IsHandling(q, s)'
        PROVE  /\ gauge'[s].report = handled[s]
               /\ \A i \in DOMAIN rows : rows[i].report.id = handled[s] =>
                    rows[i].report.content.days \in {gauge'[s].days, NoCertificates}
    <2>1. s # s0 /\ \A q \in Calls : ~IsHandling(q, s)
      BY <1>5, <1>7
    <2> QED BY <1>2, <2>1 DEF GaugeInv
  <1> QED BY <1>0, <1>2, <1>6, <1>7 DEF GaugeInv

\* The last series: when nobody is left with this token, the gauges are of this report.
LEMMA ExpiryKeepsGauges ==
  ASSUME IInv, PushInv, GaugeInv, NEW p \in Calls, observeExpiry(p) PROVE GaugeInv'
  <1>a. PICK c : c = call[p]
    OBVIOUS
  <1>0. /\ c.at = "observeRest" /\ {"at", "by"} \subseteq DOMAIN c
        /\ UNCHANGED <<rows, handled, mixed>> /\ c.report \in Report /\ Sound(c, p)
        /\ c.at \in Handling /\ "answer" \notin Handling /\ "idle" \notin Handling
    BY <1>a, Basics DEF Holding, PushInv, RequestInv, Sound, observeExpiry, database, history,
                        Handling, Recounting
  <1>1. PICK s0 \in Serials : s0 = c.report.serial
    BY <1>0 DEF Report
  <1>2. /\ DOMAIN gauge' = Serials
        /\ \A s \in Serials : DOMAIN gauge'[s] = {"report", "days"}
        /\ \A s \in Serials : gauge'[s].report = gauge[s].report
        /\ c.report.content.days \in {gauge'[s0].days, NoCertificates}
        /\ \A s \in Serials \ {s0} : gauge'[s] = gauge[s]
    BY <1>1, <1>a DEF GaugeInv, observeExpiry
  <1>3. /\ \A q \in Calls \ {p} : call'[q] = call[q]
        /\ call'[p].at \in {"answer", "idle"}
    BY <1>0, <1>a, Basics DEF Answer, observeExpiry
  <1>4. ASSUME NEW s \in Serials
        PROVE  /\ ~IsHandling(p, s)'
               /\ \A q \in Calls \ {p} : IsHandling(q, s)' <=> IsHandling(q, s)
               /\ IsHandling(p, s0) /\ (s # s0 => ~IsHandling(p, s))
    BY <1>0, <1>1, <1>3, <1>a DEF IsHandling
  <1>5. ASSUME NEW s \in Serials \ mixed, NEW q \in Calls, IsHandling(q, s)'
        PROVE  /\ call'[q].report.id = handled[s]
               /\ call'[q].at = "observeRest" => gauge'[s].report = handled[s]
    <2>1. q # p /\ IsHandling(q, s) /\ call'[q] = call[q] /\ gauge'[s].report = gauge[s].report
      BY <1>2, <1>3, <1>4, <1>5
    <2> QED BY <2>1 DEF GaugeInv
  <1>6. ASSUME NEW s \in Serials \ mixed, \A q \in Calls : ~IsHandling(q, s)'
        PROVE  /\ gauge'[s].report = handled[s]
               /\ \A i \in DOMAIN rows : rows[i].report.id = handled[s] =>
                    rows[i].report.content.days \in {gauge'[s].days, NoCertificates}
    <2>1. CASE s = s0
      <3>1. c.report.id = handled[s] /\ gauge[s].report = handled[s]
        BY <1>0, <1>4, <1>a, <2>1 DEF GaugeInv
      <3>2. \A i \in DOMAIN rows : rows[i].report.id = handled[s] => rows[i].report = c.report
        BY <1>0, <3>1 DEF Sound, StoredAs
      <3> QED BY <1>2, <2>1, <3>1, <3>2
    <2>2. CASE s # s0
      <3>1. (\A q \in Calls : ~IsHandling(q, s)) /\ gauge'[s] = gauge[s]
        BY <1>2, <1>4, <1>6, <2>2
      <3> QED BY <3>1 DEF GaugeInv
    <2> QED BY <2>1, <2>2
  <1> QED BY <1>0, <1>2, <1>5, <1>6 DEF GaugeInv

\* An enrolment and a recount show nothing of one token.
LEMMA RecountKeepsGauges ==
  ASSUME IInv, PushInv, GaugeInv, NEW p \in Calls,
         handleEnroll(p) \/ ListHSMs(p) \/ ReadLatest(p) \/ SharedKeys(p)
  PROVE  GaugeInv'
  <1>a. PICK c : c = call[p]
    OBVIOUS
  <1>0. /\ "answer" \notin Handling /\ "idle" \notin Handling /\ "enroll" \notin Handling
        /\ {"list", "read", "observe"} \subseteq Handling /\ Handling \subseteq Holding
        /\ UNCHANGED <<gauge, rows, handled, mixed>>
    BY DEF Handling, Recounting, Holding, handleEnroll, ListHSMs, ReadLatest, SharedKeys,
           gauges, database, history
  <1>1. CASE handleEnroll(p)
    <2>1. c.at = "enroll" /\ \E answer : Answer(p, answer)
      BY <1>1, <1>a DEF handleEnroll
    <2>2. /\ \A q \in Calls \ {p} : call'[q] = call[q]
          /\ call'[p].at \in {"answer", "idle"}
      BY <2>1, <1>a, Basics DEF Answer
    <2> QED BY <1>0, <1>a, <2>1, <2>2, GaugesKept
  <1>2. CASE ListHSMs(p) \/ ReadLatest(p) \/ SharedKeys(p)
    <2>1. c.at \in {"list", "read"} /\ Carried \subseteq DOMAIN c /\ {"at", "by"} \subseteq DOMAIN c
      <3>1. c.at \in {"list", "read"}
        BY <1>2, <1>a DEF ListHSMs, ReadLatest, SharedKeys
      <3> QED BY <1>0, <1>a, <3>1, Basics
    <2>2. \E at \in {c.at, "read", "observe"} : \E todo, keys :
             \/ call' = [call EXCEPT ![p].at = at]
             \/ call' = [call EXCEPT ![p].at = at, ![p].todo = todo]
             \/ call' = [call EXCEPT ![p].todo = todo, ![p].keys = keys]
             \/ call' = [call EXCEPT ![p].at = at, ![p].keys = keys]
      <3>1. CASE ListHSMs(p)
        BY <3>1 DEF ListHSMs, Goto
      <3>2. CASE ReadLatest(p)
        <4>1. ASSUME NEW h, call' = [call EXCEPT ![p].todo = @ \ {h},
                                  ![p].keys = @ \cup ({h} \X LatestScan(h).content.keys)]
              PROVE  \E todo, keys : call' = [call EXCEPT ![p].todo = todo, ![p].keys = keys]
          BY <4>1
        <4> QED BY <3>2, <4>1 DEF ReadLatest, Goto
      <3>3. CASE SharedKeys(p)
        BY <3>3 DEF SharedKeys
      <3> QED BY <1>2, <3>1, <3>2, <3>3
    <2>3. /\ \A q \in Calls \ {p} : call'[q] = call[q]
          /\ call'[p].at \in {c.at, "read", "observe"} /\ call'[p].report = c.report
      BY <1>a, <2>1, <2>2, Basics DEF Carried
    <2> QED BY <1>0, <1>a, <2>1, <2>3, GaugesKept
  <1> QED BY <1>1, <1>2

\* No row is of report 0.
LEMMA RestartKeepsGauges == ASSUME IInv, PushInv, Restart PROVE GaugeInv'
  <1>1. /\ \A p \in Calls, s \in Serials : ~IsHandling(p, s)'
        /\ \A s \in Serials : gauge'[s] = [report |-> 0, days |-> NoCertificates] /\ handled'[s] = 0
        /\ DOMAIN handled' = Serials /\ DOMAIN gauge' = Serials
        /\ rows' = rows
    BY DEF Restart, IsHandling, Idle, Handling, Recounting, NoSeries, database
  <1>2. \A i \in DOMAIN rows : rows[i].report.id # 0
    <2>1. \A i \in DOMAIN rows : rows[i] \in Row
      BY DEF PushInv, RowInv
    <2> QED BY <2>1, FleetAssumption DEF Row, Report, FleetAssumption
  <1> QED BY <1>1, <1>2 DEF GaugeInv

LEMMA GaugeInvariant == Spec => []GaugeInv
  <1>1. ASSUME IInv, PushInv, GaugeInv, [Next]_vars PROVE GaugeInv'
    <2>1. CASE UNCHANGED vars
      <3>1. UNCHANGED <<call, gauge, rows, handled, mixed>>
        BY <2>1 DEF vars, gauges, database, history
      <3> QED BY <1>1, <3>1, GaugesKept
    <2>2. ASSUME NEW a \in Agents, AgentStep(a) PROVE GaugeInv'
      <3>1. (\A q \in Calls : Stays(q)) /\ UNCHANGED <<gauge, rows, handled, mixed>>
        BY <1>1, <2>2, AgentsStayOut
      <3>2. \A q \in Calls :
              /\ call'[q].at \in Handling <=> call[q].at \in Handling
              /\ call'[q].at \in Handling =>
                  /\ call'[q].report = call[q].report
                  /\ call'[q].at = "observeRest" => call[q].at = "observeRest"
        BY <3>1 DEF Stays
      <3> QED BY <1>1, <3>1, <3>2, GaugesKept
    <2>3. ASSUME NEW p \in Calls, ServerStep(p) PROVE GaugeInv'
      BY <1>1, <2>3, LookupKeepsGauges, StoreKeepsGauges, ScoreKeepsGauges, ExpiryKeepsGauges,
         RecountKeepsGauges DEF ServerStep
    <2>4. CASE Restart
      BY <1>1, <2>4, RestartKeepsGauges
    <2> QED BY <1>1, <2>1, <2>2, <2>3, <2>4 DEF Next
  <1>2. Init => GaugeInv
    BY InitGaugeInv
  <1> QED BY <1>1, <1>2, Inductive, PushInvariant, PTL DEF Spec

\* Between scans the gauges of a token are all of the report that came last, unless
\* another was on its way: observeScan sets them one by one, and two requests would mix
\* theirs, but a request that is alone with its token is undisturbed by all the others.
THEOREM GaugesAreOfOneScan == Spec => []GaugesOfOneScan
  <1>1. GaugeInv => GaugesOfOneScan
    BY DEF GaugeInv, GaugesOfOneScan
  <1> QED BY <1>1, GaugeInvariant, PTL

--------------------------------------------------------------------------------
(* The gauge of shared keys.  A recount takes several steps, between which   *)
(* other requests insert rows; then stale tells that its result may be old.  *)

Newest(i) == \A j \in RowsOf(rows[i].hsm) : rows[j].report.id <= rows[i].report.id
NewestExists == \A h \in HSMs : \E i \in RowsOf(h) : Newest(i)

\* The private keys of the latest scans of some HSMs, and those found on two or more.
KeysOf(hsms) == {k \in HSM \X Fingerprints : k[1] \in hsms /\ k[2] \in LatestScan(k[1]).content.keys}
Common == {f \in Fingerprints : \E i, j \in NewestRows :
    i # j /\ f \in rows[i].report.content.keys \cap rows[j].report.content.keys}

\* Unless it is stale, one recount at most is under way, and it has read the latest scans.
Current ==
    /\ \A p, q \in Calls : call[p].at \in Recounting /\ call[q].at \in Recounting => p = q
    /\ \A p \in Calls : call[p].at = "read" => call[p].keys = KeysOf(HSMs \ call[p].todo)
    /\ (\A p \in Calls : call[p].at \notin Recounting) => shared = Cardinality(Common)
RecountInv ==
    /\ NewestExists
    /\ \A p \in Calls : call[p].at \in {"lookup", "insert", "list"} => call[p].keys = {}
    /\ \A p \in Calls : call[p].at = "read" => call[p].todo \subseteq HSMs
    /\ stale \/ Current

\* A set has two members.
LEMMA TwoOrMore ==
  ASSUME NEW S, IsFiniteSet(S)
  PROVE  Cardinality(S) > 1 <=> \E x, y \in S : x # y
  <1>0. Cardinality(S) \in Nat
    BY FS_CardinalityType
  <1>1. ASSUME NEW x \in S, NEW y \in S, x # y PROVE Cardinality(S) > 1
    <2>1. IsFiniteSet({x}) /\ Cardinality({x}) = 1
      BY FS_Singleton
    <2>2. Cardinality({x} \cup {y}) = 2
      BY <1>1, <2>1, FS_AddElement
    <2>3. {x} \cup {y} \in SUBSET S
      OBVIOUS
    <2>4. Cardinality({x} \cup {y}) <= Cardinality(S)
      BY <2>3, FS_Subset
    <2> QED BY <1>0, <2>2, <2>4
  <1>2. ASSUME Cardinality(S) > 1 PROVE \E x, y \in S : x # y
    <2>1. Cardinality(S) # 0 /\ Cardinality(S) # 1
      BY <1>0, <1>2
    <2>2. S # {} /\ \A x : S # {x}
      BY <2>1, FS_EmptySet, FS_Singleton
    <2> QED BY <2>2
  <1> QED BY <1>1, <1>2

LEMMA HSMsFinite == ASSUME rows \in Seq(Row) PROVE IsFiniteSet(HSMs)
  <1>1. DOMAIN rows = 1..Len(rows) /\ Len(rows) \in Nat
    OBVIOUS
  <1>2. IsFiniteSet(DOMAIN rows)
    BY <1>1, FS_Interval
  <1> DEFINE f == [i \in DOMAIN rows |-> rows[i].hsm]
  <1>3. f \in Surjection(DOMAIN rows, HSMs)
    BY DEF Surjection, HSMs
  <1> QED BY <1>2, <1>3, FS_Surjection

\* What every row holds.
LEMMA RowShape ==
  ASSUME PushInv, NEW i \in DOMAIN rows
  PROVE  /\ rows[i].hsm \in HSM /\ rows[i].hsm \in HSMs /\ i \in RowsOf(rows[i].hsm)
         /\ rows[i].report.id \in Nat
         /\ rows[i].report.content.keys \subseteq Fingerprints
  <1>1. rows[i] \in Row
    BY DEF PushInv, RowInv
  <1>2. rows[i].hsm \in HSM /\ rows[i].report \in Report
    BY <1>1 DEF Row
  <1>3. rows[i].report.content \in Found /\ rows[i].report.id \in 1..MaxReports
    BY <1>2 DEF Report
  <1>4. rows[i].report.content.keys \subseteq Fingerprints
    BY <1>3, FleetAssumption DEF FleetAssumption
  <1>5. rows[i].report.id \in Nat
    BY <1>3, FleetAssumption DEF FleetAssumption
  <1> QED BY <1>2, <1>4, <1>5 DEF HSMs, RowsOf

\* An HSM has one newest row, which LatestScan finds.
LEMMA LatestIsNewest ==
  ASSUME PushInv, NewestExists, NEW i \in DOMAIN rows, Newest(i)
  PROVE  /\ LatestScan(rows[i].hsm) = rows[i].report
         /\ \A j \in DOMAIN rows : rows[j].hsm = rows[i].hsm /\ Newest(j) => j = i
  <1>1. ASSUME NEW j \in RowsOf(rows[i].hsm), \A k \in RowsOf(rows[i].hsm) : rows[k].report.id <= rows[j].report.id
        PROVE  j = i
    <2>1. j \in DOMAIN rows /\ i \in RowsOf(rows[i].hsm)
      BY DEF RowsOf
    <2>2. rows[i].report.id <= rows[j].report.id /\ rows[j].report.id <= rows[i].report.id
      BY <1>1, <2>1 DEF Newest
    <2>3. rows[i].report.id = rows[j].report.id
      BY <2>1, <2>2, RowShape
    <2> QED BY <2>1, <2>3 DEF PushInv, RowInv
  <1>2. i \in RowsOf(rows[i].hsm) /\ \A k \in RowsOf(rows[i].hsm) : rows[k].report.id <= rows[i].report.id
    BY DEF RowsOf, Newest
  <1>3. (CHOOSE j \in RowsOf(rows[i].hsm) :
            \A k \in RowsOf(rows[i].hsm) : rows[k].report.id <= rows[j].report.id) = i
    BY <1>1, <1>2
  <1>4. LatestScan(rows[i].hsm) = rows[i].report
    BY <1>3 DEF LatestScan
  <1>5. ASSUME NEW j \in DOMAIN rows, rows[j].hsm = rows[i].hsm, Newest(j) PROVE j = i
    BY <1>1, <1>5 DEF RowsOf, Newest
  <1> QED BY <1>4, <1>5

\* Detect, given the latest scans of all HSMs, counts what the newest rows have in common.
LEMMA DetectIsCommon == ASSUME PushInv, NewestExists PROVE Detect(KeysOf(HSMs)) = Common
  <1>1. IsFiniteSet(HSMs)
    BY HSMsFinite DEF PushInv, RowInv
  <1>2. NewestRows = {i \in DOMAIN rows : Newest(i)}
    BY DEF NewestRows, Newest
  <1>3. ASSUME NEW f \in Fingerprints
        PROVE  Cardinality({h \in HSM : <<h, f>> \in KeysOf(HSMs)}) > 1 <=> f \in Common
    <2> DEFINE Homes == {h \in HSM : <<h, f>> \in KeysOf(HSMs)}
    <2>1. Homes \subseteq HSMs /\ \A h \in HSM : h \in Homes <=> h \in HSMs /\ f \in LatestScan(h).content.keys
      BY DEF KeysOf
    <2> HIDE DEF Homes
    <2>2. IsFiniteSet(Homes)
      BY <1>1, <2>1, FS_Subset
    <2>3. ASSUME NEW g \in Homes, NEW h \in Homes, g # h PROVE f \in Common
      <3>1. PICK i \in RowsOf(g), j \in RowsOf(h) : Newest(i) /\ Newest(j)
        BY <2>1, <2>3 DEF NewestExists
      <3>2. i \in DOMAIN rows /\ j \in DOMAIN rows /\ rows[i].hsm = g /\ rows[j].hsm = h
        BY <3>1 DEF RowsOf
      <3>3. LatestScan(g) = rows[i].report /\ LatestScan(h) = rows[j].report
        BY <3>1, <3>2, LatestIsNewest
      <3>4. g \in HSM /\ h \in HSM
        BY <3>2, RowShape
      <3>5. f \in rows[i].report.content.keys \cap rows[j].report.content.keys
        BY <2>1, <2>3, <3>3, <3>4
      <3> QED BY <1>2, <2>3, <3>1, <3>2, <3>5 DEF Common
    <2>4. ASSUME f \in Common PROVE \E g, h \in Homes : g # h
      <3>1. PICK i \in NewestRows, j \in NewestRows :
              i # j /\ f \in rows[i].report.content.keys \cap rows[j].report.content.keys
        BY <2>4 DEF Common
      <3>2. i \in DOMAIN rows /\ j \in DOMAIN rows /\ Newest(i) /\ Newest(j)
        BY <1>2
      <3>3. /\ LatestScan(rows[i].hsm) = rows[i].report /\ LatestScan(rows[j].hsm) = rows[j].report
            /\ rows[i].hsm # rows[j].hsm
        BY <3>1, <3>2, LatestIsNewest
      <3>4. /\ rows[i].hsm \in HSM /\ rows[i].hsm \in HSMs
            /\ rows[j].hsm \in HSM /\ rows[j].hsm \in HSMs
        BY <3>2, RowShape
      <3>5. rows[i].hsm \in Homes /\ rows[j].hsm \in Homes
        BY <2>1, <3>1, <3>3, <3>4
      <3> QED BY <3>3, <3>5
    <2>5. Cardinality(Homes) > 1 <=> f \in Common
      BY <2>2, <2>3, <2>4, TwoOrMore
    <2> QED BY <2>5 DEF Homes
  <1> QED BY <1>3 DEF Detect, Common


\* As long as no row is added the latest scans stay.
LEMMA RowsSay ==
  ASSUME UNCHANGED rows
  PROVE  /\ HSMs' = HSMs /\ Common' = Common
         /\ \A h : LatestScan(h)' = LatestScan(h)
         /\ \A hsms : KeysOf(hsms)' = KeysOf(hsms)
         /\ NewestExists => NewestExists'
  <1>1. HSMs' = HSMs /\ \A h : RowsOf(h)' = RowsOf(h)
    BY DEF HSMs, RowsOf
  <1>2. \A h : LatestScan(h)' = LatestScan(h)
    BY DEF LatestScan, RowsOf
  <1>3. Common' = Common
    BY DEF Common, NewestRows, RowsOf
  <1>4. \A hsms : KeysOf(hsms)' = KeysOf(hsms)
    BY <1>2 DEF KeysOf
  <1>5. NewestExists => NewestExists'
    BY <1>1 DEF NewestExists, Newest, RowsOf
  <1> QED BY <1>1, <1>2, <1>3, <1>4, <1>5

LEMMA InitRecountInv == ASSUME Init PROVE RecountInv
  <1>1. /\ \A p \in Calls : call[p].at = "idle"
        /\ rows = <<>> /\ shared = 0
    BY DEF Init, Idle
  <1>2. DOMAIN rows = {}
    BY <1>1
  <1>3. HSMs = {} /\ Common = {}
    BY <1>2 DEF HSMs, Common, NewestRows
  <1>4. Cardinality(Common) = 0
    BY <1>3, FS_EmptySet
  <1> QED BY <1>1, <1>3, <1>4 DEF RecountInv, Current, NewestExists, Recounting

\* No recount begins, goes on or ends.
LEMMA RecountKept ==
  ASSUME RecountInv, UNCHANGED <<rows, shared, stale>>,
         \A q \in Calls :
            /\ call'[q].at \in Recounting <=> call[q].at \in Recounting
            /\ call'[q].at \in Recounting =>
                call'[q].at = call[q].at /\ call'[q].todo = call[q].todo /\ call'[q].keys = call[q].keys
            /\ call'[q].at \in {"lookup", "insert"} => call'[q].keys = {}
  PROVE  RecountInv'
  <1>0. UNCHANGED rows
    OBVIOUS
  <1>1. NewestExists'
    BY <1>0, RowsSay DEF RecountInv
  <1>2. "read" \in Recounting /\ "list" \in Recounting
    BY DEF Recounting
  <1>3. \A p \in Calls : call'[p].at \in {"lookup", "insert", "list"} => call'[p].keys = {}
    BY <1>2 DEF RecountInv
  <1>4. \A p \in Calls : call'[p].at = "read" =>
           call[p].at = "read" /\ call'[p].todo = call[p].todo /\ call'[p].keys = call[p].keys
    BY <1>2
  <1>5. HSMs' = HSMs /\ Common' = Common /\ \A hsms : KeysOf(hsms)' = KeysOf(hsms)
    BY <1>0, RowsSay
  <1>6. \A p \in Calls : call'[p].at = "read" => call'[p].todo \subseteq HSMs'
    BY <1>4, <1>5 DEF RecountInv
  <1>7. ASSUME Current PROVE Current'
    <2>1. \A p, q \in Calls : call'[p].at \in Recounting /\ call'[q].at \in Recounting => p = q
      BY <1>7 DEF Current
    <2>2. ASSUME NEW p \in Calls, call'[p].at = "read"
          PROVE  (call[p].keys = KeysOf(HSMs \ call[p].todo))'
      <3>1. call[p].keys = KeysOf(HSMs \ call[p].todo)
        BY <1>4, <1>7, <2>2 DEF Current
      <3>2. \A h : LatestScan(h)' = LatestScan(h)
        BY <1>0, RowsSay
      <3>3. HSMs' = HSMs /\ call'[p].todo = call[p].todo /\ call'[p].keys = call[p].keys
        BY <1>4, <1>5, <2>2
      <3> QED BY <3>1, <3>2, <3>3 DEF KeysOf
    <2>3. ASSUME \A p \in Calls : call'[p].at \notin Recounting PROVE shared' = Cardinality(Common')
      <3>1. \A p \in Calls : call[p].at \notin Recounting
        BY <2>3
      <3>2. shared = Cardinality(Common)
        BY <1>7, <3>1 DEF Current
      <3>3. shared' = shared /\ Common' = Common
        BY <1>5
      <3> QED BY <3>2, <3>3
    <2> QED BY <2>1, <2>2, <2>3 DEF Current
  <1> QED BY <1>1, <1>3, <1>6, <1>7 DEF RecountInv

\* An insert makes every recount under way stale, itself it begins one.
LEMMA StoreKeepsRecount == ASSUME IInv, PushInv, RecountInv, NEW p \in Calls, InsertScan(p) PROVE RecountInv'
  <1>a. PICK c : c = call[p]
    OBVIOUS
  <1>0. /\ c.at = "insert" /\ Carried \subseteq DOMAIN c /\ {"at", "by"} \subseteq DOMAIN c
        /\ UNCHANGED shared /\ Sound(c, p) /\ c.keys = {} /\ rows \in Seq(Row)
        /\ "insert" \notin Recounting /\ "observe" \notin Recounting /\ "list" \in Recounting
    BY <1>a, Basics DEF Holding, PushInv, RequestInv, InsertScan, gauges, Handling, RecountInv, RowInv, Recounting
  <1>1. ASSUME NEW at, Goto(p, at)
        PROVE  /\ \A q \in Calls \ {p} : call'[q] = call[q]
               /\ call'[p].at = at /\ call'[p].keys = {}
    <2>1. PICK d : d = [c EXCEPT !.at = at]
      OBVIOUS
    <2>2. /\ \A q \in Calls \ {p} : call'[q] = call[q]
          /\ call'[p] = d
      BY <1>1, <1>a, <2>1, Basics DEF Goto
    <2>3. d.at = at /\ d.keys = {}
      BY <1>0, <2>1 DEF Carried
    <2> QED BY <2>2, <2>3
  <1>2. CASE Goto(p, "observe") /\ UNCHANGED <<rows, stale>>
    <2>1. \A q \in Calls :
            /\ call'[q].at \in Recounting <=> call[q].at \in Recounting
            /\ call'[q].at \in Recounting =>
                call'[q].at = call[q].at /\ call'[q].todo = call[q].todo /\ call'[q].keys = call[q].keys
            /\ call'[q].at \in {"lookup", "insert"} => call'[q].keys = {}
      BY <1>0, <1>1, <1>2, <1>a DEF RecountInv
    <2> QED BY <1>0, <1>2, <2>1, RecountKept
  <1>3. CASE /\ rows' = Append(rows, [hsm |-> <<c.report.serial, c.source>>, report |-> c.report])
             /\ Goto(p, "list")
             /\ stale' = \E q \in Calls : call[q].at \in Recounting
    <2> DEFINE row == [hsm |-> <<c.report.serial, c.source>>, report |-> c.report]
               n == Len(rows) + 1
    <2>0. row \in Row
      BY <1>0 DEF Row, HSM, Report, Sound
    <2> HIDE DEF row
    <2>1. rows' = Append(rows, row)
      BY <1>3 DEF row
    <2>2. /\ Len(rows) \in Nat /\ DOMAIN rows = 1..Len(rows)
          /\ DOMAIN rows' = 1..n /\ rows'[n] = row
          /\ \A i \in DOMAIN rows : rows'[i] = rows[i]
      BY <1>0, <2>0, <2>1
    <2>3. /\ n \in DOMAIN rows' /\ n \notin DOMAIN rows
          /\ DOMAIN rows' = DOMAIN rows \cup {n}
      BY <2>2
    <2> HIDE DEF n
    <2>4. HSMs \subseteq HSMs'
      BY <2>2, <2>3 DEF HSMs
    <2>5. row.report.id \in Nat
      BY <2>0, FleetAssumption DEF Row, Report, FleetAssumption
    <2>6. NewestExists'
      <3> SUFFICES ASSUME NEW h \in HSMs'
                   PROVE  \E i \in RowsOf(h)' : \A j \in RowsOf(h)' : rows'[j].report.id <= rows'[i].report.id
        BY DEF NewestExists, Newest, RowsOf
      <3>1. RowsOf(h)' = IF h = row.hsm THEN RowsOf(h) \cup {n} ELSE RowsOf(h)
        BY <2>2, <2>3 DEF RowsOf
      <3>2. \A i \in RowsOf(h) : i \in DOMAIN rows /\ rows'[i] = rows[i] /\ rows[i].report.id \in Nat
        BY <2>2, RowShape DEF RowsOf
      <3>3. CASE RowsOf(h) = {}
        <4>1. RowsOf(h)' = {n}
          <5>1. PICK i \in DOMAIN rows' : rows'[i].hsm = h
            BY DEF HSMs
          <5>2. i \notin DOMAIN rows
            BY <2>2, <3>3, <5>1 DEF RowsOf
          <5>3. h = row.hsm
            BY <2>2, <2>3, <5>1, <5>2
          <5> QED BY <3>1, <3>3, <5>3
        <4> QED BY <2>2, <2>5, <4>1
      <3>4. CASE RowsOf(h) # {}
        <4>1. h \in HSMs
          BY <3>4 DEF RowsOf, HSMs
        <4>2. PICK i \in RowsOf(h) : \A j \in RowsOf(h) : rows[j].report.id <= rows[i].report.id
          BY <4>1 DEF RecountInv, NewestExists, Newest, RowsOf
        <4>3. CASE h = row.hsm /\ rows[i].report.id <= row.report.id
          <5>1. ASSUME NEW j \in RowsOf(h)' PROVE rows'[j].report.id <= rows'[n].report.id
            <6>1. CASE j = n
              BY <2>2, <2>5, <6>1
            <6>2. CASE j # n
              <7>1. j \in RowsOf(h)
                BY <3>1, <5>1, <6>2
              <7> QED BY <2>2, <2>5, <3>2, <4>2, <4>3, <7>1
            <6> QED BY <6>1, <6>2
          <5> QED BY <3>1, <4>3, <5>1
        <4>4. CASE ~(h = row.hsm /\ rows[i].report.id <= row.report.id)
          <5>1. ASSUME NEW j \in RowsOf(h)' PROVE rows'[j].report.id <= rows'[i].report.id
            <6>1. CASE j \in RowsOf(h)
              BY <3>2, <4>2, <6>1
            <6>2. CASE j \notin RowsOf(h)
              <7>1. j = n /\ h = row.hsm
                BY <3>1, <5>1, <6>2
              <7> QED BY <2>2, <2>5, <3>2, <4>2, <4>4, <7>1
            <6> QED BY <6>1, <6>2
          <5> QED BY <3>1, <4>2, <5>1
        <4> QED BY <4>3, <4>4
      <3> QED BY <3>3, <3>4
    <2>7. \A q \in Calls : call'[q].at \in {"lookup", "insert", "list"} => call'[q].keys = {}
      BY <1>1, <1>3 DEF RecountInv
    <2>8. \A q \in Calls : call'[q].at = "read" => call'[q].todo \subseteq HSMs'
      BY <1>1, <1>3, <2>4 DEF RecountInv
    <2>9. ASSUME ~stale' PROVE Current'
      <3>1. \A q \in Calls : call[q].at \notin Recounting
        BY <1>3, <2>9
      <3>2. call'[p].at = "list" /\ \A q \in Calls : call'[q].at \in Recounting <=> q = p
        BY <1>0, <1>1, <1>3, <3>1
      <3>3. \A q \in Calls : call'[q].at # "read"
        BY <3>2 DEF Recounting
      <3> QED BY <1>0, <3>2, <3>3 DEF Current
    <2> QED BY <2>6, <2>7, <2>8, <2>9 DEF RecountInv
  <1> QED BY <1>2, <1>3, <1>a DEF InsertScan

\* A recount goes on with the HSMs there are, or gives up.
LEMMA ListKeepsRecount == ASSUME IInv, PushInv, RecountInv, NEW p \in Calls, ListHSMs(p) PROVE RecountInv'
  <1>a. PICK c : c = call[p]
    OBVIOUS
  <1>0. /\ c.at = "list" /\ Carried \subseteq DOMAIN c /\ {"at", "by"} \subseteq DOMAIN c
        /\ UNCHANGED <<rows, shared>> /\ c.keys = {}
        /\ "list" \in Recounting /\ "read" \in Recounting
    BY <1>a, Basics DEF Holding, ListHSMs, gauges, database, Handling, RecountInv, Recounting
  <1>1. UNCHANGED rows
    BY <1>0
  <1>2. HSMs' = HSMs /\ NewestExists'
    BY <1>1, RowsSay DEF RecountInv
  <1>3. ASSUME NEW at, at \in {"read", "observe"}, NEW todo, todo \subseteq HSMs,
               call' = [call EXCEPT ![p].at = at, ![p].todo = todo]
        PROVE  /\ \A q \in Calls \ {p} : call'[q] = call[q]
               /\ call'[p].at = at /\ call'[p].todo = todo /\ call'[p].keys = {}
    <2>1. PICK d : d = [c EXCEPT !.at = at, !.todo = todo]
      OBVIOUS
    <2>2. /\ \A q \in Calls \ {p} : call'[q] = call[q]
          /\ call'[p] = d
      BY <1>3, <1>a, <2>1, Basics
    <2>3. d.at = at /\ d.todo = todo /\ d.keys = {}
      BY <1>0, <2>1 DEF Carried
    <2> QED BY <2>2, <2>3
  <1>4. CASE Goto(p, "observe") /\ stale' = TRUE
    <2>1. PICK d : d = [c EXCEPT !.at = "observe"]
      OBVIOUS
    <2>2. /\ \A q \in Calls \ {p} : call'[q] = call[q]
          /\ call'[p] = d
      BY <1>4, <1>a, <2>1, Basics DEF Goto
    <2>3. d.at = "observe"
      BY <1>0, <2>1
    <2>4. \A q \in Calls : /\ call'[q].at \in {"lookup", "insert", "list"} => call'[q].keys = {}
                           /\ call'[q].at = "read" => call'[q].todo \subseteq HSMs
      BY <2>2, <2>3 DEF RecountInv
    <2> QED BY <1>2, <1>4, <2>4 DEF RecountInv
  <1>5. CASE call' = [call EXCEPT ![p].at = "read", ![p].todo = HSMs] /\ UNCHANGED stale
    <2>1. /\ \A q \in Calls \ {p} : call'[q] = call[q]
          /\ call'[p].at = "read" /\ call'[p].todo = HSMs /\ call'[p].keys = {}
      BY <1>3, <1>5
    <2>2. \A q \in Calls : /\ call'[q].at \in {"lookup", "insert", "list"} => call'[q].keys = {}
                           /\ call'[q].at = "read" => call'[q].todo \subseteq HSMs
      BY <2>1 DEF RecountInv
    <2>3. ASSUME Current PROVE Current'
      <3>1. \A q \in Calls : call[q].at \in Recounting => q = p
        BY <1>0, <1>a, <2>3 DEF Current
      <3>2. \A q \in Calls : call'[q].at \in Recounting <=> q = p
        BY <1>0, <2>1, <3>1
      <3>3. ASSUME NEW q \in Calls, call'[q].at = "read"
            PROVE  (call[q].keys = KeysOf(HSMs \ call[q].todo))'
        <4>1. q = p /\ call'[q].todo = HSMs' /\ call'[q].keys = {}
          BY <1>0, <1>2, <2>1, <3>2, <3>3
        <4>2. HSMs' \ call'[q].todo = {}
          BY <4>1
        <4> QED BY <4>1, <4>2 DEF KeysOf
      <3> QED BY <3>2, <3>3 DEF Current
    <2> QED BY <1>2, <1>5, <2>2, <2>3 DEF RecountInv
  <1> QED BY <1>4, <1>5, <1>a DEF ListHSMs

\* The keys of one HSM more are known.
LEMMA ReadKeepsRecount == ASSUME IInv, PushInv, RecountInv, NEW p \in Calls, ReadLatest(p) PROVE RecountInv'
  <1>a. PICK c : c = call[p]
    OBVIOUS
  <1>0. /\ c.at = "read" /\ Carried \subseteq DOMAIN c /\ {"at", "by"} \subseteq DOMAIN c
        /\ UNCHANGED <<rows, shared>> /\ c.todo \subseteq HSMs /\ c.todo # {}
        /\ "list" \in Recounting /\ "read" \in Recounting
    BY <1>a, Basics DEF Holding, ReadLatest, gauges, database, Handling, RecountInv, Recounting
  <1>1. UNCHANGED rows
    BY <1>0
  <1>2. HSMs' = HSMs /\ NewestExists' /\ \A h : LatestScan(h)' = LatestScan(h)
    BY <1>1, RowsSay DEF RecountInv
  <1>3. CASE Goto(p, "observe") /\ stale' = TRUE
    <2>1. PICK d : d = [c EXCEPT !.at = "observe"]
      OBVIOUS
    <2>2. /\ \A q \in Calls \ {p} : call'[q] = call[q]
          /\ call'[p] = d
      BY <1>3, <1>a, <2>1, Basics DEF Goto
    <2>3. d.at = "observe"
      BY <1>0, <2>1
    <2>4. \A q \in Calls : /\ call'[q].at \in {"lookup", "insert", "list"} => call'[q].keys = {}
                           /\ call'[q].at = "read" => call'[q].todo \subseteq HSMs
      BY <2>2, <2>3 DEF RecountInv
    <2> QED BY <1>2, <1>3, <2>4 DEF RecountInv
  <1>4. ASSUME NEW h \in c.todo, UNCHANGED stale,
               call' = [call EXCEPT ![p].todo = @ \ {h},
                                    ![p].keys = @ \cup ({h} \X LatestScan(h).content.keys)]
        PROVE  RecountInv'
    <2>0. PICK more : more = {h} \X LatestScan(h).content.keys
      OBVIOUS
    <2>1. PICK d : d = [c EXCEPT !.todo = c.todo \ {h}, !.keys = c.keys \cup more]
      OBVIOUS
    <2>2. /\ \A q \in Calls \ {p} : call'[q] = call[q]
          /\ call'[p] = d
      BY <1>4, <1>a, <2>0, <2>1, Basics
    <2>3. d.at = "read" /\ d.todo = c.todo \ {h} /\ d.keys = c.keys \cup more
      BY <1>0, <2>1 DEF Carried
    <2>4. \A q \in Calls : /\ call'[q].at \in {"lookup", "insert", "list"} => call'[q].keys = {}
                           /\ call'[q].at = "read" => call'[q].todo \subseteq HSMs
      BY <1>0, <2>2, <2>3 DEF RecountInv
    <2>5. ASSUME Current PROVE Current'
      <3>1. \A q \in Calls : call[q].at \in Recounting => q = p
        BY <1>0, <1>a, <2>5 DEF Current
      <3>2. \A q \in Calls : call'[q].at \in Recounting <=> q = p
        BY <1>0, <2>2, <2>3, <3>1
      <3>3. c.keys = KeysOf(HSMs \ c.todo)
        BY <1>0, <1>a, <2>5 DEF Current
      <3>4. h \in HSM /\ LatestScan(h).content.keys \subseteq Fingerprints
        <4>1. PICK i \in RowsOf(h) : Newest(i)
          BY <1>0 DEF RecountInv, NewestExists
        <4>2. i \in DOMAIN rows /\ rows[i].hsm = h
          BY DEF RowsOf
        <4>3. LatestScan(h) = rows[i].report
          BY <4>1, <4>2, LatestIsNewest DEF RecountInv
        <4> QED BY <4>2, <4>3, RowShape
      <3>5. HSMs \ (c.todo \ {h}) = (HSMs \ c.todo) \cup {h}
        BY <1>0
      <3>6. KeysOf((HSMs \ c.todo) \cup {h}) = KeysOf(HSMs \ c.todo) \cup more
        BY <2>0, <3>4 DEF KeysOf
      <3>7. d.keys = KeysOf(HSMs \ d.todo)
        BY <2>3, <3>3, <3>5, <3>6
      <3>8. ASSUME NEW q \in Calls, call'[q].at = "read"
            PROVE  (call[q].keys = KeysOf(HSMs \ call[q].todo))'
        <4>1. call'[q] = d
          BY <1>0, <2>2, <3>2, <3>8
        <4> QED BY <1>2, <3>7, <4>1 DEF KeysOf
      <3> QED BY <1>0, <3>2, <3>8 DEF Current
    <2> QED BY <1>2, <1>4, <2>4, <2>5 DEF RecountInv
  <1>5. PICK h : h = CHOOSE x \in c.todo : TRUE
    OBVIOUS
  <1>6. h \in c.todo
    BY <1>0, <1>5
  <1> QED BY <1>3, <1>4, <1>5, <1>6, <1>a DEF ReadLatest

\* The gauge is set to what was counted.
LEMMA SetKeepsRecount == ASSUME IInv, PushInv, RecountInv, NEW p \in Calls, SharedKeys(p) PROVE RecountInv'
  <1>a. PICK c : c = call[p]
    OBVIOUS
  <1>0. /\ c.at = "read" /\ Carried \subseteq DOMAIN c /\ {"at", "by"} \subseteq DOMAIN c
        /\ UNCHANGED <<rows, stale>> /\ c.todo = {} /\ shared' = Cardinality(Detect(c.keys))
        /\ "list" \in Recounting /\ "read" \in Recounting /\ "observe" \notin Recounting
    BY <1>a, Basics DEF Holding, SharedKeys, database, history, Handling, Recounting
  <1>1. UNCHANGED rows
    BY <1>0
  <1>2. HSMs' = HSMs /\ NewestExists' /\ Common' = Common
    BY <1>1, RowsSay DEF RecountInv
  <1>3. PICK d : d = [c EXCEPT !.at = "observe", !.keys = {}]
    OBVIOUS
  <1>4. /\ \A q \in Calls \ {p} : call'[q] = call[q]
        /\ call'[p] = d /\ d.at = "observe"
    BY <1>0, <1>3, <1>a, Basics DEF SharedKeys
  <1>5. \A q \in Calls : /\ call'[q].at \in {"lookup", "insert", "list"} => call'[q].keys = {}
                         /\ call'[q].at = "read" => call'[q].todo \subseteq HSMs
    BY <1>4 DEF RecountInv
  <1>6. ASSUME Current PROVE Current'
    <2>1. \A q \in Calls : call[q].at \in Recounting => q = p
      BY <1>0, <1>6, <1>a DEF Current
    <2>2. \A q \in Calls : call'[q].at \notin Recounting
      BY <1>0, <1>4, <2>1
    <2>3. c.keys = KeysOf(HSMs)
      <3>1. c.keys = KeysOf(HSMs \ c.todo)
        BY <1>0, <1>6, <1>a DEF Current
      <3>2. HSMs \ c.todo = HSMs
        BY <1>0
      <3> QED BY <3>1, <3>2
    <2>4. Detect(c.keys) = Common
      BY <2>3, DetectIsCommon DEF RecountInv
    <2>5. shared' = Cardinality(Common')
      BY <1>0, <1>2, <2>4
    <2> QED BY <1>0, <2>2, <2>5 DEF Current
  <1> QED BY <1>0, <1>2, <1>5, <1>6 DEF RecountInv

\* The steps of a request before and after its recount.
LEMMA OthersKeepRecount ==
  ASSUME IInv, PushInv, RecountInv, NEW p \in Calls,
         handleEnroll(p) \/ handleIngestReport(p) \/ observeScan(p) \/ observeExpiry(p)
  PROVE  RecountInv'
  <1>a. PICK c : c = call[p]
    OBVIOUS
  <1>0. /\ {"answer", "idle", "enroll", "lookup", "insert", "observe", "observeRest"} \cap Recounting = {}
        /\ UNCHANGED <<rows, shared, stale>>
        /\ c.at \in {"enroll", "lookup", "observe", "observeRest"}
        /\ c.at \in {"lookup", "observe", "observeRest"} => c.at \in Holding
    BY <1>a DEF Recounting, Handling, Holding, handleEnroll, handleIngestReport, observeScan,
           observeExpiry, gauges, database, history
  <1>1. c.at = "lookup" => c.keys = {} /\ Carried \subseteq DOMAIN c /\ {"at", "by"} \subseteq DOMAIN c
    BY <1>0, <1>a, Basics DEF RecountInv
  <1>2. \/ \E answer : Answer(p, answer)
        \/ Goto(p, "observeRest")
        \/ c.at = "lookup" /\ \E n : call' = [call EXCEPT ![p].at = "insert", ![p].source = n]
    BY <1>a DEF handleEnroll, handleIngestReport, observeScan, observeExpiry
  <1>3. /\ \A q \in Calls \ {p} : call'[q] = call[q]
        /\ \/ call'[p].at \in {"answer", "idle", "observeRest"}
           \/ call'[p].at = "insert" /\ call'[p].keys = {}
    <2>1. ASSUME NEW answer, Answer(p, answer)
          PROVE  call'[p].at \in {"answer", "idle"} /\ \A q \in Calls \ {p} : call'[q] = call[q]
      BY <2>1, Basics DEF Answer
    <2>2. CASE Goto(p, "observeRest")
      <3>1. "at" \in DOMAIN call[p]
        BY <1>0, <1>a, Basics
      <3> QED BY <2>2, <3>1, Basics DEF Goto
    <2>3. ASSUME NEW n, c.at = "lookup", call' = [call EXCEPT ![p].at = "insert", ![p].source = n]
          PROVE  /\ \A q \in Calls \ {p} : call'[q] = call[q]
                 /\ call'[p].at = "insert" /\ call'[p].keys = {}
      <3>1. PICK d : d = [c EXCEPT !.at = "insert", !.source = n]
        OBVIOUS
      <3>2. /\ \A q \in Calls \ {p} : call'[q] = call[q]
            /\ call'[p] = d
        BY <1>a, <2>3, <3>1, Basics
      <3>3. d.at = "insert" /\ d.keys = {}
        BY <1>1, <2>3, <3>1 DEF Carried
      <3> QED BY <3>2, <3>3
    <2> QED BY <1>2, <2>1, <2>2, <2>3
  <1>4. \A q \in Calls :
          /\ call'[q].at \in Recounting <=> call[q].at \in Recounting
          /\ call'[q].at \in Recounting =>
              call'[q].at = call[q].at /\ call'[q].todo = call[q].todo /\ call'[q].keys = call[q].keys
          /\ call'[q].at \in {"lookup", "insert"} => call'[q].keys = {}
    BY <1>0, <1>3, <1>a DEF RecountInv
  <1> QED BY <1>0, <1>4, RecountKept

LEMMA RestartKeepsRecount == ASSUME RecountInv, Restart PROVE RecountInv'
  <1>1. /\ UNCHANGED rows /\ stale' = TRUE
        /\ \A p \in Calls : call'[p].at = "idle"
    BY DEF Restart, Idle, database
  <1>2. UNCHANGED rows
    BY <1>1
  <1>3. NewestExists'
    BY <1>2, RowsSay DEF RecountInv
  <1> QED BY <1>1, <1>3 DEF RecountInv

LEMMA RecountInvariant == Spec => []RecountInv
  <1>1. ASSUME IInv, PushInv, RecountInv, [Next]_vars PROVE RecountInv'
    <2>1. CASE UNCHANGED vars
      <3>1. UNCHANGED <<call, shared, rows, stale>>
        BY <2>1 DEF vars, gauges, database, history
      <3>2. \A q \in Calls : call[q].at \in {"lookup", "insert"} => call[q].keys = {}
        BY <1>1 DEF RecountInv
      <3> QED BY <1>1, <3>1, <3>2, RecountKept
    <2>2. ASSUME NEW a \in Agents, AgentStep(a) PROVE RecountInv'
      <3>1. (\A q \in Calls : Stays(q)) /\ UNCHANGED <<rows, shared, stale>>
        BY <1>1, <2>2, AgentsStayOut
      <3>2. Recounting \subseteq Handling /\ "insert" \in Handling /\ "insert" \notin Recounting
        BY DEF Handling, Recounting
      <3>3. ASSUME NEW q \in Calls
            PROVE  /\ call'[q].at \in Recounting <=> call[q].at \in Recounting
                   /\ call'[q].at \in Recounting =>
                       call'[q].at = call[q].at /\ call'[q].todo = call[q].todo /\ call'[q].keys = call[q].keys
                   /\ call'[q].at \in {"lookup", "insert"} => call'[q].keys = {}
        BY <1>1, <3>1, <3>2 DEF Stays, RecountInv
      <3> QED BY <1>1, <3>1, <3>3, RecountKept
    <2>3. ASSUME NEW p \in Calls, ServerStep(p) PROVE RecountInv'
      BY <1>1, <2>3, StoreKeepsRecount, ListKeepsRecount, ReadKeepsRecount, SetKeepsRecount,
         OthersKeepRecount DEF ServerStep
    <2>4. CASE Restart
      BY <1>1, <2>4, RestartKeepsRecount
    <2> QED BY <1>1, <2>1, <2>2, <2>3, <2>4 DEF Next
  <1>2. Init => RecountInv
    BY InitRecountInv
  <1> QED BY <1>1, <1>2, Inductive, PushInvariant, PTL DEF Spec

\* Between scans the gauge of shared keys is what the latest scans have in common, unless
\* the last insert or recount was disturbed: refreshSharedKeysMetric lists the HSMs, reads
\* them one after the other and sets the gauge, while other requests may insert rows.
THEOREM SharedKeysAreCurrent == Spec => []SharedKeysCurrent
  <1>1. RecountInv => SharedKeysCurrent
    BY DEF RecountInv, Current, SharedKeysCurrent, Common
  <1> QED BY <1>1, RecountInvariant, PTL
================================================================================
