-------------------------------- MODULE Webhook --------------------------------
(***************************************************************************)
(* Delivery of drift and regression events to a webhook (webhook.go): one   *)
(* goroutine per event, up to three attempts with a growing pause between   *)
(* them, each with a time limit; the server keeps no record of what is      *)
(* still to be delivered.                                                   *)
(***************************************************************************)
EXTENDS Integers, Sequences, FiniteSets

CONSTANTS HookEvents,     \* bound: events, numbered as they are stored
          Attempts,       \* attempts of newWebhook
          MaxCrashes      \* bound: restarts of the server

ASSUME WebhookAssumption == HookEvents \in Nat /\ Attempts \in Nat \ {0} /\ MaxCrashes \in Nat

VARIABLES
    stored,     \* events in the history
    delivery,   \* the goroutine of each event: where it is and which attempt it makes
    underway,   \* external: requests the receiver has still to handle, also given up ones
    received,   \* external: the events it has handled, in that order
    builds,     \* whether a request can be built from the URL the server was started with
    crashes

webhookVars == <<stored, delivery, underway, received, builds, crashes>>

WebhookInit ==
    /\ stored = 0
    /\ delivery = [e \in 1..HookEvents |-> [at |-> "none", attempt |-> 0]]
    /\ underway = {} /\ received = <<>> /\ builds \in BOOLEAN /\ crashes = 0

\* persistScan stores an event and starts its delivery.
notifyDrift ==
    /\ stored < HookEvents
    /\ stored' = stored + 1
    /\ delivery' = [delivery EXCEPT ![stored'] = [at |-> "post", attempt |-> 1]]
    /\ UNCHANGED <<underway, received, builds, crashes>>

To(e, place) == delivery' = [delivery EXCEPT ![e].at = place]

\* Mutant: whether attempts are left is asked before the attempt is counted.
AgainUncounted(e) ==
    IF delivery[e].attempt <= Attempts THEN To(e, "pause") ELSE To(e, "failed")

\* After an attempt without success: another one after a pause, or none.
Again(e) ==
    IF delivery[e].attempt < Attempts THEN To(e, "pause") ELSE To(e, "failed")

\* The request leaves, or the connection fails.  Without a request there is no attempt
\* and no other one.
Post(e) ==
    /\ delivery[e].at = "post"
    /\ \/ builds /\ To(e, "wait") /\ underway' = underway \cup {<<e, delivery[e].attempt>>}
       \/ builds /\ Again(e) /\ UNCHANGED underway
       \/ ~builds /\ To(e, "unbuilt") /\ UNCHANGED underway
    /\ UNCHANGED <<stored, received, builds, crashes>>

\* External: the receiver handles a request; its answer is 2xx or not, and counts if
\* the delivery still waits for it.
HandleRequest(e) == \E n \in 1..Attempts, accepted \in BOOLEAN :
    /\ <<e, n>> \in underway
    /\ underway' = underway \ {<<e, n>>}
    /\ received' = IF accepted THEN Append(received, e) ELSE received
    /\ IF delivery[e] = [at |-> "wait", attempt |-> n]
       THEN IF accepted THEN To(e, "delivered") ELSE Again(e)
       ELSE UNCHANGED delivery
    /\ UNCHANGED <<stored, builds, crashes>>

\* Ten seconds without an answer; the receiver may still handle the request.
TimeOut(e) ==
    /\ delivery[e].at = "wait" /\ Again(e)
    /\ UNCHANGED <<stored, underway, received, builds, crashes>>

\* The request, or the answer of the receiver, is lost on the way.
LoseRequest(e) == \E n \in 1..Attempts, handled \in BOOLEAN :
    /\ <<e, n>> \in underway
    /\ underway' = underway \ {<<e, n>>}
    /\ received' = IF handled THEN Append(received, e) ELSE received
    /\ UNCHANGED <<stored, delivery, builds, crashes>>

PauseEnds(e) ==
    /\ delivery[e].at = "pause"
    /\ delivery' = [delivery EXCEPT ![e] = [at |-> "post", attempt |-> @.attempt + 1]]
    /\ UNCHANGED <<stored, underway, received, builds, crashes>>

\* Deliveries are not resumed; the server may be started with another URL.
StopServer ==
    /\ crashes < MaxCrashes /\ crashes' = crashes + 1
    /\ builds' \in BOOLEAN
    /\ delivery' = [e \in 1..HookEvents |->
            IF delivery[e].at \in {"post", "wait", "pause"} THEN [delivery[e] EXCEPT !.at = "lost"] ELSE delivery[e]]
    /\ UNCHANGED <<stored, underway, received>>

WebhookNext ==
    \/ notifyDrift \/ StopServer
    \/ \E e \in 1..HookEvents : Post(e) \/ HandleRequest(e) \/ TimeOut(e) \/ LoseRequest(e) \/ PauseEnds(e)

-----------------------------------------------------------------------------
TimesReceived(e) == Cardinality({i \in DOMAIN received : received[i] = e})
Coming(e) == Cardinality({n \in 1..Attempts : <<e, n>> \in underway})

\* The receiver gets no event that is not in the history, and none more often than
\* attempts were made for it, those given up and handled late included, of which there
\* are three at most; a delivery that counts as made was received, and one that is given
\* up has had all its attempts, unless no request could be built: then none was sent.
DeliveredOrGivenUp == \A e \in 1..HookEvents :
    LET d == delivery[e]
    IN  /\ TimesReceived(e) + Coming(e) <= d.attempt /\ d.attempt <= Attempts
        /\ TimesReceived(e) > 0 => e <= stored
        /\ d.at = "delivered" => TimesReceived(e) > 0
        /\ d.at = "failed" => d.attempt = Attempts
        /\ d.at = "unbuilt" => d.attempt = 1 /\ TimesReceived(e) + Coming(e) = 0

================================================================================
