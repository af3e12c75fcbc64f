-------------------------------- MODULE KeyUsage --------------------------------
(***************************************************************************)
(* Which keys a traced application put to work (internal/trace/keys.go): it *)
(* searches the token for a name, takes the handle the search returns, and  *)
(* starts operations on handles.  KeyUsageOf ties the name of the search to *)
(* the handle; IdleKeys are the keys of an inventory whose name was never   *)
(* tied to an operation.                                                    *)
(***************************************************************************)
EXTENDS Integers, Sequences, SequencesExt, FiniteSets

CONSTANTS Sessions,
          Keys,           \* keys on the token; a key's handle is the key, in every session
          Names,          \* labels and IDs
          NameOf,         \* the name of each key
          Unnamed,        \* a search by class only, or for a key without a name
          NoKey,
          Refusals,       \* the token may refuse to start an operation
          Careless,       \* the application may start a search before the last has ended
          MaxEvents       \* bound: calls traced

ASSUME KeyUsageAssumption ==
    /\ NameOf \in [Keys -> Names \cup {Unnamed}]
    /\ Unnamed \notin Names /\ NoKey \notin Keys
    /\ Refusals \in BOOLEAN /\ Careless \in BOOLEAN
    /\ MaxEvents \in Nat

VARIABLES
    events,     \* the trace
    found,      \* what the open search of a session has still to return
    searching,  \* the sessions with an open search
    held        \* the keys whose handle the application holds

usageVars == <<events, found, searching, held>>

UsageEvent == [fn : {"C_FindObjectsInit", "C_FindObjects", "C_FindObjectsFinal", "C_SignInit"},
          session : Sessions, name : Names \cup {Unnamed}, object : Keys \cup {NoKey},
          ok : BOOLEAN]

UsageTypeOK ==
    /\ events \in Seq(UsageEvent) /\ Len(events) <= MaxEvents
    /\ found \in [Sessions -> SUBSET Keys]
    /\ searching \subseteq Sessions
    /\ held \subseteq Keys

UsageInit ==
    /\ events = <<>>
    /\ found = [s \in Sessions |-> {}]
    /\ searching = {} /\ held = {}

Trace(fn, s, name, object, ok) ==
    /\ Len(events) < MaxEvents
    /\ events' = Append(events, [fn |-> fn, session |-> s, name |-> name, object |-> object, ok |-> ok])

\* The event carries the name of the template whether or not the call succeeded.
FindObjectsInit(s, name) ==
    \/ /\ s \notin searching
       /\ Trace("C_FindObjectsInit", s, name, NoKey, TRUE)
       /\ searching' = searching \cup {s}
       /\ found' = [found EXCEPT ![s] = {k \in Keys : name \in {NameOf[k], Unnamed}}]
       /\ UNCHANGED held
    \/ /\ Careless /\ s \in searching
       /\ Trace("C_FindObjectsInit", s, name, NoKey, FALSE)
       /\ UNCHANGED <<found, searching, held>>

\* One call returns all that is left or, with room for one, the next; the event
\* carries the first handle.
FindObjects(s) ==
    /\ s \in searching
    /\ \/ \E k \in found[s], batch \in {{}, found[s]} :
            /\ Trace("C_FindObjects", s, Unnamed, k, TRUE)
            /\ held' = held \cup batch \cup {k}
            /\ found' = [found EXCEPT ![s] = @ \ (batch \cup {k})]
       \/ /\ found[s] = {}
          /\ Trace("C_FindObjects", s, Unnamed, NoKey, TRUE)
          /\ UNCHANGED <<held, found>>
    /\ UNCHANGED searching

FindObjectsFinal(s) ==
    /\ s \in searching
    /\ Trace("C_FindObjectsFinal", s, Unnamed, NoKey, TRUE)
    /\ searching' = searching \ {s}
    /\ found' = [found EXCEPT ![s] = {}]
    /\ UNCHANGED held

\* C_SignInit stands for every function that starts an operation with a key.
Use(s, k) == \E ok \in {TRUE} \cup {~Refusals} :
    /\ k \in held
    /\ Trace("C_SignInit", s, Unnamed, k, ok)
    /\ UNCHANGED <<found, searching, held>>

UsageNext == \E s \in Sessions :
    \/ \E name \in Names \cup {Unnamed} : FindObjectsInit(s, name)
    \/ FindObjects(s) \/ FindObjectsFinal(s)
    \/ \E k \in Keys : Use(s, k)

UsageSpec == UsageInit /\ [][UsageNext]_usageVars
--------------------------------------------------------------------------------
operationInit == {"C_SignInit"}

\* The state of KeyUsageOf: the name last searched for in each session, the names
\* tied to handles, and every operation with the name or handle it counts for.
NoUsage == [pending |-> [s \in Sessions |-> Unnamed],
            bindings |-> [s \in Sessions |-> [k \in Keys |-> Unnamed]],
            uses |-> <<>>]

\* Mutant: an operation ends the search's claim to its handle.
ObserveOnce(u, e) ==
    CASE e.fn = "C_FindObjectsInit" -> [u EXCEPT !.pending[e.session] = e.name]
      [] e.fn = "C_FindObjects" /\ e.object # NoKey /\ u.pending[e.session] # Unnamed ->
            [u EXCEPT !.bindings[e.session][e.object] = u.pending[e.session]]
      [] e.fn \in operationInit /\ e.object # NoKey ->
            [u EXCEPT !.uses = Append(@, [name |-> u.bindings[e.session][e.object],
                                          handle |-> e.object]),
                      !.bindings[e.session][e.object] = Unnamed]
      [] OTHER -> u

Observe(u, e) ==
    [pending |-> IF e.fn = "C_FindObjectsInit" THEN [u.pending EXCEPT ![e.session] = e.name] ELSE u.pending,
     bindings |-> IF e.fn = "C_FindObjects" /\ e.object # NoKey /\ u.pending[e.session] # Unnamed
                  THEN [u.bindings EXCEPT ![e.session][e.object] = u.pending[e.session]]
                  ELSE u.bindings,
     uses |-> IF e.fn \in operationInit /\ e.object # NoKey
              THEN Append(u.uses, [name |-> u.bindings[e.session][e.object], handle |-> e.object])
              ELSE u.uses]

KeyUsageOf(trace) == FoldLeft(Observe, NoUsage, trace)

Resolved(trace) ==
    LET uses == KeyUsageOf(trace).uses
    IN  {uses[i].name : i \in DOMAIN uses} \ {Unnamed}

\* Operations counted for a name.
Total(trace, name) ==
    LET uses == KeyUsageOf(trace).uses
    IN  Cardinality({i \in DOMAIN uses : uses[i].name = name})

\* A key without a name matches nothing, and is always idle.
IdleKeys(trace) == {k \in Keys : NameOf[k] \notin Resolved(trace)}
--------------------------------------------------------------------------------
Operations(k) == {i \in DOMAIN events : events[i].fn \in operationInit /\ events[i].object = k}

\* Event l returns k to the search that event j was the last to ask for.
Asks(i, s) == events[i].fn = "C_FindObjectsInit" /\ events[i].session = s
LastAsked(j, l, s) == j < l /\ Asks(j, s) /\ \A n \in j + 1..l - 1 : ~Asks(n, s)
Returns(l, k, s) ==
    events[l].fn = "C_FindObjects" /\ events[l].object = k /\ events[l].session = s

\* Of the searches with a name that returned k by event i, the last was for its own.
LocatedByName(k, i, s) == NameOf[k] # Unnamed /\ \E l, j \in 1..i :
    /\ Returns(l, k, s) /\ LastAsked(j, l, s) /\ events[j].name = NameOf[k]
    /\ \A m \in l + 1..i, n \in 1..i :
        Returns(m, k, s) /\ LastAsked(n, m, s) => events[n].name \in {NameOf[k], Unnamed}
LocatedOperations(k) == {i \in Operations(k) : LocatedByName(k, i, events[i].session)}

\* No search was started in a session before the last one had ended.
SearchesEnded == \A i \in DOMAIN events : events[i].fn = "C_FindObjectsInit" => events[i].ok

\* keys.go:97-100: of an application that ends its searches, an operation is counted
\* for the name its key has, or for no name, in whatever order its sessions search.
AttributedRightly == SearchesEnded =>
    LET uses == KeyUsageOf(events).uses
    IN  \A i \in DOMAIN uses : uses[i].name \in {NameOf[uses[i].handle], Unnamed}

\* "attributes each later operation-init call on that handle to the named key": once
\* a search for its name has returned a handle, the operations on it are counted for
\* the name in the session that searched, even if searches were started too early;
\* until the handle is returned once more after one was, and taken for another key's.
CountedWhereFound ==
    \A k \in Keys : NameOf[k] # Unnamed =>
        Total(events, NameOf[k]) >= Cardinality(LocatedOperations(k))

\* IdleKeys, of such an application and where names tell keys apart: a key is idle
\* unless a session has both found it by its name and then started an operation.
IdleExactly ==
    (SearchesEnded /\ \A k, l \in Keys : NameOf[k] = NameOf[l] => k = l) =>
        IdleKeys(events) = {k \in Keys : LocatedOperations(k) = {}}

\* The usage told of a key is the application's own: no operation is missed, counted
\* for another key, or taken from a key that would then seem idle.
UsageExact == CountedWhereFound /\ AttributedRightly /\ IdleExactly
================================================================================
