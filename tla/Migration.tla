------------------------------- MODULE Migration -------------------------------
(***************************************************************************)
(* Opening the store: DB.migrate (internal/store/sqlite.go) and PG.migrate  *)
(* (internal/store/postgres.go).  Processes of different releases open the  *)
(* same database, each applies the migrations it knows beyond the version   *)
(* it reads, and any of them may die between two statements.                *)
(*                                                                          *)
(* SQLite runs the statements of a migration one by one and takes no lock   *)
(* over them; PostgreSQL runs the statements of one Exec in one transaction *)
(* and the whole of migrate under an advisory lock, which belongs to one    *)
(* connection of the pool.  Every CREATE fails if its object exists.        *)
(***************************************************************************)
EXTENDS Integers, Sequences

CONSTANTS Servers,        \* processes that open the store
          Statements,     \* Statements[i] statements make up migration i
          Known,          \* how many migrations the release of each process knows
          Databases,      \* the databases considered: TRUE is PostgreSQL, FALSE SQLite
          NoOne,          \* the advisory lock is free
          MaxCrashes,     \* bound: processes that die
          MaxDrops        \* bound: connections that drop

ASSUME MigrationAssumption ==
    /\ Statements \in Seq(Nat \ {0})
    /\ Known \in [Servers -> 0..Len(Statements)]
    /\ Databases \subseteq BOOLEAN /\ NoOne \notin Servers
    /\ MaxCrashes \in Nat /\ MaxDrops \in Nat

VARIABLES
    postgres,   \* the database opened, the same all along
    objects,    \* tables and indexes created: <<migration, statement>>
    version,    \* PRAGMA user_version, or the row of schema_version
    lock,       \* holder of the advisory lock
    at,         \* where each process is
    doing,      \* the migration a process applies
    stmt,       \* its next statement
    crashes, drops

migrationVars == <<postgres, objects, version, lock, at, doing, stmt, crashes, drops>>
others == <<postgres, crashes, drops>>

Places == {"off", "open", "read", "loop", "exec", "record", "unlock", "ready", "failed"}
Object == UNION {{<<i, n>> : n \in 1..Statements[i]} : i \in 1..Len(Statements)}
Upto(v) == {o \in Object : o[1] <= v}

MigrationTypeOK ==
    /\ postgres \in Databases
    /\ objects \subseteq Object
    /\ version \in 0..Len(Statements)
    /\ lock \in Servers \cup {NoOne}
    /\ at \in [Servers -> Places]
    /\ doing \in [Servers -> 0..Len(Statements)]
    /\ stmt \in [Servers -> Nat]
    /\ crashes \in 0..MaxCrashes /\ drops \in 0..MaxDrops

\* A database of any earlier release, migrated completely; 0 is a new one.
MigrationInit ==
    /\ postgres \in Databases
    /\ version \in 0..Len(Statements)
    /\ objects = Upto(version)
    /\ lock = NoOne
    /\ at = [s \in Servers |-> "off"]
    /\ doing = [s \in Servers |-> 0]
    /\ stmt = [s \in Servers |-> 1]
    /\ crashes = 0 /\ drops = 0

Reach(s, place) == at' = [at EXCEPT ![s] = place]

Start(s) ==
    /\ at[s] = "off"
    /\ Reach(s, IF postgres THEN "open" ELSE "read")
    /\ UNCHANGED <<objects, version, lock, doing, stmt, others>>

\* Mutant: the lock is tried, not waited for.
TryLock(s) ==
    /\ at[s] = "open"
    /\ lock' = IF lock = NoOne THEN s ELSE lock
    /\ Reach(s, "read")
    /\ UNCHANGED <<objects, version, doing, stmt, others>>

\* SELECT pg_advisory_lock
Lock(s) ==
    /\ at[s] = "open" /\ lock = NoOne
    /\ lock' = s
    /\ Reach(s, "read")
    /\ UNCHANGED <<objects, version, doing, stmt, others>>

Read(s) ==
    /\ at[s] = "read"
    /\ doing' = [doing EXCEPT ![s] = version]
    /\ Reach(s, "loop")
    /\ UNCHANGED <<objects, version, lock, stmt, others>>

\* for i := version; i < len(migrations); i++
Loop(s) ==
    /\ at[s] = "loop"
    /\ IF doing[s] < Known[s]
       THEN /\ doing' = [doing EXCEPT ![s] = @ + 1]
            /\ stmt' = [stmt EXCEPT ![s] = 1]
            /\ Reach(s, "exec")
       ELSE Reach(s, "unlock") /\ UNCHANGED <<doing, stmt>>
    /\ UNCHANGED <<objects, version, lock, others>>

\* What one Exec runs before anybody else can look: one statement, or all.
Batch(s) == IF postgres THEN {<<doing[s], n>> : n \in 1..Statements[doing[s]]}
                        ELSE {<<doing[s], stmt[s]>>}

\* Mutant: CREATE ... IF NOT EXISTS.
ExecTolerant(s) ==
    /\ at[s] = "exec"
    /\ objects' = objects \cup Batch(s)
    /\ IF postgres \/ stmt[s] = Statements[doing[s]]
       THEN Reach(s, "record") /\ UNCHANGED stmt
       ELSE stmt' = [stmt EXCEPT ![s] = @ + 1] /\ UNCHANGED at
    /\ UNCHANGED <<version, lock, doing, others>>

\* The statements of the migration; one that fails ends migrate with an error.
Exec(s) ==
    /\ at[s] = "exec"
    /\ \/ /\ Batch(s) \cap objects = {}
          /\ objects' = objects \cup Batch(s)
          /\ IF postgres \/ stmt[s] = Statements[doing[s]]
             THEN Reach(s, "record") /\ UNCHANGED stmt
             ELSE stmt' = [stmt EXCEPT ![s] = @ + 1] /\ UNCHANGED at
          /\ UNCHANGED lock
       \/ /\ Batch(s) \cap objects # {}
          /\ Reach(s, "failed")
          /\ lock' = IF lock = s THEN NoOne ELSE lock
          /\ UNCHANGED <<objects, stmt>>
    /\ UNCHANGED <<version, doing, others>>

\* Mutant: the version recorded is one ahead.
RecordAhead(s) ==
    /\ at[s] = "record"
    /\ version' = doing[s] + 1
    /\ Reach(s, "loop")
    /\ UNCHANGED <<objects, lock, doing, stmt, others>>

\* PRAGMA user_version = i + 1, UPDATE schema_version
Record(s) ==
    /\ at[s] = "record"
    /\ version' = doing[s]
    /\ Reach(s, "loop")
    /\ UNCHANGED <<objects, lock, doing, stmt, others>>

\* Mutant: the unlock reaches another connection of the pool, which does not hold it.
UnlockElsewhere(s) ==
    /\ at[s] = "unlock"
    /\ Reach(s, "ready")
    /\ UNCHANGED <<objects, version, lock, doing, stmt, others>>

\* The deferred pg_advisory_unlock, which does nothing without the lock.
Unlock(s) ==
    /\ at[s] = "unlock"
    /\ lock' = IF lock = s THEN NoOne ELSE lock
    /\ Reach(s, "ready")
    /\ UNCHANGED <<objects, version, doing, stmt, others>>

\* The process ends, dying or in order, and may be started again.  Its
\* connections close, and with them the lock.
Stop(s) ==
    /\ \/ at[s] \in {"ready", "failed"} /\ UNCHANGED crashes
       \/ /\ at[s] \in {"open", "read", "loop", "exec", "record", "unlock"}
          /\ crashes < MaxCrashes /\ crashes' = crashes + 1
    /\ Reach(s, "off")
    /\ lock' = IF lock = s THEN NoOne ELSE lock
    /\ UNCHANGED <<objects, version, doing, stmt, postgres, drops>>

\* The idle connection that holds the lock drops between two statements; the pool
\* dials another one, and migrate goes on.
Drop(s) ==
    /\ lock = s
    /\ drops < MaxDrops /\ drops' = drops + 1
    /\ lock' = NoOne
    /\ UNCHANGED <<objects, version, at, doing, stmt, postgres, crashes>>

Migrate(s) == Lock(s) \/ Read(s) \/ Loop(s) \/ Exec(s) \/ Record(s) \/ Unlock(s)

MigrationNext == \E s \in Servers : Start(s) \/ Migrate(s) \/ Stop(s) \/ Drop(s)

MigrationSpec == MigrationInit /\ [][MigrationNext]_migrationVars

\* The statements of a process are executed; PostgreSQL grants an advisory lock
\* in the order of the requests.
MigrationFairSpec == MigrationSpec /\ \A s \in Servers : WF_migrationVars(Read(s) \/ Loop(s) \/ Exec(s) \/ Record(s) \/ Unlock(s))
                                    /\ SF_migrationVars(Lock(s))
--------------------------------------------------------------------------------
\* The recorded version is never ahead of the schema, whoever races or dies.
VersionBacked == Upto(version) \subseteq objects

\* A process that serves has every object its release knows of.
ReadyHasSchema == \A s \in Servers : at[s] = "ready" => Upto(Known[s]) \subseteq objects

\* Neither the recorded version nor a process that serves relies on an object the
\* database lacks.
ServesMigrated == VersionBacked /\ ReadyHasSchema

\* The version moves up one migration at a time and never back, in every race.
VersionClimbs == [][version' = version + 1]_version

\* No process is refused the store by migrate, whatever earlier processes left
\* behind: "Databases created by an older 1.x are migrated forward automatically".
NobodyRefused == \A s \in Servers : at[s] # "failed"

\* PostgreSQL, while no process dies and no connection drops: no process is refused
\* by a race ("so concurrent servers cannot race the schema").
LockPreventsRaces == postgres /\ crashes = 0 /\ drops = 0 => NobodyRefused

\* A process that opens the store is served or told of an error; nobody waits for
\* the lock for ever, even if its holder dies.
OpenEnds == \A s \in Servers : at[s] = "open" ~> at[s] \in {"ready", "failed", "off"}
================================================================================
