-------------------------------- MODULE Schema --------------------------------
(***************************************************************************)
(* How the services of a deployment bring an empty database up               *)
(* (db/engine.py): each of them applies the schema before it serves, all of  *)
(* them start at the same moment, and a container that exits is started      *)
(* again.                                                                    *)
(*                                                                           *)
(* Abstractions: a version's tables contain those of the version before, so  *)
(* `tables` is the newest version whose tables are there; extensions are     *)
(* installed.                                                                *)
(***************************************************************************)
EXTENDS Naturals

CONSTANTS
    Service,            \* api, mcp, scheduler: each with its own image
    SCHEMA_RETRIES,
    MaxRelease,         \* bound: schema versions
    MaxSchemaFaults     \* bound: deadlocks and deaths while a service starts

ASSUME SchemaAssumption ==
    /\ SCHEMA_RETRIES \in Nat \ {0}
    /\ MaxRelease \in Nat \ {0} /\ MaxSchemaFaults \in Nat

VARIABLES
    release,        \* SCHEMA_VERSION in the image of a service
    boot,           \* where a service is, and the locals of its apply_schema
    tables,         \* the newest version whose tables exist, 0 for none
    recorded,       \* the row schema_version in meta, 0 for none
    schemaFaults

schemaVars == <<release, boot, tables, recorded, schemaFaults>>

Places == {"down", "inspect", "create", "meta", "record", "up"}
Boots  == [at : Places, attempt : 0..SCHEMA_RETRIES, seen : 0..MaxRelease]

SchemaTypeOK ==
    /\ release \in [Service -> 1..MaxRelease]
    /\ boot \in [Service -> Boots]
    /\ tables \in 0..MaxRelease /\ recorded \in 0..MaxRelease
    /\ schemaFaults \in 0..MaxSchemaFaults

Down == [at |-> "down", attempt |-> 0, seen |-> 0]
Up   == [at |-> "up", attempt |-> 0, seen |-> 0]

\* "docker compose up" on an empty database, with images of the first version.
SchemaInit ==
    /\ release = [s \in Service |-> 1]
    /\ boot = [s \in Service |-> Down]
    /\ tables = 0 /\ recorded = 0 /\ schemaFaults = 0

Boot(s, b) == boot' = [boot EXCEPT ![s] = b]

\* An error whose text speaks of a lock is retried, the last attempt's raises; another one
\* ends the process at once.
Retryable(error) == error = "lock"

Fails(s, error) ==
    Boot(s, IF Retryable(error) /\ boot[s].attempt < SCHEMA_RETRIES
            THEN [at |-> "inspect", attempt |-> boot[s].attempt + 1, seen |-> 0] ELSE Down)

\* recorded_schema_version; a database ahead of the service is only logged.
Look(s) ==
    /\ boot[s].at = "down"
    /\ Boot(s, IF recorded >= release[s] THEN Up ELSE [at |-> "inspect", attempt |-> 1, seen |-> 0])
    /\ UNCHANGED <<release, tables, recorded, schemaFaults>>

\* Mutant: create_all does not check first.
InspectNothing(s) ==
    /\ boot[s].at = "inspect"
    /\ Boot(s, [boot[s] EXCEPT !.at = "create", !.seen = 0])
    /\ UNCHANGED <<release, tables, recorded, schemaFaults>>

\* create_all looks up front which tables are missing...
Inspect(s) ==
    /\ boot[s].at = "inspect"
    /\ Boot(s, [boot[s] EXCEPT !.at = "create", !.seen = tables])
    /\ UNCHANGED <<release, tables, recorded, schemaFaults>>

\* ...and creates them: one that another service has created meanwhile is an error.
Create(s) ==
    /\ boot[s].at = "create"
    /\ IF release[s] <= boot[s].seen THEN Boot(s, [boot[s] EXCEPT !.at = "meta"]) /\ UNCHANGED tables
       ELSE IF tables = boot[s].seen THEN Boot(s, [boot[s] EXCEPT !.at = "meta"]) /\ tables' = release[s]
       ELSE Fails(s, "duplicate") /\ UNCHANGED tables
    /\ UNCHANGED <<release, recorded, schemaFaults>>

ReadMeta(s) ==
    /\ boot[s].at = "meta"
    /\ Boot(s, [boot[s] EXCEPT !.at = "record", !.seen = recorded])
    /\ UNCHANGED <<release, tables, recorded, schemaFaults>>

\* A row nobody had inserted is inserted, and fails on the key when somebody has; one that
\* was there is changed to this version, unless it already said so when it was read.
Record(s) ==
    /\ boot[s].at = "record"
    /\ IF boot[s].seen = 0 /\ recorded # 0 THEN Fails(s, "duplicate") /\ UNCHANGED recorded
       ELSE /\ Boot(s, Up)
            /\ recorded' = IF boot[s].seen = release[s] THEN recorded ELSE release[s]
    /\ UNCHANGED <<release, tables, schemaFaults>>

Starting(s) == boot[s].at \in {"inspect", "create", "meta", "record"}

SchemaFault == schemaFaults < MaxSchemaFaults /\ schemaFaults' = schemaFaults + 1

\* Mutant: a service that stayed blocked serves all the same.
BlockedServes(s) ==
    /\ SchemaFault
    /\ Starting(s)
    /\ Boot(s, IF boot[s].attempt < SCHEMA_RETRIES
               THEN [at |-> "inspect", attempt |-> boot[s].attempt + 1, seen |-> 0] ELSE Up)
    /\ UNCHANGED <<release, tables, recorded>>

\* A deadlock or a lock timeout.
Blocked(s) ==
    /\ SchemaFault
    /\ Starting(s)
    /\ Fails(s, "lock")
    /\ UNCHANGED <<release, tables, recorded>>

\* The container dies, or the database refuses for another reason.
Die(s) ==
    /\ SchemaFault
    /\ boot[s].at # "down"
    /\ Boot(s, Down)
    /\ UNCHANGED <<release, tables, recorded>>

\* Only this service is rebuilt, and started again.
Redeploy(s) ==
    /\ release[s] < MaxRelease
    /\ release' = [release EXCEPT ![s] = @ + 1]
    /\ Boot(s, Down)
    /\ UNCHANGED <<tables, recorded, schemaFaults>>

\* schema_drift: is the database ahead of this service?
Drift(s) == recorded > release[s]

\* "restart: unless-stopped": a service goes on starting until it serves.
Start(s) == Look(s) \/ Inspect(s) \/ Create(s) \/ ReadMeta(s) \/ Record(s)

-----------------------------------------------------------------------------
(* Properties. *)

\* "Wait for Postgres and apply the schema before serving traffic": a service that serves
\* finds the tables of its version, whoever created them, in whatever order the services
\* started and however often one was blocked.
ServesItsTables == \A s \in Service : boot[s].at = "up" => release[s] <= tables

\* "Concurrent create_all calls racing each other on startup": the race may end a process,
\* but once deployments and faults stop every service comes up and stays up.
AllComeUp == <>[](\A s \in Service : boot[s].at = "up")

\* "Running older code than the database was migrated to" is seen: a database with newer
\* tables than the service's says so.
DriftIsSeen == \A s \in Service : tables > release[s] => Drift(s) \/ boot[s].at # "up"
=============================================================================
