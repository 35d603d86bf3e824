------------------------------ MODULE Deployment ------------------------------
(***************************************************************************)
(* A deployment from its empty database on: the services come up (Schema),   *)
(* and one of them, `Runner`, starts runs, which see to the derived rows      *)
(* first (DerivedStages).  A run begins when the runner is up and finds the   *)
(* database no newer than itself.                                            *)
(***************************************************************************)
EXTENDS DerivedStages, Schema

CONSTANTS
    Runner,     \* the scheduler
    Released    \* bound: stages of which another version is released

ASSUME RunnerAssumption == Runner \in Service /\ Released \subseteq Stage

deploymentVars == <<vars, schemaVars>>

DeploymentInit == Init /\ SchemaInit

\* Bound: images with another schema are deployed, and services start, before the first
\* derived row is there; later only the runner starts again.
Untouched == at = 0 /\ by = [s \in Stage |-> [u \in Rows |-> 0]]

Bootstrap ==
    /\ Untouched
    /\ \E s \in Service : Start(s) \/ Blocked(s) \/ Die(s) \/ Redeploy(s)
    /\ UNCHANGED vars

Restart ==
    /\ ~Untouched /\ Start(Runner)
    /\ UNCHANGED vars

\* _run_ingest_locked: a drifted service refuses, the others go on to ensure_current.
\* Bound: the first run waits until every service is up.
BeginRun ==
    /\ boot[Runner].at = "up" /\ ~Drift(Runner)
    /\ \A s \in Service : boot[s].at = "up"
    /\ Begin
    /\ UNCHANGED schemaVars

StageStep ==
    /\ \/ SkipCurrent \/ BeginRebuild \/ Mark \/ Leave
       \/ \E u \in Rows : RebuildUnit(u)
       \/ \E s \in {"aggregate", "score"}, r \in Repo : SyncStage(s, r)
    /\ UNCHANGED schemaVars

\* A release of the runner's code restarts the runner.
ReleaseStage ==
    /\ ~Untouched
    /\ \E s \in Released : Release(s)
    /\ Boot(Runner, Down)
    /\ UNCHANGED <<release, tables, recorded, schemaFaults>>

DeploymentNext == Bootstrap \/ Restart \/ BeginRun \/ StageStep \/ ReleaseStage

DeploymentSpec == DeploymentInit /\ [][DeploymentNext]_deploymentVars

\* Containers are started again.
FairSpec ==
    /\ DeploymentSpec
    /\ WF_deploymentVars(Restart)
    /\ \A s \in Service : WF_deploymentVars(Untouched /\ Start(s) /\ UNCHANGED vars)
=============================================================================
