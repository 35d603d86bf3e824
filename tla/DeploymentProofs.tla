--------------------------- MODULE DeploymentProofs ---------------------------
(***************************************************************************)
(* A stored version of a derived stage is the version of all its rows, for   *)
(* every set of repositories, any number of releases and any interruption.   *)
(* That proof does not depend on what stale_stages answers: a rebuild of a   *)
(* stage that is current, or one too few, would not mislead either.          *)
(*                                                                           *)
(* That no repository is synced over rows of another version, and that rows  *)
(* are computed in the order of the dependencies, does depend on it: the     *)
(* fold of stale_stages is unfolded, and whatever it does not name is marked *)
(* with the running version (Ordered).                                       *)
(*                                                                           *)
(* A service that serves finds its tables, for every set of services, any    *)
(* number of schema versions, retries and faults.  ServesItsTables is not    *)
(* inductive: who is past creating tables has them, what was recorded was    *)
(* created, and nobody saw more tables than there are.                       *)
(***************************************************************************)
EXTENDS Deployment, TLAPS

\* What the invariant needs of the types.
Typed ==
    /\ version \in [Stage -> Nat] /\ stored \in [Stage -> Nat]
    /\ by \in [Stage -> [Rows -> Nat]]
    /\ rebuilding \in BOOLEAN /\ (rebuilding => at \in 1..Len(STAGES))

\* No watermark is ahead of the code.
NotAhead == \A s \in Stage : stored[s] <= version[s]

\* The units of the stage being rebuilt that are no longer to do are done.
Rebuilt == rebuilding =>
    \A u \in Units(STAGES[at]) \ left : by[STAGES[at]][u] = version[STAGES[at]]

StagesInv == Typed /\ NotAhead /\ Rebuilt /\ MarkedIsBuilt

LEMMA StagesAreListed == \A i \in 1..Len(STAGES) : STAGES[i] \in Stage
BY DEF STAGES, Stage

LEMMA UnitsAreRows == \A s \in Stage : Units(s) \subseteq Rows
BY DEF Units, Rows

LEMMA StagesInit == Init => StagesInv
<1> SUFFICES ASSUME Init PROVE StagesInv
    OBVIOUS
<1>1. Typed
    BY DEF Init, Typed
<1>2. NotAhead
    BY DEF Init, NotAhead
<1>3. Rebuilt
    BY DEF Init, Rebuilt
<1>4. MarkedIsBuilt
    BY DEF Init, MarkedIsBuilt
<1> QED BY <1>1, <1>2, <1>3, <1>4 DEF StagesInv

\* Rows of one unit are computed by the running version, the others stay.
LEMMA ComputeOnce ==
    ASSUME Typed, NEW s \in Stage, NEW u \in Rows, Compute(s, u)
    PROVE  /\ by' \in [Stage -> [Rows -> Nat]]
           /\ by'[s][u] = version[s]
           /\ \A t \in Stage, w \in Rows : <<t, w>> # <<s, u>> => by'[t][w] = by[t][w]
<1>1. by' = [by EXCEPT ![s][u] = version[s]]
    BY DEF Compute
<1>2. version[s] \in Nat
    BY DEF Typed
<1> QED BY <1>1, <1>2 DEF Typed

LEMMA StagesStep == StagesInv /\ [Next]_vars => StagesInv'
<1> SUFFICES ASSUME StagesInv, [Next]_vars PROVE StagesInv'
    OBVIOUS
<1> USE DEF StagesInv
<1>1. CASE Begin
    BY <1>1 DEF Begin, Typed, NotAhead, Rebuilt, MarkedIsBuilt
<1>2. CASE SkipCurrent
    BY <1>2 DEF SkipCurrent, Looking, Typed, NotAhead, Rebuilt, MarkedIsBuilt
<1>3. CASE BeginRebuild
  <2>1. Typed' /\ NotAhead' /\ MarkedIsBuilt'
      BY <1>3 DEF BeginRebuild, Looking, Typed, NotAhead, MarkedIsBuilt
  <2>2. left' = Units(STAGES[at']) /\ by' = by
      BY <1>3 DEF BeginRebuild
  <2> QED BY <2>1, <2>2 DEF Rebuilt
<1>4. CASE Mark
  <2> DEFINE s == STAGES[at]
  <2>1. s \in Stage
      BY <1>4, StagesAreListed DEF Mark, Typed
  <2>2. stored' = [stored EXCEPT ![s] = version[s]] /\ rebuilding' = FALSE
        /\ UNCHANGED <<version, by>>
      BY <1>4 DEF Mark, SetWatermark
  <2>3. \A u \in Units(s) : by[s][u] = version[s]
      BY <1>4 DEF Mark, Rebuilt
  <2>4. Typed'
    <3>1. version[s] \in Nat
        BY <2>1 DEF Typed
    <3> QED BY <2>1, <2>2, <3>1 DEF Typed
  <2>5. NotAhead'
      BY <2>1, <2>2 DEF Typed, NotAhead
  <2>6. MarkedIsBuilt'
      BY <2>1, <2>2, <2>3 DEF Typed, MarkedIsBuilt
  <2> QED BY <2>2, <2>4, <2>5, <2>6 DEF Rebuilt
<1>5. CASE Leave
    BY <1>5 DEF Leave, Typed, NotAhead, Rebuilt, MarkedIsBuilt
<1>6. CASE \E u \in Rows : RebuildUnit(u)
  <2> PICK u \in Rows : RebuildUnit(u)
      BY <1>6
  <2> DEFINE s == STAGES[at]
  <2>1. s \in Stage
      BY StagesAreListed DEF RebuildUnit, Typed
  <2>2. Compute(s, u) /\ left' = left \ {u} /\ UNCHANGED <<version, stored, at, rebuilding>>
      BY DEF RebuildUnit
  <2>3. /\ by' \in [Stage -> [Rows -> Nat]]
        /\ by'[s][u] = version[s]
        /\ \A t \in Stage, w \in Rows : <<t, w>> # <<s, u>> => by'[t][w] = by[t][w]
      BY <2>1, <2>2, ComputeOnce
  <2>4. Typed' /\ NotAhead'
      BY <2>2, <2>3 DEF Typed, NotAhead
  <2>5. Rebuilt'
    <3> SUFFICES ASSUME NEW w \in Units(s) \ left', rebuilding PROVE by'[s][w] = version[s]
        BY <2>2 DEF Rebuilt
    <3>1. w \in Rows
        BY <2>1, UnitsAreRows
    <3>2. CASE w = u
        BY <3>2, <2>3
    <3>3. CASE w # u
        BY <3>1, <3>3, <2>1, <2>2, <2>3 DEF Rebuilt
    <3> QED BY <3>2, <3>3
  <2>6. MarkedIsBuilt'
    <3> SUFFICES ASSUME NEW t \in Stage, stored[t] = version[t], NEW w \in Units(t)
                 PROVE  by'[t][w] = version[t]
        BY <2>2 DEF MarkedIsBuilt
    <3>1. w \in Rows /\ by[t][w] = version[t]
        BY UnitsAreRows DEF MarkedIsBuilt
    <3>2. CASE t = s /\ w = u
        BY <3>2, <2>3
    <3>3. CASE ~(t = s /\ w = u)
        BY <3>1, <3>3, <2>3
    <3> QED BY <3>2, <3>3
  <2> QED BY <2>4, <2>5, <2>6
<1>7. CASE \E s \in {"aggregate", "score"}, r \in Repo : SyncStage(s, r)
  <2> PICK s \in {"aggregate", "score"}, r \in Repo : SyncStage(s, r)
      BY <1>7
  <2>1. s \in Stage /\ r \in Rows
      BY DEF Stage, Rows
  <2>2. Compute(s, r) /\ UNCHANGED <<version, stored, at, rebuilding, left>> /\ at = Pool
      BY DEF SyncStage
  <2>3. /\ by' \in [Stage -> [Rows -> Nat]]
        /\ by'[s][r] = version[s]
        /\ \A t \in Stage, w \in Rows : <<t, w>> # <<s, r>> => by'[t][w] = by[t][w]
      BY <2>1, <2>2, ComputeOnce
  <2>4. ~rebuilding
      BY <2>2 DEF Typed, Pool, STAGES
  <2>5. Typed' /\ NotAhead' /\ Rebuilt'
      BY <2>2, <2>3, <2>4 DEF Typed, NotAhead, Rebuilt
  <2>6. MarkedIsBuilt'
    <3> SUFFICES ASSUME NEW t \in Stage, stored[t] = version[t], NEW w \in Units(t)
                 PROVE  by'[t][w] = version[t]
        BY <2>2 DEF MarkedIsBuilt
    <3>1. w \in Rows /\ by[t][w] = version[t]
        BY UnitsAreRows DEF MarkedIsBuilt
    <3>2. CASE t = s /\ w = r
        BY <3>2, <2>3
    <3>3. CASE ~(t = s /\ w = r)
        BY <3>1, <3>3, <2>3
    <3> QED BY <3>2, <3>3
  <2> QED BY <2>5, <2>6
<1>8. CASE \E s \in Stage : Release(s)
  <2> PICK s \in Stage : Release(s)
      BY <1>8
  <2>1. version' = [version EXCEPT ![s] = @ + 1] /\ rebuilding' = FALSE /\ UNCHANGED <<stored, by>>
      BY DEF Release
  <2>2. version'[s] = version[s] + 1 /\ \A t \in Stage \ {s} : version'[t] = version[t]
      BY <2>1 DEF Typed
  <2>3. Typed'
    <3>1. version[s] + 1 \in Nat
        BY DEF Typed
    <3> QED BY <2>1, <3>1 DEF Typed
  <2>4. NotAhead'
      BY <2>1, <2>2 DEF Typed, NotAhead
  \* The stage released is marked with an older version.
  <2>5. stored[s] # version'[s]
      BY <2>2 DEF Typed, NotAhead
  <2>6. MarkedIsBuilt'
      BY <2>1, <2>2, <2>5 DEF MarkedIsBuilt
  <2> QED BY <2>1, <2>3, <2>4, <2>6 DEF Rebuilt
<1>9. CASE UNCHANGED vars
    BY <1>9 DEF vars, Typed, NotAhead, Rebuilt, MarkedIsBuilt
<1> QED BY <1>1, <1>2, <1>3, <1>4, <1>5, <1>6, <1>7, <1>8, <1>9 DEF Next

\* A version that is stored beside a stage is the version of every one of its rows,
\* whenever a rebuild was interrupted: ensure_current stores it after the rows.
THEOREM MarksTellTheTruth == Spec => []MarkedIsBuilt
<1>1. StagesInv => MarkedIsBuilt
    BY DEF StagesInv
<1> QED BY <1>1, StagesInit, StagesStep, PTL DEF Spec

-----------------------------------------------------------------------------
BootShape == /\ DOMAIN boot = Service
             /\ \A s \in Service : /\ DOMAIN boot[s] = {"at", "attempt", "seen"}
                                    /\ boot[s].seen \in Nat

\* What a service knows of the tables where it is.
Founded(s) == /\ boot[s].at = "create" => boot[s].seen <= tables
              /\ boot[s].at \in {"meta", "record", "up"} => release[s] <= tables

SchemaInv ==
    /\ BootShape
    /\ release \in [Service -> Nat] /\ tables \in Nat
    /\ recorded \in Nat /\ recorded <= tables
    /\ \A s \in Service : Founded(s)

LEMMA SchemaInitially == SchemaInit => SchemaInv
BY DEF SchemaInit, SchemaInv, BootShape, Founded, Down

\* A step of one service that sets what it knows rightly leaves the others' knowledge true,
\* because tables are only ever added.
LEMMA OneBoots ==
    ASSUME SchemaInv, NEW s \in Service, NEW b, Boot(s, b),
           DOMAIN b = {"at", "attempt", "seen"}, b.seen \in Nat,
           release' \in [Service -> Nat], tables' \in Nat, recorded' \in Nat,
           tables <= tables', recorded' <= tables',
           \A t \in Service \ {s} : release'[t] = release[t],
           b.at = "create" => b.seen <= tables',
           b.at \in {"meta", "record", "up"} => release'[s] <= tables'
    PROVE  SchemaInv'
<1>1. boot'[s] = b /\ DOMAIN boot' = Service /\ \A t \in Service \ {s} : boot'[t] = boot[t]
    BY DEF Boot, SchemaInv, BootShape
<1>2. BootShape'
    BY <1>1 DEF SchemaInv, BootShape
<1>3. Founded(s)'
    BY <1>1 DEF Founded
<1>4. ASSUME NEW t \in Service, t # s PROVE Founded(t)'
  <2>1. boot'[t] = boot[t] /\ release'[t] = release[t] /\ Founded(t)
        /\ boot[t].seen \in Nat /\ release[t] \in Nat /\ tables \in Nat
      BY <1>1, <1>4 DEF SchemaInv, BootShape
  <2> QED BY <2>1 DEF Founded
<1> QED BY <1>2, <1>3, <1>4 DEF SchemaInv

LEMMA FailureBoots ==
    ASSUME SchemaInv, SchemaAssumption, NEW s \in Service, NEW error, Fails(s, error),
           UNCHANGED <<release, tables, recorded>>
    PROVE  SchemaInv'
<1> DEFINE again == [at |-> "inspect", attempt |-> boot[s].attempt + 1, seen |-> 0]
           b == IF Retryable(error) /\ boot[s].attempt < SCHEMA_RETRIES THEN again ELSE Down
<1>1. Boot(s, b)
    BY DEF Fails
<1>2. DOMAIN b = {"at", "attempt", "seen"} /\ b.seen \in Nat /\ b.at \in {"inspect", "down"}
    BY DEF Down
<1> HIDE DEF b
<1> QED BY <1>1, <1>2, OneBoots DEF SchemaInv

LEMMA ServiceKeeps ==
    ASSUME SchemaInv, SchemaAssumption, NEW s \in Service,
           Start(s) \/ Blocked(s) \/ Die(s) \/ Redeploy(s)
    PROVE  SchemaInv'
<1> USE DEF SchemaInv
<1>0. /\ DOMAIN boot[s] = {"at", "attempt", "seen"} /\ boot[s].seen \in Nat
      /\ release[s] \in Nat /\ Founded(s)
    BY DEF BootShape
<1>1. CASE Look(s)
  <2> DEFINE b == IF recorded >= release[s] THEN Up ELSE [at |-> "inspect", attempt |-> 1, seen |-> 0]
  <2>1. Boot(s, b) /\ UNCHANGED <<release, tables, recorded>>
      BY <1>1 DEF Look
  <2>2. DOMAIN b = {"at", "attempt", "seen"} /\ b.seen \in Nat /\ b.at \in {"up", "inspect"}
        /\ (b.at = "up" => release[s] <= recorded)
      BY <1>0 DEF Up
  <2> HIDE DEF b
  <2> QED BY <2>1, <2>2, <1>0, OneBoots
<1>2. CASE Inspect(s)
  <2> DEFINE b == [boot[s] EXCEPT !.at = "create", !.seen = tables]
  <2>1. Boot(s, b) /\ UNCHANGED <<release, tables, recorded>>
      BY <1>2 DEF Inspect
  <2>2. DOMAIN b = {"at", "attempt", "seen"} /\ b.seen = tables /\ b.at = "create"
      BY <1>0
  <2> HIDE DEF b
  <2> QED BY <2>1, <2>2, OneBoots
<1>3. CASE Create(s)
  <2> DEFINE b == [boot[s] EXCEPT !.at = "meta"]
  <2>1. DOMAIN b = {"at", "attempt", "seen"} /\ b.seen \in Nat /\ b.at = "meta"
      BY <1>0
  <2>2. boot[s].at = "create" /\ boot[s].seen <= tables /\ UNCHANGED <<release, recorded>>
      BY <1>3, <1>0 DEF Create, Founded
  <2> HIDE DEF b
  <2>3. CASE release[s] <= boot[s].seen
    <3>1. Boot(s, b) /\ tables' = tables
        BY <1>3, <2>3 DEF Create, b
    <3> QED BY <3>1, <2>1, <2>2, <2>3, <1>0, OneBoots
  <2>4. CASE ~(release[s] <= boot[s].seen) /\ tables = boot[s].seen
    <3>1. Boot(s, b) /\ tables' = release[s]
        BY <1>3, <2>4 DEF Create, b
    <3> QED BY <3>1, <2>1, <2>2, <2>4, <1>0, OneBoots
  <2>5. CASE ~(release[s] <= boot[s].seen) /\ tables # boot[s].seen
    <3>1. Fails(s, "duplicate") /\ tables' = tables
        BY <1>3, <2>5 DEF Create
    <3> QED BY <3>1, <2>2, FailureBoots
  <2> QED BY <2>3, <2>4, <2>5
<1>4. CASE ReadMeta(s)
  <2> DEFINE b == [boot[s] EXCEPT !.at = "record", !.seen = recorded]
  <2>1. Boot(s, b) /\ UNCHANGED <<release, tables, recorded>> /\ boot[s].at = "meta"
      BY <1>4 DEF ReadMeta
  <2>2. DOMAIN b = {"at", "attempt", "seen"} /\ b.seen = recorded /\ b.at = "record"
      BY <1>0
  <2>3. release[s] <= tables
      BY <2>1, <1>0 DEF Founded
  <2> HIDE DEF b
  <2> QED BY <2>1, <2>2, <2>3, OneBoots
<1>5. CASE Record(s)
  <2>1. boot[s].at = "record" /\ release[s] <= tables /\ UNCHANGED <<release, tables>>
      BY <1>5, <1>0 DEF Record, Founded
  <2>2. CASE boot[s].seen = 0 /\ recorded # 0
    <3>1. Fails(s, "duplicate") /\ recorded' = recorded
        BY <1>5, <2>2 DEF Record
    <3> QED BY <3>1, <2>1, FailureBoots
  <2>3. CASE ~(boot[s].seen = 0 /\ recorded # 0)
    <3>1. Boot(s, Up) /\ recorded' \in {recorded, release[s]}
        BY <1>5, <2>3 DEF Record
    <3>2. DOMAIN Up = {"at", "attempt", "seen"} /\ Up.seen = 0 /\ Up.at = "up"
        BY DEF Up
    <3> QED BY <3>1, <3>2, <2>1, <1>0, OneBoots
  <2> QED BY <2>2, <2>3
<1>6. CASE Blocked(s)
    BY <1>6, FailureBoots DEF Blocked
<1>7. DOMAIN Down = {"at", "attempt", "seen"} /\ Down.seen = 0 /\ Down.at = "down"
    BY DEF Down
<1>8. CASE Die(s)
    BY <1>8, <1>7, OneBoots DEF Die
<1>9. CASE Redeploy(s)
  <2>1. release' = [release EXCEPT ![s] = release[s] + 1] /\ UNCHANGED <<tables, recorded>>
        /\ Boot(s, Down)
      BY <1>9 DEF Redeploy
  <2>2. release' \in [Service -> Nat] /\ \A t \in Service \ {s} : release'[t] = release[t]
      BY <2>1, <1>0
  <2> QED BY <2>1, <2>2, <1>7, OneBoots
<1> QED BY <1>1, <1>2, <1>3, <1>4, <1>5, <1>6, <1>8, <1>9 DEF Start

LEMMA DeploymentKeeps ==
    ASSUME SchemaInv, SchemaAssumption, RunnerAssumption, [DeploymentNext]_deploymentVars
    PROVE  SchemaInv'
<1>1. CASE Bootstrap
    BY <1>1, ServiceKeeps DEF Bootstrap
<1>2. CASE Restart
    BY <1>2, ServiceKeeps DEF Restart, RunnerAssumption
<1>3. CASE UNCHANGED schemaVars
    BY <1>3 DEF schemaVars, SchemaInv, BootShape, Founded
<1>4. CASE ReleaseStage
  <2>1. DOMAIN Down = {"at", "attempt", "seen"} /\ Down.seen = 0 /\ Down.at = "down"
      BY DEF Down
  <2> QED BY <1>4, <2>1, OneBoots DEF ReleaseStage, RunnerAssumption, SchemaInv
<1> QED BY <1>1, <1>2, <1>3, <1>4 DEF DeploymentNext, BeginRun, StageStep, deploymentVars

\* "Wait for Postgres and apply the schema before serving traffic": a service that serves
\* finds the tables of its version, whichever service created them and however starts,
\* deadlocks, deaths and redeployments interleave.
THEOREM ServedTablesExist == DeploymentSpec => []ServesItsTables
<1>1. DeploymentInit => SchemaInv
    BY SchemaInitially DEF DeploymentInit
<1>2. SchemaInv /\ [DeploymentNext]_deploymentVars => SchemaInv'
    BY DeploymentKeeps, SchemaAssumption, RunnerAssumption
<1>3. SchemaInv => ServesItsTables
    BY DEF SchemaInv, Founded, ServesItsTables
<1> QED BY <1>1, <1>2, <1>3, PTL DEF DeploymentSpec

\* Beside the services' starts a deployment does what ensure_current and the pool do, and
\* nothing else, so what holds of the stages holds of a deployment.
THEOREM DeploymentRunsStages == DeploymentSpec => Spec
<1>1. DeploymentInit => Init
    BY DEF DeploymentInit
<1>2. [DeploymentNext]_deploymentVars => [Next]_vars
  <2> SUFFICES ASSUME [DeploymentNext]_deploymentVars PROVE [Next]_vars
      OBVIOUS
  <2>1. CASE ReleaseStage
      BY <2>1, RunnerAssumption DEF ReleaseStage, Next, RunnerAssumption
  <2>2. CASE BeginRun \/ StageStep
      BY <2>2 DEF BeginRun, StageStep, Next
  <2>3. CASE UNCHANGED vars
      BY <2>3
  <2> QED BY <2>1, <2>2, <2>3 DEF DeploymentNext, Bootstrap, Restart, deploymentVars
<1> QED BY <1>1, <1>2, PTL DEF DeploymentSpec, Spec
-----------------------------------------------------------------------------
(* What stale_stages answers.  It is a fold, a function defined by recursion on sets of
   positions; for the six stages such a function is built here in as many steps. *)

\* One pass of the loop of stale_stages.
Judge(marks, stale, s) ==
    IF marks[s] # version[s] \/ depends_on[s] \cap stale # {} THEN stale \cup {s} ELSE stale

\* What the fold makes of a set of positions, given what f makes of those before the last.
Unfold(marks, f) ==
    [seen \in SUBSET (1..6) |->
        IF seen = {} THEN {} ELSE Judge(marks, f[seen \ {Max(seen)}], STAGES[Max(seen)])]

LEMMA LastPosition ==
    ASSUME NEW k \in 0..5, NEW seen \in SUBSET (1..(k + 1)), seen # {}
    PROVE  Max(seen) \in seen /\ seen \ {Max(seen)} \in SUBSET (1..k)
<1>1. \E x \in seen : \A y \in seen : x >= y
  <2>1. seen \subseteq {1, 2, 3, 4, 5, 6}
    OBVIOUS
  <2>2. CASE 6 \in seen
    BY <2>1, <2>2
  <2>3. CASE 6 \notin seen /\ 5 \in seen
    BY <2>1, <2>3
  <2>4. CASE {5, 6} \cap seen = {} /\ 4 \in seen
    BY <2>1, <2>4
  <2>5. CASE {4, 5, 6} \cap seen = {} /\ 3 \in seen
    BY <2>1, <2>5
  <2>6. CASE {3, 4, 5, 6} \cap seen = {} /\ 2 \in seen
    BY <2>1, <2>6
  <2>7. CASE {2, 3, 4, 5, 6} \cap seen = {}
    <3>1. \A y \in seen : y = 1
      BY <2>1, <2>7
    <3>2. PICK x \in seen : TRUE
      OBVIOUS
    <3> QED
      BY <3>1, <3>2
  <2> QED
    BY <2>2, <2>3, <2>4, <2>5, <2>6, <2>7
<1>2. Max(seen) \in seen /\ \A y \in seen : Max(seen) >= y
  BY <1>1 DEF Max
<1>3. ASSUME NEW y \in seen, y # Max(seen) PROVE y \in 1..k
  <2>1. Max(seen) \in 1..(k + 1) /\ y \in 1..(k + 1) /\ Max(seen) >= y
    BY <1>2
  <2> QED
    BY <1>3, <2>1
<1> QED
  BY <1>2, <1>3

LEMMA OneMorePosition ==
    ASSUME NEW marks, NEW f, NEW g, NEW k \in 0..5, \A seen \in SUBSET (1..k) : f[seen] = g[seen]
    PROVE  \A seen \in SUBSET (1..(k + 1)) : Unfold(marks, f)[seen] = Unfold(marks, g)[seen]
<1> SUFFICES ASSUME NEW seen \in SUBSET (1..(k + 1))
             PROVE  Unfold(marks, f)[seen] = Unfold(marks, g)[seen]
  OBVIOUS
<1>1. seen \in SUBSET (1..6)
  OBVIOUS
<1>2. CASE seen = {}
  BY <1>1, <1>2 DEF Unfold
<1>3. CASE seen # {}
  <2>1. seen \ {Max(seen)} \in SUBSET (1..k)
    BY <1>3, LastPosition
  <2> HIDE DEF Max
  <2>2. f[seen \ {Max(seen)}] = g[seen \ {Max(seen)}]
    BY <2>1
  <2> QED
    BY <1>1, <1>3, <2>2 DEF Unfold
<1> QED
  BY <1>2, <1>3

LEMMA UnfoldingEnds ==
    ASSUME NEW marks
    PROVE  \E f : f = Unfold(marks, f)
<1> DEFINE f0 == [seen \in SUBSET (1..6) |-> {}]
           f1 == Unfold(marks, f0)
           f2 == Unfold(marks, f1)
           f3 == Unfold(marks, f2)
           f4 == Unfold(marks, f3)
           f5 == Unfold(marks, f4)
           f6 == Unfold(marks, f5)
           f7 == Unfold(marks, f6)
<1>0. \A seen \in SUBSET (1..0) : f1[seen] = f0[seen]
  <2>1. SUBSET (1..0) = {{}}
    OBVIOUS
  <2>2. f0[{}] = {} /\ f1[{}] = {}
    BY DEF Unfold
  <2> QED
    BY <2>1, <2>2
<1> HIDE DEF f0
<1>1. \A seen \in SUBSET (1..1) : f2[seen] = f1[seen]
  BY <1>0, OneMorePosition
<1> HIDE DEF f1
<1>2. \A seen \in SUBSET (1..2) : f3[seen] = f2[seen]
  BY <1>1, OneMorePosition
<1> HIDE DEF f2
<1>3. \A seen \in SUBSET (1..3) : f4[seen] = f3[seen]
  BY <1>2, OneMorePosition
<1> HIDE DEF f3
<1>4. \A seen \in SUBSET (1..4) : f5[seen] = f4[seen]
  BY <1>3, OneMorePosition
<1> HIDE DEF f4
<1>5. \A seen \in SUBSET (1..5) : f6[seen] = f5[seen]
  BY <1>4, OneMorePosition
<1>x. f6 = [seen \in SUBSET (1..6) |-> f6[seen]]
  BY DEF Unfold
<1> HIDE DEF f5
<1>6. \A seen \in SUBSET (1..6) : f7[seen] = f6[seen]
  BY <1>5, OneMorePosition
<1>7. f7 = [seen \in SUBSET (1..6) |-> f7[seen]]
  BY DEF Unfold
<1>8. f6 = f7
  BY <1>6, <1>7, <1>x
<1> QED
  BY <1>8
LEMMA StaleUnfolds ==
    ASSUME NEW marks
    PROVE  \E g : g = Unfold(marks, g) /\ stale_stages(marks) = g[1..6]
<1>1. DOMAIN STAGES = 1..6
  BY DEF STAGES
<1>2. \E g : g = [seen \in SUBSET (DOMAIN STAGES) |->
                     IF seen = {} THEN {}
                     ELSE Judge(marks, g[seen \ {Max(seen)}], STAGES[Max(seen)])]
  <2>1. PICK f : f = Unfold(marks, f)
    BY UnfoldingEnds
  <2>2. f = [seen \in SUBSET (DOMAIN STAGES) |->
                IF seen = {} THEN {}
                ELSE Judge(marks, f[seen \ {Max(seen)}], STAGES[Max(seen)])]
    BY <1>1, <2>1 DEF Unfold
  <2> QED
    BY <2>2
<1>3. \E g : g = Unfold(marks, g) /\ stale_stages(marks) = g[DOMAIN STAGES]
  BY <1>1, <1>2 DEF stale_stages, FoldLeft, MapThenFoldSet, Unfold, Judge
<1> QED
  BY <1>1, <1>3

LEMMA StaleInTurn ==
    ASSUME NEW marks
    PROVE  LET one   == Judge(marks, {}, "aggregate")
               two   == Judge(marks, one, "score")
               three == Judge(marks, two, "depbump")
               four  == Judge(marks, three, "declared")
               five  == Judge(marks, four, "predict")
           IN  stale_stages(marks) = Judge(marks, five, "mining")
<1>1. PICK g : g = Unfold(marks, g) /\ stale_stages(marks) = g[1..6]
  BY StaleUnfolds
<1>2. g[{}] = {}
  <2>1. Unfold(marks, g)[{}] = {}
    BY DEF Unfold
  <2> QED
    BY <1>1, <2>1
<1>3. ASSUME NEW k \in 1..6
      PROVE  g[1..k] = Judge(marks, g[1..(k - 1)], STAGES[k])
  <2>1. Max(1..k) = k
    <3>1. \E x \in 1..k : \A y \in 1..k : x >= y
      OBVIOUS
    <3>2. Max(1..k) \in 1..k /\ \A y \in 1..k : Max(1..k) >= y
      BY <3>1 DEF Max
    <3>3. k \in 1..k
      OBVIOUS
    <3> QED
      BY <3>2, <3>3
  <2>2. (1..k) \ {k} = 1..(k - 1) /\ 1..k # {} /\ 1..k \in SUBSET (1..6)
    OBVIOUS
  <2>3. Unfold(marks, g)[1..k] = Judge(marks, g[(1..k) \ {Max(1..k)}], STAGES[Max(1..k)])
    BY <2>2 DEF Unfold
  <2> QED
    BY <1>1, <2>1, <2>2, <2>3
<1>4. 1..0 = {} /\ 1 - 1 = 0 /\ 2 - 1 = 1 /\ 3 - 1 = 2 /\ 4 - 1 = 3 /\ 5 - 1 = 4 /\ 6 - 1 = 5
  OBVIOUS
<1>5. /\ STAGES[1] = "aggregate" /\ STAGES[2] = "score" /\ STAGES[3] = "depbump"
      /\ STAGES[4] = "declared" /\ STAGES[5] = "predict" /\ STAGES[6] = "mining"
  BY DEF STAGES
<1>6. g[1..1] = Judge(marks, {}, "aggregate")
  BY <1>2, <1>3, <1>4, <1>5
<1>7. g[1..2] = Judge(marks, g[1..1], "score")
  BY <1>3, <1>4, <1>5
<1>8. g[1..3] = Judge(marks, g[1..2], "depbump")
  BY <1>3, <1>4, <1>5
<1>9. g[1..4] = Judge(marks, g[1..3], "declared")
  BY <1>3, <1>4, <1>5
<1>10. g[1..5] = Judge(marks, g[1..4], "predict")
  BY <1>3, <1>4, <1>5
<1>11. g[1..6] = Judge(marks, g[1..5], "mining")
  BY <1>3, <1>4, <1>5
<1> QED
  BY <1>1, <1>6, <1>7, <1>8, <1>9, <1>10, <1>11

\* "Return stages stale by version or by a stale upstream dependency": one pass over the
\* stages, in the order they are listed, finds every stage that is stale for either reason
\* and no other, whatever versions are stored.
THEOREM StaleIsClosed ==
    ASSUME NEW marks, NEW s \in Stage
    PROVE  s \in stale_stages(marks)
              <=> marks[s] # version[s] \/ depends_on[s] \cap stale_stages(marks) # {}
<1> DEFINE one   == Judge(marks, {}, "aggregate")
           two   == Judge(marks, one, "score")
           three == Judge(marks, two, "depbump")
           four  == Judge(marks, three, "declared")
           five  == Judge(marks, four, "predict")
           six   == Judge(marks, five, "mining")
<1>1. stale_stages(marks) = six
  BY StaleInTurn
<1>2. /\ depends_on["aggregate"] = {} /\ depends_on["score"] = {"aggregate"}
      /\ depends_on["depbump"] = {} /\ depends_on["declared"] = {}
      /\ depends_on["predict"] = {"depbump", "declared"}
      /\ depends_on["mining"] = {"aggregate", "score"}
  BY DEF depends_on, Stage
<1> DEFINE Differs(t) == marks[t] # version[t]
<1>3. \A t : t \in one <=> t = "aggregate" /\ Differs("aggregate")
  BY <1>2 DEF Judge
<1>4. \A t : t \in two <=> t \in one \/ (t = "score" /\ (Differs("score") \/ "aggregate" \in one))
  BY <1>2 DEF Judge
<1>5. \A t : t \in three <=> t \in two \/ (t = "depbump" /\ Differs("depbump"))
  BY <1>2 DEF Judge
<1>6. \A t : t \in four <=> t \in three \/ (t = "declared" /\ Differs("declared"))
  BY <1>2 DEF Judge
<1>7. \A t : t \in five <=> t \in four
                \/ (t = "predict" /\ (Differs("predict") \/ "depbump" \in four \/ "declared" \in four))
  BY <1>2 DEF Judge
<1>8. \A t : t \in six <=> t \in five
                \/ (t = "mining" /\ (Differs("mining") \/ "aggregate" \in five \/ "score" \in five))
  BY <1>2 DEF Judge
<1> HIDE DEF one, two, three, four, five, six
<1>9. s \in {"aggregate", "score", "depbump", "declared", "predict", "mining"}
  BY DEF Stage
<1>10. s \in six <=> Differs(s) \/ depends_on[s] \cap six # {}
  BY <1>2, <1>3, <1>4, <1>5, <1>6, <1>7, <1>8, <1>9
<1> QED
  BY <1>1, <1>10
-----------------------------------------------------------------------------
(* ensure_current goes through the stages in their order and leaves none behind that is
   not marked with the running version, and a stage comes after those it depends on. *)

Ordered ==
    /\ of \in [Stage -> [Rows -> [Stage -> Nat]]] /\ at \in 0..Pool
    /\ \A i \in 1..Len(STAGES) : i < at => stored[STAGES[i]] = version[STAGES[i]]
    /\ rebuilding => left \subseteq Units(STAGES[at])

LEMMA UpstreamFirst ==
    ASSUME NEW i \in 1..Len(STAGES), NEW d \in depends_on[STAGES[i]]
    PROVE  /\ d \in Stage /\ Units(d) = Units(STAGES[i])
           /\ \E j \in 1..Len(STAGES) : j < i /\ STAGES[j] = d
<1>1. Len(STAGES) = 6
  BY DEF STAGES
<1>2. /\ STAGES[1] = "aggregate" /\ STAGES[2] = "score" /\ STAGES[3] = "depbump"
      /\ STAGES[4] = "declared" /\ STAGES[5] = "predict" /\ STAGES[6] = "mining"
  BY DEF STAGES
<1>3. /\ depends_on["aggregate"] = {} /\ depends_on["score"] = {"aggregate"}
      /\ depends_on["depbump"] = {} /\ depends_on["declared"] = {}
      /\ depends_on["predict"] = {"depbump", "declared"}
      /\ depends_on["mining"] = {"aggregate", "score"}
  BY DEF depends_on, Stage
<1>4. i \in {1, 2, 3, 4, 5, 6}
  BY <1>1
<1>5. d \in Stage /\ Units(d) = Units(STAGES[i])
  BY <1>2, <1>3, <1>4 DEF Stage, Units
<1>6. CASE i = 2
  BY <1>1, <1>2, <1>3, <1>5, <1>6, 1 \in 1..6
<1>7. CASE i = 5
  BY <1>1, <1>2, <1>3, <1>5, <1>7, 3 \in 1..6, 4 \in 1..6
<1>8. CASE i = 6
  <2>1. d = "aggregate" \/ d = "score"
    BY <1>2, <1>3, <1>8
  <2>2. 1 < i /\ 2 < i /\ 1 \in 1..Len(STAGES) /\ 2 \in 1..Len(STAGES)
    BY <1>1, <1>8
  <2>3. CASE d = "aggregate"
    BY <1>2, <1>5, <2>2, <2>3
  <2>4. CASE d = "score"
    BY <1>2, <1>5, <2>2, <2>4
  <2> QED
    BY <2>1, <2>3, <2>4
<1>9. CASE i \in {1, 3, 4}
  BY <1>2, <1>3, <1>5, <1>9
<1> QED
  BY <1>4, <1>6, <1>7, <1>8, <1>9

LEMMA OrderedInit == Init => Ordered
<1>1. Pool = 7 /\ Len(STAGES) = 6
  BY DEF Pool, STAGES
<1> QED
  BY <1>1 DEF Init, Ordered

\* The rows of a unit are computed from what is there of the stages it depends on.
LEMMA ComputedFrom ==
    ASSUME Typed, Ordered, NEW s \in Stage, NEW u \in Rows, Compute(s, u)
    PROVE  /\ of' \in [Stage -> [Rows -> [Stage -> Nat]]]
           /\ \A d \in Stage : d \in depends_on[s] => of'[s][u][d] = by[d][u]
           /\ \A t \in Stage, w \in Rows : <<t, w>> # <<s, u>> => of'[t][w] = of[t][w]
<1> DEFINE from == [d \in Stage |-> IF d \in depends_on[s] THEN by[d][u] ELSE 0]
<1>1. of' = [of EXCEPT ![s][u] = from]
  BY DEF Compute
<1>2. from \in [Stage -> Nat] /\ \A d \in Stage : d \in depends_on[s] => from[d] = by[d][u]
  BY DEF Typed
<1> HIDE DEF from
<1>3. of \in [Stage -> [Rows -> [Stage -> Nat]]]
  BY DEF Ordered
<1>4. of'[s][u] = from
  BY <1>1, <1>3
<1>5. \A t \in Stage, w \in Rows : <<t, w>> # <<s, u>> => of'[t][w] = of[t][w]
  BY <1>1, <1>3
<1>6. of' \in [Stage -> [Rows -> [Stage -> Nat]]]
  BY <1>1, <1>2, <1>3
<1> QED
  BY <1>2, <1>4, <1>5, <1>6

\* When the stage at a position is computed, every stage before it is marked and so built.
LEMMA UpstreamIsBuilt ==
    ASSUME StagesInv, Ordered, NEW i \in 1..Len(STAGES), i <= at, NEW u \in Units(STAGES[i]),
           NEW d \in depends_on[STAGES[i]]
    PROVE  by[d][u] = version[d]
<1>1. d \in Stage /\ u \in Units(d)
  BY UpstreamFirst
<1>2. PICK j \in 1..Len(STAGES) : j < i /\ STAGES[j] = d
  BY UpstreamFirst
<1>3. j < at
  BY <1>2 DEF Ordered, Pool, STAGES
<1>4. stored[d] = version[d]
  BY <1>2, <1>3 DEF Ordered
<1> QED
  BY <1>1, <1>4 DEF StagesInv, MarkedIsBuilt

LEMMA OrderedStep == StagesInv /\ Ordered /\ [Next]_vars => Ordered'
<1> SUFFICES ASSUME StagesInv, Ordered, [Next]_vars PROVE Ordered'
  OBVIOUS
<1>p. Pool = 7 /\ Len(STAGES) = 6
  BY DEF Pool, STAGES
<1>1. CASE Begin \/ Leave \/ \E s \in Stage : Release(s)
  <2>1. of' = of /\ at' \in {0, 1} /\ (rebuilding' => rebuilding /\ at' = 1 /\ at = 0)
    BY <1>1 DEF Begin, Leave, Release
  <2>2. rebuilding' = FALSE
    BY <1>1, <1>p DEF Begin, Leave, Release, StagesInv, Typed
  <2> QED
    BY <1>p, <2>1, <2>2 DEF Ordered
<1>2. CASE SkipCurrent
  <2>1. at \in 1..Len(STAGES) /\ STAGES[at] \in Stage
    BY <1>2, StagesAreListed DEF SkipCurrent, Looking
  <2>2. stored[STAGES[at]] = version[STAGES[at]]
    BY <1>2, <2>1, StaleIsClosed DEF SkipCurrent
  <2>3. at' = at + 1 /\ ~rebuilding /\ UNCHANGED <<version, stored, of, rebuilding, left>>
    BY <1>2 DEF SkipCurrent, Looking
  <2>4. \A i \in 1..Len(STAGES) : i < at' => i < at \/ i = at
    BY <1>p, <2>1, <2>3
  <2> QED
    BY <1>p, <2>1, <2>2, <2>3, <2>4 DEF Ordered
<1>3. CASE BeginRebuild
  BY <1>3 DEF BeginRebuild, Ordered
<1>4. CASE Mark
  <2>1. at \in 1..Len(STAGES) /\ STAGES[at] \in Stage
    BY <1>4, StagesAreListed DEF Mark, StagesInv, Typed
  <2>2. stored' = [stored EXCEPT ![STAGES[at]] = version[STAGES[at]]]
        /\ at' = at + 1 /\ rebuilding' = FALSE /\ UNCHANGED <<version, of>>
    BY <1>4 DEF Mark, SetWatermark
  <2>3. \A i \in 1..Len(STAGES) : i < at' => i < at \/ i = at
    BY <1>p, <2>1, <2>2
  <2>4. \A i \in 1..Len(STAGES) : i < at' => stored'[STAGES[i]] = version[STAGES[i]]
    BY <2>1, <2>2, <2>3, StagesAreListed DEF Ordered, StagesInv, Typed
  <2> QED
    BY <1>p, <2>1, <2>2, <2>4 DEF Ordered
<1>5. ASSUME NEW u \in Rows, RebuildUnit(u) PROVE Ordered'
  <2>1. STAGES[at] \in Stage
    BY <1>5, StagesAreListed DEF RebuildUnit, StagesInv, Typed
  <2>2. Compute(STAGES[at], u) /\ left' = left \ {u} /\ UNCHANGED <<version, stored, at, rebuilding>>
    BY <1>5 DEF RebuildUnit
  <2>3. of' \in [Stage -> [Rows -> [Stage -> Nat]]]
    BY <2>1, <2>2, ComputedFrom DEF StagesInv
  <2> QED
    BY <2>2, <2>3 DEF Ordered
<1>6. ASSUME NEW s \in {"aggregate", "score"}, NEW r \in Repo, SyncStage(s, r) PROVE Ordered'
  <2>1. s \in Stage /\ r \in Rows
    BY DEF Stage, Rows
  <2>2. Compute(s, r) /\ UNCHANGED <<version, stored, at, rebuilding, left>>
    BY <1>6 DEF SyncStage
  <2>3. of' \in [Stage -> [Rows -> [Stage -> Nat]]]
    BY <2>1, <2>2, ComputedFrom DEF StagesInv
  <2> QED
    BY <2>2, <2>3 DEF Ordered
<1>7. CASE UNCHANGED vars
  BY <1>7 DEF vars, Ordered
<1> QED
  BY <1>1, <1>2, <1>3, <1>4, <1>5, <1>6, <1>7 DEF Next

\* No repository is synced while a stage has rows of another version than the program's.
THEOREM PoolWaitsForRebuilds == Spec => []PoolIsCurrent
<1>1. StagesInv /\ Ordered => PoolIsCurrent
  <2> SUFFICES ASSUME StagesInv, Ordered, at = Pool, NEW s \in Stage, NEW u \in Units(s)
               PROVE  by[s][u] = version[s]
    BY DEF PoolIsCurrent
  <2>1. \E i \in 1..Len(STAGES) : STAGES[i] = s /\ i < at
    <3>1. /\ STAGES[1] = "aggregate" /\ STAGES[2] = "score" /\ STAGES[3] = "depbump"
          /\ STAGES[4] = "declared" /\ STAGES[5] = "predict" /\ STAGES[6] = "mining"
          /\ Len(STAGES) = 6 /\ Pool = 7
      BY DEF STAGES, Pool
    <3> QED
      BY <3>1, 1 \in 1..6, 2 \in 1..6, 3 \in 1..6, 4 \in 1..6, 5 \in 1..6, 6 \in 1..6 DEF Stage
  <2>2. stored[s] = version[s]
    BY <2>1 DEF Ordered
  <2> QED
    BY <2>2 DEF StagesInv, MarkedIsBuilt
<1> QED
  BY <1>1, StagesInit, StagesStep, OrderedInit, OrderedStep, PTL DEF Spec

\* Rows are only ever computed from rows of the running version of every stage they depend
\* on: the order of the stages is the order of their dependencies.
THEOREM RebuildsFollowDependencies == Spec => RebuiltInOrder
<1> DEFINE InOrder ==
             \A s \in Stage : \A u \in Units(s) :
                 of'[s][u] # of[s][u] => \A d \in depends_on[s] : of'[s][u][d] = version[d]
<1>1. ASSUME StagesInv, Ordered, NEW i \in 1..Len(STAGES), i <= at, NEW u \in Units(STAGES[i]),
             Compute(STAGES[i], u)
      PROVE  InOrder
  <2> DEFINE s == STAGES[i]
  <2>1. s \in Stage /\ u \in Rows
    BY StagesAreListed, UnitsAreRows
  <2>2. /\ \A d \in Stage : d \in depends_on[s] => of'[s][u][d] = by[d][u]
        /\ \A t \in Stage, w \in Rows : <<t, w>> # <<s, u>> => of'[t][w] = of[t][w]
    BY <1>1, <2>1, ComputedFrom DEF StagesInv
  <2>3. \A d \in depends_on[s] : of'[s][u][d] = version[d]
    BY <1>1, <2>2, UpstreamFirst, UpstreamIsBuilt
  <2> SUFFICES ASSUME NEW t \in Stage, NEW w \in Units(t), of'[t][w] # of[t][w]
               PROVE  \A d \in depends_on[t] : of'[t][w][d] = version[d]
    OBVIOUS
  <2>4. w \in Rows
    BY UnitsAreRows
  <2>5. t = s /\ w = u
    BY <2>2, <2>4
  <2> QED
    BY <2>3, <2>5
<1>2. StagesInv /\ Ordered /\ [Next]_vars => [InOrder]_vars
  <2> SUFFICES ASSUME StagesInv, Ordered, [Next]_vars PROVE [InOrder]_vars
    OBVIOUS
  <2>1. ASSUME NEW u \in Rows, RebuildUnit(u) PROVE InOrder
    <3>1. at \in 1..Len(STAGES) /\ at <= at /\ u \in Units(STAGES[at]) /\ Compute(STAGES[at], u)
      BY <2>1 DEF RebuildUnit, StagesInv, Typed, Ordered
    <3> QED
      BY <1>1, <3>1
  <2>2. ASSUME NEW s \in {"aggregate", "score"}, NEW r \in Repo, SyncStage(s, r) PROVE InOrder
    <3>1. /\ STAGES[1] = "aggregate" /\ STAGES[2] = "score" /\ Len(STAGES) = 6 /\ Pool = 7
      BY DEF STAGES, Pool
    <3>2. \E i \in 1..Len(STAGES) : STAGES[i] = s /\ i <= at
      BY <2>2, <3>1, 1 \in 1..6, 2 \in 1..6 DEF SyncStage
    <3>3. r \in Units(s) /\ Compute(s, r)
      BY <2>2 DEF SyncStage, Units
    <3> QED
      BY <1>1, <3>2, <3>3
  <2>3. CASE UNCHANGED vars
    BY <2>3
  <2>4. CASE of' = of
    BY <2>4
  <2> QED
    BY <2>1, <2>2, <2>3, <2>4
    DEF Next, Begin, SkipCurrent, BeginRebuild, Mark, Leave, Release
<1> QED
  BY <1>2, StagesInit, StagesStep, OrderedInit, OrderedStep, PTL DEF Spec, RebuiltInOrder

\* Both hold of a deployment, whichever services come up beside the runner.
COROLLARY DeploymentsRebuildInOrder == DeploymentSpec => []PoolIsCurrent /\ RebuiltInOrder
BY DeploymentRunsStages, PoolWaitsForRebuilds, RebuildsFollowDependencies, PTL
=============================================================================
