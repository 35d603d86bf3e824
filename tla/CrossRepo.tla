----------------------------- MODULE CrossRepo -------------------------------
(***************************************************************************)
(* The cross-repository layers of a run: _refresh_crossrepo and              *)
(* _crossrepo_rebuild_needed of ingest/pipeline.py with depbump, predict,    *)
(* xrepo and mining of analysis/.                                            *)
(*                                                                           *)
(* While pool threads sync repositories, the main thread refreshes the       *)
(* layers of every repository that brought commits; at the end of the run    *)
(* it refreshes them for all, if commits came or a watermark says that an    *)
(* earlier refresh is incomplete.  A stage that raises is logged and         *)
(* skipped.                                                                  *)
(*                                                                           *)
(* A repository is a number of versions; version v is one commit that moves  *)
(* the dependency on its upstream to the upstream's version v.  A sync is    *)
(* reduced to the steps whose order with the refresh matters (RepoSync has   *)
(* the others).  Scores, ranks and pair counts are what they are computed    *)
(* from.                                                                     *)
(***************************************************************************)
EXTENDS Naturals, FiniteSets

CONSTANTS
    Tracked,        \* the repositories
    Upstream,       \* Upstream[r]: the tracked repository r depends on, or NoRepo
    NoRepo,
    MaxVersion,     \* bound: versions of a repository
    MaxLayerFaults, \* bound: failures and crashes in a behaviour
    Forced          \* may a run be started with force_full?

Version  == 1..MaxVersion
Manifest == {r \in Tracked : Upstream[r] # NoRepo}  \* repositories with manifest files

ASSUME CrossAssumption ==
    /\ Upstream \in [Tracked -> Tracked \cup {NoRepo}] /\ NoRepo \notin Tracked
    /\ MaxVersion \in Nat \ {0} /\ MaxLayerFaults \in Nat /\ Forced \in BOOLEAN

VARIABLES
    host,           \* versions at the git host
    mirror,         \* versions in the mirror
    head,           \* repo.head_sha, 0 for NULL
    loaded,         \* versions in the commit table
    status,         \* repo.ingest_status
    agg,            \* the versions aggregated and scored
    bumps,          \* dep_bump: for each version no row, or one with or without bumped_at
    resolved,       \* the dep_bump rows that have a dep_commit_id
    adopted,        \* those that have adoption_seconds
    last_depbump_sha,
    declared,       \* the version repo_dependency was read from
    last_declared_sha,
    impact,         \* repo_impact: the facts its rows were computed from
    predict_inputs, \* the fingerprint stored in meta
    pairs,          \* xrepo_file_pair: the bumps counted for each consumer
    mined, mining_due,      \* what mining saw; last_mining_at < last_aggregate_at
    sync,           \* where each repository's worker is
    added,          \* its RepoResult.commits_added > 0
    phase,          \* what the main thread does
    scope,          \* the repositories of the refresh, Everything at the end of a run
    todo,           \* those the current stage still has to commit
    scanned,        \* those depbump.rebuild read
    seen,           \* head_sha of those it still has to scan, as read when it began
    force, layerFaults

repos      == <<mirror, head, loaded, status, agg>>
edges      == <<bumps, resolved, adopted, last_depbump_sha>>
layers     == <<declared, last_declared_sha, impact, predict_inputs, pairs, mined>>
work       == <<sync, added>>
main       == <<phase, scope, todo, scanned, seen>>
layersVars == <<host, repos, edges, layers, mining_due, work, main, force, layerFaults>>

Synced     == {"unchanged", "success", "failed"}
SyncStates == {"none", "queued", "fetched", "recorded", "loaded", "read"} \cup Synced
Stages     == {"depbump", "declared", "predict", "xrepo", "mining"}

LayersTypeOK ==
    /\ {host, mirror, head, loaded, agg} \subseteq [Tracked -> 0..MaxVersion]
    /\ status \in [Tracked -> {"pending", "ingesting", "ready", "failed"}]
    /\ bumps \in [Tracked -> [Version -> {"none", "undated", "dated"}]]
    /\ {resolved, adopted, pairs} \subseteq [Tracked -> SUBSET Version]
    /\ {last_depbump_sha, declared, last_declared_sha, mined, seen} \subseteq [Tracked -> 0..MaxVersion]
    /\ mining_due \subseteq Tracked /\ added \subseteq Tracked
    /\ sync \in [Tracked -> SyncStates] /\ phase \in {"idle", "pool"} \cup Stages
    /\ scope \subseteq Tracked \cup {NoRepo} /\ todo \subseteq Tracked /\ scanned \subseteq Tracked
    /\ force \in BOOLEAN /\ layerFaults \in 0..MaxLayerFaults

NoBumps  == [v \in Version |-> "none"]

\* What predict and its fingerprint read of consumer c, and of all consumers.
FactsOf(c) == <<declared[c], bumps[c], adopted[c]>>
Facts      == [c \in Tracked |-> FactsOf(c)]
NoFacts    == [c \in Tracked |-> <<0, NoBumps, {}>>]

LayersInit ==
    /\ host = [r \in Tracked |-> 1]
    /\ LET none == [r \in Tracked |-> 0] IN
       /\ mirror = none /\ head = none /\ loaded = none /\ agg = none
       /\ last_depbump_sha = none /\ declared = none /\ last_declared_sha = none /\ mined = none
       /\ seen = none
    /\ status = [r \in Tracked |-> "pending"]
    /\ bumps = [r \in Tracked |-> NoBumps]
    /\ resolved = [r \in Tracked |-> {}] /\ adopted = resolved /\ pairs = resolved
    /\ impact = NoFacts /\ predict_inputs = NoFacts
    /\ mining_due = {} /\ added = {} /\ sync = [r \in Tracked |-> "none"]
    /\ phase = "idle" /\ scope = {} /\ todo = {} /\ scanned = {}
    /\ force = FALSE /\ layerFaults = 0

Push(r) ==
    /\ host[r] < MaxVersion
    /\ host' = [host EXCEPT ![r] = @ + 1]
    /\ UNCHANGED <<repos, edges, layers, mining_due, work, main, force, layerFaults>>

-----------------------------------------------------------------------------
(* A run, and the workers of its pool. *)

StartRun ==
    /\ phase = "idle"
    /\ phase' = "pool" /\ sync' = [r \in Tracked |-> "queued"] /\ added' = {}
    /\ force' \in {FALSE, Forced}
    /\ UNCHANGED <<host, repos, edges, layers, mining_due, scope, todo, scanned, seen, layerFaults>>

Unchanged(r) == ~force /\ loaded[r] = host[r] /\ status[r] = "ready"

WorkerAt(r, from, to) == sync[r] = from /\ sync' = [sync EXCEPT ![r] = to]

SkipUnchanged(r) ==
    /\ Unchanged(r) /\ WorkerAt(r, "queued", "unchanged")
    /\ UNCHANGED <<host, repos, edges, layers, mining_due, added, main, force, layerFaults>>

Fetch(r) ==
    /\ ~Unchanged(r) /\ WorkerAt(r, "queued", "fetched")
    /\ mirror' = [mirror EXCEPT ![r] = host[r]]
    /\ UNCHANGED <<host, head, loaded, status, agg, edges, layers, mining_due, added, main, force, layerFaults>>

RecordHead(r) ==
    /\ WorkerAt(r, "fetched", "recorded")
    /\ head' = [head EXCEPT ![r] = mirror[r]] /\ status' = [status EXCEPT ![r] = "ingesting"]
    /\ UNCHANGED <<host, mirror, loaded, agg, edges, layers, mining_due, added, main, force, layerFaults>>

Load(r) ==
    /\ WorkerAt(r, "recorded", "loaded")
    /\ added' = IF loaded[r] < head[r] THEN added \cup {r} ELSE added
    /\ loaded' = [loaded EXCEPT ![r] = head[r]]
    /\ UNCHANGED <<host, mirror, head, status, agg, edges, layers, mining_due, main, force, layerFaults>>

\* rebuild_repo sets last_aggregate_at.
Aggregate(r) ==
    /\ WorkerAt(r, "loaded", "success")
    /\ IF r \in added \/ force \/ agg[r] # loaded[r]
       THEN agg' = [agg EXCEPT ![r] = loaded[r]] /\ mining_due' = mining_due \cup {r}
       ELSE UNCHANGED <<agg, mining_due>>
    /\ status' = [status EXCEPT ![r] = "ready"]
    /\ UNCHANGED <<host, mirror, head, loaded, edges, layers, added, main, force, layerFaults>>

-----------------------------------------------------------------------------
(* The main thread. *)

\* Mutant: the fingerprint is not compared.
NeededWithoutFingerprint ==
    \/ \E r \in Manifest : loaded[r] > 0 /\ (last_depbump_sha[r] \notin {head[r]} \ {0}
                                             \/ last_declared_sha[r] \notin {head[r]} \ {0})
    \/ mining_due # {}

\* _crossrepo_rebuild_needed.  Only a loaded repository has rows for its manifest files.
Needed ==
    \/ \E r \in Manifest : loaded[r] > 0 /\ (last_depbump_sha[r] \notin {head[r]} \ {0}
                                             \/ last_declared_sha[r] \notin {head[r]} \ {0})
    \/ mining_due # {}
    \/ predict_inputs # Facts

\* _manifest_repos of the repositories rs.
Due(rs, watermark) == {r \in rs \cap Manifest :
    /\ loaded[r] > 0 /\ status[r] # "ingesting"
    /\ force \/ watermark[r] # head[r] \/ head[r] = 0}

BeginRefresh(rs) ==
    /\ scope' = rs /\ phase' = "depbump"
    /\ todo' = Due(rs, last_depbump_sha) /\ scanned' = todo'
    /\ seen' = [r \in Tracked |-> IF r \in todo' THEN head[r] ELSE 0]

\* A refresh for a repository has its id in repo_ids, also when it is the only one there
\* is; the refresh at the end of a run has no repo_ids.
Everything == Tracked \cup {NoRepo}

Scoped == scope # Everything

\* A result that brought commits is followed by a refresh of its own layers.
ReadSynced(r) ==
    /\ phase = "pool" /\ sync[r] \in Synced
    /\ sync' = [sync EXCEPT ![r] = "read"]
    /\ IF sync[r] = "success" /\ r \in added
       THEN BeginRefresh({r}) ELSE UNCHANGED main
    /\ UNCHANGED <<host, repos, edges, layers, mining_due, added, force, layerFaults>>

\* After the pool: refresh everything, or leave the layers alone.
EndPool ==
    /\ phase = "pool" /\ \A r \in Tracked : sync[r] = "read"
    /\ IF added # {} \/ force \/ Needed
       THEN BeginRefresh(Everything)
       ELSE phase' = "idle" /\ UNCHANGED <<scope, todo, scanned, seen>>
    /\ UNCHANGED <<host, repos, edges, layers, mining_due, work, force, layerFaults>>

\* The consumers xrepo.rebuild goes through.
ToPair == {c \in Tracked : pairs[c] # {}} \cup
          IF Scoped THEN scope ELSE {c \in Tracked : resolved[c] # {}}

\* The next stage; the session of this one is closed.
GoOn(next) ==
    /\ phase' = next /\ todo' = IF next = "xrepo" THEN ToPair ELSE {}
    /\ seen' = [r \in Tracked |-> 0] /\ UNCHANGED <<scope, scanned>>

\* depbump.rebuild commits one repository at a time.  Rows that exist are left alone; a
\* new row is dated when its commit is stored.  The session keeps the head_sha it read.
Scan(r) ==
    /\ phase = "depbump" /\ r \in todo /\ todo' = todo \ {r}
    /\ bumps' = [bumps EXCEPT ![r] = [v \in Version |->
           IF v > mirror[r] \/ @[v] # "none" THEN @[v]
           ELSE IF v <= loaded[r] THEN "dated" ELSE "undated"]]
    /\ last_depbump_sha' = [last_depbump_sha EXCEPT ![r] = seen[r]]
    /\ seen' = [seen EXCEPT ![r] = 0]
    /\ UNCHANGED <<host, repos, resolved, adopted, layers, mining_due, work, phase, scope, scanned, force, layerFaults>>

Recorded(c) == {v \in Version : bumps[c][v] # "none"}

\* What resolving finds for consumer c: the upstream versions that are stored.
Resolvable(c) ==
    IF c \in Manifest THEN {v \in Recorded(c) : v <= loaded[Upstream[c]]} ELSE {}

\* _bump_scope: nothing scanned means no filter at all.
InScope(c) == ~Scoped \/ scanned = {} \/ c \in scanned \/ Upstream[c] \in scanned

ResolveBumps ==
    /\ phase = "depbump" /\ todo = {}
    /\ resolved' = [c \in Tracked |-> IF InScope(c) THEN Resolvable(c) ELSE resolved[c]]
    /\ adopted' = [c \in Tracked |-> {v \in resolved'[c] : v <= loaded[c]}]
    /\ GoOn("declared")
    /\ UNCHANGED <<host, repos, bumps, last_depbump_sha, layers, mining_due, work, force, layerFaults>>

\* Mutant: only the watermark is written.
RefreshDeclaredMarksOnly ==
    /\ phase = "declared"
    /\ GoOn("predict")
    /\ last_declared_sha' =
           [r \in Tracked |-> IF r \in Due(scope, last_declared_sha) THEN head[r] ELSE last_declared_sha[r]]
    /\ UNCHANGED <<host, repos, edges, declared, impact, predict_inputs, pairs, mined, mining_due, work, force, layerFaults>>

RefreshDeclared ==
    /\ phase = "declared"
    /\ GoOn("predict")
    /\ LET due == Due(scope, last_declared_sha) IN
       /\ declared' = [r \in Tracked |-> IF r \in due THEN mirror[r] ELSE declared[r]]
       /\ last_declared_sha' = [r \in Tracked |-> IF r \in due THEN head[r] ELSE last_declared_sha[r]]
    /\ UNCHANGED <<host, repos, edges, impact, predict_inputs, pairs, mined, mining_due, work, force, layerFaults>>

\* The consumers whose rows a scoped rebuild replaces: those of the same upstreams, when
\* there are facts or earlier rows to tell the upstreams from.
Ranked(c) == \E r \in scope :
    /\ Upstream[r] # NoRepo /\ Upstream[c] = Upstream[r]
    /\ {FactsOf(r), impact[r]} # {NoFacts[r]}

\* Mutant: a scoped rebuild stores the fingerprint as well.
PredictMarksScoped ==
    /\ phase = "predict"
    /\ impact' = [c \in Tracked |-> IF ~Scoped \/ Ranked(c) THEN FactsOf(c) ELSE impact[c]]
    /\ predict_inputs' = Facts
    /\ GoOn("xrepo")
    /\ UNCHANGED <<host, repos, edges, declared, last_declared_sha, pairs, mined, mining_due, work, force, layerFaults>>

\* predict.rebuild: everything, unless the fingerprint is the stored one, or in scope.
Predict ==
    /\ phase = "predict"
    /\ IF Scoped
       THEN /\ impact' = [c \in Tracked |-> IF Ranked(c) THEN FactsOf(c) ELSE impact[c]]
            /\ UNCHANGED predict_inputs
       ELSE IF force \/ predict_inputs # Facts
            THEN impact' = Facts /\ predict_inputs' = Facts
            ELSE UNCHANGED <<impact, predict_inputs>>
    /\ GoOn("xrepo")
    /\ UNCHANGED <<host, repos, edges, declared, last_declared_sha, pairs, mined, mining_due, work, force, layerFaults>>

\* The bumps whose two commits are both stored.
Linked(c) == {v \in resolved[c] : v <= loaded[c]}

\* xrepo.rebuild commits one consumer at a time.
Pair(c) ==
    /\ phase = "xrepo" /\ c \in todo /\ todo' = todo \ {c}
    /\ pairs' = [pairs EXCEPT ![c] = Linked(c)]
    /\ UNCHANGED <<host, repos, edges, declared, last_declared_sha, impact, predict_inputs, mined,
                   mining_due, work, phase, scope, scanned, seen, force, layerFaults>>

PairsDone ==
    /\ phase = "xrepo" /\ todo = {}
    /\ GoOn(IF Scoped THEN "pool" ELSE "mining")
    /\ UNCHANGED <<host, repos, edges, layers, mining_due, work, force, layerFaults>>

\* mining.rebuild, and the end of the run.
Mine ==
    /\ phase = "mining"
    /\ LET targets == {r \in Tracked : agg[r] > 0 /\ (force \/ r \in mining_due)} IN
       /\ mined' = [r \in Tracked |-> IF r \in targets THEN agg[r] ELSE mined[r]]
       /\ mining_due' = mining_due \ targets
    /\ GoOn("idle")
    /\ UNCHANGED <<host, repos, edges, declared, last_declared_sha, impact, predict_inputs, pairs, work, force, layerFaults>>

-----------------------------------------------------------------------------
(* Faults. *)

LayerFault == layerFaults < MaxLayerFaults /\ layerFaults' = layerFaults + 1

FailSync(r) ==
    /\ LayerFault /\ sync[r] \in {"fetched", "recorded", "loaded"}
    /\ sync' = [sync EXCEPT ![r] = "failed"] /\ status' = [status EXCEPT ![r] = "failed"]
    /\ UNCHANGED <<host, mirror, head, loaded, agg, edges, layers, mining_due, added, main, force>>

After(stage) ==
    CASE stage = "depbump"  -> "declared"
      [] stage = "declared" -> "predict"
      [] stage = "predict"  -> "xrepo"
      [] stage = "xrepo"    -> IF Scoped THEN "pool" ELSE "mining"
      [] stage = "mining"   -> "idle"

\* A stage raises: what it had not committed is rolled back, and the next one runs.
FailStage ==
    /\ LayerFault /\ phase \in Stages
    /\ GoOn(After(phase))
    /\ UNCHANGED <<host, repos, edges, layers, mining_due, work, force>>

\* The process dies.
CrashLayers ==
    /\ LayerFault /\ phase # "idle"
    /\ GoOn("idle") /\ sync' = [r \in Tracked |-> "none"]
    /\ UNCHANGED <<host, repos, edges, layers, mining_due, added, force>>

-----------------------------------------------------------------------------
Sync(r) == SkipUnchanged(r) \/ Fetch(r) \/ RecordHead(r) \/ Load(r) \/ Aggregate(r)

Main ==
    \/ EndPool \/ ResolveBumps \/ RefreshDeclared \/ Predict \/ PairsDone \/ Mine
    \/ \E r \in Tracked : ReadSynced(r) \/ Scan(r) \/ Pair(r)

LayersNext ==
    \/ \E r \in Tracked : Push(r) \/ Sync(r) \/ FailSync(r)
    \/ StartRun \/ Main \/ FailStage \/ CrashLayers

LayersSpec == LayersInit /\ [][LayersNext]_layersVars

\* The scheduler starts run after run, and the threads of a run go on.
FairLayersSpec ==
    /\ LayersSpec /\ WF_layersVars(StartRun) /\ WF_layersVars(Main)
    /\ \A r \in Tracked : WF_layersVars(Sync(r))
-----------------------------------------------------------------------------
(* Properties. *)

Ready == \A r \in Tracked : status[r] = "ready" /\ head[r] = mirror[r]

\* No quiet run would recompute anything.
Calm == phase = "idle" /\ Ready /\ ~Needed

Dated    == \A c \in Manifest : \A v \in Version :
                bumps[c][v] = (IF v <= loaded[c] THEN "dated" ELSE "none")
Resolved == \A c \in Tracked : resolved[c] = Resolvable(c)
Paired   == \A c \in Tracked : pairs[c] = Linked(c)
Declared == \A c \in Manifest : declared[c] = loaded[c]
Ranks    == impact = Facts
Mined    == mined = agg

\* When no watermark asks for a refresh, the layers that have one are current, whatever
\* failed before and whichever refreshes were for one repository only.
CalmIsCurrent == Calm => Declared /\ Ranks /\ Mined

\* Without failures a run leaves every layer current, in whatever order its results come.
FinishedIsCurrent == Calm /\ layerFaults = 0 => Dated /\ Resolved /\ Paired /\ Declared /\ Ranks /\ Mined

\* "Return whether a previous cross-repository stage is incomplete": pairs that a failed
\* stage left behind are noticed.
PairsAreWatched == Calm => Paired

\* The same for bumps that were stored but not resolved.
ResolutionIsWatched == Calm => Resolved

\* A manifest is not scanned while "the mirror exists but its commits do not", so that
\* every bump of a stored commit has its date.
BumpsAreDated == Calm => Dated

\* Failures end, and then the layers catch up with the host and stay there.
LayersCatchUp ==
    <>[](\A r \in Tracked : loaded[r] = host[r]) /\ <>[](Declared /\ Ranks) /\ []<>Mined
=============================================================================
