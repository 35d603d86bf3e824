# Git Synapse in TLA+

Git Synapse mirrors git repositories, loads their history into PostgreSQL, counts which
files change together, scores the pairs, and computes dependency layers across
repositories on top. This directory holds TLA+ models of the parts of that program whose
correctness depends on the order of steps, on what survives a failure, on who runs at the
same time, or on arithmetic at its edges; TLC configurations that check them on small
instances; and proofs, checked by TLAPS, of the results that hold for every instance.

Paths below are relative to `src/git_synapse/` unless they name a file at the top.

- [The system](#the-system)
- [Modules](#modules)
- [Runs](#runs)
- [Fairness](#fairness)
- [Proofs](#proofs)
- [Where the code and its documentation disagree](#where-the-code-and-its-documentation-disagree)
- [Not modelled](#not-modelled)
- [Plan](#plan)
- [Running the checks](#running-the-checks)

## The system

| Part | State it keeps | Operations | What is hard about it |
|---|---|---|---|
| Repository sync — `ingest/pipeline.py`, `gitops.py`, `parser.py`, `store.py` | the bare mirror and the directories of a swap; `repo` row with `head_sha`, `last_ingested_sha`, `last_ingested_refs`, `last_aggregate_sha`, `ingest_status`; `commit`, `ref_tag`; pair and metric tables | `sync_repo`: cheap check, fetch or clone, record the head, load, mark replays, drop unreachable commits, rebuild, score, stamp, finish | seven transactions with git calls in between; force-pushes and tags; failures, retries and crashes between any two of them |
| Ingest runs — `pipeline.run_ingest`, `scheduler/main.py`, `POST /ingest/refresh` | row lock `meta["lock:ingest"]`, `ingest_run`, `ingest_run_repo`, heartbeat, the thread pool's futures | take the lock, reconcile old rows, check schema and token, discover, pool, breaker, verdict | several processes start runs; the lock is an idle transaction; rows outlive their process |
| File identity — `store.FileResolver`, `load_commits` | `file`, `file_alias`, `commit_file`; names and pending moves in memory during a load | resolve a changed path to a row, move rows on renames, keep old names | unique keys at flush time, branches that disagree about names, loads that end anywhere |
| Cross-repository layers — `analysis/depbump.py`, `predict.py`, `xrepo.py`, `mining.py` | `dep_bump`, `repo_dependency`, `repo_impact`, `xrepo_file_pair`, watermarks, a fingerprint in `meta` | refresh for one repository during the pool, for all at the end of a run | scoped refreshes while other repositories are half loaded; stages whose exceptions are swallowed |
| Derived stage versions — `analysis/derived.py` | a version per stage in `meta` | rebuild the stages whose code has changed | rebuilds in many transactions, dependencies between stages |
| Starting up — `db/engine.py apply_schema` | the tables, `meta["schema_version"]` | look for missing tables, create them, record the version, retry on locks | every service does it, at the same moment, in transactions of its own |
| Author identity — `store.AuthorCache` | `author` | insert or find by email | concurrent loads wait for each other's uncommitted rows |
| Discovery and accounts — `pipeline.discover`, `accounts.py`, `providers.py`, `github.py` | `account` with its token, filters and count; the `repo` table | list page by page, filter, upsert, recount, refuse a listing that shrank; add, edit and remove sources | partial failures of several accounts, a host that moves between pages, edits from the dashboard |
| Counts and scores — `aggregate.py`, `score.py`, `stats/` | `file_pair`, `dir_pair`, their metric tables, `pair_population` | recompute per repository | zero cells, degenerate tables, capped commits |
| Mining — `mining.py` | cluster, drift and risk tables, `last_mining_at` | recompute when due | what makes it due is not what it reads |
| Backtest — `analysis/backtest.py` | counters in memory | replay history commit by commit | has to agree with counts taken at once |
| Call log — `analysis/calls.py` | a bounded queue, a thread, `call_log` | record, flush, drain at exit, prune | a full queue, a failing insert, process exit beside a flush |
| Users — `auth.py`, `api/routes` | `app_user`; sessions, tokens, sign-in attempts | create, change, remove, restore the administrator at a start | the last administrator, checked in one transaction and removed in another |
| Queries, API, MCP, web — `analysis/query.py`, `api/`, `mcp/`, `web/` | none | read | none: one snapshot per request |

How they interact: services **start up** side by side. A run (**Ingest runs**) asks
**Derived stage versions** to rebuild what a new release has outdated, then calls
**Discovery**, then gives every repository to a pool thread that performs one **Repository
sync**. Loading goes through **File identity** and **Author identity** in the load's
transaction; **Counts and scores** are its last steps. While the pool works, the main thread
reads results and, for each that brought commits, refreshes the **Cross-repository layers**
of that repository; when the pool is done it refreshes them for all, **Mining** among them,
and prunes the **Call log**. The API process answers requests, some of which change
**Users** or accounts, and puts a row on the call log's queue for each. Nothing but the
database and the mirrors is shared between processes, and `db/orm.py session_scope` (commit,
or roll back and raise) is the unit of atomicity: an action of a module is one such block,
or one call to git or to a host, or one step on a thread's own variables.

What makes each part correct, in the order of importance:

1. the commit table is what git says, however the history was rewritten and wherever a
   sync failed, and nothing that is shown as ready rests on other commits;
2. one run at a time, a result for every repository, and a history of runs that is true;
3. one row per file, and loads that never fail on their own renames;
4. layers across repositories that catch up after any failure;
5. rows computed by the code that is running, on tables that are there;
6. every wanted repository tracked in the end, and one bad account that stays its own;
7. scores that are what the registry says of them, on every table a history can give;
8. an administrator at all times, and a log that says what it lost.

## Modules

| Module | Models | Kind |
|---|---|---|
| `GitHistory` | what git is asked: reachability, walks, `--cherry-mark` | operators over an arbitrary finite history |
| `CommitCatalog` | what the commit table promises: the effect of full loads | abstract specification |
| `RepoSync` | one repository's sync | detailed specification; implements `CommitCatalog` |
| `RunLedger` | what `ingest_run` promises: who may close a row, and which verdicts are final | abstract specification |
| `IngestRuns` | callers, lock, reconciliation, pool, breaker, verdict | detailed specification; implements `RunLedger` |
| `FileIdentity` | `FileResolver` and the change rows of `load_commits` | specification |
| `CrossRepo` | the refreshes of a run beside a reduced sync | specification |
| `DerivedStages` | `ensure_current` | specification |
| `Schema` | `apply_schema` by services that start together | component |
| `Deployment` | both of the above | composition; implements `DerivedStages` |
| `AuthorPool` | `AuthorCache` in concurrent loads | specification |
| `Discovery` | a pass over the accounts, the host, the dashboard's edits | specification |
| `Access`, `CallLog` | user changes; the log | components |
| `ApiProcess` | requests of `Access` recorded in `CallLog`, stops and restarts | composition |
| `Contingency`, `Measures` | 2×2 tables, 25 measures, what the registry says of them | operators |
| `CoChange`, `Mining`, `Backtest` | counting, mining and replaying a set of commits | operators |
| `RepoStatistics` | one repository's statistics as its history moves | composition of `RepoSync` with the five above |
| `MC…` | histories, dependency graphs and symmetry sets for TLC | instances |
| `…Proofs` | theorems | proofs |

Definitions keep the names of the functions, columns and locals they stand for. Operators
marked *Mutant* are variants of the definition that follows them with a plausible mistake
in it; they are used to show that a property notices the mistake, and no specification
refers to them.

### RepoSync

A history is a finite set of commits with their ancestor sets, so that reachability is a
union and needs no recursion. The host's refs move underneath (`Push`, `CreateTag`,
`DeleteTag`, `RenameDefault`), forced or not. `mirror` is the bare clone: heads, tags, the
branch its `HEAD` names, which objects it has (git may collect unreferenced ones at a
fetch), and whether it exists. `row` is the `repo` row. The worker's place is `job.at`:

| `job.at` | next action | code |
|---|---|---|
| `idle` | `SkipUnchanged`, `StartSync`, `StartForced`, `StartUnanswered` | `_unchanged`, `sync_repo` |
| `mirror` | `SyncMirror` (`FetchMirror` or `CloneMirror`) | `gitops.sync_mirror` |
| `record` | `RecordEmpty`, `RecordHead` | the transactions after the fetch, `last_ingested_refs` |
| `load` | `Load`, `LoadUnanswered` | `load_commits`, `_mark_replays`, `load_tags`, watermarks: one transaction |
| `drop` | `DropUnreachable`, `DropSkipped` | `_drop_unreachable_commits` |
| `rebuild` | `Rebuild`, `SkipRebuild` | `aggregate.rebuild_repo` |
| `score` | `Score` | `score.score_repo` |
| `stamp` | `Stamp` | `last_aggregate_sha` |
| `finish` | `Finish` | `ingest_status = 'ready'` |

Four things go wrong. `Fail` is an exception anywhere, retried up to `ContentionRetries`
times in all when it looks like a database conflict; `NetworkFails` is git's at the mirror
and is not retried; `Crash` leaves everything as it was; `DieInSwap` is the death of the
process between moving the old mirror aside and the new one in. `LoadUnanswered` is a
failure of the git call behind the replay marks or the tags, which the load passes over:
its watermarks are committed all the same. The ref tips may go unanswered as well
(`TipsRead`): the load then records none, and the next walk starts from the branch's tip
alone. Counts are abstracted to the set of commits they
were taken from and scores to the counts they rest on, which is what staleness is about;
`RepoStatistics` has the numbers.

A fetch that times out ends, in the code, in a clone on the same call; a tag's anchor on
the branch and blobless clones are left out.

### IngestRuns

`at[c]` is where caller `c` is: asking (`active_run` behind the API), trying the lock,
inside `_run_ingest_locked`, or in the pool. `holder` is the transaction that has the lock
row; `lockRow` says whether the row has ever been committed, which matters because
`SELECT … FOR UPDATE NOWAIT` cannot find an uncommitted one. A caller that is inside may be
refused by schema drift, by the check of its token (`AuthFails`) or by discovery, before it
has a row. `future[c]` are the pool's futures, `run_repos[c]` the results read so far,
`streak` and `aborted` the breaker's locals. The two time limits of `reconcile_stale_runs`
are an age per row; `Age` lets time pass over the rows of live runs as well as of dead ones,
because nothing bounds how long a sync takes. A live run that is given up goes on, and its
verdict replaces the one it was given: that is what `RunLedger` allows, and no more (`open`
are the rows whose run has not said its last word).

### FileIdentity

The history is a sequence of changes that grows as the loader reads it (`ReadChange` lets
git come up with the next one). Each change carries the file it is really about, which the
loader does not see and the properties compare with. Branches are walked together, so
`EditedElsewhere` may use a name another branch has given up, and `RenamedElsewhere` may
rename from it a second time; `plain` remembers whether the history has stayed without
reused names and without a file that is renamed twice from one name. `file`, `file_alias`
and `commit_file` are the tables as the transaction sees them and `saved` what a rollback
returns to. `by_path`, `pending_renames` and `pending_aliases` are `FileResolver`'s own.
`Flush` writes moves and aliases with the queries the code uses, which do not see what the
same loop has added (`autoflush=False`).

### CrossRepo

A repository is a number of versions; version `v` is one commit that moves its dependency
to version `v` of its upstream. A sync is reduced to the steps that the refresh can fall
between: fetch, record the head, load, aggregate. `phase` is the main thread's stage,
`scope` the repositories of the refresh. Stages that commit one repository at a time
(`Scan`, `Pair`) take one step each, and `seen` is the `head_sha` the session read when the
scan began (`expire_on_commit=False` keeps it). `Needed` is `_crossrepo_rebuild_needed`
with its four watermarks. What is ranked, paired and mined is represented by what it was
computed from. `scope` is `Everything` where the code passes no `repo_ids`.

### DerivedStages, Schema, Deployment

`by[s][u]` is the version of the code that computed the rows of stage `s` for unit `u` (a
repository, or the corpus), `of` the versions of the upstream rows it read. `Release`
deploys a new version of one stage and restarts the program; `Leave` is the end of a run,
an exception or a crash. In the pool, syncs recompute counts and scores too.

`boot[s]` is where service `s` is in `apply_schema`: it reads the recorded version
(`Look`), and unless that is its own or a newer one, looks for missing tables (`Inspect`),
creates them (`Create`), reads the `meta` row (`ReadMeta`) and writes it (`Record`). What it
has read is in `boot[s].seen` and may be stale when it is used: a table or a row another
service has made meanwhile is an error, which ends the process; a lock error is retried
(`Retryable`). A version's tables contain those of the one before, so `tables` is the
newest that is there. `Redeploy` gives one service an image of the next version.

`Deployment` joins them: the runner's runs (`BeginRun`) start only while it is up and the
database is not ahead of it (`Drift`), and end when its process does.

### AuthorPool

Several threads load a repository each. A walk is the sequence of its commits' signatures,
author and committer in turn; `at[w]` is `read` where the next signature is looked up,
`insert` behind a lookup that found nothing, `flush` behind a commit that is added. What an
open transaction has `inserted`, assigned (`pending`) and `written` is its own until
`Commit`; `author` is the committed table. Whoever wants to write a row another open
transaction has written waits (`WaitsFor`): an `Insert` that waited either finds the row
committed and takes it (`AdoptWinner`, the `IntegrityError` branch) or finds it rolled
back and goes on. `Kill` is what the database does to one member of a circle of waiting
transactions, with the retry of `sync_repo`. To `RepoSync` it is a `Fail` that looks like
contention; a rollback leaves the rest of that module's state alone. Updates of
`known_names` come with a flush, before an insert (`begin_nested` flushes) or after a
commit, in the order of primary keys. Display names are assigned with `known_names`, wait
for the same rows, and are left out, and so is the number an insert that lost its race
has drawn.

### Discovery

`host` is the side of the providers: which kind it is, the repositories in the order a
listing gives them, which have been renamed, and whether it still accepts the token. A push
puts a repository first at GitHub, whose listing is asked for by date of push; the other
hosts' orders do not move, and GitLab's is always asked for one more page after a full one.
`account` holds the filters and the count of each source, `corpus` the `repo` table by full
name. Hosts differ in what they say of forks: Bitbucket's records never say that a
repository is one (`IsFork`), GitLab names the parent in the listing, and GitHub in a request
of its own, which can fail (`unplaced`). An account's count is of rows that are enabled, and
every row is: the column is true from the insert on, and nothing writes it.
`pass` is `discover`: `StartPass` reads the enabled accounts, `ListPage` one page of
the account in turn (`FetchByName` where an allowlist is short, or the host has no API to
list with), `SelectRepos` filters what was seen and stamps the count (`record_discovery`),
`Refuse` and `Accept` are the shrink guard, `Store` the one transaction that upserts for all
accounts, `Recount` is `refresh_repo_counts`. `AccountFails` is an account's exception,
which the pass survives; `StoreConflicts` the unique number of a renamed repository, which
it does not. The dashboard's edits fall anywhere between (`AddAccount`, `UpdateAccount`,
`RemoveAccount`, and `ReadAllowlist`/`WriteAllowlist`, the two transactions of
`add_from_url`). `skip` stands for every filter that looks at one record alone.

An account that is removed between its listing and the upsert makes that one transaction
fail for all accounts, and a page that is read while the host moves can miss a repository;
`EventuallyTracked` allows either for a pass and not for ever.

### Access, CallLog, ApiProcess

`Access` is the user routes. A request arrives and is authorised in one transaction
(`Arrive`), looks for whom it is about in the next (`Find`), counts the other
administrators if it takes a role away (`CountAdmins`) and writes (`Write`). `overtaken`
and `raced` are not in the code: they remember that a request wrote although another had
written since its check, which is the one way to lose the last administrator; the next start
of the process brings back the one its environment names (`EnsureAdmin`).

`CallLog` is a queue that drops what does not fit (`Record`), the worker that takes a batch
and inserts it (`Take`, `Insert`, `InsertFails`, and `Wake` when there is nothing), the
exit handler that drains the same queue in another thread (`DrainTake`, `DrainInsert`) and
retention by age and by number, at the end of a run, in another process: `PruneFind` reads
the cutoff and the id of the oldest row to keep, `PruneDelete` deletes in a statement of its
own, by what was read (`pruning`), from a table that may have grown meanwhile (`Insert`) and
whose rows may have got old (`GrowOld`). The run lock admits one pruner at a time. A row's
place in the table is its id: a batch is taken to get its ids as it commits.

`ApiProcess` serves the requests, records each one when its reply is there, and stops
(`Stop`, which waits for requests, then `Stopped`), dies (`Kill`) and starts again.

### Contingency, Measures, CoChange, Mining, Backtest, RepoStatistics

Counts are natural numbers, so the code's arrays of floats are exact here, and a quotient is
a pair. A measure that is a square root is represented by its signed square, which keeps
order, sign, zero and the bounds that the registry states; the logarithms of the pointwise
mutual informations come from a table in thousandths for populations up to eight.
`KeepsRegistry` is what `stats/registry.py` declares of each measure: its range, and the
value it takes at independence.

`CoChange` counts files and directories alike, as the things a commit touches, over the
eligible commits: those without a replay flag and within the cap. `Mining` clusters by
label propagation, compares two windows, and ranks churn and coupling; it goes through all
rounds of propagation, where the code stops after one that changes nothing, which comes to
the same (`QuietRoundIsTheLast`). `Backtest` replays the eligible commits in time order: a
commit's place is the number of commits before it. Sums, rounds and turns are recursive
functions, so that they can be proved about.

`RepoStatistics` extends `RepoSync`, whose counts are a set of commits, with the numbers:
`flagged` is `pair_eligible`, `counts` and `scores` the pair and metric tables. Each of its
actions is an action of `RepoSync` together with what it does to them (`LoadFlags`,
`DropFlags`, `CountPairs`, `ScorePairs`), or leaves them alone; so tags that make a
cherry-pick a replay, `ls-remote` and git calls without an answer, forced re-reads and
failures between any two transactions are all there. `Mine` is the end of a run, where
`last_aggregate_at` and `pair_count` say that mining is due.

## Runs

Every passing run checks all reachable states of its instance. Bounds are the constants
`Max…`, the sizes of sets and, in `IngestRuns`, the rows of `RunId`.

| Run | Shows |
|---|---|
| `RepoSync_faults` | `Covered`, `ReadyIsLoaded`, `DropIsExact` and the refinement `IncrementalIsFull`, with every kind of host change and one failure of any kind; `QuietIsCurrent`: where the branch only advances or is renamed, and where nothing failed unless tags appear while it is rewritten or renamed, a ready repository is current; `NoChangeLost`: unless the host takes commits away, an excluded replay has a counted twin; `EventuallyIngested` |
| `IngestRuns_safety` | `SingleRun`, `RunIsAccounted`, `BreakerFollowsNetwork` and the refinement `LedgerIsFinal`: a verdict is replaced only where a live run was given up, and by its own |
| `IngestRuns_liveness` | `RowsAreClosed`, `RunsEnd` with runs given up alive, restarts, crashes and exceptions |
| `FileIdentity_names` | `KeysHold` on every history; `IdentityIsExact` (which compares every reading of a change with every other, re-reads included), `NamesSurvive` on those where no path is taken twice and no file is renamed on two branches |
| `CrossRepo_faults` | `CalmIsCurrent`: when no watermark asks for a refresh, declared edges, ranks and mining are current, after up to two failures; `FinishedIsCurrent`: without failures every layer is, in whatever order results come in; `LayersCatchUp`: after failures those layers catch up with the host |
| `Deployment_starts` | `ServesItsTables`, `AllComeUp`: services that race on an empty database, are blocked, die and are redeployed come up on the tables they need; `PoolIsCurrent`, `RebuiltInOrder`: no sync starts on derived rows of another version, after releases and interrupted rebuilds |
| `AuthorPool_contention` | `AuthorsAreCommitted`, `OnlyDeadlocksFail`, `EveryLoadEnds` with lost races, deadlocks and one other failure |
| `Discovery_passes` | `CountsAreTrue`: after a pass that ended well each account's count is the number of repositories it has; `EventuallyTracked`: what the accounts ask for is tracked in the end, forks included unless their parent is tracked or shown beside them, or the guard goes on refusing |
| `ApiProcess_requests` | `AdminRemains`, `StoredOnce`, `DropsAreCounted`, `EveryCallSettles`; `PruneKeepsNewest`: with a threshold of an earlier table no row goes that is among the newest and not past its age |
| `RepoStatistics_mined` | `NothingIsAdjusted`: clipping never changes a stored count; `ScoresKeepRegistry` for 25 measures; `ReplayEndsInTheTables`: the backtest counts what the product serves; `MinedIsCurrent`: mined rows rest on the stored history; both on the histories of `Undisturbed`; `EventuallyMined`: a repository with pairs is mined once it is quiet |

The two other runs, `RepoSync_stale_ready` and `Discovery_renamed`, end with a
counterexample, as do the configurations and statements of the section on
[disagreements](#where-the-code-and-its-documentation-disagree).

Why the bounds are enough:

- **RepoSync.** Four commits make a branch, a release line, a cherry-pick and a merge of the
  two: walks, left and right sides of `--cherry-mark`, and histories that lose a commit to a
  force-push all occur. Three host changes allow a commit to be pushed, tagged and
  rewritten away around a failure. One failure is enough to fall between every pair of
  adjacent transactions and to be retried. The safety properties do not rest on these bounds:
  they are proved. `QuietIsCurrent` and `NoChangeLost` name the histories they hold for,
  because the code guarantees them no further: see [Proofs](#proofs).
- **IngestRuns.** Two scheduler threads and an API caller compete; three repositories with
  two threads and a limit of two network failures let the breaker trip with futures
  queued, running and finished; two rows let a run be reconciled by the next, or given up
  by a request while it works on.
  `IngestRuns_liveness` uses one thread and one row: with one of each, a caller that strands
  a future or a row has nobody to do its work. Deadlock is checked in both.
- **FileIdentity.** Four paths, four rows and five changes allow chains and swaps of
  renames; three loads let a name be written by one, looked up by the next, and read again
  by a third. Paths may be permuted. Deadlock is not checked because loads and changes are
  bounded.
- **CrossRepo.** An application and its library are the two sides of every layer, and a
  refresh for one leaves the other out. Two versions are one update. Two failures
  let a stage and the sync before it fail. Deadlock is checked.
- **Deployment.** Two services and two versions make a race, a loser and an image that is
  ahead; two lock errors exhaust the two attempts. Two repositories allow a rebuild to be
  interrupted between them; `Released` are the stages that get a second version: the first
  of the order, one behind it, and one that depends on neither. Services start, and are
  redeployed, before there is a derived row; later only the runner restarts. Deadlock is
  not checked: a runner the database is ahead of starts no run.
- **AuthorPool.** Two loads and two addresses make the smallest circle of waiting
  transactions: each needs a row the other holds. Walks of two commits allow a
  transaction to hold rows across a flush; walks of one commit add signatures without an
  address and names that are new to a row. Three attempts are the code's own number.
  Deadlock is checked.
- **Discovery.** Two accounts that share a repository, with a fork and a private one, and
  pages of one repository: every boundary between requests is there. All three kinds of
  host occur (`Providers`). One change of the host, one edit and one failure can fall
  anywhere, and since passes go on for ever, before, in and after any of them. Renames are
  allowed where the host does not give numbers (`Renames`); `Discovery_renamed` has the
  others. Deadlock is checked.
- **ApiProcess.** Two requests that change two users are the smallest race for the last
  administrator, and a third call makes the queue of two overflow and a batch of two leave
  something behind. One row is kept, so that pruning has something to do, and a row can be inserted between
  its two statements. The
  environment's administrator is one of the two. Deadlock is not checked because calls
  are bounded.
- **RepoStatistics.** A branch of three commits and a cherry-pick of its second on a line of
  its own, which a tag makes a replay, and which a force-push can make the branch; four files
  in two directories, one of them above every file. Commits touch one to three files on two
  days, so that a branch without pairs, a module and a pair on both sides of the window of
  drift all occur. Three changes of the host
  and one failure. What `Undisturbed` excludes takes more: with the condition left out, TLC
  finds a counterexample after three changes and two failures, or after five changes and none
  (see [Proofs](#proofs)). That the condition is enough is proved for any number of either, as
  it is for commits over the cap, renames and forced runs (which `RepoSync_faults` has).
  Populations stay within the logarithms' table. Deadlock is not checked because moves and
  failures are bounded.

Where a run restricts the environment, the table of disagreements says what happens without
the restriction, or a proof covers it.

## Fairness

- `RepoSync`: `WF(WorkerStep)`. APScheduler starts refreshes on a cron schedule for ever,
  and a worker that is running gets on. The host, failures and forced runs are not fair.
- `IngestRuns`: weak fairness of each caller's `RunStep`, and of `Age` for rows nobody
  works on. Threads are scheduled, `as_completed` yields finished futures, and the clock
  goes on. `Ask`, `Raise`, `Crash` and `LoseLock` are not fair: no user has to ask and
  nothing has to fail.
- `CrossRepo`: `WF(StartRun)`, `WF(Main)` and weak fairness of each repository's worker,
  for the same reasons. Every sync ends, because git's network calls have timeouts.
- `AuthorPool`: weak fairness of each thread's `Step`, and of the database's search for
  deadlocks (PostgreSQL looks for one after `deadlock_timeout`). Which transaction is
  killed is left open, and other failures are not fair.
- `Discovery`: `WF(PassStep)`, since the scheduler runs passes for ever and requests have
  timeouts, and weak fairness of a write that follows a paste. Nobody has to edit.
- `Deployment`: weak fairness of each service's `Start`: `docker-compose.yml` says
  `restart: unless-stopped`. Runs need not be started.
- `ApiProcess`: the log's thread goes on (`WF(Flush ∨ FlushFails)`: whether an insert
  succeeds is left open), a process that stops ends (`WF(Stopped)`), and is started again
  (`WF(Start)`). Nobody has to call.
- `RepoStatistics`: `WF(StatsWorker)`, as in `RepoSync`, and `WF(Mine)`: every run ends with
  `_crossrepo_rebuild_needed`, which finds a repository counted after it was mined.

## Proofs

TLAPS checks the following for all values of the constants that satisfy the named
assumptions. Types and invariants are inductive and are shown by one case per action; TLC
has checked each inductive invariant on instances before it was proved. The theorems state
every invariant and action property of the passing runs, and both refinements; what is left
to TLC is liveness (below).

**`RepoSyncProofs`**, for every finite history whose ancestor sets are reflexive, transitive
and acyclic, every host behaviour and any number of failures and retries:

- `TypeCorrect`: `TypeOK`.
- `SyncInvariant`: `SyncInv`. `Covered` alone is not inductive: `Load` records tips, so one
  has to know that everything they reach is either loaded by this walk or was stored
  before. `SyncInv` therefore adds that the walk starts after stored commits only
  (`job.since`), that between `RecordHead` and `Finish` the mirror, the head on the row and
  the recorded tips agree, and that a ready row has equal heads. The heart is
  `WalkSince`/`LoadIsFull`: a walk that leaves out what stored tips reach adds up to the
  full walk.
- `Coverage`, `ReadyMeansLoaded`, `UnchangedMeansIngested`: consequences.
- `DropLeavesReachable`: `DropIsExact`. The code compares two cardinalities before it
  looks for unreachable commits; equality of the counts implies equality of the sets
  because the live commits are all stored at that point.
- `IncrementalLoadIsFull`: `RepoSync` implements `CommitCatalog`: `Load` maps to a full
  load, the cleanup to `Cleanup`, and forgetting tips (an unborn branch, ref tips that went
  unanswered) to `Forget`; everything else stutters.
- `QuietRepositoriesAreCurrent`: `QuietIsCurrent`. The rebuild is decided by comparing
  `last_aggregate_sha` with the tip, so one has to know when that comparison can be
  trusted. `HistoryInv` says it for each kind of history: where the branch only advances,
  every recorded sha is an ancestor of the next one (`Forward`), so a stamp that names the
  tip was set for that tip, and no step but the stamp makes the two agree (`Stamped`);
  where nothing fails, what differs between the counts and the table is due in this sync
  (`Pending`, `Resumes`); without a tag nothing is ever marked (`Tagless`).
  `AcyclicAssumption` is what lets "ancestor of each other" mean "the same".
- `ReplaysKeepTheirChange`: `NoChangeLost`. Every replay has a twin that is not one *on the
  recorded branch* (`Witnessed`), and branches that are not rewritten keep it.

**`IngestRunsProofs`**, for any callers, repositories, rows and faults:

- `OneRunAtATime`: `SingleRun`, if the database keeps its connections
  (`Restarts = FALSE`). The inductive fact is `InsideHolds`: whoever is inside owns the
  lock's transaction.
- `VerdictsAreFinal`: `IngestRuns` implements `RunLedger`, without conditions: for runs of any
  length, given up alive or dead, also when locks are lost. The inductive fact is `OwnRows`:
  a row whose run has not said its last word is running or was given up, and is its caller's
  alone.
- `RunsAreAccounted`: `RunIsAccounted`; `BreakerIsExact`: `BreakerFollowsNetwork`. `PoolInv`
  says of each caller that no repository is without a future while the pool is there, that
  results are of different repositories, that an aborted pool has nothing queued, and that
  the streak is the number of network failures since the last success (`Since`). Lemmas say
  what one more result adds to each (`ReadOneMore`).

The first needs its condition: the next section says what happens without it.

The module also holds what is proved of `CrossRepo`, which it extends as well (its initial
states, steps and specification are `LayersInit`, `LayersNext`, `LayersSpec`), for any
repositories and dependencies, any number of versions and failures, and with forced
runs:

- `CalmLayersAreCurrent`: `CalmIsCurrent`. `LayersInv` says why a watermark can be believed:
  versions reach the commit table in order (`InOrder`), a manifest was read from a mirror at
  least as new as the head it is marked with (`ReadLate`), and the stored fingerprint, the
  ranks and the facts only follow each other (`RanksBetween`), so that equal fingerprints
  leave no room for another rank.
- `FinishedLayersAreCurrent`: `FinishedIsCurrent`. Dates, resolution and pairs have no
  watermark; `SmoothInv` says that a refresh only reads repositories whose worker is at rest
  and level with their mirror (`AtRest`, `Level`), and that what the last refresh resolved
  and paired holds until a commit is added (`LastRefresh`).

**`FileIdentityProofs`**, for any paths, histories and loads:

- `NoLoadBreaksKeys`: `KeysHold`. Unique paths after a flush need that every pending move
  leads to a path that no other row holds in memory, and that what is in memory agrees with
  the rows: `Owned` says so, and `SavedKeys` that a rollback returns to a state where it
  can be established again.
- `IdentityIsKept`: `IdentityIsExact`; `NoNameIsLost`: `NamesSurvive`. `IdentityInv` says of a plain history that every name
  belongs to one file (`OneOwner`) and that the row a name leads to is that file's, at
  whichever point of a load it is asked for: in the tables a load started from (`TablesOf`),
  and in `by_path`, the pending moves and the pending aliases while it is under way
  (`UnderwayOf`). A load may end anywhere, and the next one may start from the beginning, so
  both are stated for every prefix of the history.

**`DeploymentProofs`**, for any repositories, services, releases, deaths and interruptions:

- `MarksTellTheTruth`: `MarkedIsBuilt` of `DerivedStages`. The inductive invariant adds
  that no stored version is ahead of the code and that the units already rebuilt have its
  version.
- `StaleIsClosed`: the fold of `stale_stages` goes through `STAGES` once, which is enough
  because every stage comes after those it depends on. `STAGES` is fixed, so the fold is
  unfolded.
- `PoolWaitsForRebuilds`: `PoolIsCurrent`; `RebuildsFollowDependencies`: `RebuiltInOrder`.
  Both rest on `Ordered`: behind the stage that is being rebuilt every stale stage is done,
  and whatever `stale_stages` did not name is marked with the running version.
- `ServedTablesExist`: `ServesItsTables`. What a service that is up finds depends on what
  others recorded before its tables were looked for: `SchemaInv` says that no version is
  recorded before its tables exist, and that whoever is past `Create` has its own.
- `DeploymentRunsStages`: a deployment implements `DerivedStages`, so what is proved of the
  stages holds of it too (`DeploymentsRebuildInOrder`).

**`AuthorPoolProofs`**, for any workers, walks, addresses, number of retries and failures:

- `StoredAuthorsExist`: `AuthorsAreCommitted`. What is stored is only known to be right
  because of what open transactions know: `TxInv` says that a cached id is that of a
  committed row or of one this transaction has inserted, `WalkInv` that what was resolved
  is what is cached, and `Alone` that no two open transactions have inserted the same
  address, so that a commit never replaces a row another one has referred to.
- `SharingFailsNoLoad`: `OnlyDeadlocksFail`, by counting the loads that gave up before their
  last attempt (`GivenUpInv`).

**`DiscoveryProofs`**, for any accounts, repositories, listings, moves, edits and failures:

- `CountsStayTrue`: `CountsAreTrue`. Counts are stamped account by account before anything
  is stored; that they are right at the end needs that every owner of a row is an account
  that is there (`OwnersExist`) and that accounts that are not have nothing
  (`AbsentCountNothing`), which the dashboard's edits must keep in the middle of a pass.

**`ApiProcessProofs`**, for any users, requests, restarts and any load on the log:

- `AdministratorRemains`: `AdminRemains`. Between check and write a request relies on what
  it saw: `Assured` says, for each place in a request that nobody has overtaken, which
  administrators are still there because of it, and `Abandoned` that no request outlives
  its process.
- `CallsAreStoredOnce`: `StoredOnce`; `DroppedCallsAreCounted`: `DropsAreCounted`. `LogInv`
  follows a row through queue, batch, drain and table: it is in one place at most, and only
  calls that were recorded are in any.
- `PruneLeavesTheNewest`: `PruneKeepsNewest`. The table only grows at its end while a prune
  is under way, so a threshold that was read from a shorter table still has `KEEP_ROWS` rows
  from it on (`PruneCuts`, `FrontRows`), and what arrived since is what stays beyond them.

**`RepoStatisticsProofs`**, for any commits, files, authors (finitely many of each),
histories, rewrites and failures:

- `StatsTypeCorrect`: `StatsTypeOK`. Every step of the statistics is a step of `RepoSync` or
  leaves it alone (`StatisticsFollowSync`), so `SyncInv` and `HistoryInv` hold here too.
- `CountsAreATable`: `NothingIsAdjusted`. The counts of a pair always are sizes of subsets
  of one set of commits, and such sizes are feasible (`SizesAreFeasible`), whatever the
  minimum support left out.
- `ScoresStayInRange`: all measures of every stored pair but `pmi`, `npmi` and `ppmi` keep
  the range the registry states, zero denominators included, and the neutral value at
  independence, for tables of every size. What is scored is a table (`TablesAreScored`);
  then shares are at most one (`ShareIsUnit`), and what `phi`, `chi_square` and `cramers_v`
  square is at most the product of the marginals, as each diagonal is (`SkewIsBounded`).
- `ScoresKeepTheRegistry`: `ScoresKeepRegistry` whole, for up to eight commits, as the
  table of logarithms ends there (`LogarithmsAdd`).
- `SettledNumbers`: a settled repository's flags, counts and scores are those of its countable
  commits, on the histories whose stamps can be trusted (`Undisturbed`: the branch only
  advances or is renamed, whatever fails; or nothing fails, unless tags come while it is
  rewritten or renamed); `MiningIsCurrent`: `MinedIsCurrent`. `TrustInv` carries through each
  step what `Trusted` says of a moment: that the repository is at rest or stamped for its
  tip. `RepoSyncProofs` shows that a step reaches such a moment by stamping or from another
  one whose commits and marks have not moved since (`TrustedStep`), and that a settled
  repository is at one (`ReadyIsTrusted`).
- `ReplayMatchesTables`: `ReplayEndsInTheTables`. The history of the backtest lists each
  commit once (`RanksAreDistinct`, `EveryPlaceIsTaken`), and after each turn the replay holds
  the sizes of the sets of commits it has seen (`ReplayCounts`); with `SettledNumbers` those
  are the tables.
- `ModulesHoldTogether`, up to eight commits: a set of files that no coupled pair leaves
  contains each module whole or not at all, and modules do not overlap. It holds in each
  round, because a file's new label is one that a neighbour had (`HeaviestIsOffered`,
  `RoundsAreFaithful`), whether or not the labels settle before the rounds are over.
- `RiskStaysInRange`: both ranks lie within the number of ranked files, the rank of churn
  follows the number of changes, and the sum of squared shares lies between the file's changes
  and their square, so that the concentration of ownership is positive and at most one
  (`SharesAddUp`).
- `DriftAgreesWithTables`: `pair_drift` and `file_pair` come from two passes at different
  times; where the pair is in both, the two windows add up to the count that is served, on the
  same histories.

The last three state definitions of the proofs' module. `NumbersInv` is their invariant: what
mining has read are counts of some set of commits and the scores computed from them. TLC
checked the three on the instance of `RepoStatistics_mined` before they were proved.

The library's induction theorems take an operator, which the provers cannot instantiate.
`SetInduction` and `SubsetInduction` take a set in its place, and follow from the order of
the naturals being well founded, which the library states without one. With them a recursive
function can be shown to exist (`ReplayExists`, `SumsExist`, `RoundsExist`) and its values be
bounded for every argument.

Three statements were wrong as they had been checked first; the attempt to prove them, or tags
in a model that had none, showed it, and TLC confirmed each.

- `QuietIsCurrent` without the condition on tags: nothing fails, but the branch is rewritten
  and goes back to its old tip between the cheap check and the fetch while a tag appears.
  The sync finds the tip it has recorded, marks replays, and rebuilds nothing. With failures
  a branch that goes from A to B and back to A does the same.
- `ReplayEndsInTheTables` and `MinedIsCurrent` without `Undisturbed`, for the same reason: a
  tag on a merge stores a cherry-pick without marking it, the branch goes away and comes back
  between the cheap check and the fetch, and a tag on the cherry-pick appears.
  `last_aggregate_sha` names the tip again, no commit is written, and what the tag made a
  replay is still in the counts. With failures it takes less: the git call behind the marks
  has no answer, another tag appears, and an `ls-remote` without an answer lets a sync through
  that marks what the first one did not.

Only model-checked:

- liveness (`EventuallyIngested`, `RunsEnd`, `RowsAreClosed`, `LayersCatchUp`, `AllComeUp`,
  `EveryLoadEnds`, `EventuallyTracked`, `EveryCallSettles`, `EventuallyMined`): fairness and
  `ENABLED` are beyond the prover;
- `ReadyIsCurrent` and `OthersAreTracked`, which are violated, and the statements of the
  next section.

## Where the code and its documentation disagree

Two are runs listed in `PROJECT.json`, with the line that says otherwise:

| Run | What happens | What is said |
|---|---|---|
| `RepoSync_stale_ready` | a forced full re-read that fails between counting and scoring leaves a repository ready without scores, because the next run sees nothing to do; a failure after the cleanup, or after a load that only changed flags, leaves old counts the same way | `pipeline.py:688` "Only now is the repository's derived state actually current." |
| `Discovery_renamed` | a repository renamed on a host that numbers them is unknown under its new name, and its number is taken: every later pass fails for all accounts | `pipeline.py:360` "one bad account must not stop the rest" |

The others are statements of the modules that no run holds the code to. Where a
configuration is beside the modules it is named; otherwise the statement, added to the
configuration of the second column, ends with a counterexample.

| Statement | Configuration | What happens | What is said |
|---|---|---|---|
| `KeepsIdentity` | `FileIdentity_forked_rename` | two branches rename a file differently: the first new name is forgotten, the file gets a second row, and a re-read stores changes twice | `DESIGN.md:515` "Renames keep a file's identity" |
| `RefusedIsPartial` | `Discovery_disabled` | disabling or removing an account of more than a fifth of the repositories makes the guard refuse every pass | `pipeline.py:380` "That is the shape of an unauthenticated or partial listing" |
| `AddingKeepsNames` | `Discovery_pasted_twice` | of two repositories pasted at once the second takes the first out of the allowlist | `accounts.py:475` "naming a subset would narrow it" |
| `NoneIsSilent` | `ApiProcess_silent_loss` | a row whose arguments were cut loses its whole batch, which nothing counts | `DESIGN.md:1029` "a silent one is not" |
| `ReplaysFollowHistory` | `RepoSync_faults` | replay flags survive the history that justified them | `pipeline.py:657` "Replays are a function of the commits and the tags" |
| `EmptyIsEmpty` | `RepoSync_faults` | a renamed default branch makes the repository "empty" | `gitops.py:343` "None for an empty repo" |
| `UnchangedNeedsNoFetch` | `RepoSync_faults` | tags created while the branch stands still are not fetched | `pipeline.py:477` "so nothing needs fetching" |
| `GivenUpAreDead` | `IngestRuns_liveness` | a live run is marked failed after six hours, or after two without a result | `pipeline.py:116` "a run whose heartbeat stopped is not running" |
| `SingleRun` | `IngestRuns_liveness` | after a database restart two runs are inside | `pipeline.py:820` "with the single-run lock already held" |
| `RefusalIsRecorded` | `IngestRuns_safety` | a run refused by discovery leaves no row | `pipeline.py:745` "so the failure is visible in history" |
| `NobodyWaits` | `IngestRuns_safety` | the first two runs of a database: the second waits instead of being skipped, then raises | `pipeline.py:731` "skipping this one" |
| `PairsAreWatched` | `CrossRepo_faults` | a failed pairing stage is not noticed by later runs | `pipeline.py:212` "whether a previous cross-repository stage is incomplete" |
| `ResolutionIsWatched` | `CrossRepo_faults` | nor is a failed resolution of bumps | the same line |
| `BumpsAreDated` | `CrossRepo_faults` | bumps scanned before their commits are loaded never get a date | `analysis/depbump.py:260` "the mirror exists but its commits do not" |
| `NamesAreKept` | `AuthorPool_contention` | two loads add a name to one author: the second overwrites the first | `tests/test_store.py:339` "an author seen again gains a display name and keeps the old one" |
| `DependentsFollow` | `Deployment_starts` | a release of one stage does not rebuild the stages that depend on it | `analysis/derived.py:48` "stale by version or by a stale upstream dependency" |
| `DriftIsSeen` | `Deployment_starts` | a service of an older release overwrites the version a newer one recorded | `tests/test_engine.py:151` "Running older code than the database was migrated to" |
| `UncoupledHasNoModules` | `RepoStatistics_mined` | a repository whose history is rewritten until no pair is left keeps its modules | `DESIGN.md:463` "label propagation over the file-coupling graph" |

## Not modelled

- Measures that need logarithms of factorials, a normal tail or a power: `fager`,
  `yules_y`, `mutual_information`, `log_likelihood_ratio`, `poisson`, `hypergeometric`.
  The values of drift and of ranks; recency weights, churn and dates.
- Text: parsing of git's output, manifests, version strings and identifiers.
- Passwords, sessions, tokens as strings, and sign-in attempts.
- Extensions and column migrations of `apply_schema`; configuration; the command line.
- The searches of the backtest's agent, and its report.
- A tag's anchor on the branch, blobless clones, rollbacks to an older release.
- Read-only queries, the API's read routes, the MCP tools and the web interface: one
  snapshot each, no state. Containers and charts.

## Plan

Done, most important first: `GitHistory`, `CommitCatalog` and `RepoSync` with the mirror's
swap and with proofs; `RunLedger` and `IngestRuns` with proofs; `FileIdentity`;
`CrossRepo`; `DerivedStages` and `Schema` in `Deployment`; `AuthorPool`; `Discovery`;
`Access` and `CallLog` in `ApiProcess`; counts, measures, mining and the backtest in
`RepoStatistics`; all of them with proofs.

Next, in order:

1. Proofs: that the reduced sync of `CrossRepo` is one that `RepoSync` can do.
2. Version ordering, lockfile reachability and impact chains as functions checked against
   reference definitions.
3. Sessions, sign-in attempts and tokens beside `Access`.
4. Tags of their own in `CrossRepo`; rollbacks in `Deployment`.

## Running the checks

    tlc -workers 2 -config RepoSync_faults.cfg MCRepoSync
    tlapm RepoSyncProofs.tla

`PROJECT.json` lists every run with its module and configuration, the properties each one
checks with a mutant that breaks it, and for every definition the lines it models.
