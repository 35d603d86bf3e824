---------------------------- MODULE IngestRuns ------------------------------
(***************************************************************************)
(* Ingest runs: run_ingest and _run_ingest_locked of ingest/pipeline.py,     *)
(* called by the scheduler's threads and by the API's refresh route.         *)
(*                                                                           *)
(* Callers compete for the row lock on meta["lock:ingest"]; the one that     *)
(* gets it opens a row in ingest_run, hands the repositories to a thread     *)
(* pool, stops when the network is down, and records a verdict.  Rows of     *)
(* callers that died are given up by reconcile_stale_runs.  Each action is   *)
(* one transaction or one step of a pool thread.                             *)
(*                                                                           *)
(* What a worker does to its repository is RepoSync; here a sync only has    *)
(* an outcome.  The two time limits are abstracted to an age per row.        *)
(***************************************************************************)
EXTENDS Naturals, FiniteSets, Sequences

CONSTANTS
    Caller,         \* the processes and threads that start runs
    Scheduler,      \* those that are threads of the scheduler process
    Repo,           \* the repositories of a run
    RunId,          \* the rows of ingest_run a behaviour may use (a bound)
    NoCaller, NoRun,
    Workers,        \* cfg.ingest.concurrency
    AbortAfter,     \* NETWORK_FAILURE_ABORT
    Restarts,       \* may the database restart under a run?
    MaxFaults       \* bound: crashes, exceptions and restarts in a behaviour

ASSUME RunsAssumption ==
    /\ Scheduler \subseteq Caller /\ NoCaller \notin Caller /\ NoRun \notin RunId
    /\ IsFiniteSet(Repo)
    /\ Workers \in Nat \ {0} /\ AbortAfter \in Nat \ {0} /\ MaxFaults \in Nat
    /\ Restarts \in BOOLEAN

VARIABLES
    lockRow,    \* has a committed transaction left the row "lock:ingest"?
    holder,     \* the caller whose open transaction owns that row, or its insertion
    at,         \* at[c]: where caller c is
    run,        \* run[c]: the ingest_run row caller c has opened and not yet closed
    ledger,     \* ledger[n]: status and age of ingest_run row n
    future,     \* future[c][r]: the pool's future for repository r in c's run
    run_repos,  \* run_repos[c]: the results c has read so far, in order (run.repos)
    streak,     \* streak[c]: consecutive_network_failures
    aborted,    \* aborted[c]
    faults

lock  == <<lockRow, holder>>
batch == <<future, run_repos, streak, aborted>>
vars  == <<lock, at, run, ledger, batch, faults>>

Places   == {"idle", "asking", "accepted", "inserting", "locked", "checks", "refused",
             "discover", "pool", "unwind", "settle", "closed"}
\* Inside _run_ingest_locked.
Inside   == {"locked", "checks", "refused", "discover", "pool", "unwind", "settle", "closed"}
Good     == {"ok"}                              \* success, unchanged and empty
Bad      == {"network", "error", "cancelled"}   \* failed, by the kind of its error
Outcomes == Good \cup Bad
Futures  == {"none", "queued", "running", "withdrawn"} \cup Outcomes
Verdicts == {"success", "partial", "failed"}

Row(status, age) == [status |-> status, age |-> age]

\* Age of a row: "idle" when its heartbeat is older than IDLE_RUN_MINUTES, "old" when it
\* started more than STALE_RUN_HOURS ago.
Rows == [status : {"none", "running"} \cup Verdicts, age : {"fresh", "idle", "old"}]

TypeOK ==
    /\ lockRow \in BOOLEAN /\ holder \in Caller \cup {NoCaller}
    /\ at \in [Caller -> Places] /\ run \in [Caller -> RunId \cup {NoRun}]
    /\ ledger \in [RunId -> Rows]
    /\ future \in [Caller -> [Repo -> Futures]]
    /\ run_repos \in [Caller -> Seq(Repo \X Outcomes)]
    /\ streak \in [Caller -> Nat] /\ aborted \in [Caller -> BOOLEAN]
    /\ faults \in 0..MaxFaults

NoFutures == [r \in Repo |-> "none"]

Init ==
    /\ lockRow = FALSE /\ holder = NoCaller
    /\ at = [c \in Caller |-> "idle"] /\ run = [c \in Caller |-> NoRun]
    /\ ledger = [n \in RunId |-> Row("none", "fresh")]
    /\ future = [c \in Caller |-> NoFutures] /\ run_repos = [c \in Caller |-> <<>>]
    /\ streak = [c \in Caller |-> 0] /\ aborted = [c \in Caller |-> FALSE]
    /\ faults = 0

Go(c, place) == at' = [at EXCEPT ![c] = place]

\* A transaction that ends: committing makes a fresh lock row permanent.
Commit(c) ==
    IF holder = c THEN lockRow' = TRUE /\ holder' = NoCaller ELSE UNCHANGED lock
Rollback(c) ==
    holder' = (IF holder = c THEN NoCaller ELSE holder) /\ UNCHANGED lockRow

\* What c's stack held is gone.
Forget(c) ==
    /\ run' = [run EXCEPT ![c] = NoRun]
    /\ future' = [future EXCEPT ![c] = NoFutures]
    /\ run_repos' = [run_repos EXCEPT ![c] = <<>>]
    /\ streak' = [streak EXCEPT ![c] = 0]
    /\ aborted' = [aborted EXCEPT ![c] = FALSE]

-----------------------------------------------------------------------------
(* reconcile_stale_runs and active_run. *)

\* Mutant: a row that has its verdict is given up as well.
StaleByAge(n) == ledger[n].status # "none" /\ ledger[n].age # "fresh"

Stale(n) == ledger[n].status = "running" /\ ledger[n].age # "fresh"

\* Rows without a recent heartbeat, and rows started long ago, are marked failed.
GiveUpStale ==
    ledger' = [n \in RunId |-> IF Stale(n) THEN Row("failed", ledger[n].age) ELSE ledger[n]]

\* POST /ingest/refresh asks active_run, which reconciles in one transaction...
Ask(c) ==
    /\ c \notin Scheduler /\ at[c] = "idle"
    /\ GiveUpStale /\ Go(c, "asking")
    /\ UNCHANGED <<lock, run, batch, faults>>

\* ...and looks for a running row in the next: 409, or a background job.
Answer(c) ==
    /\ at[c] = "asking"
    /\ IF \E n \in RunId : ledger[n].status = "running"
       THEN Go(c, "idle") ELSE Go(c, "accepted")
    /\ UNCHANGED <<lock, run, ledger, batch, faults>>

-----------------------------------------------------------------------------
(* _try_ingest_lock. *)

\* A scheduler thread that finds _run_lock taken skips its tick.
MayStart(c) ==
    IF c \in Scheduler
    THEN at[c] = "idle" /\ \A d \in Scheduler : at[d] = "idle"
    ELSE at[c] = "accepted"

\* Mutant: a missing lock row is taken for a free lock.
TakeLockIfNoRow(c) ==
    /\ MayStart(c) /\ (holder = NoCaller \/ ~lockRow)
    /\ holder' = c /\ Go(c, "locked")
    /\ UNCHANGED <<lockRow, run, ledger, batch, faults>>

\* SELECT ... FOR UPDATE NOWAIT finds the row free, or there is no row and c inserts it.
TakeLock(c) ==
    /\ MayStart(c) /\ holder = NoCaller
    /\ holder' = c /\ Go(c, "locked")
    /\ UNCHANGED <<lockRow, run, ledger, batch, faults>>

\* The row is locked: RunResult.status is "skipped".
SkipRun(c) ==
    /\ MayStart(c) /\ holder # NoCaller /\ lockRow
    /\ Go(c, "idle")
    /\ UNCHANGED <<lock, run, ledger, batch, faults>>

\* There is no committed row to find locked, so c inserts one too, and the unique key
\* makes it wait for the transaction that inserted it first.
InsertBehind(c) ==
    /\ MayStart(c) /\ holder # NoCaller /\ ~lockRow
    /\ Go(c, "inserting")
    /\ UNCHANGED <<lock, run, ledger, batch, faults>>

\* The first transaction is over: had it committed the insertion raises IntegrityError,
\* which is not the lock error, and run_ingest raises; had it not, c has the lock.
InsertResolved(c) ==
    /\ at[c] = "inserting" /\ holder = NoCaller
    /\ IF lockRow THEN Go(c, "idle") /\ UNCHANGED holder
                  ELSE Go(c, "locked") /\ holder' = c
    /\ UNCHANGED <<lockRow, run, ledger, batch, faults>>

-----------------------------------------------------------------------------
(* _run_ingest_locked. *)

\* Mutant: a run does not look for abandoned rows.
ReconcileNothing(c) ==
    /\ at[c] = "locked"
    /\ Go(c, "checks")
    /\ UNCHANGED <<lock, run, ledger, batch, faults>>

Reconcile(c) ==
    /\ at[c] = "locked"
    /\ GiveUpStale /\ Go(c, "checks")
    /\ UNCHANGED <<lock, run, batch, faults>>

OpenRow(c, n) ==
    /\ ledger[n].status = "none"
    /\ ledger' = [ledger EXCEPT ![n] = Row("running", "fresh")]
    /\ run' = [run EXCEPT ![c] = n]

Tokens == {"accepted", "rejected", "unanswered", "missing"}

\* verify_credentials: a rejected token, or none with private repositories in scope.  A host
\* that does not answer is not a reason to refuse.
AuthFails(token, private) == token = "rejected" \/ (token = "missing" /\ private)

\* Schema drift, or AuthError: _aborted_run opens a row...
Refuse(c) ==
    /\ at[c] = "checks"
    /\ \E drift, private \in BOOLEAN, token \in Tokens : drift \/ AuthFails(token, private)
    /\ \E n \in RunId : OpenRow(c, n)
    /\ Go(c, "refused")
    /\ UNCHANGED <<lock, batch, faults>>

\* ...and closes it as failed.
RecordRefusal(c) ==
    /\ at[c] = "refused"
    /\ ledger' = [ledger EXCEPT ![run[c]].status = "failed"]
    /\ Go(c, "idle") /\ Commit(c) /\ Forget(c)
    /\ UNCHANGED faults

PassChecks(c) ==
    /\ at[c] = "checks"
    /\ \E private \in BOOLEAN, token \in Tokens : ~AuthFails(token, private)
    /\ Go(c, "discover")
    /\ UNCHANGED <<lock, run, ledger, batch, faults>>

\* discover raises AuthError outside the try that would have recorded it.
DiscoverRefused(c) ==
    /\ at[c] = "discover"
    /\ Go(c, "idle") /\ Rollback(c) /\ Forget(c)
    /\ UNCHANGED <<ledger, faults>>

\* _start_run, and one future per repository.
StartPool(c) ==
    /\ at[c] = "discover"
    /\ \E n \in RunId : OpenRow(c, n)
    /\ future' = [future EXCEPT ![c] = [r \in Repo |-> "queued"]]
    /\ Go(c, "pool")
    /\ UNCHANGED <<lock, run_repos, streak, aborted, faults>>

-----------------------------------------------------------------------------
(* The pool.  Its threads go on while the caller unwinds from an exception. *)

Running(c) == {r \in Repo : future[c][r] = "running"}
Pending(c) == {r \in Repo : future[c][r] \in {"queued", "running", "withdrawn"}}

\* A free thread takes a queued future; a cancelled one only learns that it is.
Pick(c, r) ==
    /\ at[c] \in {"pool", "unwind"} /\ Cardinality(Running(c)) < Workers
    /\ \/ future[c][r] = "queued" /\ future' = [future EXCEPT ![c][r] = "running"]
       \/ future[c][r] = "withdrawn" /\ future' = [future EXCEPT ![c][r] = "cancelled"]
    /\ UNCHANGED <<lock, at, run, ledger, run_repos, streak, aborted, faults>>

\* sync_repo returns.
SyncReturns(c, r, outcome) ==
    /\ at[c] \in {"pool", "unwind"} /\ future[c][r] = "running"
    /\ future' = [future EXCEPT ![c][r] = outcome]
    /\ UNCHANGED <<lock, at, run, ledger, run_repos, streak, aborted, faults>>

Read(c) == {run_repos[c][i][1] : i \in DOMAIN run_repos[c]}

\* Mutant: a success in between does not end the streak.
StreakNeverReset(c, outcome) == IF outcome = "network" THEN streak[c] + 1 ELSE streak[c]

\* Only a repository that did not fail ends a streak of network failures.
Streak(c, outcome) ==
    IF outcome = "network" THEN streak[c] + 1
    ELSE IF outcome \in Good THEN 0 ELSE streak[c]

\* The heartbeat: a result with a repository id writes ingest_run_repo and heartbeat_at.
Heartbeat(c, outcome) ==
    IF outcome # "cancelled" /\ ledger[run[c]].age = "idle"
    THEN ledger' = [ledger EXCEPT ![run[c]].age = "fresh"]
    ELSE UNCHANGED ledger

\* Mutant: the run forgets the futures it cancels.
ReadResultForgets(c, r) ==
    /\ at[c] = "pool" /\ future[c][r] \in Outcomes /\ r \notin Read(c)
    /\ LET outcome == future[c][r]
           trips == Streak(c, outcome) >= AbortAfter /\ ~aborted[c]
       IN  /\ run_repos' = [run_repos EXCEPT ![c] = Append(@, <<r, outcome>>)]
           /\ streak' = [streak EXCEPT ![c] = Streak(c, outcome)]
           /\ aborted' = [aborted EXCEPT ![c] = @ \/ trips]
           /\ future' = [future EXCEPT ![c] = [x \in Repo |->
                  IF trips /\ @[x] = "queued" THEN "none" ELSE @[x]]]
           /\ Heartbeat(c, outcome)
    /\ UNCHANGED <<lock, at, run, faults>>

\* Mutant: cancelled futures are counted as outstanding but never handed to the loop.
ReadResultOfSyncs(c, r) ==
    /\ at[c] = "pool" /\ future[c][r] \in Outcomes \ {"cancelled"} /\ r \notin Read(c)
    /\ LET outcome == future[c][r]
           trips == Streak(c, outcome) >= AbortAfter /\ ~aborted[c]
       IN  /\ run_repos' = [run_repos EXCEPT ![c] = Append(@, <<r, outcome>>)]
           /\ streak' = [streak EXCEPT ![c] = Streak(c, outcome)]
           /\ aborted' = [aborted EXCEPT ![c] = @ \/ trips]
           /\ future' = [future EXCEPT ![c] = [x \in Repo |->
                  IF trips /\ @[x] = "queued" THEN "withdrawn" ELSE @[x]]]
           /\ Heartbeat(c, outcome)
    /\ UNCHANGED <<lock, at, run, faults>>

\* as_completed yields a finished future; at AbortAfter the queued ones are cancelled.
ReadResult(c, r) ==
    /\ at[c] = "pool" /\ future[c][r] \in Outcomes /\ r \notin Read(c)
    /\ LET outcome == future[c][r]
           trips == Streak(c, outcome) >= AbortAfter /\ ~aborted[c]
       IN  /\ run_repos' = [run_repos EXCEPT ![c] = Append(@, <<r, outcome>>)]
           /\ streak' = [streak EXCEPT ![c] = Streak(c, outcome)]
           /\ aborted' = [aborted EXCEPT ![c] = @ \/ trips]
           /\ future' = [future EXCEPT ![c] = [x \in Repo |->
                  IF trips /\ @[x] = "queued" THEN "withdrawn" ELSE @[x]]]
           /\ Heartbeat(c, outcome)
    /\ UNCHANGED <<lock, at, run, faults>>

\* Every future has been read: what follows is the cross-repository refresh.
LeavePool(c) ==
    /\ at[c] = "pool" /\ Pending(c) = {}
    /\ \A r \in Repo : future[c][r] \in Outcomes => r \in Read(c)
    /\ Go(c, "settle")
    /\ UNCHANGED <<lock, run, ledger, batch, faults>>

Oks(c)  == {i \in DOMAIN run_repos[c] : run_repos[c][i][2] \in Good}
Bads(c) == {i \in DOMAIN run_repos[c] : run_repos[c][i][2] \in Bad}

Verdict(c) ==
    IF Bads(c) = {} THEN "success" ELSE IF Oks(c) # {} THEN "partial" ELSE "failed"

\* _finish_run writes the verdict whatever the row says by now.
FinishRun(c) ==
    /\ at[c] = "settle"
    /\ ledger' = [ledger EXCEPT ![run[c]].status = Verdict(c)]
    /\ run' = [run EXCEPT ![c] = NoRun]
    /\ Go(c, "closed")
    /\ UNCHANGED <<lock, batch, faults>>

\* run_ingest returns and the transaction with the lock commits.
ReleaseLock(c) ==
    /\ at[c] = "closed"
    /\ Go(c, "idle") /\ Commit(c) /\ Forget(c)
    /\ UNCHANGED <<ledger, faults>>

\* The pool's context manager has waited for every future, queued ones included.
Unwound(c) ==
    /\ at[c] = "unwind" /\ Pending(c) = {}
    /\ Go(c, "idle") /\ Rollback(c) /\ Forget(c)
    /\ UNCHANGED <<ledger, faults>>

-----------------------------------------------------------------------------
(* Faults and time. *)

Fault == faults < MaxFaults /\ faults' = faults + 1

\* An exception leaves _run_ingest_locked, from inside the pool or around it.
Raise(c) ==
    /\ Fault /\ at[c] \in Inside \ {"closed", "unwind"}
    /\ IF at[c] = "pool"
       THEN Go(c, "unwind") /\ UNCHANGED <<lock, run, batch>>
       ELSE Go(c, "idle") /\ Rollback(c) /\ Forget(c)
    /\ UNCHANGED ledger

\* The process dies: the database ends its transactions.  The scheduler's threads die
\* together, and only one of them is ever in a run.
Crash(c) ==
    /\ Fault /\ at[c] # "idle"
    /\ Go(c, "idle") /\ Rollback(c) /\ Forget(c)
    /\ UNCHANGED ledger

\* The database restarts: the transaction that held the lock is gone, and whoever waits
\* for it fails; the caller inside goes on with new connections.
LoseLock(c) ==
    /\ Restarts /\ Fault /\ holder = c
    /\ holder' = NoCaller
    /\ at' = [d \in Caller |-> IF at[d] = "inserting" THEN "idle" ELSE at[d]]
    /\ UNCHANGED <<lockRow, run, ledger, batch>>

\* The rows some caller has opened and is still to close.
Open == {run[c] : c \in Caller} \ {NoRun}

Alive(n) == n \in Open

\* Time passes over a running row; a live run can only be long once it has its pool.
Age(n) ==
    /\ ledger[n].status = "running"
    /\ \A c \in Caller : run[c] = n => at[c] \in {"pool", "unwind", "settle"}
    /\ \E age \in {"idle", "old"} :
          /\ age # ledger[n].age /\ ledger[n].age # "old"
          /\ ledger' = [ledger EXCEPT ![n].age = age]
    /\ UNCHANGED <<lock, at, run, batch, faults>>

-----------------------------------------------------------------------------
\* The steps of a run once its caller has asked for it.
RunStep(c) ==
    \/ Answer(c) \/ TakeLock(c) \/ SkipRun(c) \/ InsertBehind(c) \/ InsertResolved(c)
    \/ Reconcile(c) \/ Refuse(c) \/ RecordRefusal(c) \/ PassChecks(c) \/ DiscoverRefused(c)
    \/ StartPool(c) \/ LeavePool(c) \/ FinishRun(c) \/ ReleaseLock(c) \/ Unwound(c)
    \/ \E r \in Repo : Pick(c, r) \/ ReadResult(c, r)
                       \/ \E o \in Outcomes \ {"cancelled"} : SyncReturns(c, r, o)

Next ==
    \/ \E c \in Caller : RunStep(c) \/ Ask(c) \/ Raise(c) \/ Crash(c) \/ LoseLock(c)
    \/ \E n \in RunId : Age(n)

Spec == Init /\ [][Next]_vars

\* Threads run, cron ticks again and again, and time passes over a row nobody works on.
\* Nothing makes a user ask.
FairSpec ==
    /\ Spec
    /\ \A c \in Caller : WF_vars(RunStep(c))
    /\ \A n \in RunId : WF_vars(~Alive(n) /\ Age(n))
-----------------------------------------------------------------------------
(* Properties. *)

\* At most one caller is inside _run_ingest_locked, however many processes ask at once,
\* die or raise: two runs would sync the same repository in two threads.
SingleRun == \A c, d \in Caller : at[c] \in Inside /\ at[d] \in Inside => c = d

\* Why SingleRun is inductive: whoever is inside owns the lock's transaction.
InsideHolds == \A c \in Caller : at[c] \in Inside => holder = c

\* Why the last word on a row is its run's: a caller's open row is running, or was given up by
\* its age, and it is nobody else's.
OwnRows ==
    \A c \in Caller : run[c] \in RunId =>
        /\ ledger[run[c]].status \in {"running", "failed"}
        /\ \A d \in Caller : run[d] = run[c] => d = c

\* A run that goes on to its verdict has one result for every repository, also for those
\* whose futures were cancelled by the abort.
RunIsAccounted ==
    \A c \in Caller : at[c] = "settle" => Read(c) = Repo /\ Len(run_repos[c]) = Cardinality(Repo)

\* Reading the first n results, AbortAfter network failures have followed the last
\* repository that did not fail.
NetworkDown(results) ==
    \E n \in DOMAIN results : \E i \in 0..n :
        /\ \A k \in (i + 1)..n : results[k][2] \notin Good
        /\ Cardinality({k \in (i + 1)..n : results[k][2] = "network"}) >= AbortAfter

\* The breaker trips exactly when the network looks down, and then no further sync starts.
BreakerFollowsNetwork ==
    \A c \in Caller :
        /\ aborted[c] <=> NetworkDown(run_repos[c])
        /\ aborted[c] => \A r \in Repo : future[c][r] # "queued"

\* A row of ingest_run is opened once and its run closes it once.  A run that goes on for longer
\* than the time limits may be given up by any process that asks, and then has the last word; no
\* other verdict is ever replaced, and no row runs again.
Ledger == INSTANCE RunLedger WITH verdict <- [n \in RunId |-> ledger[n].status], open <- Open
LedgerIsFinal == Ledger!Spec

\* "A run whose heartbeat stopped is not running": only its own caller fails a live run.
GivenUpAreDead ==
    [][\A n \in RunId : ledger[n].status = "running" /\ ledger'[n].status = "failed" /\ Alive(n)
          => \E c \in Caller : run[c] = n /\ (RecordRefusal(c) \/ FinishRun(c))]_vars

\* "Record a run that refused to start, so the failure is visible in history."
RefusalIsRecorded ==
    [][\A c \in Caller : RecordRefusal(c) \/ DiscoverRefused(c)
          => \E n \in RunId : run[c] = n /\ ledger'[n].status = "failed"]_vars

\* A second run "is skipped while one holds the lock": nobody waits for it.
NobodyWaits == \A c \in Caller : at[c] # "inserting"

\* Every row of a run that started is closed, whatever became of its caller.
RowsAreClosed ==
    \A n \in RunId : ledger[n].status = "running" ~> ledger[n].status # "running"

\* Every caller that got the lock leaves: an abort or an exception strands no thread.
RunsEnd == \A c \in Caller : at[c] \in Inside ~> at[c] = "idle"
=============================================================================
