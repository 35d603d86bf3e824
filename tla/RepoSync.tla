------------------------------ MODULE RepoSync ------------------------------
(***************************************************************************)
(* One repository on its way from the remote host into the statistics:      *)
(* ingest/pipeline.py sync_repo and _sync_repo_once, with the mirror of     *)
(* ingest/gitops.py, the load of ingest/store.py and the rebuild and score  *)
(* passes of analysis/.                                                     *)
(*                                                                          *)
(* Each action is one git call or one database transaction, so a failure or *)
(* a crash can fall between any two of them.  The remote moves underneath.  *)
(*                                                                          *)
(* Abstractions: a commit is all the rows written for it; the counts are    *)
(* the set of commits they were taken from (`counted`), the scores the set  *)
(* of commits whose counts they rest on (`scored`); every non-merge commit  *)
(* is small enough to be counted; descriptive repository fields are left    *)
(* out.                                                                     *)
(***************************************************************************)
EXTENDS GitHistory, Naturals

CONSTANTS
    Branch,             \* branch names on the host
    ContentionRetries,  \* DB_CONTENTION_RETRIES: attempts sync_repo makes in all
    Rewriting,          \* may the host force-push, and delete tags?
    Tagging,            \* may the host create tags?
    Renaming,           \* may the host change its default branch?
    ForceFull,          \* may a run ask for force_full?
    MaxMoves,           \* bound: changes the host makes in a behaviour
    MaxFaults           \* bound: failures and crashes in a behaviour

ASSUME SyncAssumption ==
    /\ ContentionRetries \in Nat \ {0}
    /\ {Rewriting, Tagging, Renaming, ForceFull} \subseteq BOOLEAN
    /\ MaxMoves \in Nat /\ MaxFaults \in Nat

VARIABLES
    remote,     \* the host's refs
    habits,     \* what was done besides pushing and due syncs: "tag", "rewrite", "rename", "force"
    mirror,     \* the bare mirror's refs and objects
    row,        \* the repo table's row for this repository
    stored,     \* the commits in the commit table
    replay,     \* those flagged is_replay
    refTags,    \* the commits named by the ref_tag rows
    counted,    \* the commits the pair tables were last rebuilt from
    scored,     \* the commits the metric tables were last computed from
    job,        \* the worker: where it is in _sync_repo_once, and its locals
    result,     \* RepoResult.status of the last sync_repo that returned
    moves, faults

host   == <<remote, habits, moves>>
tables == <<stored, replay, refTags, counted, scored>>
vars   == <<host, mirror, row, tables, job, result, faults>>

Sha == Commit \cup {NoCommit}

Refs == [heads : [Branch -> Sha], default : Branch, tags : SUBSET Commit]

\* The tip of the branch HEAD names; NoCommit when HEAD is unborn.
Tip(refs) == refs.heads[refs.default]

\* gitops.ref_tips: HEAD and every tag.
RefTips(refs) == ({Tip(refs)} \ {NoCommit}) \cup refs.tags

\* Every commit a transfer of all heads and tags brings along.
Transferred(refs) == Reach(({refs.heads[b] : b \in Branch} \ {NoCommit}) \cup refs.tags)

\* What this repository's walk visits: `git rev-list HEAD --tags --no-merges`.
Live == Walk(RefTips(mirror))

\* stored_refs: the recorded tips, or the one recorded sha on an older row.
StoredRefs == IF row.refs # {} THEN row.refs ELSE {row.sha} \ {NoCommit}

Statuses == {"pending", "ingesting", "ready", "failed", "empty"}
Steps    == {"idle", "mirror", "record", "load", "drop", "rebuild", "score", "stamp", "finish"}
AfterLoad == {"drop", "rebuild", "score", "stamp", "finish"}
Results  == {"none", "unchanged", "empty", "success", "failed"}

\* The locals of a worker that has just reached a step.
Job(at, attempt, force) ==
    [at |-> at, attempt |-> attempt, force |-> force,
     since |-> {}, wrote |-> FALSE, removed |-> FALSE]

NoJob == Job("idle", 0, FALSE)

Mirrors == [heads : [Branch -> Sha], default : Branch, tags : SUBSET Commit,
            objects : SUBSET Commit, valid : BOOLEAN]

\* ingest_status, head_sha, last_ingested_sha, last_ingested_refs, last_aggregate_sha
Rows == [status : Statuses, head : Sha, sha : Sha, refs : SUBSET Commit, agg : Sha]

\* force_full, the watermarks, commits_written > 0 and removed > 0
Jobs == [at : Steps, attempt : 0..ContentionRetries, force : BOOLEAN,
         since : SUBSET Commit, wrote : BOOLEAN, removed : BOOLEAN]

TypeOK ==
    /\ remote \in Refs /\ mirror \in Mirrors /\ row \in Rows
    /\ stored \in SUBSET Commit /\ replay \in SUBSET stored
    /\ refTags \in SUBSET Commit
    /\ counted \in SUBSET Commit /\ scored \in SUBSET Commit
    /\ job \in Jobs /\ result \in Results
    /\ habits \in SUBSET {"tag", "rewrite", "rename", "force"}
    /\ moves \in 0..MaxMoves /\ faults \in 0..MaxFaults

Init ==
    /\ \E b \in Branch :
          /\ remote = [heads |-> [x \in Branch |-> NoCommit], default |-> b, tags |-> {}]
          /\ mirror = [heads |-> [x \in Branch |-> NoCommit], default |-> b, tags |-> {},
                       objects |-> {}, valid |-> FALSE]
    /\ row = [status |-> "pending", head |-> NoCommit, sha |-> NoCommit, refs |-> {},
              agg |-> NoCommit]
    /\ stored = {} /\ replay = {} /\ refTags = {} /\ counted = {} /\ scored = {}
    /\ job = NoJob /\ result = "none"
    /\ habits = {} /\ moves = 0 /\ faults = 0

-----------------------------------------------------------------------------
(* The host. *)

HostMoves ==
    /\ moves < MaxMoves
    /\ moves' = moves + 1
    /\ UNCHANGED <<mirror, row, tables, job, result, faults>>

\* The default branch gets its first commit, advances, or is force-pushed.
Push(c) ==
    /\ HostMoves
    /\ Tip(remote) # c
    /\ \/ Tip(remote) \in {NoCommit} \cup Anc[c] /\ UNCHANGED habits
       \/ Tip(remote) \notin {NoCommit} \cup Anc[c] /\ Rewriting
          /\ habits' = habits \cup {"rewrite"}
    /\ remote' = [remote EXCEPT !.heads[remote.default] = c]

CreateTag(c) ==
    /\ HostMoves
    /\ Tagging /\ c \notin remote.tags /\ Tip(remote) # NoCommit
    /\ remote' = [remote EXCEPT !.tags = @ \cup {c}]
    /\ habits' = habits \cup {"tag"}

DeleteTag(c) ==
    /\ HostMoves
    /\ Rewriting /\ c \in remote.tags
    /\ remote' = [remote EXCEPT !.tags = @ \ {c}]
    /\ habits' = habits \cup {"rewrite"}

\* The default branch is renamed: the new name takes the tip, the old one goes.
RenameDefault(b) ==
    /\ HostMoves
    /\ Renaming /\ b # remote.default
    /\ remote' = [remote EXCEPT !.default = b,
                                !.heads = [@ EXCEPT ![b] = Tip(remote),
                                                    ![remote.default] = NoCommit]]
    /\ habits' = habits \cup {"rename"}

-----------------------------------------------------------------------------
(* sync_repo: the cheap check, then up to ContentionRetries attempts. *)

\* Mutant: the head is compared, the status that says its commits were loaded is not.
UnchangedHeadOnly == row.head # NoCommit /\ Tip(remote) = row.head

\* pipeline._unchanged: the row is complete and the host's tip is the recorded head.
Unchanged ==
    /\ row.status = "ready"
    /\ row.head # NoCommit /\ row.sha # NoCommit
    /\ Tip(remote) = row.head

SkipUnchanged ==
    /\ job.at = "idle" /\ Unchanged
    /\ result' = "unchanged"
    /\ UNCHANGED <<host, mirror, row, tables, job, faults>>

BeginAttempt(n, force) == job' = Job("mirror", n, force)

StartSync ==
    /\ job.at = "idle" /\ ~Unchanged
    /\ BeginAttempt(1, FALSE)
    /\ UNCHANGED <<host, mirror, row, tables, result, faults>>

\* force_full does not ask whether anything changed.
StartForced ==
    /\ ForceFull
    /\ job.at = "idle"
    /\ BeginAttempt(1, TRUE)
    /\ habits' = habits \cup {"force"}
    /\ UNCHANGED <<remote, moves, mirror, row, tables, result, faults>>

\* ls-remote failed, so remote_head answered None and the check is inconclusive.
StartUnanswered ==
    /\ faults < MaxFaults
    /\ job.at = "idle" /\ Unchanged
    /\ BeginAttempt(1, FALSE)
    /\ faults' = faults + 1
    /\ UNCHANGED <<host, mirror, row, tables, result>>

-----------------------------------------------------------------------------
(* _sync_repo_once. *)

\* gitops.fetch_mirror: refs are forced and pruned, HEAD keeps naming the branch it
\* named when the mirror was cloned, and git may collect what nothing references.
FetchMirror ==
    /\ job.at = "mirror" /\ mirror.valid
    /\ \E collected \in BOOLEAN :
          mirror' = [mirror EXCEPT
              !.heads = remote.heads,
              !.tags = remote.tags,
              !.objects = Transferred(remote) \cup (IF collected THEN {} ELSE @)]
    /\ job' = [job EXCEPT !.at = "record"]
    /\ UNCHANGED <<host, row, tables, result, faults>>

\* gitops.clone_mirror, for whichever reason: everything comes along, HEAD included.
CloneMirror ==
    /\ job.at = "mirror"
    /\ mirror' = [heads |-> remote.heads, default |-> remote.default, tags |-> remote.tags,
                  objects |-> Transferred(remote), valid |-> TRUE]
    /\ job' = [job EXCEPT !.at = "record"]
    /\ UNCHANGED <<host, row, tables, result, faults>>

\* gitops.sync_mirror fetches into a usable mirror of the clone mode asked for.  It clones
\* when there is none, when the mode changed, and after a fetch that failed in a way that
\* looks neither permanent nor transient: a damaged mirror, or a fetch that timed out.
SyncMirror == FetchMirror \/ CloneMirror

NoMirror == [heads |-> [b \in Branch |-> NoCommit], default |-> mirror.default, tags |-> {},
             objects |-> {}, valid |-> FALSE]

\* The process dies in a clone after the old mirror was moved aside and before the new one
\* took its place: nothing is at the path, and nobody looks for the one set aside.
DieInSwap ==
    /\ faults < MaxFaults
    /\ job.at = "mirror" /\ mirror.valid
    /\ faults' = faults + 1
    /\ mirror' = NoMirror
    /\ job' = NoJob
    /\ UNCHANGED <<host, row, tables, result>>

\* fetch.head_sha is None: the repository is recorded as empty and left.
RecordEmpty ==
    /\ job.at = "record" /\ Tip(mirror) = NoCommit
    /\ row' = [row EXCEPT !.status = "empty", !.head = NoCommit]
    /\ job' = NoJob /\ result' = "empty"
    /\ UNCHANGED <<host, mirror, tables, faults>>

\* Mutant: the walk starts after the new tips instead of the recorded ones.
RecordHeadSinceNewTips ==
    /\ job.at = "record" /\ Tip(mirror) # NoCommit
    /\ row' = [row EXCEPT !.status = "ingesting", !.head = Tip(mirror)]
    /\ job' = [job EXCEPT !.at = "load", !.since = RefTips(mirror) \cap mirror.objects]
    /\ UNCHANGED <<host, mirror, tables, result, faults>>

\* Mutant: the watermarks are saved with the head, before the load.
RecordHeadAndRefs ==
    /\ job.at = "record" /\ Tip(mirror) # NoCommit
    /\ row' = [row EXCEPT !.status = "ingesting", !.head = Tip(mirror),
                          !.sha = Tip(mirror), !.refs = RefTips(mirror)]
    /\ job' = [job EXCEPT !.at = "load",
                          !.since = IF job.force THEN {} ELSE StoredRefs \cap mirror.objects]
    /\ UNCHANGED <<host, mirror, tables, result, faults>>

\* Mutant: the status keeps saying ready while the new head is loaded.
RecordHeadStillReady ==
    /\ job.at = "record" /\ Tip(mirror) # NoCommit
    /\ row' = [row EXCEPT !.head = Tip(mirror)]
    /\ job' = [job EXCEPT !.at = "load",
                          !.since = IF job.force THEN {} ELSE StoredRefs \cap mirror.objects]
    /\ UNCHANGED <<host, mirror, tables, result, faults>>

\* The head is recorded before anything is loaded; the recorded tips whose objects
\* are still in the mirror become the points the walk starts after.
RecordHead ==
    /\ job.at = "record" /\ Tip(mirror) # NoCommit
    /\ row' = [row EXCEPT !.status = "ingesting", !.head = Tip(mirror)]
    /\ job' = [job EXCEPT !.at = "load",
                          !.since = IF job.force THEN {} ELSE StoredRefs \cap mirror.objects]
    /\ UNCHANGED <<host, mirror, tables, result, faults>>

\* _mark_replays adds flags; nothing takes one away while the commit stays.
MarkReplays(marks, commits, wrote, refs) ==
    IF wrote \/ job.force \/ refs # StoredRefs
    THEN replay \cup (marks \cap commits)
    ELSE replay

\* load_tags deletes this repository's rows and inserts what was read.
LoadTags(tags) == refTags' = tags

\* One transaction: commits, replay flags, tags and the new watermarks.
LoadWith(marks, tags, refs) ==
    /\ job.at = "load"
    /\ LET walk  == Live \ Reach(job.since)
           wrote == walk \ stored # {}
       IN  /\ stored' = stored \cup walk
           /\ replay' = MarkReplays(marks, stored', wrote, refs)
           /\ job' = [job EXCEPT !.at = "drop", !.wrote = wrote]
    /\ LoadTags(tags)
    /\ row' = [row EXCEPT !.sha = Tip(mirror), !.refs = refs]
    /\ UNCHANGED <<host, mirror, counted, scored, result>>

Load ==
    /\ LoadWith(ReplayedCommits(Tip(mirror), mirror.tags), mirror.tags, RefTips(mirror))
    /\ UNCHANGED faults

\* read_tags: one git call, whose failure reads like a mirror without tags.
TagsRead == {{}, mirror.tags}

\* gitops.ref_tips again: a failure reads like a mirror without a tip, and is recorded so.
TipsRead == {{}, RefTips(mirror)}

\* A git call behind the marks, the tags or the tips failed: what it was about is passed
\* over, and the load commits as if there were nothing to mark, to read or to record.
LoadUnanswered ==
    /\ faults < MaxFaults
    /\ \E compared \in SUBSET mirror.tags, tags \in TagsRead, refs \in TipsRead :
          LoadWith(ReplayedCommits(Tip(mirror), compared), tags, refs)
    /\ faults' = faults + 1

\* Mutant: off by one in the comparison of the counts.
DoomedIfTwoMore ==
    IF Cardinality(stored) > Cardinality(Live) + 1 /\ Live # {} THEN stored \ Live ELSE {}

\* _drop_unreachable_commits compares the two counts before it walks.
Doomed == IF Cardinality(stored) > Cardinality(Live) /\ Live # {} THEN stored \ Live ELSE {}

DropUnreachable ==
    /\ job.at = "drop"
    /\ stored' = stored \ Doomed
    /\ replay' = replay \ Doomed
    /\ job' = [job EXCEPT !.at = "rebuild", !.removed = (Doomed # {})]
    /\ UNCHANGED <<host, mirror, row, refTags, counted, scored, result, faults>>

\* git failed or timed out: nothing is dropped and the sync goes on.
DropSkipped ==
    /\ faults < MaxFaults
    /\ job.at = "drop"
    /\ faults' = faults + 1
    /\ job' = [job EXCEPT !.at = "rebuild"]
    /\ UNCHANGED <<host, mirror, row, tables, result>>

\* Mutant: only what this attempt did counts, not what an earlier one left undone.
NeedsRebuildThisAttempt == job.wrote \/ job.removed \/ job.force

NeedsRebuild == job.wrote \/ job.removed \/ job.force \/ row.agg # row.sha

\* rebuild_repo replaces every pair row and deletes every metric row.
Rebuild ==
    /\ job.at = "rebuild" /\ NeedsRebuild
    /\ counted' = stored \ replay
    /\ scored' = {}
    /\ job' = [job EXCEPT !.at = "score"]
    /\ UNCHANGED <<host, mirror, row, stored, replay, refTags, result, faults>>

SkipRebuild ==
    /\ job.at = "rebuild" /\ ~NeedsRebuild
    /\ job' = [job EXCEPT !.at = "finish"]
    /\ UNCHANGED <<host, mirror, row, tables, result, faults>>

\* score_repo
Score ==
    /\ job.at = "score"
    /\ scored' = counted
    /\ job' = [job EXCEPT !.at = "stamp"]
    /\ UNCHANGED <<host, mirror, row, stored, replay, refTags, counted, result, faults>>

\* last_aggregate_sha := last_ingested_sha
Stamp ==
    /\ job.at = "stamp"
    /\ row' = [row EXCEPT !.agg = row.sha]
    /\ job' = [job EXCEPT !.at = "finish"]
    /\ UNCHANGED <<host, mirror, tables, result, faults>>

Finish ==
    /\ job.at = "finish"
    /\ row' = [row EXCEPT !.status = "ready"]
    /\ job' = NoJob /\ result' = "success"
    /\ UNCHANGED <<host, mirror, tables, faults>>

\* An exception: the row says failed; a database conflict is tried again at once.
Raise(contention) ==
    /\ faults < MaxFaults
    /\ faults' = faults + 1
    /\ row' = [row EXCEPT !.status = "failed"]
    /\ IF contention /\ job.attempt < ContentionRetries
       THEN BeginAttempt(job.attempt + 1, job.force) /\ UNCHANGED result
       ELSE job' = NoJob /\ result' = "failed"
    /\ UNCHANGED <<host, mirror, tables>>

\* run_git_network gives up, at once on what does not look transient and after
\* NETWORK_RETRIES attempts on what does: sync_mirror raises with the mirror as it was.
NetworkFails == job.at = "mirror" /\ Raise(FALSE)

Fail(contention) ==
    /\ job.at # "idle" /\ (job.at = "mirror" => contention)
    /\ Raise(contention)

\* The process dies, or cannot record the failure: the row keeps what it said.
Crash ==
    /\ faults < MaxFaults
    /\ job.at # "idle"
    /\ faults' = faults + 1
    /\ job' = NoJob
    /\ UNCHANGED <<host, mirror, row, tables, result>>

-----------------------------------------------------------------------------
HostStep ==
    \/ \E c \in Commit : Push(c) \/ CreateTag(c) \/ DeleteTag(c)
    \/ \E b \in Branch : RenameDefault(b)

\* What the worker does when nothing goes wrong.
WorkerStep ==
    \/ StartSync \/ SyncMirror \/ RecordEmpty \/ RecordHead
    \/ Load \/ DropUnreachable \/ Rebuild \/ SkipRebuild \/ Score \/ Stamp \/ Finish

FaultStep ==
    \/ StartUnanswered \/ DieInSwap \/ LoadUnanswered \/ DropSkipped \/ NetworkFails \/ Crash
    \/ \E b \in BOOLEAN : Fail(b)

Next == HostStep \/ WorkerStep \/ SkipUnchanged \/ StartForced \/ FaultStep

Spec == Init /\ [][Next]_vars

\* The scheduler starts a refresh again and again, and a worker that has started runs on.
FairSpec == Spec /\ WF_vars(WorkerStep)
-----------------------------------------------------------------------------
(* Properties. *)

\* Watermark coverage.  The next walk leaves out whatever the recorded tips reach, so every
\* one of those commits has to be in the commit table already: a tip recorded before its
\* commits are loaded would hide them from every later sync.
Covered == Walk(row.refs \cup ({row.sha} \ {NoCommit})) \subseteq stored

\* The tips the table was last loaded for; once the cleanup is over, as far as recorded.
LoadedTips == IF job.at = "drop" THEN RefTips(mirror) ELSE StoredRefs

\* Incremental loading is full loading: the walk that starts after the recorded tips
\* leaves the table as a walk of the whole history would, and the cleanup leaves exactly
\* what the loaded tips reach.
Catalog == INSTANCE CommitCatalog WITH catalog <- stored, tips <- LoadedTips
IncrementalIsFull == Catalog!Spec

\* A repository that says ready has loaded the head it names, whatever failed on the way.
ReadyIsLoaded ==
    row.status = "ready" => /\ row.head = row.sha
                            /\ Walk({row.head}) \subseteq stored

\* Why Covered and ReadyIsLoaded survive every step: the recorded tips and the mirror the
\* worker is loading from agree, and the walk starts after stored commits only.
SyncInv ==
    /\ Covered
    /\ job.at = "load" => Walk(job.since) \subseteq stored
    /\ job.at \in {"load"} \cup AfterLoad =>
          Tip(mirror) # NoCommit /\ row.head = Tip(mirror) /\ row.status # "ready"
    /\ job.at \in AfterLoad => /\ row.sha = Tip(mirror) /\ row.refs \in TipsRead
                               /\ Live \subseteq stored
    /\ row.status = "ready" => row.head = row.sha /\ row.head # NoCommit

\* The cheap check is sound for the default branch: when sync_repo would answer "unchanged",
\* every commit of the host's default branch has been loaded.
UnchangedIsIngested == Unchanged => Walk({Tip(remote)}) \subseteq stored

\* The count comparison that saves the walk in _drop_unreachable_commits never hides a
\* rewritten commit: after the step the table holds exactly what git reaches.
DropIsExact == [][DropUnreachable => stored' = Live]_vars

\* Metrics never rest on counts other than those in the pair tables.
ScoresMatchCounts == scored # {} => scored = counted

\* "Only now is the repository's derived state actually current": a settled ready
\* repository has counts of exactly its countable commits, and scores of those counts.
ReadyIsCurrent ==
    row.status = "ready" /\ job.at = "idle" => counted = stored \ replay /\ scored = counted

\* What has happened to a repository whose stamps can be trusted. Where the default branch
\* only ever advances, or is renamed, steps may fail in any way: the recorded tip is never
\* again the one the counts were stamped with, so an interrupted rebuild is made up for. Where
\* nothing fails, the branch may also be rewritten and full re-reads asked for; and tags may
\* come, unless the branch goes back to where it was: a sync that finds the same tip and
\* another tag marks replays and sees nothing to recount.
Undisturbed ==
    \/ habits \subseteq {"rename"}
    \/ faults = 0 /\ ("tag" \notin habits \/ habits \cap {"rewrite", "rename"} = {})

\* On which histories that promise is kept: any failure is made up for where the default
\* branch only advances, and without failures nearly everything the host may do is.
QuietIsCurrent == Undisturbed => ReadyIsCurrent

\* A replayed change is counted once, not dropped: as long as the host takes nothing away,
\* for every stored commit some stored commit with the same patch is countable.
NoChangeLost ==
    "rewrite" \notin habits =>
        \A c \in stored : \E d \in stored \ replay : Patch[d] = Patch[c]

\* "Replays are a function of the commits and the tags": a settled ready repository
\* flags exactly the commits git marks in its mirror.
ReplaysFollowHistory ==
    row.status = "ready" /\ job.at = "idle"
        => replay = ReplayedCommits(Tip(mirror), mirror.tags) \cap stored

\* current_head answers None "for an empty repo": no branch of a repository recorded as
\* empty has a commit.
EmptyIsEmpty == [][RecordEmpty => \A b \in Branch : mirror.heads[b] = NoCommit]_vars

\* "The remote tip is where it was, so nothing needs fetching": the tags were read too.
UnchangedNeedsNoFetch == Unchanged => remote.tags \subseteq refTags

\* Once the host is quiet and nothing fails any more, its default branch is ingested and the
\* repository ready, and stays so: unless the host renamed that branch, because a mirror
\* goes on naming the old one, or full re-reads are asked for without end.
EventuallyIngested ==
    <>[](Tip(remote) # NoCommit /\ habits \cap {"rename", "force"} = {} =>
            row.status = "ready" /\ Walk({Tip(remote)}) \subseteq stored)
=============================================================================
