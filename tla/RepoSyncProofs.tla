--------------------------- MODULE RepoSyncProofs ---------------------------
(***************************************************************************)
(* What holds of one repository's sync for every commit graph, whatever    *)
(* the host does and whichever steps fail.                                 *)
(*                                                                         *)
(* First, the commit table: SyncInv ties the recorded tips, the mirror and *)
(* the worker's walk together, and gives coverage, exact cleanups and the  *)
(* refinement of CommitCatalog.                                            *)
(*                                                                         *)
(* Then, the counts: HistoryInv compares what is recorded with what the    *)
(* host has. Shas that were recorded are ancestors of the branch as long   *)
(* as it is not rewritten (Forward), so a stamp that names the tip was set *)
(* for that tip (Stamped, Pending); every replay has its twin on the       *)
(* recorded branch (Witnessed), and where there is no tag there is no      *)
(* replay (Tagless).                                                       *)
(***************************************************************************)
EXTENDS RepoSync, FiniteSetTheorems, TLAPS

-----------------------------------------------------------------------------
(* Reachability. *)

LEMMA ReachType ==
    ASSUME NEW S \in SUBSET Commit
    PROVE  Reach(S) \in SUBSET Commit /\ Walk(S) \in SUBSET Commit
BY AncAssumption DEF Reach, Walk

LEMMA WalkMonotone ==
    ASSUME NEW S \in SUBSET Commit, NEW T \in SUBSET S
    PROVE  Walk(T) \subseteq Walk(S)
BY AncAssumption DEF Reach, Walk

LEMMA WalkNotEmpty ==
    ASSUME NEW S \in SUBSET Commit, NEW c \in S
    PROVE  Walk(S) # {}
BY AncAssumption, MergeAssumption DEF Reach, Walk

\* Leaving out what `since` reaches loses nothing that is stored already.
LEMMA WalkSince ==
    ASSUME NEW S \in SUBSET Commit, NEW since \in SUBSET Commit,
           NEW have \in SUBSET Commit, Walk(since) \subseteq have
    PROVE  have \cup (Walk(S) \ Reach(since)) = have \cup Walk(S)
BY DEF Walk

LEMMA RefTipsType ==
    ASSUME NEW r, r.heads \in [Branch -> Sha], r.default \in Branch,
           r.tags \in SUBSET Commit
    PROVE  /\ Tip(r) \in Sha
           /\ RefTips(r) \in SUBSET Commit
           /\ Transferred(r) \in SUBSET Commit
           /\ Walk(RefTips(r)) \in SUBSET Commit
           /\ Tip(r) # NoCommit => Tip(r) \in RefTips(r)
<1>1. Tip(r) \in Sha
  BY DEF Tip
<1>2. RefTips(r) \in SUBSET Commit
  BY <1>1 DEF RefTips, Sha
<1>3. (({r.heads[b] : b \in Branch} \ {NoCommit}) \cup r.tags) \in SUBSET Commit
  BY DEF Sha
<1>4. Transferred(r) \in SUBSET Commit
  BY <1>3, ReachType DEF Transferred
<1>5. Tip(r) # NoCommit => Tip(r) \in RefTips(r)
  BY DEF RefTips
<1> QED
  BY <1>1, <1>2, <1>4, <1>5, ReachType

-----------------------------------------------------------------------------
(* Type correctness. *)

LEMMA JobType ==
    /\ NoJob \in Jobs
    /\ \A n \in 1..ContentionRetries, f \in BOOLEAN : Job("mirror", n, f) \in Jobs
    /\ \A j \in Jobs, s \in Steps : [j EXCEPT !.at = s] \in Jobs
<1>1. \A s \in Steps, n \in 0..ContentionRetries, f \in BOOLEAN : Job(s, n, f) \in Jobs
  BY DEF Job, Jobs
<1>2. 1..ContentionRetries \subseteq 0..ContentionRetries /\ 0 \in 0..ContentionRetries
  BY SyncAssumption
<1>3. {"idle", "mirror"} \subseteq Steps
  BY DEF Steps
<1>4. NoJob \in Jobs
  BY <1>1, <1>2, <1>3 DEF NoJob
<1>5. \A j \in Jobs, s \in Steps : [j EXCEPT !.at = s] \in Jobs
  BY DEF Jobs
<1> QED
  BY <1>1, <1>2, <1>3, <1>4, <1>5

LEMMA RowType ==
    \A r \in Rows, s \in Statuses : [r EXCEPT !.status = s] \in Rows
BY DEF Rows

\* Every reachable state is one the tables and the worker can represent.
THEOREM TypeCorrect == Spec => []TypeOK
<1>1. Init => TypeOK
  <2> SUFFICES ASSUME Init PROVE TypeOK
    OBVIOUS
  <2>1. remote \in Refs /\ mirror \in Mirrors /\ row \in Rows
    BY DEF Init, Refs, Sha, Mirrors, Rows, Statuses
  <2>2. moves \in 0..MaxMoves /\ faults \in 0..MaxFaults
    BY SyncAssumption DEF Init
  <2> QED
    BY <2>1, <2>2, JobType DEF Init, TypeOK, Results
<1>2. TypeOK /\ [Next]_vars => TypeOK'
  <2> SUFFICES ASSUME TypeOK, [Next]_vars PROVE TypeOK'
    OBVIOUS
  <2> USE DEF TypeOK, host, tables
  <2>s. {"mirror", "record", "load", "drop", "rebuild", "score", "stamp", "finish"}
           \subseteq Steps
    BY DEF Steps
  <2>r. {"ingesting", "ready", "failed", "empty"} \subseteq Statuses
    BY DEF Statuses
  <2>u. {"unchanged", "empty", "success", "failed"} \subseteq Results
    BY DEF Results
  <2>t. /\ Tip(mirror) \in Sha
        /\ RefTips(mirror) \in SUBSET Commit
        /\ Live \in SUBSET Commit
        /\ Tip(remote) \in Sha
        /\ Transferred(remote) \in SUBSET Commit
    BY RefTipsType DEF Refs, Mirrors, Live
  <2>n. NoCommit \in Sha
    BY DEF Sha
  <2>c. 1 \in 1..ContentionRetries
    BY SyncAssumption
  <2>f. faults < MaxFaults => faults + 1 \in 0..MaxFaults
    BY SyncAssumption
  <2>m. moves < MaxMoves => moves + 1 \in 0..MaxMoves
    BY SyncAssumption
  <2>1. ASSUME NEW c \in Commit, Push(c) PROVE TypeOK'
    <3>1. remote' \in Refs
      BY <2>1 DEF Push, Refs, Sha
    <3> QED
      BY <2>1, <2>m, <3>1 DEF Push, HostMoves
  <2>2. ASSUME NEW c \in Commit, CreateTag(c) PROVE TypeOK'
    <3>1. remote' \in Refs
      BY <2>2 DEF CreateTag, Refs
    <3> QED
      BY <2>2, <2>m, <3>1 DEF CreateTag, HostMoves
  <2>3. ASSUME NEW c \in Commit, DeleteTag(c) PROVE TypeOK'
    <3>1. remote' \in Refs
      BY <2>3 DEF DeleteTag, Refs
    <3> QED
      BY <2>3, <2>m, <3>1 DEF DeleteTag, HostMoves
  <2>4. ASSUME NEW b \in Branch, RenameDefault(b) PROVE TypeOK'
    <3>1. [[remote.heads EXCEPT ![b] = Tip(remote)] EXCEPT ![remote.default] = NoCommit]
             \in [Branch -> Sha]
      BY <2>t, <2>n DEF Refs
    <3>2. remote' \in Refs
      BY <2>4, <3>1 DEF RenameDefault, Refs
    <3> QED
      BY <2>4, <2>m, <3>2 DEF RenameDefault, HostMoves
  <2>5. CASE SkipUnchanged
    BY <2>5, <2>u DEF SkipUnchanged
  <2>6. CASE StartSync
    BY <2>6, <2>c, JobType DEF StartSync, BeginAttempt
  <2>7. CASE StartForced
    BY <2>7, <2>c, JobType DEF StartForced, BeginAttempt
  <2>8. CASE StartUnanswered
    BY <2>8, <2>c, <2>f, JobType DEF StartUnanswered, BeginAttempt
  <2>9. CASE FetchMirror
    <3>1. PICK old \in {{}, mirror.objects} :
             mirror' = [mirror EXCEPT !.heads = remote.heads, !.tags = remote.tags,
                                      !.objects = Transferred(remote) \cup old]
      BY <2>9 DEF FetchMirror
    <3>2. old \in SUBSET Commit
      BY DEF Mirrors
    <3>3. mirror' \in Mirrors
      BY <3>1, <3>2, <2>t DEF Refs, Mirrors
    <3> QED
      BY <2>9, <3>3, <2>s, JobType DEF FetchMirror
  <2>10. CASE CloneMirror
    <3>1. mirror' \in Mirrors
      BY <2>10, <2>t DEF CloneMirror, Refs, Mirrors
    <3> QED
      BY <2>10, <3>1, <2>s, JobType DEF CloneMirror
  <2>11. CASE RecordEmpty
    <3>1. row' \in Rows
      BY <2>11, <2>n, <2>r DEF RecordEmpty, Rows
    <3> QED
      BY <2>11, <3>1, <2>u, JobType DEF RecordEmpty
  <2>12. CASE RecordHead
    <3>1. row' \in Rows
      BY <2>12, <2>t, <2>r DEF RecordHead, Rows
    <3>2. (IF job.force THEN {} ELSE StoredRefs \cap mirror.objects) \in SUBSET Commit
      BY DEF Mirrors
    <3>3. job' \in Jobs
      BY <2>12, <2>s, <3>2 DEF RecordHead, Jobs
    <3> QED
      BY <2>12, <3>1, <3>3 DEF RecordHead
  <2>13. ASSUME NEW marks, NEW tags \in SUBSET Commit, NEW refs \in SUBSET Commit,
                LoadWith(marks, tags, refs), faults' \in 0..MaxFaults
         PROVE  TypeOK'
    <3>1. stored' \in SUBSET Commit
      BY <2>13, <2>t DEF LoadWith
    <3>2. replay' \in SUBSET stored'
      BY <2>13 DEF LoadWith, MarkReplays
    <3>3. row' \in Rows
      BY <2>13, <2>t DEF LoadWith, Rows
    <3>4. job' \in Jobs
      BY <2>13, <2>s DEF LoadWith, Jobs
    <3>5. refTags' \in SUBSET Commit
      BY <2>13 DEF LoadWith, LoadTags
    <3> QED
      BY <2>13, <3>1, <3>2, <3>3, <3>4, <3>5 DEF LoadWith
  <2>24. CASE Load
    BY <2>24, <2>13, <2>t DEF Load, Mirrors
  <2>25. CASE LoadUnanswered
    <3>1. PICK compared \in SUBSET mirror.tags, tags \in TagsRead, refs \in TipsRead :
             LoadWith(ReplayedCommits(Tip(mirror), compared), tags, refs)
      BY <2>25 DEF LoadUnanswered
    <3>2. tags \in SUBSET Commit /\ refs \in SUBSET Commit
      BY <2>t DEF TagsRead, TipsRead, Mirrors
    <3> QED
      BY <2>25, <2>13, <2>f, <3>1, <3>2 DEF LoadUnanswered
  <2>26. CASE DieInSwap
    <3>1. mirror' \in Mirrors
      BY <2>26, <2>n DEF DieInSwap, NoMirror, Mirrors
    <3> QED
      BY <2>26, <2>f, <3>1, JobType DEF DieInSwap
  <2>14. CASE DropUnreachable
    <3>1. (Doomed # {}) \in BOOLEAN
      OBVIOUS
    <3>2. job' \in Jobs
      BY <2>14, <2>s, <3>1 DEF DropUnreachable, Jobs
    <3> QED
      BY <2>14, <3>2 DEF DropUnreachable
  <2>15. CASE DropSkipped
    BY <2>15, <2>f, <2>s, JobType DEF DropSkipped
  <2>16. CASE Rebuild
    BY <2>16, <2>s, JobType DEF Rebuild
  <2>17. CASE SkipRebuild
    BY <2>17, <2>s, JobType DEF SkipRebuild
  <2>18. CASE Score
    BY <2>18, <2>s, JobType DEF Score
  <2>19. CASE Stamp
    <3>1. row' \in Rows
      BY <2>19 DEF Stamp, Rows
    <3> QED
      BY <2>19, <3>1, <2>s, JobType DEF Stamp
  <2>20. CASE Finish
    BY <2>20, <2>r, <2>u, JobType, RowType DEF Finish
  <2>21. ASSUME NEW b \in BOOLEAN, Raise(b) PROVE TypeOK'
    <3>1. row' \in Rows
      BY <2>21, <2>r, RowType DEF Raise
    <3>2. CASE b /\ job.attempt < ContentionRetries
      <4>1. job.attempt + 1 \in 1..ContentionRetries /\ job.force \in BOOLEAN
        BY <3>2, SyncAssumption DEF Jobs
      <4> QED
        BY <2>21, <2>f, <3>1, <3>2, <4>1, JobType DEF Raise, BeginAttempt
    <3>3. CASE ~(b /\ job.attempt < ContentionRetries)
      BY <2>21, <2>f, <3>1, <3>3, <2>u, JobType DEF Raise
    <3> QED
      BY <3>2, <3>3
  <2>22. CASE Crash
    BY <2>22, <2>f, JobType DEF Crash
  <2>23. CASE UNCHANGED vars
    BY <2>23 DEF vars
  <2> QED
    BY <2>1, <2>2, <2>3, <2>4, <2>5, <2>6, <2>7, <2>8, <2>9, <2>10, <2>11,
       <2>12, <2>14, <2>15, <2>16, <2>17, <2>18, <2>19, <2>20, <2>21, <2>22,
       <2>23, <2>24, <2>25, <2>26
    DEF Next, HostStep, WorkerStep, FaultStep, SyncMirror, NetworkFails, Fail
<1> QED
  BY <1>1, <1>2, PTL DEF Spec

-----------------------------------------------------------------------------
(* Watermark coverage. *)

LEMMA CoveredType ==
    TypeOK => /\ row.refs \cup ({row.sha} \ {NoCommit}) \in SUBSET Commit
              /\ row.refs \in SUBSET Commit
              /\ StoredRefs \subseteq row.refs \cup ({row.sha} \ {NoCommit})
BY DEF TypeOK, Rows, Sha, StoredRefs

\* Before the cleanup step everything git reaches is in the table, and there is something.
LEMMA LiveStored ==
    ASSUME TypeOK, SyncInv, job.at \in AfterLoad
    PROVE  Live \subseteq stored /\ Live # {}
<1>1. Tip(mirror) \in RefTips(mirror) /\ RefTips(mirror) \in SUBSET Commit
  BY RefTipsType DEF SyncInv, TypeOK, Mirrors
<1>2. Live \subseteq stored
  BY DEF SyncInv
<1> QED
  BY <1>1, <1>2, WalkNotEmpty DEF Live

\* What a load records is the tips it read, or the branch's alone.
LEMMA RecordedAreRead ==
    ASSUME TypeOK, SyncInv, job.at \in AfterLoad
    PROVE  row.refs \cup ({row.sha} \ {NoCommit}) \subseteq RefTips(mirror)
BY RefTipsType DEF SyncInv, TypeOK, Mirrors, TipsRead

\* Comparing the two counts is as good as comparing the two sets.
LEMMA DropLeavesLive ==
    ASSUME TypeOK, SyncInv, DropUnreachable
    PROVE  stored' = Live
<1>1. Live \subseteq stored /\ Live # {}
  BY LiveStored DEF DropUnreachable, AfterLoad
<1>2. IsFiniteSet(stored)
  BY CommitAssumption, FS_Subset DEF TypeOK
<1>3. CASE Cardinality(stored) > Cardinality(Live)
  BY <1>1, <1>3 DEF DropUnreachable, Doomed
<1>4. CASE ~(Cardinality(stored) > Cardinality(Live))
  <2>1. Cardinality(Live) <= Cardinality(stored) /\ Cardinality(stored) \in Nat
        /\ Cardinality(Live) \in Nat
        /\ (Cardinality(stored) = Cardinality(Live) => stored = Live)
    BY <1>1, <1>2, FS_Subset, FS_CardinalityType
  <2>2. stored = Live
    BY <2>1, <1>4
  <2> QED
    BY <1>4, <2>2 DEF DropUnreachable, Doomed
<1> QED
  BY <1>3, <1>4

\* A load adds exactly the commits of the new tips that were missing.
LEMMA LoadIsFull ==
    ASSUME TypeOK, SyncInv, NEW marks, NEW tags, NEW refs, LoadWith(marks, tags, refs)
    PROVE  stored' = stored \cup Live
<1>1. RefTips(mirror) \in SUBSET Commit
  BY RefTipsType DEF TypeOK, Mirrors
<1>2. job.since \in SUBSET Commit /\ Walk(job.since) \subseteq stored
  BY DEF TypeOK, Jobs, SyncInv, LoadWith
<1> QED
  BY <1>1, <1>2, WalkSince DEF LoadWith, Live, TypeOK

LEMMA MirrorStays == mirror' = mirror => Live' = Live /\ TipsRead' = TipsRead
BY DEF Live, TipsRead, RefTips, Tip, Walk, Reach

LEMMA SyncInvInit == Init => SyncInv
BY DEF Init, SyncInv, Covered, Walk, Reach, NoJob, Job, AfterLoad

LEMMA SyncInvStep == TypeOK /\ SyncInv /\ [Next]_vars => SyncInv'
<1> SUFFICES ASSUME TypeOK, SyncInv, [Next]_vars PROVE SyncInv'
  OBVIOUS
<1> USE DEF SyncInv, host, tables
<1>1. ASSUME HostMoves PROVE SyncInv'
  BY <1>1, MirrorStays DEF HostMoves, Covered, AfterLoad
<1>2. CASE SkipUnchanged
  BY <1>2, MirrorStays DEF SkipUnchanged, Covered, AfterLoad
<1>3. CASE StartSync \/ StartForced \/ StartUnanswered
  BY <1>3 DEF StartSync, StartForced, StartUnanswered, BeginAttempt, Job, Covered, AfterLoad
<1>4. CASE FetchMirror \/ CloneMirror
  <2>1. job'.at = "record"
    BY <1>4 DEF FetchMirror, CloneMirror, TypeOK, Jobs
  <2> QED
    BY <1>4, <2>1 DEF FetchMirror, CloneMirror, Covered, AfterLoad
<1>5. CASE RecordEmpty
  BY <1>5 DEF RecordEmpty, NoJob, Job, Covered, AfterLoad, TypeOK, Rows
<1>6. CASE RecordHead
  <2>1. /\ job'.at = "load" /\ job'.since \subseteq StoredRefs
        /\ row'.head = Tip(mirror) /\ row'.status = "ingesting"
        /\ row'.sha = row.sha /\ row'.refs = row.refs
    BY <1>6 DEF RecordHead, TypeOK, Jobs, Rows
  <2>2. Walk(job'.since) \subseteq stored
    BY <2>1, CoveredType, WalkMonotone DEF Covered
  <2> QED
    BY <1>6, <2>1, <2>2 DEF RecordHead, Covered, AfterLoad
<1>7. ASSUME NEW marks, NEW tags, NEW refs \in TipsRead, LoadWith(marks, tags, refs)
      PROVE  SyncInv'
  <2>1. stored' = stored \cup Live
    BY <1>7, LoadIsFull
  <2>2. /\ job'.at = "drop" /\ row'.sha = Tip(mirror) /\ row'.refs = refs
        /\ row'.head = row.head /\ row'.status = row.status
    BY <1>7 DEF LoadWith, TypeOK, Jobs, Rows
  <2>3. RefTips(mirror) \in SUBSET Commit
        /\ row'.refs \cup ({row'.sha} \ {NoCommit}) \subseteq RefTips(mirror)
    BY <1>7, <2>2, RefTipsType DEF LoadWith, TypeOK, Mirrors, TipsRead
  <2>4. Walk(row'.refs \cup ({row'.sha} \ {NoCommit})) \subseteq stored'
    BY <2>1, <2>3, WalkMonotone DEF Live
  <2>5. Live' = Live /\ mirror' = mirror /\ TipsRead' = TipsRead
    BY <1>7, MirrorStays DEF LoadWith
  <2>6. Covered'
    BY <2>4 DEF Covered, Walk, Reach
  <2> QED
    BY <1>7, <2>1, <2>2, <2>5, <2>6 DEF LoadWith, AfterLoad
<1>8. CASE DropUnreachable
  <2>1. stored' = Live
    BY <1>8, DropLeavesLive
  <2>2. Walk(row.refs \cup ({row.sha} \ {NoCommit})) \subseteq Live
    BY <1>8, RecordedAreRead, RefTipsType, WalkMonotone
    DEF DropUnreachable, TypeOK, Mirrors, AfterLoad, Live
  <2>3. job'.at = "rebuild" /\ row' = row /\ mirror' = mirror
    BY <1>8 DEF DropUnreachable, TypeOK, Jobs
  <2>4. Live' = Live /\ TipsRead' = TipsRead
    BY <2>3, MirrorStays
  <2> QED
    BY <1>8, <2>1, <2>2, <2>3, <2>4 DEF DropUnreachable, Covered, AfterLoad
<1>9. CASE DropSkipped \/ Rebuild \/ SkipRebuild \/ Score
  <2>1. job.at \in AfterLoad /\ job'.at \in AfterLoad
    BY <1>9 DEF DropSkipped, Rebuild, SkipRebuild, Score, TypeOK, Jobs, AfterLoad
  <2> QED
    BY <1>9, <2>1, MirrorStays DEF DropSkipped, Rebuild, SkipRebuild, Score, Covered, AfterLoad
<1>10. CASE Stamp
  <2>1. /\ job.at \in AfterLoad /\ job'.at \in AfterLoad
        /\ row'.status = row.status /\ row'.head = row.head
        /\ row'.sha = row.sha /\ row'.refs = row.refs
    BY <1>10 DEF Stamp, TypeOK, Jobs, Rows, AfterLoad
  <2> QED
    BY <1>10, <2>1, MirrorStays DEF Stamp, Covered, AfterLoad
<1>11. CASE Finish
  <2>1. job.at \in AfterLoad /\ row'.head = row.head /\ row'.sha = row.sha
        /\ row'.refs = row.refs
    BY <1>11 DEF Finish, TypeOK, Rows, AfterLoad
  <2> QED
    BY <1>11, <2>1 DEF Finish, NoJob, Job, Covered, AfterLoad
<1>12. ASSUME NEW b \in BOOLEAN, Raise(b) PROVE SyncInv'
  <2>1. /\ row'.status = "failed" /\ row'.head = row.head
        /\ row'.sha = row.sha /\ row'.refs = row.refs
    BY <1>12 DEF Raise, TypeOK, Rows
  <2>2. job'.at \in {"idle", "mirror"}
    BY <1>12 DEF Raise, BeginAttempt, NoJob, Job
  <2> QED
    BY <1>12, <2>1, <2>2 DEF Raise, Covered, AfterLoad
<1>13. CASE Crash
  BY <1>13 DEF Crash, NoJob, Job, Covered, AfterLoad
<1>14. CASE UNCHANGED vars
  BY <1>14, MirrorStays DEF vars, Covered, AfterLoad
<1>15. CASE DieInSwap
  BY <1>15 DEF DieInSwap, NoJob, Job, Covered, AfterLoad
<1> QED
  BY <1>1, <1>2, <1>3, <1>4, <1>5, <1>6, <1>7, <1>8, <1>9, <1>10, <1>11, <1>12, <1>13, <1>14,
     <1>15
  DEF Next, HostStep, WorkerStep, FaultStep, Push, CreateTag, DeleteTag, RenameDefault,
      SyncMirror, NetworkFails, Fail, Load, LoadUnanswered, TipsRead

\* In every state of the sync the recorded tips, the mirror and the commit table agree as far as
\* the worker has got: what a walk starts after is stored, and what is ready was loaded.
THEOREM SyncInvariant == Spec => []SyncInv
BY SyncInvInit, SyncInvStep, TypeCorrect, PTL DEF Spec

\* The recorded tips never hide a commit that was not loaded, whatever fails and whatever
\* the host rewrites.
THEOREM Coverage == Spec => []Covered
<1>1. SyncInv => Covered
  BY DEF SyncInv
<1> QED
  BY <1>1, SyncInvariant, PTL

\* ready means the recorded head is loaded.
THEOREM ReadyMeansLoaded == Spec => []ReadyIsLoaded
<1>1. TypeOK /\ SyncInv => ReadyIsLoaded
  <2> SUFFICES ASSUME TypeOK, SyncInv, row.status = "ready"
               PROVE  row.head = row.sha /\ Walk({row.head}) \subseteq stored
    BY DEF ReadyIsLoaded
  <2>1. row.head = row.sha /\ row.sha # NoCommit
    BY DEF SyncInv
  <2> QED
    BY <2>1, CoveredType, WalkMonotone DEF SyncInv, Covered
<1> QED
  BY <1>1, TypeCorrect, SyncInvariant, PTL

\* Whenever the cheap check would answer "unchanged", the host's default branch is loaded.
THEOREM UnchangedMeansIngested == Spec => []UnchangedIsIngested
<1>1. ReadyIsLoaded => UnchangedIsIngested
  BY DEF ReadyIsLoaded, UnchangedIsIngested, Unchanged
<1> QED
  BY <1>1, ReadyMeansLoaded, PTL

\* The cleanup leaves exactly what git reaches.
THEOREM DropLeavesReachable == Spec => DropIsExact
<1>1. TypeOK /\ SyncInv => [DropUnreachable => stored' = Live]_vars
  BY DropLeavesLive
<1> QED
  BY <1>1, TypeCorrect, SyncInvariant, PTL DEF DropIsExact

\* Every step of the sync is a full load, an exact cleanup, or leaves the table alone.
THEOREM IncrementalLoadIsFull == Spec => IncrementalIsFull
<1>1. Init => Catalog!Init
  BY DEF Init, Catalog!Init, LoadedTips, StoredRefs, NoJob, Job
<1>2. TypeOK /\ SyncInv /\ [Next]_vars
         => [Catalog!Load \/ Catalog!Forget \/ Catalog!Cleanup]_<<stored, LoadedTips>>
  <2> SUFFICES ASSUME TypeOK, SyncInv, [Next]_vars
               PROVE  \/ Catalog!Load \/ Catalog!Forget \/ Catalog!Cleanup
                      \/ UNCHANGED <<stored, LoadedTips>>
    OBVIOUS
  <2>t. RefTips(mirror) \in SUBSET Commit
    BY RefTipsType DEF TypeOK, Mirrors
  <2>1. ASSUME NEW marks, NEW tags, NEW refs \in TipsRead, LoadWith(marks, tags, refs)
        PROVE  Catalog!Load
    <3>1. stored' = stored \cup Walk(RefTips(mirror))
      BY <2>1, LoadIsFull DEF Live
    <3>2. job'.at = "drop" /\ mirror' = mirror
      BY <2>1 DEF LoadWith, TypeOK, Jobs
    <3>3. LoadedTips' = RefTips(mirror)
      BY <3>2 DEF LoadedTips, RefTips, Tip
    <3> QED
      BY <2>t, <3>1, <3>3 DEF Catalog!Load, Catalog!Walk, Catalog!Reach, Walk, Reach
  <2>2. ASSUME job.at = "drop", row' = row, mirror' = mirror
        PROVE  LoadedTips = RefTips(mirror) /\ LoadedTips' \subseteq LoadedTips
    <3>1. RefTips(mirror)' = RefTips(mirror)
      BY <2>2 DEF RefTips, Tip
    <3>2. StoredRefs' \subseteq RefTips(mirror)
      BY <2>2, RecordedAreRead DEF AfterLoad, StoredRefs
    <3> QED
      BY <2>2, <3>1, <3>2 DEF LoadedTips
  <2>3. CASE DropUnreachable
    <3>1. stored' = Walk(RefTips(mirror))
      BY <2>3, DropLeavesLive DEF Live
    <3>2. job.at = "drop" /\ row' = row /\ mirror' = mirror
      BY <2>3 DEF DropUnreachable
    <3> QED
      BY <2>2, <3>1, <3>2 DEF Catalog!Cleanup, Catalog!Walk, Catalog!Reach, Walk, Reach
  <2>4. CASE [Next /\ ~Load /\ ~LoadUnanswered /\ ~DropUnreachable]_vars
    <3>1. stored' = stored
      BY <2>4 DEF Next, HostStep, WorkerStep, FaultStep, vars, host, tables, HostMoves,
         Push, CreateTag, DeleteTag, RenameDefault, SkipUnchanged, StartSync, StartForced,
         StartUnanswered, SyncMirror, FetchMirror, CloneMirror, DieInSwap, RecordEmpty, RecordHead, DropSkipped,
         Rebuild, SkipRebuild, Score, Stamp, Finish, NetworkFails, Fail, Raise, Crash
    <3>2. row'.refs = row.refs /\ row'.sha = row.sha
      BY <2>4 DEF Next, HostStep, WorkerStep, FaultStep, vars, host, tables, HostMoves,
         Push, CreateTag, DeleteTag, RenameDefault, SkipUnchanged, StartSync, StartForced,
         StartUnanswered, SyncMirror, FetchMirror, CloneMirror, DieInSwap, RecordEmpty, RecordHead, DropSkipped,
         Rebuild, SkipRebuild, Score, Stamp, Finish, NetworkFails, Fail, Raise, Crash, TypeOK, Rows
    <3>3. StoredRefs' = StoredRefs
      BY <3>2 DEF StoredRefs
    <3>4. CASE job.at = "drop"
      <4>1. StoredRefs \subseteq RefTips(mirror)
        BY <3>4, RecordedAreRead DEF AfterLoad, StoredRefs
      <4>2. mirror' = mirror
        BY <2>4, <3>4 DEF Next, HostStep, WorkerStep, FaultStep, vars, host, tables, HostMoves,
           Push, CreateTag, DeleteTag, RenameDefault, SkipUnchanged, StartSync, StartForced,
           StartUnanswered, SyncMirror, FetchMirror, CloneMirror, DieInSwap, RecordEmpty, RecordHead, DropSkipped,
           Rebuild, SkipRebuild, Score, Stamp, Finish, NetworkFails, Fail, Raise, Crash
      <4>3. RefTips(mirror)' = RefTips(mirror)
        BY <4>2 DEF RefTips, Tip
      <4>4. LoadedTips' \subseteq LoadedTips
        BY <3>3, <3>4, <4>1, <4>3 DEF LoadedTips
      <4> QED
        BY <3>1, <4>4 DEF Catalog!Forget
    <3>5. CASE job.at # "drop"
      <4>1. ASSUME job' = job PROVE job'.at # "drop"
        BY <3>5, <4>1
      <4>2. ASSUME \E at \in Steps \ {"drop"} : job' = [job EXCEPT !.at = at] PROVE job'.at # "drop"
        BY <4>2 DEF TypeOK, Jobs
      <4>3. ASSUME job' = NoJob \/ \E n \in Nat, f \in BOOLEAN : job' = Job("mirror", n, f) PROVE job'.at # "drop"
        BY <4>3 DEF NoJob, Job
      <4>4. ASSUME RecordHead PROVE job'.at # "drop"
        BY <4>4 DEF RecordHead, TypeOK, Jobs
      <4>5. job' = job \/ (\E at \in Steps \ {"drop"} : job' = [job EXCEPT !.at = at])
            \/ job' = NoJob \/ (\E n \in Nat, f \in BOOLEAN : job' = Job("mirror", n, f))
            \/ RecordHead
        <5>1. CASE HostStep \/ SkipUnchanged \/ UNCHANGED vars
          BY <5>1 DEF HostStep, HostMoves, Push, CreateTag, DeleteTag, RenameDefault,
             SkipUnchanged, vars
        <5>2. CASE StartSync \/ StartForced \/ StartUnanswered
          BY <5>2 DEF StartSync, StartForced, StartUnanswered, BeginAttempt
        <5>3. CASE SyncMirror \/ Rebuild \/ SkipRebuild \/ Score \/ Stamp
          BY <5>3 DEF SyncMirror, FetchMirror, CloneMirror, Rebuild, SkipRebuild, Score, Stamp,
             Steps
        <5>4. CASE RecordEmpty \/ Finish \/ Crash \/ DieInSwap
          BY <5>4 DEF RecordEmpty, Finish, Crash, DieInSwap
        <5>5. ASSUME NEW b \in BOOLEAN, Raise(b)
              PROVE  job' = NoJob \/ \E n \in Nat, f \in BOOLEAN : job' = Job("mirror", n, f)
          <6>1. job.attempt + 1 \in Nat /\ job.force \in BOOLEAN
            BY SyncAssumption DEF TypeOK, Jobs
          <6> QED
            BY <5>5, <6>1 DEF Raise, BeginAttempt
        <5>6. ~DropSkipped
          BY <3>5 DEF DropSkipped
        <5> QED
          BY <2>4, <5>1, <5>2, <5>3, <5>4, <5>5, <5>6
          DEF Next, WorkerStep, FaultStep, NetworkFails, Fail
      <4>6. job'.at # "drop"
        BY <4>1, <4>2, <4>3, <4>4, <4>5
      <4> QED
        BY <3>1, <3>3, <3>5, <4>6 DEF LoadedTips
    <3> QED
      BY <3>4, <3>5
  <2> QED
    BY <2>1, <2>3, <2>4 DEF Load, LoadUnanswered, TipsRead
<1> QED
  BY <1>1, <1>2, TypeCorrect, SyncInvariant, PTL
  DEF Spec, IncrementalIsFull, Catalog!Spec

-----------------------------------------------------------------------------
(* What holds of the histories the host has not rewritten. *)

\* The branch the host calls its default is the only one that has commits.
OneBranch == \A b \in Branch : b # remote.default => remote.heads[b] = NoCommit

\* y is c, or reaches it, unless c is no commit at all.
Precedes(c, y) == c = NoCommit \/ (y # NoCommit /\ c \in Anc[y])

\* Without a rewrite, what was recorded and what was fetched only ever falls behind.
Forward ==
    "rewrite" \notin habits =>
        /\ Precedes(row.sha, Tip(remote)) /\ Precedes(Tip(mirror), Tip(remote))
        /\ job.at \in {"record", "load"} /\ Tip(mirror) # NoCommit
              => Precedes(row.sha, Tip(mirror))

\* Without a rewrite, every replay has a countable twin on the recorded branch.
Witnessed ==
    "rewrite" \notin habits =>
        \A c \in replay : \E d \in Walk({row.sha} \ {NoCommit}) \ replay : Patch[d] = Patch[c]

\* Without a tag nothing is ever marked.
Tagless == "tag" \notin habits => remote.tags = {} /\ mirror.tags = {} /\ replay = {}

\* Where the branch only advances or is renamed, the counts are of the recorded branch
\* whenever the stamp names its tip, and no step but the stamp makes the two agree.
Stamped ==
    habits \subseteq {"rename"} =>
        /\ stored = Walk({row.sha} \ {NoCommit})
        /\ Precedes(row.agg, row.sha)
        /\ row.agg = row.sha => counted = stored /\ scored = counted
        /\ job.force = FALSE /\ job.removed = FALSE
        /\ job.at \in {"drop", "rebuild"} /\ job.wrote => row.agg # row.sha
        /\ job.at \in {"score", "stamp"} => row.agg # row.sha /\ counted = stored
        /\ job.at = "stamp" => scored = counted
        /\ job.at = "finish" \/ row.status = "ready" => row.agg = row.sha

Current == counted = stored \ replay /\ scored = counted /\ row.agg = row.sha

\* Where nothing failed and the branch only advances, a sync that is not forced has
\* found a new tip.
Resumes ==
    faults = 0 /\ habits \cap {"rewrite", "rename"} = {} =>
        /\ mirror.default = remote.default
        /\ job.at \in {"idle", "mirror", "record"} => row.status = "ready" \/ row.sha = NoCommit
        /\ job.at = "mirror" => job.force \/ row.sha = NoCommit \/ Tip(remote) # row.sha
        /\ job.at \in {"record", "load"}
              => job.force \/ row.sha = NoCommit \/ Tip(mirror) # row.sha
        /\ job.at = "record" /\ row.sha # NoCommit => Tip(mirror) # NoCommit

Calm == faults = 0 /\ ("tag" \notin habits \/ habits \cap {"rewrite", "rename"} = {})

\* The sync that is under way, if any, has not touched what was counted, and will not count.
AtRest ==
    \/ job.at \in {"idle", "mirror", "record", "load", "finish"}
    \/ job.at = "drop" /\ ~job.wrote /\ ~job.force /\ row.agg = row.sha
    \/ job.at = "rebuild" /\ ~NeedsRebuild

\* Where nothing failed, what is not current will be rebuilt by the sync that is under way.
Pending ==
    Calm =>
        /\ AtRest => Current
        /\ job.at \in {"score", "stamp"} => counted = stored \ replay
        /\ job.at = "stamp" => scored = counted

HistoryInv ==
    OneBranch /\ Forward /\ Witnessed /\ Tagless /\ Stamped /\ Resumes /\ Pending

LEMMA PrecedesIsOrder ==
    ASSUME NEW a \in Sha, NEW b \in Sha, NEW c \in Sha
    PROVE  /\ Precedes(a, a) /\ Precedes(NoCommit, a)
           /\ Precedes(a, b) /\ Precedes(b, c) => Precedes(a, c)
           /\ Precedes(a, b) /\ Precedes(b, a) => a = b
           /\ Precedes(a, b) => Walk({a} \ {NoCommit}) \subseteq Walk({b} \ {NoCommit})
<1>1. Precedes(a, a) /\ Precedes(NoCommit, a)
  BY AncAssumption DEF Precedes, Sha
<1>2. ASSUME Precedes(a, b), Precedes(b, c) PROVE Precedes(a, c)
  BY <1>2, AncAssumption DEF Precedes, Sha
<1>3. ASSUME Precedes(a, b), Precedes(b, a) PROVE a = b
  BY <1>3, AcyclicAssumption DEF Precedes, Sha
<1>4. ASSUME Precedes(a, b) PROVE Walk({a} \ {NoCommit}) \subseteq Walk({b} \ {NoCommit})
  <2>1. CASE a = NoCommit
    BY <2>1 DEF Walk, Reach
  <2>2. CASE a # NoCommit
    <3>1. a \in Commit /\ b \in Commit /\ a \in Anc[b] /\ b # NoCommit
      BY <1>4, <2>2, CommitAssumption DEF Precedes, Sha
    <3>2. Anc[a] \subseteq Anc[b]
      BY <3>1, AncAssumption
    <3>3. {a} \ {NoCommit} = {a} /\ {b} \ {NoCommit} = {b}
      BY <2>2, <3>1
    <3> QED
      BY <3>2, <3>3 DEF Walk, Reach
  <2> QED
    BY <2>1, <2>2
<1> QED
  BY <1>1, <1>2, <1>3, <1>4

LEMMA TipType == TypeOK => /\ Tip(remote) \in Sha /\ Tip(mirror) \in Sha
                           /\ row.sha \in Sha /\ row.agg \in Sha
BY RefTipsType DEF TypeOK, Refs, Mirrors, Rows

LEMMA TipNext == Tip(remote)' = Tip(remote') /\ Tip(mirror)' = Tip(mirror')
BY DEF Tip

LEMMA NoCommitIsSha == NoCommit \in Sha
BY DEF Sha

\* A change on the host: the default branch advances, unless it is a rewrite.
LEMMA HostShape ==
    ASSUME TypeOK, OneBranch, HostStep
    PROVE  /\ UNCHANGED <<mirror, row, stored, replay, refTags, counted, scored, job, faults>>
           /\ habits \subseteq habits'
           /\ OneBranch'
           /\ "rewrite" \notin habits' => Precedes(Tip(remote), Tip(remote'))
           /\ "tag" \notin habits' => remote'.tags \subseteq remote.tags
           /\ "rename" \notin habits' => remote'.default = remote.default
<1> USE DEF HostMoves, TypeOK, Refs, OneBranch, tables
<1>t. Tip(remote) \in Sha /\ Precedes(Tip(remote), Tip(remote))
  BY TipType, PrecedesIsOrder
<1>1. ASSUME NEW c \in Commit, Push(c)
      PROVE  /\ habits \subseteq habits' /\ OneBranch'
             /\ "rewrite" \notin habits' => Precedes(Tip(remote), Tip(remote'))
             /\ remote'.tags = remote.tags /\ remote'.default = remote.default
  <2>1. remote' = [remote EXCEPT !.heads = [@ EXCEPT ![remote.default] = c]]
    BY <1>1 DEF Push
  <2>2. /\ remote'.tags = remote.tags /\ remote'.default = remote.default
        /\ remote'.heads = [remote.heads EXCEPT ![remote.default] = c]
    BY <2>1
  <2>3. Tip(remote') = c /\ OneBranch'
    BY <2>2 DEF Tip
  <2>4. habits \subseteq habits'
        /\ ("rewrite" \notin habits' => Tip(remote) \in {NoCommit} \cup Anc[c])
    BY <1>1 DEF Push
  <2>5. c # NoCommit
    BY CommitAssumption
  <2> QED
    BY <2>2, <2>3, <2>4, <2>5 DEF Precedes
<1>2. ASSUME NEW c \in Commit, CreateTag(c)
      PROVE  /\ habits \subseteq habits' /\ "tag" \in habits' /\ OneBranch'
             /\ Tip(remote') = Tip(remote) /\ remote'.default = remote.default
  BY <1>2 DEF CreateTag, Tip
<1>3. ASSUME NEW c \in Commit, DeleteTag(c)
      PROVE  /\ habits \subseteq habits' /\ OneBranch' /\ remote'.tags \subseteq remote.tags
             /\ Tip(remote') = Tip(remote) /\ remote'.default = remote.default
  BY <1>3 DEF DeleteTag, Tip
<1>4. ASSUME NEW b \in Branch, RenameDefault(b)
      PROVE  /\ habits \subseteq habits' /\ "rename" \in habits' /\ OneBranch'
             /\ remote'.tags = remote.tags /\ Tip(remote') = Tip(remote)
  <2>1. /\ remote'.tags = remote.tags /\ remote'.default = b /\ b # remote.default
        /\ remote'.heads = [[remote.heads EXCEPT ![b] = Tip(remote)]
                               EXCEPT ![remote.default] = NoCommit]
    BY <1>4 DEF RenameDefault
  <2>2. Tip(remote') = Tip(remote) /\ OneBranch'
    BY <2>1 DEF Tip
  <2> QED
    BY <1>4, <2>1, <2>2 DEF RenameDefault
<1>5. UNCHANGED <<mirror, row, stored, replay, refTags, counted, scored, job, faults>>
  BY DEF HostStep, Push, CreateTag, DeleteTag, RenameDefault
<1> QED
  BY <1>t, <1>1, <1>2, <1>3, <1>4, <1>5 DEF HostStep

LEMMA StartShape ==
    ASSUME TypeOK, SyncInv, StartSync \/ StartForced \/ StartUnanswered
    PROVE  /\ UNCHANGED <<remote, mirror, row, stored, replay, counted, scored>>
           /\ habits \subseteq habits'
           /\ job.at = "idle" /\ job'.at = "mirror"
           /\ job'.force \in BOOLEAN /\ job'.wrote = FALSE /\ job'.removed = FALSE
           /\ job'.force = TRUE => "force" \in habits'
           /\ faults' = 0 => /\ faults = 0
                             /\ job'.force \/ row.status # "ready" \/ row.sha = NoCommit
                                  \/ Tip(remote) # row.sha
<1> USE DEF Job, BeginAttempt, host, tables
<1>1. CASE StartSync
  BY <1>1 DEF StartSync, Unchanged, SyncInv
<1>2. CASE StartForced
  BY <1>2 DEF StartForced
<1>3. CASE StartUnanswered
  <2>1. faults' # 0
    BY <1>3, SyncAssumption DEF StartUnanswered, TypeOK
  <2> QED
    BY <1>3, <2>1 DEF StartUnanswered
<1> QED
  BY <1>1, <1>2, <1>3

\* The worker stops on a failure or in a crash: it leaves the tables as they are.
LEMMA StopShape ==
    ASSUME TypeOK, DieInSwap \/ Crash \/ \E b \in BOOLEAN : Raise(b) /\ job.at # "idle"
    PROVE  /\ UNCHANGED <<remote, habits, stored, replay, counted, scored>>
           /\ row'.sha = row.sha /\ row'.agg = row.agg /\ row'.status \in {row.status, "failed"}
           /\ mirror' = mirror \/ (Tip(mirror') = NoCommit /\ mirror'.tags = {})
           /\ job.at # "idle" /\ job'.at \in {"idle", "mirror"}
           /\ job'.force \in {FALSE, job.force} /\ job'.wrote = FALSE /\ job'.removed = FALSE
           /\ faults' # 0
<1> USE DEF Job, NoJob, BeginAttempt, host, tables
<1>0. faults + 1 # 0
  BY SyncAssumption DEF TypeOK
<1>1. CASE DieInSwap
  <2>1. Tip(mirror') = NoCommit /\ mirror'.tags = {}
    BY <1>1 DEF DieInSwap, NoMirror, Tip, TypeOK, Mirrors
  <2> QED
    BY <1>0, <1>1, <2>1 DEF DieInSwap
<1>2. CASE Crash
  BY <1>0, <1>2 DEF Crash
<1>3. ASSUME NEW b \in BOOLEAN, Raise(b), job.at # "idle"
      PROVE  /\ UNCHANGED <<remote, habits, stored, replay, counted, scored, mirror>>
             /\ row'.sha = row.sha /\ row'.agg = row.agg /\ row'.status = "failed"
             /\ job'.at \in {"idle", "mirror"}
             /\ job'.force \in {FALSE, job.force} /\ job'.wrote = FALSE
             /\ job'.removed = FALSE /\ faults' # 0
  <2>1. row'.sha = row.sha /\ row'.agg = row.agg /\ row'.status = "failed"
    BY <1>3 DEF Raise, TypeOK, Rows
  <2>2. job' = Job("mirror", job.attempt + 1, job.force) \/ job' = NoJob
    BY <1>3 DEF Raise, BeginAttempt
  <2>3. /\ job'.at \in {"idle", "mirror"} /\ job'.force \in {FALSE, job.force}
        /\ job'.wrote = FALSE /\ job'.removed = FALSE
    <3>1. CASE job' = Job("mirror", job.attempt + 1, job.force)
      BY <3>1
    <3>2. CASE job' = NoJob
      BY <3>2
    <3> QED
      BY <2>2, <3>1, <3>2
  <2> QED
    BY <1>0, <1>3, <2>1, <2>3 DEF Raise
<1> QED
  BY <1>1, <1>2, <1>3

LEMMA FetchShape ==
    ASSUME TypeOK, OneBranch, SyncMirror
    PROVE  /\ UNCHANGED <<remote, habits, row, stored, replay, counted, scored, faults>>
           /\ Tip(mirror') \in {NoCommit, Tip(remote)} /\ mirror'.tags = remote.tags
           /\ mirror.default = remote.default
                => mirror'.default = remote.default /\ Tip(mirror') = Tip(remote)
           /\ job.at = "mirror" /\ job'.at = "record"
           /\ job'.force = job.force /\ job'.wrote = job.wrote /\ job'.removed = job.removed
<1> USE DEF host, tables
<1>1. CASE FetchMirror
  <2>1. /\ mirror'.heads = remote.heads /\ mirror'.tags = remote.tags
        /\ mirror'.default = mirror.default /\ mirror.default \in Branch
    BY <1>1 DEF FetchMirror, TypeOK, Mirrors
  <2>2. Tip(mirror') \in {NoCommit, Tip(remote)}
        /\ (mirror.default = remote.default => Tip(mirror') = Tip(remote))
    BY <2>1 DEF Tip, OneBranch
  <2> QED
    BY <1>1, <2>1, <2>2 DEF FetchMirror, TypeOK, Jobs
<1>2. CASE CloneMirror
  BY <1>2 DEF CloneMirror, Tip, TypeOK, Jobs
<1> QED
  BY <1>1, <1>2 DEF SyncMirror

LEMMA RecordShape ==
    ASSUME TypeOK, RecordHead
    PROVE  /\ UNCHANGED <<remote, habits, mirror, stored, replay, counted, scored, faults>>
           /\ Tip(mirror) # NoCommit
           /\ row'.sha = row.sha /\ row'.agg = row.agg /\ row'.status = "ingesting"
           /\ job.at = "record" /\ job'.at = "load"
           /\ job'.force = job.force /\ job'.wrote = job.wrote /\ job'.removed = job.removed
BY DEF RecordHead, TypeOK, Jobs, Rows, host, tables

LEMMA EmptyShape ==
    ASSUME TypeOK, RecordEmpty
    PROVE  /\ UNCHANGED <<remote, habits, mirror, stored, replay, counted, scored, faults>>
           /\ Tip(mirror) = NoCommit
           /\ row'.sha = row.sha /\ row'.agg = row.agg /\ row'.status = "empty"
           /\ job.at = "record" /\ job'.at = "idle"
           /\ job'.force = FALSE /\ job'.wrote = FALSE /\ job'.removed = FALSE
BY DEF RecordEmpty, NoJob, Job, TypeOK, Rows, host, tables

LEMMA LoadShape ==
    ASSUME TypeOK, SyncInv, NEW marks, NEW tags, NEW refs, LoadWith(marks, tags, refs)
    PROVE  /\ UNCHANGED <<remote, habits, mirror, counted, scored>>
           /\ Tip(mirror) # NoCommit /\ Tip(mirror) \in Commit
           /\ row'.sha = Tip(mirror) /\ row'.agg = row.agg /\ row'.status = row.status
           /\ row.status # "ready"
           /\ stored' = stored \cup Live /\ (job'.wrote = TRUE <=> stored' # stored)
           /\ replay \subseteq replay' /\ replay' \subseteq replay \cup marks
           /\ job.at = "load" /\ job'.at = "drop" /\ job'.wrote \in BOOLEAN
           /\ job'.force = job.force /\ job'.removed = job.removed
<1>1. stored' = stored \cup Live
  BY LoadIsFull
<1>2. /\ job'.wrote = ((Live \ Reach(job.since)) \ stored # {})
      /\ stored' = stored \cup (Live \ Reach(job.since))
      /\ job'.at = "drop" /\ job'.force = job.force /\ job'.removed = job.removed
  BY DEF LoadWith, TypeOK, Jobs
<1>3. job'.wrote \in BOOLEAN /\ (job'.wrote = TRUE <=> stored' # stored)
  BY <1>2
<1>4. replay \subseteq replay' /\ replay' \subseteq replay \cup marks
  BY DEF LoadWith, MarkReplays
<1>5. row'.sha = Tip(mirror) /\ row'.agg = row.agg /\ row'.status = row.status
  BY DEF LoadWith, TypeOK, Rows
<1>6. job.at = "load" /\ UNCHANGED <<remote, habits, mirror, counted, scored>>
  BY DEF LoadWith, host
<1>7. Tip(mirror) # NoCommit /\ row.status # "ready"
  BY <1>6 DEF SyncInv
<1> QED
  BY <1>1, <1>2, <1>3, <1>4, <1>5, <1>6, <1>7, TipType DEF Sha

LEMMA DropShape ==
    ASSUME TypeOK, SyncInv, DropUnreachable
    PROVE  /\ UNCHANGED <<remote, habits, mirror, row, counted, scored, faults>>
           /\ stored' = Live /\ row.sha = Tip(mirror)
           /\ Live \subseteq stored
           /\ replay' = replay \ (stored \ Live)
           /\ job.at = "drop" /\ job'.at = "rebuild"
           /\ job'.force = job.force /\ job'.wrote = job.wrote
           /\ job'.removed \in BOOLEAN /\ (job'.removed = TRUE <=> stored' # stored)
<1>1. stored' = Live /\ Live \subseteq stored
  BY DropLeavesLive, LiveStored DEF DropUnreachable, AfterLoad
<1>2. stored' = stored \ Doomed /\ replay' = replay \ Doomed /\ Doomed \subseteq stored
  BY DEF DropUnreachable, Doomed
<1>3. Doomed = stored \ Live
  BY <1>1, <1>2
<1>4. job'.removed = (Doomed # {}) /\ job'.at = "rebuild"
      /\ job'.force = job.force /\ job'.wrote = job.wrote
  BY DEF DropUnreachable, TypeOK, Jobs
<1>5. row.sha = Tip(mirror)
  BY DEF DropUnreachable, SyncInv, AfterLoad
<1> QED
  BY <1>1, <1>2, <1>3, <1>4, <1>5 DEF DropUnreachable, host, Live

\* The rest of the way to a ready repository.
LEMMA TailShape ==
    ASSUME TypeOK, DropSkipped \/ Rebuild \/ SkipRebuild \/ Score \/ Stamp \/ Finish
    PROVE  /\ UNCHANGED <<remote, habits, mirror, stored, replay>>
           /\ row'.sha = row.sha
           /\ row'.agg = IF Stamp THEN row.sha ELSE row.agg
           /\ row'.status = IF Finish THEN "ready" ELSE row.status
           /\ job.at \in AfterLoad /\ job'.at \in AfterLoad \cup {"idle"}
           /\ job'.at = "idle" => Finish
           /\ job'.force \in {FALSE, job.force} /\ job'.wrote \in {FALSE, job.wrote}
           /\ job'.removed \in {FALSE, job.removed}
           /\ Finish \/ (/\ job'.force = job.force /\ job'.wrote = job.wrote
                         /\ job'.removed = job.removed)
<1> USE DEF host, tables, AfterLoad
<1>1. CASE DropSkipped \/ Rebuild \/ SkipRebuild \/ Score
  BY <1>1 DEF DropSkipped, Rebuild, SkipRebuild, Score, Stamp, Finish, TypeOK, Jobs
<1>2. CASE Stamp
  BY <1>2 DEF Stamp, Finish, TypeOK, Jobs, Rows
<1>3. CASE Finish
  BY <1>3 DEF Stamp, Finish, NoJob, Job, TypeOK, Rows
<1> QED
  BY <1>1, <1>2, <1>3

LEMMA MarksHaveTwins ==
    ASSUME NEW b \in Commit, NEW T \in SUBSET Commit
    PROVE  \A c \in ReplayedCommits(b, T) :
              c \notin Walk({b}) /\ \E d \in Walk({b}) : Patch[d] = Patch[c]
<1> SUFFICES ASSUME NEW c \in ReplayedCommits(b, T)
             PROVE  c \notin Walk({b}) /\ \E d \in Walk({b}) : Patch[d] = Patch[c]
  OBVIOUS
<1>1. PICK t \in T : c \in CherryMarked(b, t)
  BY DEF ReplayedCommits
<1>2. c \notin Reach({b}) /\ \E d \in Walk({b}) \ Reach({t}) : Patch[d] = Patch[c]
  BY <1>1 DEF CherryMarked
<1> QED
  BY <1>2 DEF Walk

Begins == StartSync \/ StartForced \/ StartUnanswered

Loads ==
    /\ \E compared \in SUBSET mirror.tags, tags \in TagsRead, refs \in TipsRead :
          LoadWith(ReplayedCommits(Tip(mirror), compared), tags, refs)
    /\ faults' = 0 => faults = 0

LastSteps == DropSkipped \/ Rebuild \/ SkipRebuild \/ Score \/ Stamp \/ Finish

Stops == DieInSwap \/ Crash \/ \E b \in BOOLEAN : Raise(b) /\ job.at # "idle"

Rests == UNCHANGED <<remote, habits, mirror, row, stored, replay, counted, scored, job, faults>>

LEMMA NextCases ==
    TypeOK /\ [Next]_vars =>
        HostStep \/ Begins \/ SyncMirror \/ RecordHead \/ RecordEmpty \/ Loads
            \/ DropUnreachable \/ LastSteps \/ Stops \/ Rests
<1> SUFFICES ASSUME TypeOK, [Next]_vars
             PROVE  HostStep \/ Begins \/ SyncMirror \/ RecordHead \/ RecordEmpty \/ Loads
                       \/ DropUnreachable \/ LastSteps \/ Stops \/ Rests
  OBVIOUS
<1>1. CASE Load
  <2>1. mirror.tags \in SUBSET mirror.tags /\ mirror.tags \in TagsRead
        /\ RefTips(mirror) \in TipsRead
    BY DEF TagsRead, TipsRead
  <2> QED
    BY <1>1, <2>1 DEF Load, Loads
<1>2. CASE LoadUnanswered
  <2>1. faults' # 0
    BY <1>2, SyncAssumption DEF LoadUnanswered, TypeOK
  <2> QED
    BY <1>2, <2>1 DEF LoadUnanswered, Loads
<1>3. CASE SkipUnchanged \/ UNCHANGED vars
  BY <1>3 DEF SkipUnchanged, vars, host, tables, Rests
<1>4. CASE NetworkFails
  <2>1. FALSE \in BOOLEAN
    OBVIOUS
  <2>2. job.at # "idle" /\ Raise(FALSE)
    BY <1>4 DEF NetworkFails
  <2> QED
    BY <2>1, <2>2 DEF Stops
<1>5. ASSUME NEW b \in BOOLEAN, Fail(b) PROVE Stops
  BY <1>5 DEF Fail, Stops
<1> QED
  BY <1>1, <1>2, <1>3, <1>4, <1>5 DEF Next, WorkerStep, FaultStep, Begins, LastSteps, Stops

LEMMA HistoryInit == Init => HistoryInv
<1> SUFFICES ASSUME Init PROVE HistoryInv
  OBVIOUS
<1>1. OneBranch
  BY DEF Init, OneBranch
<1>2. Tip(remote) = NoCommit /\ Tip(mirror) = NoCommit
  BY DEF Init, Tip
<1>3. Walk({NoCommit} \ {NoCommit}) = {}
  BY DEF Walk, Reach
<1> QED
  BY <1>1, <1>2, <1>3
  DEF Init, HistoryInv, Forward, Precedes, Witnessed, Tagless, Stamped, Resumes, Pending,
      Current, NoJob, Job

LEMMA OneBranchStep ==
    ASSUME TypeOK, OneBranch, [Next]_vars
    PROVE  OneBranch'
<1>1. CASE HostStep
  BY <1>1, HostShape
<1>2. CASE ~HostStep
  <2>1. remote' = remote
    BY <1>2 DEF Next, WorkerStep, FaultStep, vars, host, SkipUnchanged, StartSync, StartForced,
       StartUnanswered, SyncMirror, FetchMirror, CloneMirror, RecordEmpty, RecordHead, Load,
       LoadUnanswered, LoadWith, DropUnreachable, DropSkipped, Rebuild, SkipRebuild, Score,
       Stamp, Finish, Raise, NetworkFails, Fail, Crash, DieInSwap
  <2> QED
    BY <2>1 DEF OneBranch
<1> QED
  BY <1>1, <1>2

LEMMA ForwardStep ==
    ASSUME TypeOK, TypeOK', SyncInv, OneBranch, Forward, [Next]_vars
    PROVE  Forward'
<1> SUFFICES ASSUME "rewrite" \notin habits'
             PROVE  /\ Precedes(row'.sha, Tip(remote')) /\ Precedes(Tip(mirror'), Tip(remote'))
                    /\ job'.at \in {"record", "load"} /\ Tip(mirror') # NoCommit
                          => Precedes(row'.sha, Tip(mirror'))
  BY TipNext DEF Forward, Precedes
<1>t. Tip(remote') \in Sha /\ Tip(mirror') \in Sha /\ row'.sha \in Sha
  BY RefTipsType DEF TypeOK, Refs, Mirrors, Rows
<1> DEFINE Behind == /\ Precedes(row.sha, Tip(remote)) /\ Precedes(Tip(mirror), Tip(remote))
                     /\ job.at \in {"record", "load"} /\ Tip(mirror) # NoCommit
                           => Precedes(row.sha, Tip(mirror))
<1>f. "rewrite" \notin habits => Behind
  BY DEF Forward
<1> HIDE DEF Behind
<1>1. CASE HostStep
  <2>1. "rewrite" \notin habits /\ Precedes(Tip(remote), Tip(remote'))
    BY <1>1, HostShape
  <2>2. row' = row /\ mirror' = mirror /\ job' = job
    BY <1>1, HostShape
  <2> QED
    BY <1>f, <1>t, <2>1, <2>2, TipType, PrecedesIsOrder DEF Behind
<1>2. CASE Begins
  BY <1>2, <1>f, StartShape DEF Begins, Behind
<1>3. CASE SyncMirror
  BY <1>3, <1>f, <1>t, FetchShape, NoCommitIsSha, PrecedesIsOrder DEF Behind
<1>4. CASE RecordHead
  BY <1>4, <1>f, RecordShape DEF Behind
<1>5. CASE RecordEmpty
  BY <1>5, <1>f, EmptyShape DEF Behind
<1>6. CASE Loads
  <2>1. PICK marks, tags, refs : LoadWith(marks, tags, refs)
    BY <1>6 DEF Loads
  <2>2. remote' = remote /\ habits' = habits /\ mirror' = mirror
        /\ row'.sha = Tip(mirror) /\ job'.at = "drop"
    BY <2>1, LoadShape
  <2> QED
    BY <1>f, <2>2 DEF Behind
<1>7. CASE DropUnreachable
  BY <1>7, <1>f, DropShape DEF Behind
<1>8. CASE LastSteps
  <2>1. remote' = remote /\ habits' = habits /\ mirror' = mirror /\ row'.sha = row.sha
        /\ job'.at \notin {"record", "load"}
    BY <1>8, TailShape DEF LastSteps, AfterLoad
  <2> QED
    BY <1>f, <2>1 DEF Behind
<1>9. CASE Stops
  <2>1. remote' = remote /\ habits' = habits /\ row'.sha = row.sha
        /\ job'.at \notin {"record", "load"}
        /\ (mirror' = mirror \/ Tip(mirror') = NoCommit)
    BY <1>9, StopShape DEF Stops
  <2> QED
    BY <1>f, <1>t, <2>1, TipType, PrecedesIsOrder DEF Behind
<1>10. CASE Rests
  BY <1>10, <1>f DEF Rests, Behind
<1> QED
  BY <1>1, <1>2, <1>3, <1>4, <1>5, <1>6, <1>7, <1>8, <1>9, <1>10, NextCases

LEMMA WitnessedStep ==
    ASSUME TypeOK, TypeOK', SyncInv, OneBranch, Forward, Witnessed, [Next]_vars
    PROVE  Witnessed'
<1> DEFINE Branched == Walk({row.sha} \ {NoCommit})
<1>0. SUFFICES ASSUME "rewrite" \notin habits'
               PROVE  \A c \in replay' : \E d \in Walk({row'.sha} \ {NoCommit}) \ replay' :
                          Patch[d] = Patch[c]
  <2>1. Walk({row'.sha} \ {NoCommit}) = Walk({row.sha} \ {NoCommit})'
    BY DEF Walk, Reach
  <2> QED
    BY <1>0, <2>1 DEF Witnessed
<1>w. "rewrite" \notin habits =>
          \A c \in replay : \E d \in Branched \ replay : Patch[d] = Patch[c]
  BY DEF Witnessed
<1> HIDE DEF Branched
<1>s. \/ HostStep \/ Begins \/ SyncMirror \/ RecordHead \/ RecordEmpty \/ LastSteps \/ Stops \/ Rests
      => "rewrite" \notin habits /\ row'.sha = row.sha /\ replay' = replay
  BY <1>0, HostShape, StartShape, FetchShape, RecordShape, EmptyShape, TailShape, StopShape
  DEF Begins, LastSteps, Stops, Rests
<1>1. CASE HostStep \/ Begins \/ SyncMirror \/ RecordHead \/ RecordEmpty \/ LastSteps \/ Stops \/ Rests
  BY <1>1, <1>s, <1>w DEF Branched
<1>2. CASE Loads
  <2>1. PICK compared \in SUBSET mirror.tags, tags \in TagsRead, refs \in TipsRead :
           LoadWith(ReplayedCommits(Tip(mirror), compared), tags, refs)
    BY <1>2 DEF Loads
  <2> DEFINE marks == ReplayedCommits(Tip(mirror), compared)
             fresh == Walk({row'.sha} \ {NoCommit})
  <2>2. /\ habits' = habits /\ row'.sha = Tip(mirror) /\ Tip(mirror) \in Commit
        /\ Tip(mirror) # NoCommit /\ job.at = "load"
        /\ replay \subseteq replay' /\ replay' \subseteq replay \cup marks
    BY <2>1, LoadShape
  <2>3. fresh = Walk({Tip(mirror)})
    <3>1. {row'.sha} \ {NoCommit} = {Tip(mirror)}
      BY <2>2
    <3> QED
      BY <3>1
  <2>4. Branched \subseteq fresh
    <3>1. Precedes(row.sha, Tip(mirror))
      BY <1>0, <2>2 DEF Forward
    <3> QED
      BY <2>2, <3>1, TipType, PrecedesIsOrder DEF Branched
  <2>5. \A c \in marks : c \notin fresh /\ \E d \in fresh : Patch[d] = Patch[c]
    <3>1. compared \in SUBSET Commit
      BY DEF TypeOK, Mirrors
    <3> QED
      BY <2>2, <2>3, <3>1, MarksHaveTwins
  <2> HIDE DEF marks, fresh
  <2>6. \A c \in replay : \E d \in fresh \ replay' : Patch[d] = Patch[c]
    <3> SUFFICES ASSUME NEW c \in replay
                 PROVE  \E d \in fresh \ replay' : Patch[d] = Patch[c]
      OBVIOUS
    <3>1. PICK d \in Branched \ replay : Patch[d] = Patch[c]
      BY <1>0, <1>w, <2>2
    <3> QED
      BY <2>2, <2>4, <2>5, <3>1
  <2>7. \A c \in marks : \E d \in fresh \ replay' : Patch[d] = Patch[c]
    <3> SUFFICES ASSUME NEW c \in marks
                 PROVE  \E d \in fresh \ replay' : Patch[d] = Patch[c]
      OBVIOUS
    <3>1. PICK d \in fresh : Patch[d] = Patch[c]
      BY <2>5
    <3>2. CASE d \in replay
      BY <2>6, <3>1, <3>2
    <3>3. CASE d \notin replay
      BY <2>2, <2>5, <3>1, <3>3
    <3> QED
      BY <3>2, <3>3
  <2>8. \A c \in replay' : \E d \in fresh \ replay' : Patch[d] = Patch[c]
    BY <2>2, <2>6, <2>7
  <2> QED
    BY <2>8 DEF fresh
<1>3. CASE DropUnreachable
  <2>1. habits' = habits /\ row'.sha = row.sha /\ replay' \subseteq replay
    BY <1>3, DropShape
  <2> QED
    BY <1>0, <1>w, <2>1 DEF Branched
<1> QED
  BY <1>1, <1>2, <1>3, NextCases

\* Where no tag was ever made, the walk visits the branch and nothing is marked.
LEMMA TaglessWalk ==
    ASSUME TypeOK, Tagless, "tag" \notin habits
    PROVE  Live = Walk({Tip(mirror)} \ {NoCommit})
BY DEF Tagless, Live, RefTips

LEMMA TaglessStep ==
    ASSUME TypeOK, SyncInv, OneBranch, Tagless, [Next]_vars
    PROVE  Tagless'
<1> SUFFICES ASSUME "tag" \notin habits'
             PROVE  remote'.tags = {} /\ mirror'.tags = {} /\ replay' = {}
  BY DEF Tagless
<1>t. "tag" \notin habits => remote.tags = {} /\ mirror.tags = {} /\ replay = {}
  BY DEF Tagless
<1>1. CASE HostStep
  BY <1>1, <1>t, HostShape
<1>2. CASE Begins
  BY <1>2, <1>t, StartShape DEF Begins
<1>3. CASE SyncMirror
  BY <1>3, <1>t, FetchShape
<1>4. CASE RecordHead \/ RecordEmpty
  BY <1>4, <1>t, RecordShape, EmptyShape
<1>5. CASE Loads
  <2>1. PICK compared \in SUBSET mirror.tags, tags \in TagsRead, refs \in TipsRead :
           LoadWith(ReplayedCommits(Tip(mirror), compared), tags, refs)
    BY <1>5 DEF Loads
  <2>2. /\ habits' = habits /\ mirror' = mirror /\ remote' = remote
        /\ replay' \subseteq replay \cup ReplayedCommits(Tip(mirror), compared)
    BY <2>1, LoadShape
  <2>3. mirror.tags = {} /\ remote.tags = {} /\ replay = {}
    BY <1>t, <2>2
  <2>4. ReplayedCommits(Tip(mirror), compared) = {}
    BY <2>3 DEF ReplayedCommits
  <2> QED
    BY <2>2, <2>3, <2>4
<1>6. CASE DropUnreachable
  BY <1>6, <1>t, DropShape
<1>7. CASE LastSteps
  BY <1>7, <1>t, TailShape DEF LastSteps
<1>8. CASE Stops
  BY <1>8, <1>t, StopShape DEF Stops
<1>9. CASE Rests
  BY <1>9, <1>t DEF Rests
<1> QED
  BY <1>1, <1>2, <1>3, <1>4, <1>5, <1>6, <1>7, <1>8, <1>9, NextCases

LEMMA StampedStep ==
    ASSUME TypeOK, TypeOK', SyncInv, OneBranch, Forward, Tagless, Stamped, [Next]_vars
    PROVE  Stamped'
<1> DEFINE OfBranch(sha) == Walk({sha} \ {NoCommit})
<1>0. SUFFICES ASSUME habits' \subseteq {"rename"}
      PROVE  /\ stored' = OfBranch(row'.sha)
             /\ Precedes(row'.agg, row'.sha)
             /\ row'.agg = row'.sha => counted' = stored' /\ scored' = counted'
             /\ job'.force = FALSE /\ job'.removed = FALSE
             /\ job'.at \in {"drop", "rebuild"} /\ job'.wrote => row'.agg # row'.sha
             /\ job'.at \in {"score", "stamp"} => row'.agg # row'.sha /\ counted' = stored'
             /\ job'.at = "stamp" => scored' = counted'
             /\ job'.at = "finish" \/ row'.status = "ready" => row'.agg = row'.sha
  <2>1. OfBranch(row'.sha) = OfBranch(row.sha)'
    BY DEF Walk, Reach
  <2>2. Precedes(row'.agg, row'.sha) <=> Precedes(row.agg, row.sha)'
    BY DEF Precedes
  <2> QED
    BY <1>0, <2>1, <2>2 DEF Stamped
<1> DEFINE Before ==
             /\ stored = OfBranch(row.sha)
             /\ Precedes(row.agg, row.sha)
             /\ row.agg = row.sha => counted = stored /\ scored = counted
             /\ job.force = FALSE /\ job.removed = FALSE
             /\ job.at \in {"drop", "rebuild"} /\ job.wrote => row.agg # row.sha
             /\ job.at \in {"score", "stamp"} => row.agg # row.sha /\ counted = stored
             /\ job.at = "stamp" => scored = counted
             /\ job.at = "finish" \/ row.status = "ready" => row.agg = row.sha
<1>b. habits \subseteq {"rename"} => Before /\ replay = {}
  BY DEF Stamped, Tagless
<1> HIDE DEF OfBranch
<1>1. CASE HostStep
  BY <1>0, <1>1, <1>b, HostShape
<1>2. CASE Begins
  BY <1>0, <1>2, <1>b, StartShape DEF Begins
<1>3. CASE SyncMirror
  BY <1>0, <1>3, <1>b, FetchShape
<1>4. CASE RecordHead
  BY <1>0, <1>4, <1>b, RecordShape
<1>5. CASE RecordEmpty
  BY <1>0, <1>5, <1>b, EmptyShape
<1>6. CASE Loads
  <2>1. PICK marks, tags, refs : LoadWith(marks, tags, refs)
    BY <1>6 DEF Loads
  <2>2. /\ habits' = habits /\ counted' = counted /\ scored' = scored
        /\ Tip(mirror) # NoCommit /\ Tip(mirror) \in Commit
        /\ row'.sha = Tip(mirror) /\ row'.agg = row.agg /\ row'.status = row.status
        /\ row.status # "ready"
        /\ stored' = stored \cup Live /\ (job'.wrote = TRUE <=> stored' # stored)
        /\ job.at = "load" /\ job'.at = "drop" /\ job'.wrote \in BOOLEAN
        /\ job'.force = job.force /\ job'.removed = job.removed
    BY <2>1, LoadShape
  <2>3. Before
    BY <1>0, <1>b, <2>2
  <2>4. Live = OfBranch(Tip(mirror))
    <3>1. "tag" \notin habits
      BY <1>0, <2>2
    <3> QED
      BY <3>1, TaglessWalk DEF OfBranch
  <2>5. Precedes(row.sha, Tip(mirror))
    <3>1. "rewrite" \notin habits
      BY <1>0, <2>2
    <3> QED
      BY <2>2, <3>1 DEF Forward
  <2>6. stored' = OfBranch(row'.sha)
    <3>1. OfBranch(row.sha) \subseteq OfBranch(Tip(mirror))
      BY <2>5, TipType, PrecedesIsOrder DEF OfBranch
    <3> QED
      BY <2>2, <2>3, <2>4, <3>1
  <2>7. Precedes(row.agg, Tip(mirror))
    BY <2>3, <2>5, TipType, PrecedesIsOrder
  <2>8. row.agg = Tip(mirror) => row.sha = Tip(mirror)
    <3>1. ASSUME row.agg = Tip(mirror) PROVE row.sha = Tip(mirror)
      <4>1. Precedes(Tip(mirror), row.sha)
        BY <2>3, <3>1
      <4> QED
        BY <2>5, <4>1, TipType, PrecedesIsOrder
    <3> QED
      BY <3>1
  <2>9. row'.agg = row'.sha => stored' = stored /\ row.agg = row.sha
    BY <2>2, <2>3, <2>6, <2>8
  <2> QED
    BY <2>2, <2>3, <2>6, <2>7, <2>9
<1>7. CASE DropUnreachable
  <2>1. /\ habits' = habits /\ row' = row /\ counted' = counted /\ scored' = scored
        /\ stored' = Live /\ row.sha = Tip(mirror)
        /\ job.at = "drop" /\ job'.at = "rebuild"
        /\ job'.force = job.force /\ job'.wrote = job.wrote
        /\ job'.removed \in BOOLEAN /\ (job'.removed = TRUE <=> stored' # stored)
    BY <1>7, DropShape
  <2>2. Before
    BY <1>0, <1>b, <2>1
  <2>3. stored' = stored
    <3>1. Live = OfBranch(row.sha)
      BY <1>0, <2>1, TaglessWalk DEF OfBranch
    <3> QED
      BY <2>1, <2>2, <3>1
  <2> QED
    BY <2>1, <2>2, <2>3
<1>8. CASE LastSteps
  <2>1. /\ habits' = habits /\ stored' = stored /\ replay' = replay /\ row'.sha = row.sha
        /\ row'.agg = IF Stamp THEN row.sha ELSE row.agg
        /\ row'.status = IF Finish THEN "ready" ELSE row.status
        /\ job'.force \in {FALSE, job.force} /\ job'.wrote \in {FALSE, job.wrote}
        /\ job'.removed \in {FALSE, job.removed}
    BY <1>8, TailShape DEF LastSteps
  <2>2. Before /\ replay = {}
    BY <1>0, <1>b, <2>1
  <2>j. job.force = FALSE /\ job.removed = FALSE /\ job'.force = FALSE /\ job'.removed = FALSE
        /\ job.wrote \in BOOLEAN /\ job'.wrote \in BOOLEAN
    BY <2>1, <2>2 DEF TypeOK, Jobs
  <2>k. Precedes(row.sha, row.sha)
    BY TipType, PrecedesIsOrder
  <2>r. row.status # "ready"
    BY <1>8, TailShape DEF SyncInv, LastSteps, AfterLoad
  <2>3. CASE DropSkipped
    <3>1. /\ job.at = "drop" /\ job'.at = "rebuild" /\ job'.wrote = job.wrote
          /\ row' = row /\ counted' = counted /\ scored' = scored
      BY <2>3 DEF DropSkipped, tables, TypeOK, Jobs
    <3> QED
      BY <2>1, <2>2, <2>j, <3>1
  <2>4. CASE Rebuild
    <3>1. /\ job.at = "rebuild" /\ job'.at = "score" /\ row' = row
          /\ counted' = stored \ replay
          /\ job.wrote \/ row.agg # row.sha
      BY <2>4, <2>j DEF Rebuild, NeedsRebuild, TypeOK, Jobs
    <3>2. row.agg # row.sha /\ counted' = stored
      BY <2>2, <3>1
    <3> QED
      BY <2>1, <2>2, <2>j, <3>1, <3>2
  <2>5. CASE SkipRebuild
    <3>1. /\ job.at = "rebuild" /\ job'.at = "finish" /\ row' = row
          /\ counted' = counted /\ scored' = scored /\ row.agg = row.sha
      BY <2>5 DEF SkipRebuild, NeedsRebuild, tables, TypeOK, Jobs
    <3> QED
      BY <2>1, <2>2, <2>j, <3>1
  <2>6. CASE Score
    <3>1. /\ job.at = "score" /\ job'.at = "stamp" /\ row' = row
          /\ counted' = counted /\ scored' = counted
      BY <2>6 DEF Score, TypeOK, Jobs
    <3> QED
      BY <2>1, <2>2, <2>j, <3>1
  <2>7. CASE Stamp
    <3>1. /\ job.at = "stamp" /\ job'.at = "finish" /\ row'.agg = row.sha
          /\ counted' = counted /\ scored' = scored /\ row'.status = row.status
      BY <2>7 DEF Stamp, tables, TypeOK, Jobs, Rows
    <3> QED
      BY <2>1, <2>2, <2>j, <2>k, <3>1
  <2>8. CASE Finish
    <3>1. /\ job.at = "finish" /\ job'.at = "idle" /\ row'.agg = row.agg
          /\ counted' = counted /\ scored' = scored
      BY <2>8 DEF Finish, NoJob, Job, tables, TypeOK, Rows
    <3> QED
      BY <2>1, <2>2, <2>j, <3>1
  <2> QED
    BY <1>8, <2>3, <2>4, <2>5, <2>6, <2>7, <2>8 DEF LastSteps
<1>9. CASE Stops
  <2>1. /\ habits' = habits /\ stored' = stored /\ counted' = counted /\ scored' = scored
        /\ row'.sha = row.sha /\ row'.agg = row.agg /\ row'.status \in {row.status, "failed"}
        /\ job'.at \in {"idle", "mirror"}
        /\ job'.force \in {FALSE, job.force} /\ job'.removed = FALSE
    BY <1>9, StopShape DEF Stops
  <2> QED
    BY <1>0, <1>b, <2>1
<1>10. CASE Rests
  BY <1>0, <1>10, <1>b DEF Rests
<1> QED
  BY <1>1, <1>2, <1>3, <1>4, <1>5, <1>6, <1>7, <1>8, <1>9, <1>10, NextCases

LEMMA FaultsStay == TypeOK /\ [Next]_vars /\ faults' = 0 => faults = 0
<1> SUFFICES ASSUME TypeOK, [Next]_vars, faults' = 0 PROVE faults = 0
  OBVIOUS
<1>1. faults' \in {faults, faults + 1}
  BY DEF Next, HostStep, WorkerStep, FaultStep, vars, HostMoves, Push, CreateTag, DeleteTag,
     RenameDefault, SkipUnchanged, StartSync, StartForced, StartUnanswered, SyncMirror,
     FetchMirror, CloneMirror, RecordEmpty, RecordHead, Load, LoadUnanswered,
     DropUnreachable, DropSkipped, Rebuild, SkipRebuild, Score, Stamp, Finish, Raise,
     NetworkFails, Fail, Crash, DieInSwap
<1> QED
  BY <1>1, SyncAssumption DEF TypeOK

LEMMA ResumesStep ==
    ASSUME TypeOK, TypeOK', SyncInv, OneBranch, Forward, Resumes, [Next]_vars
    PROVE  Resumes'
<1>0. SUFFICES ASSUME faults' = 0, habits' \cap {"rewrite", "rename"} = {}
      PROVE  /\ mirror'.default = remote'.default
             /\ job'.at \in {"idle", "mirror", "record"}
                   => row'.status = "ready" \/ row'.sha = NoCommit
             /\ job'.at = "mirror"
                   => job'.force \/ row'.sha = NoCommit \/ Tip(remote') # row'.sha
             /\ job'.at \in {"record", "load"}
                   => job'.force \/ row'.sha = NoCommit \/ Tip(mirror') # row'.sha
             /\ job'.at = "record" /\ row'.sha # NoCommit => Tip(mirror') # NoCommit
  BY <1>0, TipNext DEF Resumes
<1> DEFINE Before ==
             /\ mirror.default = remote.default
             /\ job.at \in {"idle", "mirror", "record"}
                   => row.status = "ready" \/ row.sha = NoCommit
             /\ job.at = "mirror"
                   => job.force \/ row.sha = NoCommit \/ Tip(remote) # row.sha
             /\ job.at \in {"record", "load"}
                   => job.force \/ row.sha = NoCommit \/ Tip(mirror) # row.sha
             /\ job.at = "record" /\ row.sha # NoCommit => Tip(mirror) # NoCommit
<1>f. faults = 0
  BY <1>0, FaultsStay
<1>b. habits \cap {"rewrite", "rename"} = {} =>
         /\ Before
         /\ Precedes(row.sha, Tip(remote))
  BY <1>f DEF Resumes, Forward
<1>t. job.force \in BOOLEAN /\ job'.force \in BOOLEAN
  BY DEF TypeOK, Jobs
<1>1. CASE HostStep
  <2>1. /\ mirror' = mirror /\ row' = row /\ job' = job /\ habits \subseteq habits'
        /\ Precedes(Tip(remote), Tip(remote')) /\ remote'.default = remote.default
    BY <1>0, <1>1, HostShape
  <2>2. Before /\ Precedes(row.sha, Tip(remote))
    BY <1>0, <1>b, <2>1
  <2>3. Tip(remote') \in Sha
    BY RefTipsType DEF TypeOK, Refs
  <2>4. row.sha # NoCommit /\ Tip(remote') = row.sha => Tip(remote) = row.sha
    BY <2>1, <2>2, <2>3, TipType, PrecedesIsOrder
  <2> QED
    BY <2>1, <2>2, <2>4
<1>2. CASE Begins
  <2>1. /\ mirror' = mirror /\ row' = row /\ remote' = remote /\ habits \subseteq habits'
        /\ job.at = "idle" /\ job'.at = "mirror"
        /\ job'.force \/ row.status # "ready" \/ row.sha = NoCommit \/ Tip(remote) # row.sha
    BY <1>0, <1>2, StartShape DEF Begins
  <2>2. Before
    BY <1>0, <1>b, <2>1
  <2> QED
    BY <2>1, <2>2
<1>3. CASE SyncMirror
  <2>1. /\ remote' = remote /\ habits' = habits /\ row' = row
        /\ (mirror.default = remote.default
               => mirror'.default = remote.default /\ Tip(mirror') = Tip(remote))
        /\ job.at = "mirror" /\ job'.at = "record" /\ job'.force = job.force
    BY <1>3, FetchShape
  <2>2. Before /\ Precedes(row.sha, Tip(remote))
    BY <1>0, <1>b, <2>1
  <2> QED
    BY <2>1, <2>2 DEF Precedes
<1>4. CASE RecordHead
  BY <1>0, <1>4, <1>b, RecordShape
<1>5. CASE RecordEmpty
  BY <1>0, <1>5, <1>b, EmptyShape
<1>6. CASE Loads
  <2>1. PICK marks, tags, refs : LoadWith(marks, tags, refs)
    BY <1>6 DEF Loads
  <2>2. remote' = remote /\ habits' = habits /\ mirror' = mirror /\ job'.at = "drop"
    BY <2>1, LoadShape
  <2> QED
    BY <1>0, <1>b, <2>2
<1>7. CASE DropUnreachable
  BY <1>0, <1>7, <1>b, DropShape
<1>8. CASE LastSteps
  <2>1. /\ remote' = remote /\ habits' = habits /\ mirror' = mirror /\ row'.sha = row.sha
        /\ row'.status = (IF Finish THEN "ready" ELSE row.status)
        /\ job'.at \in AfterLoad \cup {"idle"} /\ (job'.at = "idle" => Finish)
    BY <1>8, TailShape DEF LastSteps
  <2> QED
    BY <1>0, <1>b, <2>1 DEF AfterLoad
<1>9. CASE Stops
  BY <1>0, <1>9, StopShape DEF Stops
<1>10. CASE Rests
  BY <1>0, <1>10, <1>b DEF Rests
<1> QED
  BY <1>1, <1>2, <1>3, <1>4, <1>5, <1>6, <1>7, <1>8, <1>9, <1>10, NextCases

\* Nothing failing, a repository comes to rest by a stamp, and stays there as it was.
LEMMA RestStep ==
    ASSUME TypeOK, TypeOK', SyncInv, OneBranch, Tagless, Resumes, Pending, [Next]_vars,
           Calm', AtRest'
    PROVE  \/ Stamp
           \/ /\ AtRest /\ row'.agg = row'.sha
              /\ UNCHANGED <<stored, replay, counted, scored>>
<1>f. faults = 0
  BY FaultsStay DEF Calm
<1>b. ASSUME habits \subseteq habits', AtRest PROVE Current
  BY <1>f, <1>b DEF Pending, Calm
<1> DEFINE Untouched == UNCHANGED <<stored, replay, counted, scored>>
<1>1. CASE HostStep
  <2>1. row' = row /\ job' = job /\ Untouched /\ habits \subseteq habits'
    BY <1>1, HostShape
  <2>2. AtRest
    BY <2>1 DEF AtRest, NeedsRebuild
  <2> QED
    BY <1>b, <2>1, <2>2 DEF Current
<1>2. CASE Begins
  <2>1. Untouched /\ row' = row /\ habits \subseteq habits' /\ job.at = "idle"
    BY <1>2, StartShape DEF Begins
  <2> QED
    BY <1>b, <2>1 DEF Current, AtRest
<1>3. CASE SyncMirror
  <2>1. Untouched /\ row' = row /\ habits' = habits /\ job.at = "mirror"
    BY <1>3, FetchShape
  <2> QED
    BY <1>b, <2>1 DEF Current, AtRest
<1>4. CASE RecordHead
  <2>1. Untouched /\ row'.agg = row.agg /\ row'.sha = row.sha /\ habits' = habits
        /\ job.at = "record"
    BY <1>4, RecordShape
  <2> QED
    BY <1>b, <2>1 DEF Current, AtRest
<1>5. CASE RecordEmpty
  <2>1. Untouched /\ row'.agg = row.agg /\ row'.sha = row.sha /\ habits' = habits
        /\ job.at = "record"
    BY <1>5, EmptyShape
  <2> QED
    BY <1>b, <2>1 DEF Current, AtRest
<1>6. CASE Loads
  <2>1. PICK compared \in SUBSET mirror.tags, tags \in TagsRead, refs \in TipsRead :
           LoadWith(ReplayedCommits(Tip(mirror), compared), tags, refs)
    BY <1>6 DEF Loads
  <2>2. /\ habits' = habits /\ counted' = counted /\ scored' = scored
        /\ row'.sha = Tip(mirror) /\ row'.agg = row.agg /\ Tip(mirror) # NoCommit
        /\ (job'.wrote = TRUE <=> stored' # stored)
        /\ replay \subseteq replay'
        /\ replay' \subseteq replay \cup ReplayedCommits(Tip(mirror), compared)
        /\ job.at = "load" /\ job'.at = "drop" /\ job'.wrote \in BOOLEAN
        /\ job'.force = job.force
    BY <2>1, LoadShape
  <2>3. ~job'.wrote /\ ~job'.force /\ row'.agg = row'.sha
    BY <2>2 DEF AtRest
  <2>4. AtRest /\ Current
    BY <1>b, <2>2 DEF AtRest
  <2>5. row.sha = Tip(mirror) /\ stored' = stored
    BY <2>2, <2>3, <2>4 DEF Current
  <2>6. CASE "tag" \notin habits
    <3>1. ReplayedCommits(Tip(mirror), compared) = {}
      BY <2>6 DEF Tagless, ReplayedCommits
    <3>2. replay' = replay
      BY <2>2, <3>1
    <3> QED
      BY <2>2, <2>3, <2>4, <2>5, <3>2
  <2>7. CASE habits \cap {"rewrite", "rename"} = {}
    BY <1>f, <2>2, <2>3, <2>5, <2>7 DEF Resumes
  <2> QED
    BY <2>2, <2>6, <2>7 DEF Calm
<1>7. CASE DropUnreachable
  <2>1. /\ habits' = habits /\ row' = row /\ counted' = counted /\ scored' = scored
        /\ Live \subseteq stored /\ stored' = Live /\ replay' = replay \ (stored \ Live)
        /\ job.at = "drop" /\ job'.at = "rebuild"
        /\ job'.force = job.force /\ job'.wrote = job.wrote
        /\ job'.removed \in BOOLEAN /\ (job'.removed = TRUE <=> stored' # stored)
    BY <1>7, DropShape
  <2>2. job'.wrote = FALSE /\ job'.removed = FALSE /\ job'.force = FALSE /\ row'.agg = row'.sha
    BY <2>1 DEF AtRest, NeedsRebuild, TypeOK, Jobs
  <2>3. stored' = stored /\ replay' = replay
    BY <2>1, <2>2
  <2> QED
    BY <2>1, <2>2, <2>3 DEF AtRest
<1>8. CASE LastSteps
  <2>1. habits' = habits /\ stored' = stored /\ replay' = replay /\ row'.sha = row.sha
    BY <1>8, TailShape DEF LastSteps
  <2>2. CASE DropSkipped
    BY <2>2, SyncAssumption DEF DropSkipped, TypeOK, Calm
  <2>3. CASE Rebuild \/ Score
    BY <2>3 DEF Rebuild, Score, TypeOK, Jobs, AtRest
  <2>4. CASE SkipRebuild
    <3>1. row' = row /\ counted' = counted /\ scored' = scored /\ AtRest
      BY <2>4 DEF SkipRebuild, tables, AtRest
    <3> QED
      BY <1>b, <2>1, <3>1 DEF Current
  <2>5. CASE Finish
    <3>1. row'.agg = row.agg /\ counted' = counted /\ scored' = scored /\ AtRest
      BY <2>5 DEF Finish, tables, TypeOK, Rows, AtRest
    <3> QED
      BY <1>b, <2>1, <3>1 DEF Current
  <2> QED
    BY <1>8, <2>2, <2>3, <2>4, <2>5 DEF LastSteps
<1>9. CASE Stops
  BY <1>9, StopShape DEF Stops, Calm
<1>10. CASE Rests
  <2>1. AtRest
    BY <1>10 DEF Rests, AtRest, NeedsRebuild
  <2> QED
    BY <1>b, <1>10, <2>1 DEF Rests, Current
<1> QED
  BY <1>1, <1>2, <1>3, <1>4, <1>5, <1>6, <1>7, <1>8, <1>9, <1>10, NextCases

\* No other step counts or scores, and none leads to a step that does.
LEMMA CountingCases ==
    ASSUME TypeOK, SyncInv, OneBranch, [Next]_vars, job'.at \in {"score", "stamp"}
    PROVE  \/ Rebuild \/ Score
           \/ UNCHANGED <<job, stored, replay, counted, scored>>
<1>1. CASE HostStep
  BY <1>1, HostShape
<1>r. CASE Rests
  BY <1>r DEF Rests
<1>2. CASE Begins
  BY <1>2, StartShape DEF Begins
<1>3. CASE SyncMirror \/ RecordHead \/ RecordEmpty
  BY <1>3, FetchShape, RecordShape, EmptyShape
<1>4. CASE Loads
  BY <1>4 DEF Loads, LoadWith, TypeOK, Jobs
<1>5. CASE DropUnreachable
  BY <1>5 DEF DropUnreachable, TypeOK, Jobs
<1>6. CASE LastSteps
  BY <1>6 DEF LastSteps, DropSkipped, SkipRebuild, Stamp, Finish, NoJob, Job, TypeOK, Jobs
<1>7. CASE Stops
  BY <1>7, StopShape DEF Stops
<1> QED
  BY <1>1, <1>r, <1>2, <1>3, <1>4, <1>5, <1>6, <1>7, NextCases

LEMMA HabitsGrow == TypeOK /\ [Next]_vars => habits \subseteq habits'
BY DEF Next, HostStep, WorkerStep, FaultStep, vars, host, HostMoves, Push, CreateTag, DeleteTag,
   RenameDefault, SkipUnchanged, StartSync, StartForced, StartUnanswered, SyncMirror,
   FetchMirror, CloneMirror, RecordEmpty, RecordHead, Load, LoadUnanswered, LoadWith,
   DropUnreachable, DropSkipped, Rebuild, SkipRebuild, Score, Stamp, Finish, Raise,
   NetworkFails, Fail, Crash, DieInSwap

LEMMA PendingStep ==
    ASSUME TypeOK, TypeOK', SyncInv, OneBranch, Tagless, Resumes, Pending, [Next]_vars
    PROVE  Pending'
<1> SUFFICES ASSUME Calm'
             PROVE  /\ AtRest' => Current'
                    /\ job'.at \in {"score", "stamp"} => counted' = stored' \ replay'
                    /\ job'.at = "stamp" => scored' = counted'
  BY DEF Pending
<1>1. Calm
  BY FaultsStay, HabitsGrow DEF Calm
<1>2. ASSUME AtRest' PROVE Current'
  <2>1. CASE Stamp
    <3>1. /\ job.at = "stamp" /\ row'.agg = row.sha /\ row'.sha = row.sha
          /\ UNCHANGED <<stored, replay, counted, scored>>
      BY <2>1 DEF Stamp, tables, TypeOK, Rows
    <3> QED
      BY <1>1, <3>1 DEF Pending, Current
  <2>2. CASE ~Stamp
    BY <1>1, <1>2, <2>2, RestStep DEF Pending, Current
  <2> QED
    BY <2>1, <2>2
<1>3. ASSUME job'.at \in {"score", "stamp"}
      PROVE  counted' = stored' \ replay' /\ (job'.at = "stamp" => scored' = counted')
  <2>1. CASE Rebuild
    BY <2>1 DEF Rebuild, TypeOK, Jobs
  <2>2. CASE Score
    BY <1>1, <2>2 DEF Score, TypeOK, Jobs, Pending
  <2>3. CASE UNCHANGED <<job, stored, replay, counted, scored>>
    BY <1>1, <1>3, <2>3 DEF Pending
  <2> QED
    BY <1>3, <2>1, <2>2, <2>3, CountingCases
<1> QED
  BY <1>2, <1>3

\* Where the branch only advances or is renamed, the stamp comes to name the recorded tip by a
\* stamp, and as long as it names that tip nothing is loaded and nothing counted.
LEMMA StampStep ==
    ASSUME TypeOK, TypeOK', SyncInv, OneBranch, Forward, Tagless, Stamped, [Next]_vars,
           habits' \subseteq {"rename"}, row'.agg = row'.sha
    PROVE  Stamp \/ (/\ row.agg = row.sha /\ ~Rebuild /\ ~Score
                     /\ UNCHANGED <<stored, replay>>)
<1>h. habits \subseteq {"rename"}
  BY HabitsGrow
<1>r. replay' = replay
  <2>1. replay = {}
    BY <1>h DEF Tagless
  <2>2. Tagless'
    BY TaglessStep
  <2>3. replay' = {}
    BY <2>2 DEF Tagless
  <2> QED
    BY <2>1, <2>3
<1>1. CASE Loads
  <2>1. PICK marks, tags, refs : LoadWith(marks, tags, refs)
    BY <1>1 DEF Loads
  <2>2. /\ Tip(mirror) # NoCommit /\ row'.sha = Tip(mirror) /\ row'.agg = row.agg
        /\ stored' = stored \cup Live /\ job.at = "load"
    BY <2>1, LoadShape
  <2>3. Precedes(row.sha, Tip(mirror)) /\ Precedes(Tip(mirror), row.sha)
    BY <1>h, <2>2 DEF Forward, Stamped
  <2>4. row.sha = Tip(mirror)
    BY <2>3, TipType, PrecedesIsOrder
  <2>5. Live = stored
    BY <1>h, <2>4, TaglessWalk DEF Stamped
  <2> QED
    BY <1>r, <2>2, <2>4, <2>5 DEF Rebuild, Score
<1>2. CASE DropUnreachable
  <2>1. row' = row /\ stored' = Live /\ row.sha = Tip(mirror) /\ job.at = "drop"
    BY <1>2, DropShape
  <2>2. Live = stored
    BY <1>h, <2>1, TaglessWalk DEF Stamped
  <2> QED
    BY <1>r, <2>1, <2>2 DEF Rebuild, Score
<1>3. CASE LastSteps
  <2>1. stored' = stored /\ row'.sha = row.sha /\ row'.agg = IF Stamp THEN row.sha ELSE row.agg
    BY <1>3, TailShape DEF LastSteps
  <2>2. ASSUME ~Stamp PROVE ~Rebuild /\ ~Score
    BY <1>h, <2>1, <2>2 DEF Stamped, Rebuild, Score, NeedsRebuild, TypeOK, Jobs
  <2> QED
    BY <1>r, <2>1, <2>2
<1>4. CASE HostStep \/ Rests
  <2>1. row' = row /\ stored' = stored /\ job' = job
    BY <1>4, HostShape DEF Rests
  <2> QED
    BY <1>r, <2>1 DEF Rebuild, Score, TypeOK, Jobs
<1>5. CASE Begins \/ SyncMirror \/ RecordHead \/ RecordEmpty
  <2>1. row'.agg = row.agg /\ row'.sha = row.sha /\ stored' = stored
        /\ job.at \in {"idle", "mirror", "record"}
    BY <1>5, StartShape, FetchShape, RecordShape, EmptyShape DEF Begins
  <2> QED
    BY <1>r, <2>1 DEF Rebuild, Score
<1>6. CASE Stops
  <2>1. row'.agg = row.agg /\ row'.sha = row.sha /\ stored' = stored
        /\ job'.at \in {"idle", "mirror"}
    BY <1>6, StopShape DEF Stops
  <2> QED
    BY <1>r, <2>1 DEF Rebuild, Score, TypeOK, Jobs
<1> QED
  BY <1>1, <1>2, <1>3, <1>4, <1>5, <1>6, NextCases

\* What was counted last can be believed to be what is stored.
Trusted == (Calm /\ AtRest) \/ (habits \subseteq {"rename"} /\ row.agg = row.sha)

\* That is so after a stamp, and for as long as nothing is loaded, dropped or counted.
LEMMA TrustedStep ==
    ASSUME TypeOK, TypeOK', SyncInv, HistoryInv, [Next]_vars, Trusted'
    PROVE  Stamp \/ (Trusted /\ ~Rebuild /\ ~Score /\ UNCHANGED <<stored, replay>>)
<1>1. CASE (Calm /\ AtRest)'
  <2>1. Calm
    BY <1>1, FaultsStay, HabitsGrow DEF Calm
  <2>2. ~Rebuild /\ ~Score
    BY <1>1 DEF Rebuild, Score, TypeOK, Jobs, AtRest
  <2> QED
    BY <1>1, <2>1, <2>2, RestStep DEF HistoryInv, Trusted
<1>2. CASE (habits \subseteq {"rename"} /\ row.agg = row.sha)'
  <2>1. habits \subseteq {"rename"}
    BY <1>2, HabitsGrow
  <2> QED
    BY <1>2, <2>1, StampStep DEF HistoryInv, Trusted
<1> QED
  BY <1>1, <1>2 DEF Trusted

\* A settled ready repository is trusted, on the histories QuietIsCurrent names.
LEMMA ReadyIsTrusted ==
    ASSUME HistoryInv, Undisturbed, row.status = "ready", job.at = "idle"
    PROVE  Trusted
BY DEF HistoryInv, Stamped, Undisturbed, Trusted, Calm, AtRest

LEMMA HistoryStep == TypeOK /\ TypeOK' /\ SyncInv /\ HistoryInv /\ [Next]_vars => HistoryInv'
BY OneBranchStep, ForwardStep, WitnessedStep, TaglessStep, StampedStep, ResumesStep, PendingStep
DEF HistoryInv

\* Whatever syncs, failures and host changes came before: where the host does not rewrite, what
\* was recorded only falls behind; where nothing failed, what is not current is being rebuilt.
THEOREM HistoryInvariant == Spec => []HistoryInv
BY HistoryInit, HistoryStep, TypeCorrect, SyncInvariant, PTL DEF Spec

\* A settled ready repository has counts of exactly its countable commits and scores of those
\* counts: through any failure where the default branch only advances or is renamed, and
\* without failures on the histories QuietIsCurrent names.
THEOREM QuietRepositoriesAreCurrent == Spec => []QuietIsCurrent
<1>1. HistoryInv => QuietIsCurrent
  <2> SUFFICES ASSUME HistoryInv, row.status = "ready", job.at = "idle",
                      habits \subseteq {"rename"} \/ Calm
               PROVE  counted = stored \ replay /\ scored = counted
    BY DEF QuietIsCurrent, Undisturbed, ReadyIsCurrent, Calm
  <2>1. CASE habits \subseteq {"rename"}
    <3>1. replay = {}
      BY <2>1 DEF HistoryInv, Tagless
    <3> QED
      BY <2>1, <3>1 DEF HistoryInv, Stamped
  <2>2. CASE Calm
    BY <2>2 DEF HistoryInv, Pending, AtRest, Current
  <2> QED
    BY <2>1, <2>2
<1> QED
  BY <1>1, HistoryInvariant, PTL

\* While nothing is rewritten, every stored change is counted at least once: a commit left
\* out as a replay has a countable twin in the table.
THEOREM ReplaysKeepTheirChange == Spec => []NoChangeLost
<1>1. TypeOK /\ SyncInv /\ HistoryInv => NoChangeLost
  <2> SUFFICES ASSUME TypeOK, SyncInv, HistoryInv, "rewrite" \notin habits, NEW c \in stored
               PROVE  \E d \in stored \ replay : Patch[d] = Patch[c]
    BY DEF NoChangeLost
  <2>1. CASE c \in replay
    <3>1. PICK d \in Walk({row.sha} \ {NoCommit}) \ replay : Patch[d] = Patch[c]
      BY <2>1 DEF HistoryInv, Witnessed
    <3>2. d \in stored
      BY CoveredType, WalkMonotone DEF SyncInv, Covered
    <3> QED
      BY <3>1, <3>2
  <2>2. CASE c \notin replay
    BY <2>2
  <2> QED
    BY <2>1, <2>2
<1> QED
  BY <1>1, TypeCorrect, SyncInvariant, HistoryInvariant, PTL
=============================================================================
