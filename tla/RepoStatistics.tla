---------------------------- MODULE RepoStatistics ----------------------------
(***************************************************************************)
(* One repository's statistics as its history moves: RepoSync, whose counts *)
(* are a set of commits, with the numbers of CoChange beside it.  The load  *)
(* and the cleanup keep pair_eligible, the rebuild counts, the score pass   *)
(* scores, and the end of a run mines what was counted since                *)
(* (_refresh_crossrepo with mining_too, and mining.rebuild).                *)
(*                                                                          *)
(* Every step is a step of RepoSync with what it does to the numbers, or    *)
(* the one RepoSync does not have, Mine.                                    *)
(***************************************************************************)
EXTENDS RepoSync, Mining, Backtest

CONSTANT Day        \* bound: the days on which anything is mined

ASSUME DayAssumption == Day \subseteq Nat /\ Day # {}

VARIABLES
    flagged,        \* pair_eligible
    counts,         \* pair_population, pair_change_count, file_pair, dir_pair, author_file
    scores,         \* file_pair_metric and dir_pair_metric
    unmined,        \* last_mining_at is NULL or before last_aggregate_at
    read            \* what the last mining read; its rows are Mined(read)

numbers   == <<counts, scores>>
minings   == <<unmined, read>>
statsVars == <<vars, flagged, numbers, minings>>

\* The pair tables, the flagged commits and the day mining.rebuild asks for.
Reading(c, s, f, day) == [counts |-> c, scores |-> s, flagged |-> f, today |-> day]

StatsTypeOK ==
    /\ TypeOK
    /\ flagged \in SUBSET stored
    /\ unmined \in BOOLEAN /\ read.today \in {0} \cup Day

StatsInit ==
    /\ Init
    /\ flagged = {} /\ counts = Counts({}, {}) /\ scores = NoScores
    /\ unmined = TRUE /\ read = Reading(Counts({}, {}), NoScores, {}, 0)

-----------------------------------------------------------------------------
\* load_commits decides for each commit it adds; _mark_replays takes the flag away.
FlagLoaded ==
    /\ flagged' = (flagged \cup {c \in stored' \ stored : Countable(c)}) \ replay'
    /\ UNCHANGED <<numbers, minings>>

LoadFlags == Load /\ FlagLoaded
LoadFlagsUnanswered == LoadUnanswered /\ FlagLoaded

\* A commit goes with its row.
DropFlags ==
    /\ DropUnreachable
    /\ flagged' = flagged \cap stored'
    /\ UNCHANGED <<numbers, minings>>

\* Mutant: last_aggregate_at is not stamped, so nothing asks for the mining.
CountUnstamped ==
    /\ Rebuild
    /\ counts' = Counts(stored, replay) /\ flagged' = Eligible(stored, replay)
    /\ scores' = NoScores
    /\ UNCHANGED minings

\* rebuild_repo: new counts, the flags again, no metric rows, and last_aggregate_at.
CountPairs ==
    /\ Rebuild
    /\ counts' = Counts(stored, replay) /\ flagged' = Eligible(stored, replay)
    /\ scores' = NoScores
    /\ unmined' = TRUE
    /\ UNCHANGED read

\* score_repo
ScorePairs ==
    /\ Score
    /\ scores' = Scored(counts)
    /\ UNCHANGED <<flagged, counts, minings>>

\* Mutant: only a run whose sync changed something mines.
MineAfterChange ==
    /\ job.at = "idle" /\ result = "success"
    /\ counts.pair_count > 0 /\ unmined
    /\ \E today \in Day : read' = Reading(counts, scores, flagged, today)
    /\ unmined' = FALSE
    /\ UNCHANGED <<vars, flagged, numbers>>

\* mining.rebuild without a repository: those with a pair, counted since they were mined.
Mine ==
    /\ job.at = "idle"
    /\ counts.pair_count > 0 /\ unmined
    /\ \E today \in Day : read' = Reading(counts, scores, flagged, today)
    /\ unmined' = FALSE
    /\ UNCHANGED <<vars, flagged, numbers>>

\* What has no flag or number to do with.
Untouched == UNCHANGED <<flagged, numbers, minings>>

StatsWorker ==
    \/ LoadFlags \/ DropFlags \/ CountPairs \/ ScorePairs
    \/ /\ StartSync \/ SyncMirror \/ RecordEmpty \/ RecordHead \/ SkipRebuild \/ Stamp \/ Finish
       /\ Untouched

StatsFault ==
    \/ LoadFlagsUnanswered
    \/ /\ \/ StartUnanswered \/ DieInSwap \/ DropSkipped \/ NetworkFails \/ Crash
          \/ \E b \in BOOLEAN : Fail(b)
       /\ Untouched

StatsNext ==
    \/ StatsWorker \/ StatsFault
    \/ (HostStep \/ SkipUnchanged \/ StartForced) /\ Untouched
    \/ Mine

StatsSpec == StatsInit /\ [][StatsNext]_statsVars

\* The scheduler starts a run again and again; a run that finds a repository counted after it
\* was mined mines it (_crossrepo_rebuild_needed).
FairStats == StatsSpec /\ WF_statsVars(StatsWorker) /\ WF_statsVars(Mine)
-----------------------------------------------------------------------------
(* Properties. *)

\* "n_ab > n_a is impossible by construction": whatever is loaded, rewritten or interrupted
\* between the two transactions, score_repo never has to move a count.
NothingIsAdjusted == \A p \in DOMAIN scores : ~Adjusted(counts, scores[p], p)

\* Every stored score is one the registry allows, on degenerate tables (a directory above
\* every file, a file in every commit) as on any other.
ScoresKeepRegistry == \A p \in DOMAIN scores : KeepsRegistry(scores[p])

Settled == row.status = "ready" /\ job.at = "idle"

\* What the backtest credits is what the product serves: on the histories whose stamps can be
\* trusted, the replay of a settled repository's flagged commits ends with the counts in its
\* tables, whatever tags marked or unmarked on the way.
ReplayEndsInTheTables ==
    Settled /\ Undisturbed =>
        LET ran == Replayed(flagged)
        IN  /\ ran.total = counts.population
            /\ \A f \in File : ran.marginal[f] = counts.marginal[f]
            /\ \A p \in Pair \cap (File \X File) :
                  IF ran.joint[p] >= Support
                  THEN p \in DOMAIN counts.n_ab /\ counts.n_ab[p] = ran.joint[p]
                  ELSE p \notin DOMAIN counts.n_ab

\* What a settled repository that has been mined since it was counted says of its modules,
\* drift and risk is what its commits and replays say, as of that day, on the same histories.
MinedIsCurrent ==
    Settled /\ ~unmined /\ Undisturbed =>
        LET now == Counts(stored, replay)
        IN  Mined(read) = Mined(Reading(now, Scored(now), Eligible(stored, replay), read.today))

\* Once the host is quiet and nothing fails any more, its default branch is loaded and a
\* repository with pairs has been mined since it was counted; MinedIsCurrent says what that is
\* worth. As in EventuallyIngested, not after a rename or under endless full re-reads.
EventuallyMined ==
    <>[](Tip(remote) # NoCommit /\ habits \cap {"rename", "force"} = {} =>
            /\ Settled /\ Walk({Tip(remote)}) \subseteq stored
            /\ counts.pair_count > 0 => ~unmined)

\* "De-facto modules - label propagation over the file-coupling graph": a settled repository
\* without a pair has no modules.
UncoupledHasNoModules == Settled /\ counts.pair_count = 0 => Mined(read).clusters = {}
=============================================================================
