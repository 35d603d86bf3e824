---------------------------- MODULE DerivedStages -----------------------------
(***************************************************************************)
(* analysis/derived.py: before a run touches a repository, ensure_current    *)
(* rebuilds the stages whose code has another version than the one stored    *)
(* beside their rows.  Stages over repositories commit one repository at a   *)
(* time, the others as a whole; the version is stored in a transaction of    *)
(* its own, after them.                                                      *)
(*                                                                           *)
(* A stage's rows are reduced to the version of the code that computed them  *)
(* and the versions of the upstream rows it computed them from.              *)
(***************************************************************************)
EXTENDS Naturals, Sequences, SequencesExt

CONSTANTS
    Repo, Corpus,   \* Corpus stands for the rows of a stage that has no per-repository rebuild
    MaxVersion      \* bound: versions of a stage's code

ASSUME DerivedAssumption == Corpus \notin Repo /\ MaxVersion \in Nat \ {0}

STAGES == <<"aggregate", "score", "depbump", "declared", "predict", "mining">>
Stage == {"aggregate", "score", "depbump", "declared", "predict", "mining"}

depends_on == [s \in Stage |->
    CASE s = "score"   -> {"aggregate"}
      [] s = "predict" -> {"depbump", "declared"}
      [] s = "mining"  -> {"aggregate", "score"}
      [] OTHER         -> {}]

Units(s) == IF s \in {"aggregate", "score", "mining"} THEN Repo ELSE {Corpus}

VARIABLES
    version,    \* version[s]: of the program that runs, or would
    stored,     \* the watermark derived:s, 0 for none
    by,         \* by[s][u]: the version that computed the rows, 0 when there are none
    of,         \* of[s][u][d]: the version of the rows of stage d they were computed from
    at,         \* position in STAGES, 0 outside a run, Len(STAGES) + 1 in the pool
    rebuilding, left    \* is the stage being rebuilt, and the units that remain

vars == <<version, stored, by, of, at, rebuilding, left>>

Pool == Len(STAGES) + 1
Rows == Repo \cup {Corpus}

TypeOK ==
    /\ version \in [Stage -> 1..MaxVersion] /\ stored \in [Stage -> 0..MaxVersion]
    /\ by \in [Stage -> [Rows -> 0..MaxVersion]]
    /\ of \in [Stage -> [Rows -> [Stage -> 0..MaxVersion]]]
    /\ at \in 0..Pool /\ rebuilding \in BOOLEAN
    /\ left \subseteq Rows /\ (left # {} => rebuilding)

Init ==
    /\ version = [s \in Stage |-> 1] /\ stored = [s \in Stage |-> 0]
    /\ by = [s \in Stage |-> [u \in Rows |-> 0]]
    /\ of = [s \in Stage |-> [u \in Rows |-> [d \in Stage |-> 0]]]
    /\ at = 0 /\ rebuilding = FALSE /\ left = {}

\* Mutant: a stage with dependencies is judged by them alone.
stale_stagesByDependency(marks) ==
    FoldLeft(LAMBDA stale, s :
                IF (depends_on[s] = {} /\ marks[s] # version[s]) \/ depends_on[s] \cap stale # {}
                THEN stale \cup {s} ELSE stale,
             {}, STAGES)

stale_stages(marks) ==
    FoldLeft(LAMBDA stale, s :
                IF marks[s] # version[s] \/ depends_on[s] \cap stale # {}
                THEN stale \cup {s} ELSE stale,
             {}, STAGES)

Begin ==
    /\ at = 0 /\ at' = 1
    /\ UNCHANGED <<version, stored, by, of, rebuilding, left>>

Looking == at \in 1..Len(STAGES) /\ ~rebuilding

\* The watermarks are read again for every stage.
SkipCurrent ==
    /\ Looking /\ STAGES[at] \notin stale_stages(stored)
    /\ at' = at + 1
    /\ UNCHANGED <<version, stored, by, of, rebuilding, left>>

\* Mutant: the version is stored first.
BeginRebuildMarked ==
    /\ Looking /\ STAGES[at] \in stale_stages(stored)
    /\ rebuilding' = TRUE /\ left' = Units(STAGES[at])
    /\ stored' = [stored EXCEPT ![STAGES[at]] = version[STAGES[at]]]
    /\ UNCHANGED <<version, by, of, at>>

BeginRebuild ==
    /\ Looking /\ STAGES[at] \in stale_stages(stored)
    /\ rebuilding' = TRUE /\ left' = Units(STAGES[at])
    /\ UNCHANGED <<version, stored, by, of, at>>

\* The rows of stage s and unit u, computed from what is there.
Compute(s, u) ==
    /\ by' = [by EXCEPT ![s][u] = version[s]]
    /\ of' = [of EXCEPT ![s][u] = [d \in Stage |-> IF d \in depends_on[s] THEN by[d][u] ELSE 0]]

RebuildUnit(u) ==
    /\ rebuilding /\ u \in left
    /\ Compute(STAGES[at], u) /\ left' = left \ {u}
    /\ UNCHANGED <<version, stored, at, rebuilding>>

\* set_watermark: a row in meta, in a transaction of its own.
SetWatermark(s) == stored' = [stored EXCEPT ![s] = version[s]]

Mark ==
    /\ rebuilding /\ left = {}
    /\ SetWatermark(STAGES[at])
    /\ at' = at + 1 /\ rebuilding' = FALSE
    /\ UNCHANGED <<version, by, of, left>>

\* In the pool, a sync computes the counts of its repository and then the scores.
SyncStage(s, r) ==
    /\ at = Pool
    /\ Compute(s, r)
    /\ UNCHANGED <<version, stored, at, rebuilding, left>>

\* The run ends, a stage raises, or the process dies.
Leave ==
    /\ at # 0 /\ at' = 0 /\ rebuilding' = FALSE /\ left' = {}
    /\ UNCHANGED <<version, stored, by, of>>

\* A new version is deployed, which restarts the program.
Release(s) ==
    /\ version[s] < MaxVersion
    /\ version' = [version EXCEPT ![s] = @ + 1]
    /\ at' = 0 /\ rebuilding' = FALSE /\ left' = {}
    /\ UNCHANGED <<stored, by, of>>

Next ==
    \/ Begin \/ SkipCurrent \/ BeginRebuild \/ Mark \/ Leave
    \/ \E u \in Rows : RebuildUnit(u)
    \/ \E s \in {"aggregate", "score"}, r \in Repo : SyncStage(s, r)
    \/ \E s \in Stage : Release(s)

Spec == Init /\ [][Next]_vars
-----------------------------------------------------------------------------
(* Properties. *)

\* A version that is stored is the version of every row of the stage, also while later
\* rebuilds are interrupted between two repositories.
MarkedIsBuilt ==
    \A s \in Stage : stored[s] = version[s] => \A u \in Units(s) : by[s][u] = version[s]

\* No repository is synced while a stage still has rows of another version.
PoolIsCurrent == at = Pool => \A s \in Stage : \A u \in Units(s) : by[s][u] = version[s]

\* Rows are only ever computed from upstream rows of the current version.
RebuiltInOrder ==
    [][\A s \in Stage : \A u \in Units(s) :
           of'[s][u] # of[s][u] => \A d \in depends_on[s] : of'[s][u][d] = version[d]]_vars

\* "Return stages stale by version or by a stale upstream dependency": when syncing
\* begins, no rows were computed from upstream rows that have since been rebuilt by
\* another version.
DependentsFollow ==
    at = Pool => \A s \in Stage : \A u \in Units(s) : \A d \in depends_on[s] :
                     of[s][u][d] = by[d][u]
=============================================================================
