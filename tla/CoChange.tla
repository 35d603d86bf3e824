------------------------------- MODULE CoChange -------------------------------
(***************************************************************************)
(* Counting what changes together: rebuild_repo of analysis/aggregate.py    *)
(* and the pass of analysis/score.py over its pair tables.                  *)
(*                                                                          *)
(* Files and directories are one kind of thing here, an item a commit       *)
(* touches: the code keeps two tables for each count with the same columns. *)
(* A commit of GitHistory is the id of its row.  Line counts, recency       *)
(* weights and first and last dates are left out.                           *)
(***************************************************************************)
EXTENDS Measures, GitHistory

CONSTANTS
    File,           \* file ids
    Directory,      \* directory ids
    Author,
    Touched,        \* Touched[c]: the files of c, as its rename records resolve them
    Holds,          \* Holds[f]: every directory above f, the root among them
    WrittenBy,      \* WrittenBy[c]: its author
    When,           \* When[c]: committed_at, in days
    Cap,            \* MAX_FILES_PER_COMMIT; not positive: no cap
    MinSupport      \* MIN_PAIR_SUPPORT

ASSUME CountAssumption ==
    /\ Commit \subseteq Nat
    /\ File \subseteq Nat /\ Directory \subseteq Nat /\ File \cap Directory = {}
    /\ IsFiniteSet(File) /\ IsFiniteSet(Directory) /\ IsFiniteSet(Author)
    /\ Touched \in [Commit -> SUBSET File]
    /\ Holds \in [File -> SUBSET Directory]
    /\ WrittenBy \in [Commit -> Author] /\ When \in [Commit -> Nat]
    /\ Cap \in Int /\ MinSupport \in Int

Item == File \cup Directory

\* The files of a commit and every directory above one of them.
Items(c) == Touched[c] \cup UNION {Holds[f] : f \in Touched[c]}

\* file_a_id < file_b_id, and the same of directories.
Pair == {p \in (File \X File) \cup (Directory \X Directory) : p[1] < p[2]}

Support == Larger(MinSupport, 1)

\* load_commits: what pair_eligible says of a commit before anything marks it a replay.
Countable(c) == Touched[c] # {} /\ (Cap <= 0 \/ Cardinality(Touched[c]) <= Cap)

\* rebuild_repo's `eligible`: the commits that stand for one decision about their files.
Eligible(commits, replays) == {c \in commits \ replays : Countable(c)}

Touching(commits, x) == {c \in commits : x \in Items(c)}
Together(commits, p) == Touching(commits, p[1]) \cap Touching(commits, p[2])

NumberOf(commits, p) == Cardinality(Together(commits, p))

\* author_file: how many commits of each author touch the file.
Owners(commits) ==
    [f \in File |-> [w \in Author |-> Cardinality({c \in Touching(commits, f) : WrittenBy[c] = w})]]

\* Mutant: the marginals of files are counted over all commits, as change_count is.
CountsOverAll(commits, replays) ==
    LET counted == Eligible(commits, replays)
    IN  [population |-> Cardinality(counted),
         marginal   |-> [x \in Item |-> Cardinality(Touching(commits, x))],
         n_ab       |-> [p \in {p \in Pair : NumberOf(counted, p) >= Support}
                            |-> NumberOf(counted, p)],
         pair_count |-> Cardinality({p \in Pair \cap (File \X File) : Together(counted, p) # {}}),
         changes    |-> [f \in File |-> Cardinality(Touching(commits, f))],
         owners     |-> Owners(commits)]

\* rebuild_repo.  "File marginals are deliberately calculated from the same commit set as
\* pairs"; pair_count counts the pairs below the support as well.
Counts(commits, replays) ==
    LET counted == Eligible(commits, replays)
    IN  [population |-> Cardinality(counted),
         marginal   |-> [x \in Item |-> Cardinality(Touching(counted, x))],
         n_ab       |-> [p \in {p \in Pair : NumberOf(counted, p) >= Support}
                            |-> NumberOf(counted, p)],
         pair_count |-> Cardinality({p \in Pair \cap (File \X File) : Together(counted, p) # {}}),
         changes    |-> [f \in File |-> Cardinality(Touching(commits, f))],
         owners     |-> Owners(commits)]

\* score_repo: the table of every stored pair; none when nothing was counted.
Scored(counts) ==
    [p \in {p \in DOMAIN counts.n_ab : counts.population > 0} |->
        FromCounts(counts.n_ab[p], counts.marginal[p[1]], counts.marginal[p[2]],
                   counts.population)]

NoScores == Scored(Counts({}, {}))

\* _score_batch warns when a pair was `adjusted`: the cells it writes are not the counts.
Adjusted(counts, table, p) ==
    \/ table.a # counts.n_ab[p]
    \/ table.a + table.b # counts.marginal[p[1]]
    \/ table.a + table.c # counts.marginal[p[2]]
=============================================================================
