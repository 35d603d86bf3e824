----------------------------- MODULE GitHistory -----------------------------
(***************************************************************************)
(* The part of git the pipeline asks questions of: a fixed, finite commit   *)
(* graph, the commits a set of tips reaches, and the patch-id comparison    *)
(* behind `rev-list --cherry-mark`.  A history is given by each commit's    *)
(* ancestor set, so reachability needs no recursion.                        *)
(***************************************************************************)
EXTENDS FiniteSets

CONSTANTS
    Commit,     \* the commits that can ever exist in the repository
    NoCommit,   \* stands for an absent sha (SQL NULL, Python None)
    Anc,        \* Anc[c]: c and all its ancestors
    Merge,      \* the commits `--no-merges` leaves out of a walk
    Patch       \* Patch[c]: the patch id of c; equal for a commit and its cherry-pick

ASSUME CommitAssumption == IsFiniteSet(Commit) /\ NoCommit \notin Commit

\* Ancestor sets are reflexive and transitive.
ASSUME AncAssumption ==
    /\ Anc \in [Commit -> SUBSET Commit]
    /\ \A c \in Commit : c \in Anc[c] /\ \A d \in Anc[c] : Anc[d] \subseteq Anc[c]

\* A commit's sha covers those of its parents, so no two commits reach each other.
ASSUME AcyclicAssumption == \A c, d \in Commit : c \in Anc[d] /\ d \in Anc[c] => c = d

\* A merge has parents, so every history starts at a commit that is not one.
ASSUME MergeAssumption == Merge \subseteq Commit /\ \A c \in Commit : Anc[c] \ Merge # {}

ASSUME PatchAssumption == DOMAIN Patch = Commit

\* Everything the tips reach: `git rev-list <tips>`.
Reach(tips) == UNION {Anc[c] : c \in tips}

\* What a walk loads: `git rev-list --no-merges <tips>`.
Walk(tips) == Reach(tips) \ Merge

\* Mutant: without --right-only the branch's own commit is marked as well.
CherryMarkedBothSides(branch, tip) ==
    LET right == Walk({tip}) \ Reach({branch})
        left  == Walk({branch}) \ Reach({tip})
    IN  {c \in right \cup left : \E d \in (right \cup left) \ {c} : Patch[d] = Patch[c]}

\* `rev-list --cherry-mark --right-only --no-merges branch...tip`, lines marked "=":
\* commits only the tip reaches whose patch is also on the side only the branch reaches.
CherryMarked(branch, tip) ==
    LET right == Walk({tip}) \ Reach({branch})
        left  == Walk({branch}) \ Reach({tip})
    IN  {c \in right : \E d \in left : Patch[d] = Patch[c]}

\* gitops.replayed_commits: the marks of every tag that is off the branch.
ReplayedCommits(branch, tags) ==
    UNION {CherryMarked(branch, t) : t \in tags \ Reach({branch})}
=============================================================================
