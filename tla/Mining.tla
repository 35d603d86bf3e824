-------------------------------- MODULE Mining --------------------------------
(***************************************************************************)
(* What analysis/mining.py reads out of the pair tables of one repository:  *)
(* clusters of files by label propagation, pairs whose association drifts,  *)
(* and the files whose change is risky.                                     *)
(***************************************************************************)
EXTENDS CoChange, FiniteSetsExt

CONSTANTS
    ClusterSupport,     \* CLUSTER_MIN_SUPPORT
    Rounds,             \* LABEL_PROPAGATION_ROUNDS
    DriftSupport,       \* co-changes a pair needs in each window (2 in the code)
    Window              \* DRIFT_WINDOW_DAYS

ASSUME MiningAssumption ==
    /\ ClusterSupport \in Nat /\ Rounds \in Nat /\ DriftSupport \in Nat \ {0}
    /\ Window \in Nat

\* The edges of _cluster_repo: supported file pairs with a positive npmi.
Coupled(counts, scores) ==
    {p \in DOMAIN scores \cap (File \X File) :
        counts.n_ab[p] >= ClusterSupport /\ Npmi(scores[p]) > 0}

Ends(p) == {p[1], p[2]}

\* The sum of a function's values.
Total(v) ==
    LET sum[S \in SUBSET DOMAIN v] ==
            IF S = {} THEN 0
            ELSE LET x == CHOOSE x \in S : TRUE IN v[x] + sum[S \ {x}]
    IN  sum[DOMAIN v]

\* The label the neighbours of a file carry most weight for; the smallest of the best.
Heaviest(scores, edges, labels, f) ==
    LET near      == {p \in edges : f \in Ends(p)}
        Other(p)  == IF p[1] = f THEN p[2] ELSE p[1]
        Weight(l) == Total([p \in {p \in near : labels[Other(p)] = l} |-> Npmi(scores[p])])
        offered   == {labels[Other(p)] : p \in near}
    IN  Min({l \in offered : \A k \in offered : Weight(k) <= Weight(l)})

\* One round: all labels move at once.
Propagated(scores, edges, labels) ==
    [f \in DOMAIN labels |-> Heaviest(scores, edges, labels, f)]

\* The code stops after a round that changes nothing: all rounds after it would change nothing.
Labels(scores, edges) ==
    LET after[k \in 0..Rounds] ==
            IF k = 0 THEN [f \in UNION {Ends(p) : p \in edges} |-> f]
            ELSE Propagated(scores, edges, after[k - 1])
    IN  after[Rounds]

\* _cluster_repo: the files that share a label, when there are two or more.
Clusters(counts, scores) ==
    LET labels == Labels(scores, Coupled(counts, scores))
        With(l) == {f \in DOMAIN labels : labels[f] = l}
    IN  {With(l) : l \in {k \in {labels[f] : f \in DOMAIN labels} : Cardinality(With(k)) >= 2}}

\* The association of a pair within one window, as mining._npmi has it.
NpmiWithin(window, p) ==
    Npmi(FromCounts(NumberOf(window, p), Cardinality(Touching(window, p[1])),
                    Cardinality(Touching(window, p[2])), Cardinality(window)))

Trend(delta) ==
    IF delta > 150 THEN "emerging" ELSE IF delta < -150 THEN "decaying" ELSE "stable"

\* _rebuild_drift: the pairs seen often enough on both sides of the boundary.
Drift(counted, today) ==
    LET recent == {c \in counted : When[c] >= today - Window}
        old    == counted \ recent
    IN  [p \in {p \in Pair \cap (File \X File) :
                   /\ NumberOf(recent, p) >= DriftSupport
                   /\ NumberOf(old, p) >= DriftSupport} |->
            [recent |-> NumberOf(recent, p), historic |-> NumberOf(old, p),
             trend |-> Trend(NpmiWithin(recent, p) - NpmiWithin(old, p))]]

\* How many of the ranked files have at most this file's value, the file itself left out:
\* _percentile.
Rank(value, f) == Cardinality({g \in DOMAIN value : value[g] <= value[f]}) - 1

\* _rebuild_risk: the ranks behind churn_pct and coupling_pct, and the squared shares
\* behind ownership_hhi, for every file that ever changed.
Risk(counts) ==
    LET files    == {f \in File : counts.changes[f] > 0}
        changes  == [f \in files |-> counts.changes[f]]
        partners == [f \in files |-> Cardinality({p \in DOMAIN counts.n_ab : f \in Ends(p)})]
    IN  [f \in files |->
            [churn |-> Rank(changes, f), coupling |-> Rank(partners, f),
             shares |-> Total([w \in Author |-> Square(counts.owners[f][w])]),
             changes |-> changes[f]]]

\* rebuild, for one repository: file_cluster, pair_drift and file_risk, from what it read.
Mined(read) ==
    [clusters |-> Clusters(read.counts, read.scores), drift |-> Drift(read.flagged, read.today),
     risk |-> Risk(read.counts)]
=============================================================================
