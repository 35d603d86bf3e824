------------------------- MODULE RepoStatisticsProofs --------------------------
(***************************************************************************)
(* What a repository's numbers are worth, for any commits, histories,       *)
(* limits and interruptions.                                                *)
(*                                                                          *)
(* First, score_repo never has to move a count: the counts of every pair    *)
(* are the sizes of A, B and their intersection for two sets of commits     *)
(* within one population, and such sizes are always a 2x2 table.  What is   *)
(* computed from such tables keeps what the registry tells of each measure. *)
(*                                                                          *)
(* Then, a settled repository's numbers are those of its stored history.    *)
(* Every step is one of RepoSync's or changes nothing there, so what        *)
(* RepoSyncProofs has proved of syncs holds here too.  HistoryInv says when *)
(* last_aggregate_sha may be believed (Trusted); TrustInv adds that the     *)
(* numbers then are those of the stored commits, and what was mined of the  *)
(* numbers.                                                                 *)
(*                                                                          *)
(* Last, what is computed one element at a time, by induction over it: the  *)
(* backtest's replay of a settled history ends in its tables, modules are   *)
(* held together by coupled pairs however labels move, and risk and drift   *)
(* add up.                                                                  *)
(***************************************************************************)
EXTENDS RepoStatistics, RepoSyncProofs, SequenceTheorems

\* The counts are those of one set of commits.
CountedFrom(S, c) ==
    /\ c.population = Cardinality(S)
    /\ \A x \in Item : c.marginal[x] = Cardinality(Touching(S, x))
    /\ DOMAIN c.n_ab \subseteq Pair
    /\ \A p \in DOMAIN c.n_ab : c.n_ab[p] = Cardinality(Together(S, p))

-----------------------------------------------------------------------------
\* Sizes of two sets, their intersection and a set around them are a 2x2 table.
LEMMA SizesAreFeasible ==
    ASSUME NEW U, IsFiniteSet(U), NEW A \in SUBSET U, NEW B \in SUBSET U
    PROVE  /\ Feasible(Cardinality(A \cap B), Cardinality(A), Cardinality(B), Cardinality(U))
           /\ Cardinality(A) \in Nat /\ Cardinality(B) \in Nat /\ Cardinality(U) \in Nat
           /\ Cardinality(A \cap B) \in Nat
<1>1. /\ IsFiniteSet(A) /\ IsFiniteSet(B) /\ IsFiniteSet(A \cap B) /\ IsFiniteSet(A \cup B)
      /\ Cardinality(A) <= Cardinality(U) /\ Cardinality(B) <= Cardinality(U)
      /\ Cardinality(A \cup B) <= Cardinality(U)
  <2>1. A \cup B \in SUBSET U /\ A \cap B \in SUBSET U
    OBVIOUS
  <2> QED
    BY <2>1, FS_Subset
<1>2. Cardinality(A \cap B) <= Cardinality(A) /\ Cardinality(A \cap B) <= Cardinality(B)
  <2>1. A \cap B \in SUBSET A /\ A \cap B \in SUBSET B
    OBVIOUS
  <2> QED
    BY <1>1, <2>1, FS_Subset
<1>3. Cardinality(A \cup B) = Cardinality(A) + Cardinality(B) - Cardinality(A \cap B)
  BY <1>1, FS_Union
<1>4. /\ Cardinality(A) \in Nat /\ Cardinality(B) \in Nat /\ Cardinality(U) \in Nat
      /\ Cardinality(A \cap B) \in Nat /\ Cardinality(A \cup B) \in Nat
  BY <1>1, FS_CardinalityType
<1>5. \A ab, a, b, u, ub \in Nat :
         /\ a <= u /\ b <= u /\ ub <= u /\ ab <= a /\ ab <= b /\ ub = a + b - ab
         => Feasible(ab, a, b, u)
  BY DEF Feasible, Larger, Smaller
<1> QED
  BY <1>1, <1>2, <1>3, <1>4, <1>5

\* from_counts leaves a 2x2 table alone.
LEMMA FeasibleIsKept ==
    ASSUME NEW ab \in Nat, NEW a \in Nat, NEW b \in Nat, NEW n \in Nat, Feasible(ab, a, b, n)
    PROVE  FromCounts(ab, a, b, n) = Table(ab, a, b, n)
BY DEF Feasible, FromCounts, Clip, Larger, Smaller

\* A pair's scored cells are the counts they came from.
LEMMA ScoredIsExact ==
    ASSUME CountAssumption, NEW S \in SUBSET Commit, NEW c, CountedFrom(S, c),
           NEW p \in DOMAIN Scored(c)
    PROVE  ~Adjusted(c, Scored(c)[p], p)
<1>1. /\ p \in DOMAIN c.n_ab /\ p \in Pair
      /\ Scored(c)[p] = FromCounts(c.n_ab[p], c.marginal[p[1]], c.marginal[p[2]], c.population)
  BY DEF Scored, CountedFrom
<1>2. p[1] \in Item /\ p[2] \in Item
  BY <1>1 DEF Pair, Item
<1> DEFINE A == Touching(S, p[1])
           B == Touching(S, p[2])
<1>3. /\ c.n_ab[p] = Cardinality(A \cap B) /\ c.population = Cardinality(S)
      /\ c.marginal[p[1]] = Cardinality(A) /\ c.marginal[p[2]] = Cardinality(B)
  BY <1>1, <1>2 DEF CountedFrom, Together
<1>4. IsFiniteSet(S) /\ A \in SUBSET S /\ B \in SUBSET S
  BY CommitAssumption, FS_Subset DEF CountAssumption, Touching
<1> HIDE DEF A, B
<1>5. /\ Feasible(Cardinality(A \cap B), Cardinality(A), Cardinality(B), Cardinality(S))
      /\ Cardinality(A) \in Nat /\ Cardinality(B) \in Nat /\ Cardinality(S) \in Nat
      /\ Cardinality(A \cap B) \in Nat
  BY <1>4, SizesAreFeasible
<1>6. Scored(c)[p] = Table(c.n_ab[p], c.marginal[p[1]], c.marginal[p[2]], c.population)
  BY <1>1, <1>3, <1>5, FeasibleIsKept
<1>7. c.n_ab[p] \in Nat /\ c.marginal[p[1]] \in Nat /\ c.marginal[p[2]] \in Nat
  BY <1>3, <1>5
<1> QED
  BY <1>6, <1>7 DEF Adjusted, Table

\* What rebuild_repo stores is the counts of its eligible commits.
LEMMA CountsAreOfEligible ==
    ASSUME NEW C \in SUBSET Commit, NEW R
    PROVE  CountedFrom(Eligible(C, R), Counts(C, R))
<1> DEFINE S == Eligible(C, R)
           D == {p \in Pair : NumberOf(S, p) >= Support}
<1>1. /\ Counts(C, R).population = Cardinality(S)
      /\ Counts(C, R).marginal = [x \in Item |-> Cardinality(Touching(S, x))]
      /\ Counts(C, R).n_ab = [p \in D |-> NumberOf(S, p)]
  BY DEF Counts
<1>2. \A x \in Item : Counts(C, R).marginal[x] = Cardinality(Touching(S, x))
  BY <1>1
<1>3. D \subseteq Pair /\ DOMAIN Counts(C, R).n_ab = D
  BY <1>1
<1>4. \A p \in D : Counts(C, R).n_ab[p] = Cardinality(Together(S, p))
  BY <1>1 DEF NumberOf
<1> HIDE DEF S, D
<1>5. CountedFrom(S, Counts(C, R))
  BY <1>1, <1>2, <1>3, <1>4 DEF CountedFrom
<1> QED
  BY <1>5 DEF S

\* No pair has scores when nothing was counted.
LEMMA NothingScored == DOMAIN NoScores = {}
<1>1. Eligible({}, {}) = {}
  BY DEF Eligible
<1>2. Counts({}, {}).population = 0
  BY <1>1, FS_EmptySet DEF Counts
<1> QED
  BY <1>2 DEF NoScores, Scored

LEMMA EligibleIsCommits ==
    ASSUME NEW C \in SUBSET Commit, NEW R PROVE Eligible(C, R) \in SUBSET Commit
BY DEF Eligible
-----------------------------------------------------------------------------
(* What carries over from RepoSync. *)

\* Every step is one of RepoSync's, or leaves its variables as they are.
LEMMA StepIsStep == [StatsNext]_statsVars => [Next]_vars
BY DEF StatsNext, StatsWorker, StatsFault, LoadFlags, LoadFlagsUnanswered, DropFlags, CountPairs,
   ScorePairs, Mine, Next, WorkerStep, FaultStep, statsVars

\* So whatever holds of RepoSync holds here.
LEMMA StatisticsFollowSync == StatsSpec => Spec
<1>1. StatsInit => Init
  BY DEF StatsInit
<1> QED
  BY <1>1, StepIsStep, PTL DEF StatsSpec, Spec

LEMMA SyncCarriesOver == StatsSpec => [](TypeOK /\ SyncInv /\ HistoryInv)
BY StatisticsFollowSync, TypeCorrect, SyncInvariant, HistoryInvariant, PTL

-----------------------------------------------------------------------------
(* Where the numbers come from. *)

\* What was counted, scored and mined are the numbers of some commits, whatever came since; and
\* as long as nothing was counted since the mining, what it read is what there is.
NumbersInv ==
    /\ unmined \in BOOLEAN /\ read.today \in {0} \cup Day
    /\ flagged = Eligible(stored, replay)
    /\ \E C, R \in SUBSET Commit : counts = Counts(C, R)
    /\ \E C, R \in SUBSET Commit : read.counts = Counts(C, R)
    /\ scores \in {NoScores, Scored(counts)}
    /\ read.scores \in {NoScores, Scored(read.counts)}
    /\ job.at \in {"score", "stamp"} => unmined = TRUE
    /\ unmined = FALSE => read.counts = counts /\ read.scores = scores

LEMMA NumbersInit == StatsInit => NumbersInv
BY DEF StatsInit, Init, NumbersInv, Reading, Eligible, NoJob, Job

\* The steps that have nothing to do with flags and numbers.
Quiet ==
    /\ UNCHANGED <<flagged, counts, scores, unmined, read, stored, replay>>
    /\ job'.at \in {"score", "stamp"} => job' = job

LEMMA StatsCases ==
    ASSUME TypeOK, [StatsNext]_statsVars
    PROVE  \/ LoadFlags \/ LoadFlagsUnanswered \/ DropFlags \/ CountPairs \/ ScorePairs \/ Mine
           \/ Quiet
<1> USE DEF Quiet, tables
<1>1. CASE Untouched /\ (StartSync \/ StartForced \/ StartUnanswered)
  BY <1>1 DEF StartSync, StartForced, StartUnanswered, BeginAttempt, Job, Untouched, numbers, minings
<1>2. CASE Untouched /\ (RecordEmpty \/ RecordHead)
  <2>1. UNCHANGED <<stored, replay>> /\ job'.at \in {"idle", "load"}
    BY <1>2, RecordShape, EmptyShape
  <2> QED
    BY <1>2, <2>1 DEF Untouched, numbers, minings
<1>m. CASE Untouched /\ SyncMirror
  <2>1. /\ UNCHANGED <<stored, replay>> /\ job'.at = "record"
    BY <1>m DEF SyncMirror, FetchMirror, CloneMirror, TypeOK, Jobs
  <2> QED
    BY <1>m, <2>1 DEF Untouched, numbers, minings
<1>3. CASE Untouched /\ (SkipRebuild \/ Stamp \/ Finish \/ DropSkipped)
  BY <1>3 DEF SkipRebuild, Stamp, Finish, DropSkipped, NoJob, Job, TypeOK, Jobs,
     Untouched, numbers, minings
<1>4. CASE Untouched /\ (DieInSwap \/ Crash)
  BY <1>4 DEF DieInSwap, Crash, NoJob, Job, Untouched, numbers, minings
<1>5. ASSUME Untouched, NEW b, Raise(b) PROVE Quiet
  BY <1>5 DEF Raise, BeginAttempt, NoJob, Job, Untouched, numbers, minings
<1>6. CASE Untouched /\ (NetworkFails \/ \E b \in BOOLEAN : Fail(b))
  BY <1>5, <1>6 DEF NetworkFails, Fail
<1>7. CASE Untouched /\ (HostStep \/ SkipUnchanged)
  BY <1>7 DEF HostStep, HostMoves, Push, CreateTag, DeleteTag, RenameDefault, SkipUnchanged,
     Untouched, numbers, minings
<1>8. CASE UNCHANGED statsVars
  BY <1>8 DEF statsVars, vars, numbers, minings
<1> QED
  BY <1>1, <1>2, <1>m, <1>3, <1>4, <1>6, <1>7, <1>8 DEF StatsNext, StatsWorker, StatsFault

LEMMA NumbersStep == TypeOK /\ TypeOK' /\ NumbersInv /\ [StatsNext]_statsVars => NumbersInv'
<1> SUFFICES ASSUME TypeOK, TypeOK', NumbersInv, [StatsNext]_statsVars PROVE NumbersInv'
  OBVIOUS
<1>t. stored \in SUBSET Commit /\ replay \in SUBSET Commit
  BY DEF TypeOK
<1>1. CASE LoadFlags \/ LoadFlagsUnanswered
  <2>1. PICK marks, tags, refs : LoadWith(marks, tags, refs)
    BY <1>1 DEF LoadFlags, LoadFlagsUnanswered, Load, LoadUnanswered
  <2>2. /\ stored \subseteq stored' /\ replay \subseteq replay' /\ job'.at = "drop"
    BY <2>1 DEF LoadWith, MarkReplays, TypeOK, Jobs
  <2>3. /\ flagged' = (flagged \cup {c \in stored' \ stored : Countable(c)}) \ replay'
        /\ UNCHANGED <<counts, scores, unmined, read>>
    BY <1>1 DEF LoadFlags, LoadFlagsUnanswered, FlagLoaded, numbers, minings
  <2>4. flagged' = Eligible(stored', replay')
    BY <2>2, <2>3 DEF NumbersInv, Eligible
  <2> QED
    BY <2>2, <2>3, <2>4 DEF NumbersInv
<1>2. CASE DropFlags
  <2>1. /\ stored' = stored \ Doomed /\ replay' = replay \ Doomed /\ job'.at = "rebuild"
        /\ flagged' = flagged \cap stored' /\ UNCHANGED <<counts, scores, unmined, read>>
    BY <1>2 DEF DropFlags, DropUnreachable, TypeOK, Jobs, numbers, minings
  <2>2. flagged' = Eligible(stored', replay')
    BY <2>1 DEF NumbersInv, Eligible
  <2> QED
    BY <2>1, <2>2 DEF NumbersInv
<1>3. CASE CountPairs
  <2>1. /\ counts' = Counts(stored, replay) /\ scores' = NoScores /\ unmined' = TRUE
        /\ flagged' = Eligible(stored, replay) /\ UNCHANGED <<read, stored, replay>>
    BY <1>3 DEF CountPairs, Rebuild
  <2> QED
    BY <1>t, <2>1 DEF NumbersInv
<1>4. CASE ScorePairs
  <2>1. /\ scores' = Scored(counts) /\ job.at = "score"
        /\ UNCHANGED <<flagged, counts, unmined, read, stored, replay>>
    BY <1>4 DEF ScorePairs, Score, minings
  <2> QED
    BY <2>1 DEF NumbersInv
<1>5. CASE Mine
  <2>1. /\ read'.counts = counts /\ read'.scores = scores /\ read'.today \in Day
        /\ job.at = "idle" /\ unmined' = FALSE
        /\ UNCHANGED <<flagged, counts, scores, stored, replay, job>>
    BY <1>5 DEF Mine, Reading, vars, tables, numbers
  <2> QED
    BY <2>1 DEF NumbersInv
<1>6. CASE Quiet
  <2>1. job'.at \in {"score", "stamp"} => job.at \in {"score", "stamp"}
    BY <1>6 DEF Quiet
  <2> QED
    BY <1>6, <2>1 DEF NumbersInv, Quiet
<1> QED
  BY <1>1, <1>2, <1>3, <1>4, <1>5, <1>6, StatsCases

LEMMA NumbersInvariant == StatsSpec => [](TypeOK /\ NumbersInv)
<1>1. TypeOK /\ TypeOK' /\ NumbersInv /\ [StatsNext]_statsVars => NumbersInv'
  BY NumbersStep
<1> QED
  BY <1>1, NumbersInit, SyncCarriesOver, PTL DEF StatsSpec

\* The flags are on stored commits, and the numbers of the right kind, after any step.
THEOREM StatsTypeCorrect == StatsSpec => []StatsTypeOK
<1>1. TypeOK /\ NumbersInv => StatsTypeOK
  BY DEF NumbersInv, StatsTypeOK, Eligible
<1> QED
  BY <1>1, NumbersInvariant, PTL

\* No stored score rests on cells other than the pair's own counts: from_counts, which would
\* move them, is never asked to, whatever is loaded, rewritten or interrupted in between.
THEOREM CountsAreATable == StatsSpec => []NothingIsAdjusted
<1>1. NumbersInv => NothingIsAdjusted
  <2> SUFFICES ASSUME NumbersInv, NEW p \in DOMAIN scores PROVE ~Adjusted(counts, scores[p], p)
    BY DEF NothingIsAdjusted
  <2>1. PICK C \in SUBSET Commit, R \in SUBSET Commit : counts = Counts(C, R)
    BY DEF NumbersInv
  <2>2. Eligible(C, R) \in SUBSET Commit /\ CountedFrom(Eligible(C, R), counts)
    BY <2>1, CountsAreOfEligible, EligibleIsCommits
  <2>3. scores = Scored(counts)
    BY NothingScored DEF NumbersInv
  <2> QED
    BY <2>2, <2>3, ScoredIsExact, CountAssumption
<1> QED
  BY <1>1, NumbersInvariant, PTL
-----------------------------------------------------------------------------
(* The registry, for tables of any size. *)

InUnit(x) == AtMost(Whole(0), x) /\ AtMost(x, Whole(1))

\* A table without a negative cell whose marginals are the sums of its cells.
IsTable(t) ==
    \E a, b, c, d \in Nat :
        /\ t.a = a /\ t.b = b /\ t.c = c /\ t.d = d
        /\ t.n_a = a + b /\ t.n_b = a + c /\ t.n = a + b + c + d

\* What is shared is no more than what there is.
LEMMA ShareIsUnit ==
    ASSUME NEW x \in Nat, NEW y \in Nat, x <= y PROVE InUnit(SafeDiv(x, y))
<1>1. CASE y = 0
  BY <1>1 DEF InUnit, SafeDiv, AtMost, Whole, Zero
<1>2. CASE y # 0
  <2>1. SafeDiv(x, y) = <<x, y>>
    BY <1>2 DEF SafeDiv
  <2>2. 0 * y <= x * 1 /\ x * 1 <= 1 * y
    OBVIOUS
  <2> QED
    BY <2>1, <2>2 DEF InUnit, AtMost, Whole
<1> QED
  BY <1>1, <1>2

\* A quotient of magnitude at most one stays between -1 and 1.
LEMMA BalanceIsUnit ==
    ASSUME NEW x \in Int, NEW y \in Nat, -y <= x, x <= y
    PROVE  /\ AtMost(Whole(-1), SafeDiv(x, y)) /\ AtMost(SafeDiv(x, y), Whole(1))
           /\ x = 0 => AtMost(Whole(0), SafeDiv(x, y)) /\ AtMost(SafeDiv(x, y), Whole(0))
<1>1. CASE y = 0
  BY <1>1 DEF SafeDiv, AtMost, Whole, Zero
<1>2. CASE y # 0
  <2>1. SafeDiv(x, y) = <<x, y>>
    BY <1>2 DEF SafeDiv
  <2>2. -1 * y <= x * 1 /\ x * 1 <= 1 * y /\ (x = 0 => 0 * y <= x * 1 /\ x * 1 <= 0 * y)
    OBVIOUS
  <2> QED
    BY <2>1, <2>2 DEF AtMost, Whole
<1> QED
  BY <1>1, <1>2

\* Products of natural numbers keep order.
LEMMA ProductsKeepOrder ==
    ASSUME NEW x \in Nat, NEW y \in Nat, NEW u \in Nat, NEW v \in Nat, x <= u, y <= v
    PROVE  x * y \in Nat /\ u * v \in Nat /\ x * y <= u * v
<1>1. x * y \in Nat /\ u * y \in Nat /\ u * v \in Nat
  OBVIOUS
<1>2. x * y <= u * y
  <2>1. (u - x) * y \in Nat
    OBVIOUS
  <2>2. (u - x) * y = u * y - x * y
    OBVIOUS
  <2> QED
    BY <1>1, <2>1, <2>2
<1>3. u * y <= u * v
  <2>1. u * (v - y) \in Nat
    OBVIOUS
  <2>2. u * (v - y) = u * v - u * y
    OBVIOUS
  <2> QED
    BY <1>1, <2>1, <2>2
<1> QED
  BY <1>1, <1>2, <1>3

\* The square of a balance is at most the product of what bounds it on either side.
LEMMA SquaredBalance ==
    ASSUME NEW p \in Nat, NEW q \in Nat, NEW m \in Nat, p * p <= m, q * q <= m
    PROVE  Square(p - q) \in Nat /\ Square(p - q) <= m
<1>1. Square(p - q) = p * p - 2 * (p * q) + q * q
  BY DEF Square
<1>2. CASE p <= q
  <2>1. p * p \in Nat /\ p * p <= p * q /\ p * q \in Nat
    BY <1>2, ProductsKeepOrder
  <2>2. (q - p) * (q - p) \in Nat /\ Square(p - q) = (q - p) * (q - p)
    BY <1>2 DEF Square
  <2>3. q * q \in Nat
    OBVIOUS
  <2> QED
    BY <1>1, <2>1, <2>2, <2>3
<1>3. CASE q <= p
  <2>1. q * q \in Nat /\ q * q <= q * p /\ q * p \in Nat
    BY <1>3, ProductsKeepOrder
  <2>2. (p - q) * (p - q) \in Nat /\ Square(p - q) = (p - q) * (p - q) /\ q * p = p * q
    BY <1>3 DEF Square
  <2>3. p * p \in Nat
    OBVIOUS
  <2> QED
    BY <1>1, <2>1, <2>2, <2>3
<1> QED
  BY <1>2, <1>3

\* What phi, chi_square and cramers_v divide by, and what they divide.
LEMMA SkewIsBounded ==
    ASSUME NEW t, IsTable(t)
    PROVE  LET m == t.n_a * t.n_b * (t.c + t.d) * (t.b + t.d) IN
           /\ t.n \in Nat /\ m \in Nat /\ Skew(t) \in Int
           /\ Square(Skew(t)) \in Nat /\ Square(Skew(t)) <= m
           /\ Excess(t) = Skew(t)
<1>1. PICK a, b, c, d \in Nat :
        /\ t.a = a /\ t.b = b /\ t.c = c /\ t.d = d
        /\ t.n_a = a + b /\ t.n_b = a + c /\ t.n = a + b + c + d
  BY DEF IsTable
<1> DEFINE m == (a + b) * (a + c) * (c + d) * (b + d)
           ad == a * d
           bc == b * c
<1>2. ad \in Nat /\ bc \in Nat /\ Skew(t) = ad - bc /\ ad - bc \in Int
  BY <1>1 DEF Skew
<1>3. m = t.n_a * t.n_b * (t.c + t.d) * (t.b + t.d)
  BY <1>1
<1>4. ad * ad <= m /\ m \in Nat
  <2> DEFINE u == (a + b) * (b + d)
             v == (a + c) * (c + d)
  <2>1. ad \in Nat /\ u \in Nat /\ v \in Nat /\ ad <= u /\ ad <= v
    BY ProductsKeepOrder
  <2>2. m = u * v
    OBVIOUS
  <2> HIDE DEF ad, u, v, m
  <2> QED
    BY <2>1, <2>2, ProductsKeepOrder
<1>5. bc * bc <= m
  <2> DEFINE u == (a + b) * (a + c)
             v == (b + d) * (c + d)
  <2>1. bc \in Nat /\ u \in Nat /\ v \in Nat /\ bc <= u /\ bc <= v
    <3>1. b * c <= (a + b) * (a + c) /\ b * c <= (b + d) * (c + d)
      BY ProductsKeepOrder
    <3> QED BY <3>1
  <2>2. m = u * v
    OBVIOUS
  <2> HIDE DEF bc, u, v, m
  <2> QED
    BY <2>1, <2>2, ProductsKeepOrder
<1>6. Excess(t) = ad - bc
  <2>1. Excess(t) = a * (a + b + c + d) - (a + b) * (a + c)
    BY <1>1 DEF Excess
  <2>2. a * (a + b + c + d) - (a + b) * (a + c) = a * d - b * c
    OBVIOUS
  <2> QED
    BY <2>1, <2>2
<1>7. t.n \in Nat
  BY <1>1
<1> HIDE DEF ad, bc, m
<1>8. Square(ad - bc) \in Nat /\ Square(ad - bc) <= m
  BY <1>2, <1>4, <1>5, SquaredBalance
<1> QED
  BY <1>2, <1>3, <1>4, <1>6, <1>7, <1>8

\* The similarities.
LEMMA SimilaritiesKeepRows ==
    ASSUME NEW t, IsTable(t)
    PROVE  /\ InUnit(Jaccard(t)) /\ InUnit(Dice(t)) /\ InUnit(Sorensen(t)) /\ InUnit(Ochiai(t))
           /\ InUnit(Simpson(t)) /\ InUnit(BraunBlanquet(t)) /\ InUnit(Kulczynski(t))
           /\ InUnit(ConfidenceAB(t)) /\ InUnit(ConfidenceBA(t))
<1>1. PICK a, b, c, d \in Nat :
        /\ t.a = a /\ t.b = b /\ t.c = c /\ t.d = d
        /\ t.n_a = a + b /\ t.n_b = a + c /\ t.n = a + b + c + d
  BY DEF IsTable
<1>2. InUnit(SafeDiv(a, a + b + c)) /\ InUnit(SafeDiv(2 * a, 2 * a + b + c))
  BY ShareIsUnit
<1>3. InUnit(SafeDiv(a, Smaller(a + b, a + c))) /\ InUnit(SafeDiv(a, Larger(a + b, a + c)))
  BY ShareIsUnit DEF Smaller, Larger
<1>4. InUnit(SafeDiv(a, a + b)) /\ InUnit(SafeDiv(a, a + c))
  BY ShareIsUnit
<1>5. InUnit(SafeDiv(a * a, (a + b) * (a + c)))
  <2>1. a * a \in Nat /\ (a + b) * (a + c) \in Nat /\ a * a <= (a + b) * (a + c)
    BY ProductsKeepOrder
  <2> QED
    BY <2>1, ShareIsUnit
<1>6. InUnit(Half(Sum2(SafeDiv(a, a + b), SafeDiv(a, a + c))))
  <2>1. ASSUME NEW p \in Nat, NEW q \in Nat, NEW r \in Nat, NEW s \in Nat, p <= q, r <= s
        PROVE  InUnit(Half(Sum2(<<p, q>>, <<r, s>>)))
    <3>1. p * s \in Nat /\ p * s <= q * s /\ q * s \in Nat
      BY <2>1, ProductsKeepOrder
    <3>2. r * q \in Nat /\ r * q <= s * q /\ s * q = q * s
      BY <2>1, ProductsKeepOrder
    <3>3. Half(Sum2(<<p, q>>, <<r, s>>)) = <<p * s + r * q, 2 * (q * s)>>
      BY DEF Half, Sum2
    <3>4. /\ 0 * (2 * (q * s)) <= (p * s + r * q) * 1
          /\ (p * s + r * q) * 1 <= 1 * (2 * (q * s))
      BY <3>1, <3>2
    <3> QED
      BY <3>3, <3>4 DEF InUnit, AtMost, Whole
  <2>2. \E p, q \in Nat : p <= q /\ SafeDiv(a, a + b) = <<p, q>>
    BY DEF SafeDiv, Zero
  <2>3. \E r, s \in Nat : r <= s /\ SafeDiv(a, a + c) = <<r, s>>
    BY DEF SafeDiv, Zero
  <2> QED
    BY <2>1, <2>2, <2>3
<1> QED
  BY <1>1, <1>2, <1>3, <1>4, <1>5, <1>6
     DEF Jaccard, Dice, Sorensen, Ochiai, Simpson, BraunBlanquet, Kulczynski, ConfidenceAB,
         ConfidenceBA, Square

\* The matching coefficients; hamann counts mismatches against matches.
LEMMA MatchesKeepRows ==
    ASSUME NEW t, IsTable(t)
    PROVE  /\ InUnit(RussellRao(t)) /\ InUnit(SokalMichener(t)) /\ InUnit(RogersTanimoto(t))
           /\ InUnit(Faith(t))
           /\ AtMost(Whole(-1), Hamann(t)) /\ AtMost(Hamann(t), Whole(1))
<1>1. PICK a, b, c, d \in Nat :
        /\ t.a = a /\ t.b = b /\ t.c = c /\ t.d = d
        /\ t.n_a = a + b /\ t.n_b = a + c /\ t.n = a + b + c + d
  BY DEF IsTable
<1>2. InUnit(SafeDiv(a, a + b + c + d)) /\ InUnit(SafeDiv(a + d, a + b + c + d))
  BY ShareIsUnit
<1>3. InUnit(SafeDiv(a + d, a + d + 2 * (b + c)))
  BY ShareIsUnit
<1>4. InUnit(SafeDiv(2 * a + d, 2 * (a + b + c + d)))
  BY ShareIsUnit
<1>5. /\ AtMost(Whole(-1), SafeDiv((a + d) - (b + c), a + b + c + d))
      /\ AtMost(SafeDiv((a + d) - (b + c), a + b + c + d), Whole(1))
  BY BalanceIsUnit
<1> QED
  BY <1>1, <1>2, <1>3, <1>4, <1>5 DEF RussellRao, SokalMichener, RogersTanimoto, Faith, Hamann

\* The correlations.  All of them are quotients with the skew in the numerator.
LEMMA CorrelationsKeepRows ==
    ASSUME NEW t, IsTable(t)
    PROVE  /\ KeepsRow(Row({0}, {}, {}), ChiSquare(t), t)
           /\ KeepsRow(Balanced, Phi(t), t) /\ KeepsRow(Unit, CramersV(t), t)
<1> DEFINE m == t.n_a * t.n_b * (t.c + t.d) * (t.b + t.d)
           s == Square(Skew(t))
<1>1. /\ t.n \in Nat /\ m \in Nat /\ s \in Nat /\ s <= m /\ Skew(t) \in Int
      /\ Excess(t) = Skew(t)
  BY SkewIsBounded
<1>2. t.n * s \in Nat /\ t.n * m \in Nat /\ m * t.n \in Nat /\ t.n * s <= m * t.n
  <2> HIDE DEF m, s
  <2>1. t.n * s \in Nat /\ t.n * m \in Nat /\ t.n * s <= t.n * m
    BY <1>1, ProductsKeepOrder
  <2>2. m * t.n = t.n * m
    BY <1>1
  <2> QED
    BY <2>1, <2>2
<1>3. /\ ChiSquare(t) = SafeDiv(t.n * s, m) /\ Phi(t) = Signed(Skew(t), SafeDiv(s, m))
      /\ CramersV(t) = SafeDiv(ChiSquare(t)[1], ChiSquare(t)[2] * t.n)
  BY DEF ChiSquare, Phi, CramersV
<1>4. Skew(t) = 0 => s = 0
  BY DEF Square
<1> HIDE DEF m, s
<1>5. KeepsRow(Row({0}, {}, {}), ChiSquare(t), t)
  <2>1. AtMost(Whole(0), SafeDiv(t.n * s, m))
    BY <1>1, <1>2 DEF AtMost, Whole, SafeDiv, Zero
  <2> QED
    BY <1>3, <2>1 DEF KeepsRow, Row
<1>6. KeepsRow(Balanced, Phi(t), t)
  <2>1. CASE m = 0
    BY <1>1, <1>3, <2>1 DEF KeepsRow, Balanced, Row, AtMost, Whole, SafeDiv, Zero, Signed
  <2>2. CASE m # 0
    <3>1. \E x \in Int : Phi(t) = <<x, m>> /\ -m <= x /\ x <= m /\ (Skew(t) = 0 => x = 0)
      BY <1>1, <1>3, <1>4, <2>2 DEF SafeDiv, Signed
    <3>2. PICK x \in Int : Phi(t) = <<x, m>> /\ -m <= x /\ x <= m /\ (Skew(t) = 0 => x = 0)
      BY <3>1
    <3>3. SafeDiv(x, m) = <<x, m>>
      BY <2>2 DEF SafeDiv
    <3> QED
      BY <1>1, <3>2, <3>3, BalanceIsUnit DEF KeepsRow, Balanced, Row
  <2> QED
    BY <2>1, <2>2
<1>7. InUnit(CramersV(t))
  <2>1. CASE m = 0
    <3>1. CramersV(t) = SafeDiv(0, t.n)
      BY <1>1, <1>3, <2>1 DEF SafeDiv, Zero
    <3> QED
      BY <1>1, <3>1, ShareIsUnit
  <2>2. CASE m # 0
    <3>1. CramersV(t) = SafeDiv(t.n * s, m * t.n)
      BY <1>3, <2>2 DEF SafeDiv
    <3> QED
      BY <1>2, <3>1, ShareIsUnit
  <2> QED
    BY <2>1, <2>2
<1> QED
  BY <1>5, <1>6, <1>7 DEF KeepsRow, Unit, Row, InUnit

\* The measures that compare the two diagonals of the table.
LEMMA DiagonalsKeepRows ==
    ASSUME NEW t, IsTable(t)
    PROVE  KeepsRow(Balanced, YulesQ(t), t) /\ KeepsRow(Balanced, Michael(t), t)
<1>1. PICK a, b, c, d \in Nat :
        /\ t.a = a /\ t.b = b /\ t.c = c /\ t.d = d
        /\ t.n_a = a + b /\ t.n_b = a + c /\ t.n = a + b + c + d
  BY DEF IsTable
<1> DEFINE p == a * d
           q == b * c
           y == Square(a + d) + Square(b + c)
<1>2. p \in Nat /\ q \in Nat /\ Skew(t) = p - q /\ Excess(t) = p - q
  BY <1>1, SkewIsBounded DEF Skew
<1>3. YulesQ(t) = SafeDiv(p - q, p + q) /\ Michael(t) = SafeDiv(4 * (p - q), y)
  BY <1>1 DEF YulesQ, Michael, Skew
<1>4. y \in Nat /\ 4 * p <= y /\ 4 * q <= y
  <2>1. (a - d) * (a - d) \in Nat /\ Square(a + d) = (a - d) * (a - d) + 4 * p
    <3>1. (a - d) * (a - d) \in Nat
      <4>1. CASE a <= d
        <5>1. (d - a) * (d - a) \in Nat /\ (a - d) * (a - d) = (d - a) * (d - a)
          BY <4>1
        <5> QED BY <5>1
      <4>2. CASE d <= a
        BY <4>2
      <4> QED BY <4>1, <4>2
    <3> QED BY <3>1 DEF Square
  <2>2. (b - c) * (b - c) \in Nat /\ Square(b + c) = (b - c) * (b - c) + 4 * q
    <3>1. (b - c) * (b - c) \in Nat
      <4>1. CASE b <= c
        <5>1. (c - b) * (c - b) \in Nat /\ (b - c) * (b - c) = (c - b) * (c - b)
          BY <4>1
        <5> QED BY <5>1
      <4>2. CASE c <= b
        BY <4>2
      <4> QED BY <4>1, <4>2
    <3> QED BY <3>1 DEF Square
  <2>3. p \in Nat /\ q \in Nat
    BY <1>2
  <2> HIDE DEF p, q
  <2> QED
    BY <2>1, <2>2, <2>3
<1> HIDE DEF p, q, y
<1>5. /\ p - q \in Int /\ p + q \in Nat /\ -(p + q) <= p - q /\ p - q <= p + q
      /\ 4 * (p - q) \in Int /\ -y <= 4 * (p - q) /\ 4 * (p - q) <= y
      /\ (p - q = 0 => 4 * (p - q) = 0)
  BY <1>2, <1>4
<1>6. KeepsRow(Balanced, SafeDiv(p - q, p + q), t)
  BY <1>2, <1>5, BalanceIsUnit DEF KeepsRow, Balanced, Row
<1>7. KeepsRow(Balanced, SafeDiv(4 * (p - q), y), t)
  BY <1>2, <1>4, <1>5, BalanceIsUnit DEF KeepsRow, Balanced, Row
<1> QED
  BY <1>3, <1>6, <1>7

\* What has no bounds above: the standard scores are nothing where the two files are
\* independent, and what was seen is then what was expected.
LEMMA ExcessKeepsRows ==
    ASSUME NEW t, IsTable(t)
    PROVE  /\ KeepsRow(Row({}, {}, {0}), TScore(t), t) /\ KeepsRow(Row({}, {}, {0}), ZScore(t), t)
           /\ KeepsRow(Row({0}, {}, {1}), AssociationStrength(t), t)
<1>1. /\ t.a \in Nat /\ t.n \in Nat /\ t.n_a \in Nat /\ t.n_b \in Nat
  BY DEF IsTable
<1>2. ASSUME NEW y \in Int, Excess(t) = 0
      PROVE  LET x == Signed(Excess(t), SafeDiv(Square(Excess(t)), y))
             IN  AtMost(Whole(0), x) /\ AtMost(x, Whole(0))
  <2>1. Square(Excess(t)) = 0
    BY <1>2 DEF Square
  <2> QED
    BY <1>2, <2>1 DEF Signed, SafeDiv, Zero, AtMost, Whole
<1>3. Square(t.n) * Larger(t.a, 1) \in Int /\ t.n * t.n_a * t.n_b \in Int
  BY <1>1 DEF Square, Larger
<1>4. t.a * t.n \in Nat /\ t.n_a * t.n_b \in Nat
  BY <1>1
<1>5. KeepsRow(Row({0}, {}, {1}), AssociationStrength(t), t)
  <2>1. AtMost(Whole(0), AssociationStrength(t))
    BY <1>4 DEF AssociationStrength, SafeDiv, Zero, AtMost, Whole
  <2>2. ASSUME Excess(t) = 0, ~IsDegenerate(t)
        PROVE  AtMost(Whole(1), AssociationStrength(t)) /\ AtMost(AssociationStrength(t), Whole(1))
    <3>1. t.a * t.n = t.n_a * t.n_b
      BY <1>4, <2>2 DEF Excess
    <3>2. t.n_a * t.n_b # 0
      <4>1. t.n_a > 0 /\ t.n_b > 0
        BY <1>1, <2>2 DEF IsDegenerate
      <4> QED
        BY <1>1, <4>1
    <3> QED
      BY <1>4, <3>1, <3>2 DEF AssociationStrength, SafeDiv, AtMost, Whole
  <2> QED
    BY <2>1, <2>2 DEF KeepsRow, Row
<1> QED
  BY <1>2, <1>3, <1>5 DEF KeepsRow, Row, TScore, ZScore

\* The table of logarithms turns products into sums, and grows, as far as it goes.
LEMMA LogarithmsAdd ==
    /\ \A i \in 1..8 : Log2[i] \in Int
    /\ \A i, j \in 1..8 : i < j => Log2[i] < Log2[j]
    /\ \A i, j, k, l \in 1..8 : i * j = k * l => Log2[i] + Log2[j] = Log2[k] + Log2[l]
<1>1. /\ Log2[1] = 0 /\ Log2[2] = 1000 /\ Log2[3] = 1585 /\ Log2[4] = 2000
      /\ Log2[5] = 2322 /\ Log2[6] = 2585 /\ Log2[7] = 2807 /\ Log2[8] = 3000
  BY DEF Log2
<1>2. \A i \in 1..8 : i = 1 \/ i = 2 \/ i = 3 \/ i = 4 \/ i = 5 \/ i = 6 \/ i = 7 \/ i = 8
  OBVIOUS
<1>3. \A i \in 1..8 : Log2[i] \in Int
  BY <1>1, <1>2
<1>4. \A i, j \in 1..8 : i < j => Log2[i] < Log2[j]
  <2> SUFFICES ASSUME NEW i \in 1..8, NEW j \in 1..8, i < j PROVE Log2[i] < Log2[j]
    OBVIOUS
  <2> QED
    BY <1>1, <1>2
<1>5. ASSUME NEW i \in 1..8, NEW j \in 1..8, NEW k \in 1..8, NEW l \in 1..8, i * j = k * l
      PROVE  Log2[i] + Log2[j] = Log2[k] + Log2[l]
  <2>1. CASE i = 1 \/ i = 5 \/ i = 7
    BY <1>1, <1>2, <1>5, <2>1
  <2>2. CASE i = 2 \/ i = 4 \/ i = 8
    BY <1>1, <1>2, <1>5, <2>2
  <2>3. CASE i = 3 \/ i = 6
    BY <1>1, <1>2, <1>5, <2>3
  <2> QED
    BY <1>2, <2>1, <2>2, <2>3
<1> QED
  BY <1>3, <1>4, <1>5

\* The logarithmic measures are numbers, in populations the table of logarithms serves.
LEMMA InformationIsBounded ==
    ASSUME NEW t, IsTable(t), t.n <= 8
    PROVE  Pmi(t) \in Int /\ Npmi(t) \in Int /\ -1000 <= Npmi(t) /\ Npmi(t) <= 1000
<1>1. /\ t.a \in Nat /\ t.n \in Nat /\ t.n_a \in Nat /\ t.n_b \in Nat
      /\ t.a <= t.n_a /\ t.a <= t.n_b /\ t.n_a <= t.n /\ t.n_b <= t.n
  BY DEF IsTable
<1>2. t.a > 0 => t.a \in 1..8 /\ t.n \in 1..8 /\ t.n_a \in 1..8 /\ t.n_b \in 1..8
  BY <1>1
<1>3. Pmi(t) \in Int
  <2>1. \A i, j, k, l \in Int : i + j - k - l \in Int
    OBVIOUS
  <2>2. CASE t.a > 0
    <3>1. /\ Log2[t.a] \in Int /\ Log2[t.n] \in Int /\ Log2[t.n_a] \in Int
          /\ Log2[t.n_b] \in Int
      BY <1>2, <2>2, LogarithmsAdd
    <3> QED
      BY <2>1, <2>2, <3>1 DEF Pmi
  <2>3. CASE ~(t.a > 0)
    BY <2>3 DEF Pmi
  <2> QED
    BY <2>2, <2>3
<1>4. Npmi(t) \in Int /\ -1000 <= Npmi(t) /\ Npmi(t) <= 1000
  <2>1. ASSUME t.a > 0, t.a < t.n
        PROVE  (1000 * Pmi(t)) \div (Log2[t.n] - Log2[t.a]) \in Int
    <3>1. Log2[t.n] - Log2[t.a] \in Nat \ {0}
      BY <1>2, <2>1, LogarithmsAdd
    <3> QED
      BY <1>3, <3>1
  <2>2. \A x \in Int : LET y == Clip(x, -1000, 1000)
                       IN  y \in Int /\ -1000 <= y /\ y <= 1000
    BY DEF Clip, Smaller, Larger
  <2>3. \E x \in Int : Npmi(t) = Clip(x, -1000, 1000)
    <3>1. CASE t.a > 0 /\ t.a < t.n
      <4>1. ~(t.n > 0 /\ t.a >= t.n) /\ ~(t.a <= 0)
        BY <1>1, <3>1
      <4> QED
        BY <2>1, <3>1, <4>1 DEF Npmi
    <3>2. CASE t.n > 0 /\ t.a >= t.n
      BY <3>2 DEF Npmi
    <3>3. CASE t.a <= 0
      BY <1>1, <3>3 DEF Npmi
    <3> QED
      BY <1>1, <3>1, <3>2, <3>3
  <2>4. PICK x \in Int : Npmi(t) = Clip(x, -1000, 1000)
    BY <2>3
  <2> QED
    BY <2>2, <2>4
<1> QED
  BY <1>3, <1>4

\* The mutual informations, in populations the table of logarithms serves.
LEMMA InformationKeepsRows ==
    ASSUME NEW t, IsTable(t), t.n <= 8
    PROVE  /\ KeepsRow(Row({}, {}, {0}), <<Pmi(t), 1000>>, t)
           /\ KeepsRow(Balanced, <<Npmi(t), 1000>>, t)
           /\ KeepsRow(Row({0}, {}, {}), <<Ppmi(t), 1000>>, t)
<1>1. /\ t.a \in Nat /\ t.n \in Nat /\ t.n_a \in Nat /\ t.n_b \in Nat
      /\ t.a <= t.n_a /\ t.a <= t.n_b /\ t.n_a <= t.n /\ t.n_b <= t.n
  BY DEF IsTable
<1>2. t.a > 0 => t.a \in 1..8 /\ t.n \in 1..8 /\ t.n_a \in 1..8 /\ t.n_b \in 1..8
  BY <1>1
<1>3. Pmi(t) \in Int
  BY InformationIsBounded
\* Two files that are independent, and neither everywhere nor nowhere, meet somewhere.
<1>4. ASSUME Excess(t) = 0, ~IsDegenerate(t)
      PROVE  t.a > 0 /\ t.a < t.n /\ Pmi(t) = 0
  <2>1. t.a * t.n = t.n_a * t.n_b
    <3>1. t.a * t.n \in Int /\ t.n_a * t.n_b \in Int /\ t.a * t.n - t.n_a * t.n_b = 0
      BY <1>1, <1>4 DEF Excess
    <3> QED
      BY <3>1
  <2>2. t.n_a > 0 /\ t.n_b > 0 /\ t.n_a < t.n
    BY <1>1, <1>4 DEF IsDegenerate
  <2>3. t.n_a * t.n_b > 0
    BY <1>1, <2>2
  <2>4. t.a > 0 /\ t.a < t.n
    BY <1>1, <2>1, <2>2, <2>3
  <2>5. Log2[t.a] + Log2[t.n] = Log2[t.n_a] + Log2[t.n_b]
    BY <1>2, <2>1, <2>4, LogarithmsAdd
  <2>6. \A i, j, k, l \in Int : i + j = k + l => i + j - k - l = 0
    OBVIOUS
  <2>7. Log2[t.a] + Log2[t.n] - Log2[t.n_a] - Log2[t.n_b] = 0
    BY <1>2, <2>4, <2>5, <2>6, LogarithmsAdd
  <2> QED
    BY <2>4, <2>7 DEF Pmi
<1>5. Npmi(t) \in Int /\ -1000 <= Npmi(t) /\ Npmi(t) <= 1000
  BY InformationIsBounded
<1>6. Excess(t) = 0 /\ ~IsDegenerate(t) => Npmi(t) = 0
  <2> SUFFICES ASSUME Excess(t) = 0, ~IsDegenerate(t) PROVE Npmi(t) = 0
    OBVIOUS
  <2>1. t.a > 0 /\ t.a < t.n /\ Pmi(t) = 0
    BY <1>4
  <2>2. Log2[t.n] - Log2[t.a] \in Nat \ {0}
    BY <1>2, <2>1, LogarithmsAdd
  <2>3. (1000 * Pmi(t)) \div (Log2[t.n] - Log2[t.a]) = 0
    BY <2>1, <2>2
  <2> QED
    BY <1>1, <2>1, <2>3 DEF Npmi, Clip, Smaller, Larger
<1>7. Ppmi(t) \in Nat
  BY <1>3 DEF Ppmi, Larger
<1>8. KeepsRow(Row({}, {}, {0}), <<Pmi(t), 1000>>, t)
  BY <1>4 DEF KeepsRow, Row, AtMost, Whole
<1>9. KeepsRow(Balanced, <<Npmi(t), 1000>>, t)
  BY <1>5, <1>6 DEF KeepsRow, Balanced, Row, AtMost, Whole
<1>10. KeepsRow(Row({0}, {}, {}), <<Ppmi(t), 1000>>, t)
  BY <1>7 DEF KeepsRow, Row, AtMost, Whole
<1> QED
  BY <1>8, <1>9, <1>10

\* The scores s keep a part of the registry, but for some of its measures.
KeepsRows(part, s, t, but) == \A key \in DOMAIN part \ but : KeepsRow(part[key], s[key], t)

\* The measures that are read from the table of logarithms.
Logarithmic == {"pmi", "npmi", "ppmi"}

\* Every part of it is kept, of the logarithms what the table of them reaches.
LEMMA RegistryIsKept ==
    ASSUME NEW t, IsTable(t), NEW but, Logarithmic \subseteq but \/ t.n <= 8
    PROVE  \A part \in Registry : KeepsRows(part, Scores(t), t, but)
<1> DEFINE s == Scores(t)
<1>1. /\ s.jaccard = Jaccard(t) /\ s.dice = Dice(t) /\ s.sorensen = Sorensen(t)
      /\ s.ochiai = Ochiai(t) /\ s.simpson = Simpson(t) /\ s.braun_blanquet = BraunBlanquet(t)
      /\ s.kulczynski = Kulczynski(t)
      /\ s.russell_rao = RussellRao(t) /\ s.sokal_michener = SokalMichener(t)
      /\ s.rogers_tanimoto = RogersTanimoto(t) /\ s.hamann = Hamann(t) /\ s.faith = Faith(t)
  BY DEF Scores
<1>2. /\ s.pmi = <<Pmi(t), 1000>> /\ s.npmi = <<Npmi(t), 1000>> /\ s.ppmi = <<Ppmi(t), 1000>>
      /\ s.chi_square = ChiSquare(t) /\ s.t_score = TScore(t) /\ s.z_score = ZScore(t)
      /\ s.phi = Phi(t) /\ s.cramers_v = CramersV(t) /\ s.yules_q = YulesQ(t)
      /\ s.michael = Michael(t) /\ s.association_strength = AssociationStrength(t)
      /\ s.confidence_ab = ConfidenceAB(t) /\ s.confidence_ba = ConfidenceBA(t)
  BY DEF Scores
<1> HIDE DEF s
<1>3. \A x : InUnit(x) => KeepsRow(Unit, x, t)
  BY DEF InUnit, KeepsRow, Unit, Row
<1>4. KeepsRows(SimilarityRows, s, t, but)
  <2>1. \A key \in DOMAIN SimilarityRows : SimilarityRows[key] = Unit /\ InUnit(s[key])
    BY <1>1, SimilaritiesKeepRows DEF SimilarityRows
  <2> QED
    BY <1>3, <2>1 DEF KeepsRows
<1>5. KeepsRows(MatchingRows, s, t, but)
  <2>1. KeepsRow(Row({-1}, {1}, {}), s.hamann, t)
    BY <1>1, MatchesKeepRows DEF KeepsRow, Row
  <2>2. \A key \in DOMAIN MatchingRows :
          \/ MatchingRows[key] = Unit /\ InUnit(s[key])
          \/ MatchingRows[key] = Row({-1}, {1}, {}) /\ s[key] = s.hamann
    BY <1>1, MatchesKeepRows DEF MatchingRows
  <2> QED
    BY <1>3, <2>1, <2>2 DEF KeepsRows
<1>6. KeepsRows(InformationRows, s, t, but)
  <2>1. CASE Logarithmic \subseteq but
    BY <2>1 DEF Logarithmic, KeepsRows, InformationRows
  <2>2. CASE t.n <= 8
    BY <1>2, <2>2, InformationKeepsRows DEF KeepsRows, InformationRows
  <2> QED
    BY <2>1, <2>2
<1>7. KeepsRows(ChiSquareRow, s, t, but)
  BY <1>2, CorrelationsKeepRows DEF KeepsRows, ChiSquareRow
<1>8. KeepsRows(StandardScoreRows, s, t, but)
  BY <1>2, ExcessKeepsRows DEF KeepsRows, StandardScoreRows
<1>9. KeepsRows(CorrelationRows, s, t, but)
  BY <1>2, CorrelationsKeepRows, DiagonalsKeepRows DEF KeepsRows, CorrelationRows
<1>10. KeepsRows(MichaelRow, s, t, but)
  BY <1>2, DiagonalsKeepRows DEF KeepsRows, MichaelRow
<1>11. KeepsRows(DirectionRows, s, t, but)
  BY <1>2, <1>3, SimilaritiesKeepRows, ExcessKeepsRows DEF KeepsRows, DirectionRows
<1> QED
  BY <1>4, <1>5, <1>6, <1>7, <1>8, <1>9, <1>10, <1>11 DEF s, Registry

-----------------------------------------------------------------------------
\* from_counts always answers a table, infeasible counts included.
LEMMA FromCountsIsATable ==
    ASSUME NEW ab \in Int, NEW a \in Int, NEW b \in Int, NEW n \in Nat
    PROVE  IsTable(FromCounts(ab, a, b, n))
<1> DEFINE na == Clip(a, 0, n)
           nb == Clip(b, 0, n)
           x  == Clip(ab, Larger(0, na + nb - n), Smaller(na, nb))
<1>1. /\ na \in Nat /\ nb \in Nat /\ na <= n /\ nb <= n
      /\ x \in Nat /\ x <= na /\ x <= nb /\ na + nb - n <= x
  BY DEF Clip, Larger, Smaller
<1>2. FromCounts(ab, a, b, n) = Table(x, na, nb, n)
  BY DEF FromCounts
<1> HIDE DEF na, nb, x
<1>3. /\ na - x \in Nat /\ nb - x \in Nat /\ n - na - nb + x \in Nat
      /\ na = x + (na - x) /\ nb = x + (nb - x)
      /\ n = x + (na - x) + (nb - x) + (n - na - nb + x)
  BY <1>1
<1> QED
  BY <1>1, <1>2, <1>3 DEF IsTable, Table

\* The table of a scored pair is one, of no more commits than there are.
LEMMA ScoredIsATable ==
    ASSUME NEW S \in SUBSET Commit, NEW c, CountedFrom(S, c), NEW p \in DOMAIN Scored(c)
    PROVE  /\ p \in Pair
           /\ IsTable(Scored(c)[p]) /\ Scored(c)[p].n \in Nat
           /\ Scored(c)[p].n <= Cardinality(Commit)
<1>1. /\ p \in DOMAIN c.n_ab /\ p \in Pair
      /\ Scored(c)[p] = FromCounts(c.n_ab[p], c.marginal[p[1]], c.marginal[p[2]], c.population)
  BY DEF Scored, CountedFrom
<1>2. p[1] \in Item /\ p[2] \in Item
  BY <1>1 DEF Pair, Item
<1>3. /\ IsFiniteSet(S) /\ Touching(S, p[1]) \in SUBSET S /\ Touching(S, p[2]) \in SUBSET S
      /\ Cardinality(S) <= Cardinality(Commit)
  BY CommitAssumption, CountAssumption, FS_Subset DEF CountAssumption, Touching
<1>4. /\ c.n_ab[p] \in Nat /\ c.marginal[p[1]] \in Nat /\ c.marginal[p[2]] \in Nat
      /\ c.population \in Nat /\ c.population = Cardinality(S)
  <2> DEFINE A == Touching(S, p[1])
             B == Touching(S, p[2])
  <2>1. /\ c.n_ab[p] = Cardinality(A \cap B) /\ c.population = Cardinality(S)
        /\ c.marginal[p[1]] = Cardinality(A) /\ c.marginal[p[2]] = Cardinality(B)
    BY <1>1, <1>2 DEF CountedFrom, Together
  <2> HIDE DEF A, B
  <2>2. IsFiniteSet(S) /\ A \in SUBSET S /\ B \in SUBSET S
    BY <1>3 DEF A, B
  <2> QED
    BY <2>1, <2>2, SizesAreFeasible
<1>5. Scored(c)[p].n = c.population
  BY <1>1 DEF FromCounts, Table
<1> QED
  BY <1>1, <1>3, <1>4, <1>5, FromCountsIsATable

\* So is what is stored as scored.
\* So is what is stored as scored.
LEMMA TablesAreScored ==
    ASSUME NumbersInv, NEW p \in DOMAIN scores
    PROVE  IsTable(scores[p]) /\ scores[p].n \in Nat /\ scores[p].n <= Cardinality(Commit)
<1>1. PICK C \in SUBSET Commit, R \in SUBSET Commit : counts = Counts(C, R)
  BY DEF NumbersInv
<1>2. Eligible(C, R) \in SUBSET Commit /\ CountedFrom(Eligible(C, R), counts)
  BY <1>1, CountsAreOfEligible, EligibleIsCommits
<1>3. scores = Scored(counts)
  BY NothingScored DEF NumbersInv
<1> QED
  BY <1>2, <1>3, ScoredIsATable

ScoresKeepRegistryButLogarithms ==
    \A p \in DOMAIN scores : \A part \in Registry :
        KeepsRows(part, Scores(scores[p]), scores[p], Logarithmic)

\* Every stored score but the three that are logarithms keeps the range the registry states
\* and is neutral where the two items are independent, whatever the size of the repository:
\* similarities, matching, correlation, significance, direction (stats/measures.py).
THEOREM ScoresStayInRange == StatsSpec => []ScoresKeepRegistryButLogarithms
<1>1. NumbersInv => ScoresKeepRegistryButLogarithms
  BY TablesAreScored, RegistryIsKept DEF ScoresKeepRegistryButLogarithms
<1> QED
  BY <1>1, NumbersInvariant, PTL

\* The whole of ScoresKeepRegistry, pmi, npmi and ppmi included, where the table of
\* logarithms serves: in repositories of up to eight commits, for any histories and files.
THEOREM ScoresKeepTheRegistry ==
    ASSUME Cardinality(Commit) <= 8 PROVE StatsSpec => []ScoresKeepRegistry
<1>1. NumbersInv => ScoresKeepRegistry
  <2> SUFFICES ASSUME NumbersInv, NEW p \in DOMAIN scores PROVE KeepsRegistry(scores[p])
    BY DEF ScoresKeepRegistry
  <2>1. Cardinality(Commit) \in Nat
    BY CommitAssumption, FS_CardinalityType
  <2>2. IsTable(scores[p]) /\ scores[p].n <= 8
    BY <2>1, TablesAreScored
  <2>3. \A part \in Registry : KeepsRows(part, Scores(scores[p]), scores[p], {})
    BY <2>2, RegistryIsKept
  <2> QED
    BY <2>3 DEF KeepsRegistry, KeepsRows
<1> QED
  BY <1>1, NumbersInvariant, PTL

-----------------------------------------------------------------------------
(* What a settled repository was counted and mined from. *)

\* On a way to a stamp that can be trusted, and after it, the numbers are those of the stored
\* commits; what was mined since they were counted saw the flags as they are.
TrustInv ==
    /\ Undisturbed /\ job.at \in {"score", "stamp"} => counts = Counts(stored, replay)
    /\ job.at = "stamp" => scores = Scored(counts)
    /\ Trusted => counts = Counts(stored, replay) /\ scores = Scored(counts)
    /\ Trusted /\ unmined = FALSE => read.flagged = flagged

LEMMA TrustInit == StatsInit => TrustInv
BY DEF StatsInit, Init, TrustInv, NoScores, NoJob, Job

LEMMA UndisturbedBefore == TypeOK /\ [Next]_vars /\ Undisturbed' => Undisturbed
BY HabitsGrow, FaultsStay DEF Undisturbed

\* What was trusted stays so only in steps that leave the numbers alone.
LEMMA TrustedNumbersStay ==
    ASSUME TypeOK, TypeOK', SyncInv, HistoryInv, NumbersInv, NumbersInv', TrustInv,
           [StatsNext]_statsVars, Trusted'
    PROVE  /\ counts' = Counts(stored', replay') /\ scores' = Scored(counts')
           /\ unmined' = FALSE => read'.flagged = flagged'
<1>n. [Next]_vars
  BY StepIsStep
<1>1. CASE Stamp
  <2>1. job.at = "stamp" /\ job'.at = "finish" /\ UNCHANGED <<stored, replay>>
    BY <1>1 DEF Stamp, tables, TypeOK, Jobs
  <2>2. Quiet
    BY <2>1, StatsCases DEF LoadFlags, LoadFlagsUnanswered, Load, LoadUnanswered, LoadWith,
       DropFlags, DropUnreachable, CountPairs, Rebuild, ScorePairs, Score, Mine
  <2>3. Undisturbed
    <3>1. Undisturbed'
      BY DEF Trusted, Undisturbed, Calm
    <3> QED
      BY <1>n, <3>1, UndisturbedBefore
  <2> QED
    BY <2>1, <2>2, <2>3 DEF TrustInv, Quiet, NumbersInv
<1>2. CASE ~Stamp
  <2>1. Trusted /\ ~Rebuild /\ ~Score /\ UNCHANGED <<stored, replay>>
    BY <1>n, <1>2, TrustedStep
  <2>2. counts = Counts(stored, replay) /\ scores = Scored(counts) /\ flagged' = flagged
    BY <2>1 DEF TrustInv, NumbersInv
  <2>3. CASE Mine
    <3>1. UNCHANGED <<counts, scores>> /\ read'.flagged = flagged
      BY <2>3 DEF Mine, numbers, Reading
    <3> QED
      BY <2>1, <2>2, <3>1
  <2>4. CASE ~Mine
    <3>1. UNCHANGED <<counts, scores, unmined, read>>
      BY <2>1, <2>4, StatsCases DEF LoadFlags, LoadFlagsUnanswered, FlagLoaded, DropFlags,
         CountPairs, ScorePairs, Quiet, numbers, minings
    <3> QED
      BY <2>1, <2>2, <3>1 DEF TrustInv
  <2> QED
    BY <2>3, <2>4
<1> QED
  BY <1>1, <1>2

LEMMA TrustStep ==
    TypeOK /\ TypeOK' /\ SyncInv /\ HistoryInv /\ NumbersInv /\ NumbersInv' /\ TrustInv
        /\ [StatsNext]_statsVars => TrustInv'
<1> SUFFICES ASSUME TypeOK, TypeOK', SyncInv, HistoryInv, NumbersInv, NumbersInv',
                    TrustInv, [StatsNext]_statsVars
             PROVE  TrustInv'
  OBVIOUS
<1>1. ASSUME job'.at \in {"score", "stamp"}
      PROVE  /\ Undisturbed' => counts' = Counts(stored', replay')
             /\ job'.at = "stamp" => scores' = Scored(counts')
  <2>1. Undisturbed' => Undisturbed
    BY StepIsStep, UndisturbedBefore
  <2>2. CASE CountPairs
    BY <2>2 DEF CountPairs, Rebuild, TypeOK, Jobs
  <2>3. CASE ScorePairs
    <3>1. /\ job.at = "score" /\ counts' = counts /\ scores' = Scored(counts)
          /\ UNCHANGED <<stored, replay>>
      BY <2>3 DEF ScorePairs, Score
    <3> QED
      BY <2>1, <3>1 DEF TrustInv
  <2>4. CASE Mine
    BY <1>1, <2>4 DEF Mine, vars
  <2>5. CASE Quiet
    BY <1>1, <2>1, <2>5 DEF Quiet, TrustInv
  <2>6. CASE LoadFlags \/ LoadFlagsUnanswered \/ DropFlags
    BY <1>1, <2>6 DEF LoadFlags, LoadFlagsUnanswered, Load, LoadUnanswered, LoadWith,
       DropFlags, DropUnreachable, TypeOK, Jobs
  <2> QED
    BY <2>2, <2>3, <2>4, <2>5, <2>6, StatsCases
<1>2. ASSUME Trusted'
      PROVE  /\ counts' = Counts(stored', replay') /\ scores' = Scored(counts')
             /\ unmined' = FALSE => read'.flagged = flagged'
  BY <1>2, TrustedNumbersStay
<1> QED
  BY <1>1, <1>2 DEF TrustInv

LEMMA TrustInvariant == StatsSpec => [](HistoryInv /\ NumbersInv /\ TrustInv)
<1>1. TypeOK /\ TypeOK' /\ SyncInv /\ HistoryInv /\ NumbersInv /\ NumbersInv' /\ TrustInv
         /\ [StatsNext]_statsVars => TrustInv'
  BY TrustStep
<1> QED
  BY <1>1, TrustInit, SyncCarriesOver, NumbersInvariant, PTL DEF StatsSpec

\* The numbers of a settled repository are those of its stored commits and replays, and the
\* commits offered to the backtest are those that were counted.
SettledIsCounted ==
    Settled /\ Undisturbed =>
        /\ counts = Counts(stored, replay) /\ scores = Scored(counts)
        /\ flagged = Eligible(stored, replay)

\* On the histories whose stamps can be trusted a ready repository holds the numbers of its
\* stored commits: every shortcut the code takes (a sync that finds nothing to write, a stamp
\* that names the tip already, an interrupted run taken up by the next) ends in what counting
\* them from nothing gives.
THEOREM SettledNumbers == StatsSpec => []SettledIsCounted
<1>1. HistoryInv /\ NumbersInv /\ TrustInv => SettledIsCounted
  BY ReadyIsTrusted DEF SettledIsCounted, Settled, NumbersInv, TrustInv
<1> QED
  BY <1>1, TrustInvariant, PTL

\* What was mined from a settled repository is what its commits and replays say, as of the day
\* of the mining, on the same histories: no load, tag or interrupted sync leaves modules, drift
\* or risk behind that a fresh mining of the same day would not give (mining.rebuild without a
\* repository, and last_mining_at against last_aggregate_at).
THEOREM MiningIsCurrent == StatsSpec => []MinedIsCurrent
<1>1. HistoryInv /\ NumbersInv /\ TrustInv => MinedIsCurrent
  <2> SUFFICES ASSUME HistoryInv, NumbersInv, TrustInv, Settled, ~unmined, Undisturbed
               PROVE  LET now == Counts(stored, replay)
                      IN  Mined(read) = Mined(Reading(now, Scored(now), Eligible(stored, replay),
                                                      read.today))
    BY DEF MinedIsCurrent
  <2>1. Trusted /\ unmined = FALSE
    BY ReadyIsTrusted DEF Settled, NumbersInv
  <2>2. /\ read.counts = Counts(stored, replay) /\ read.scores = Scored(Counts(stored, replay))
        /\ read.flagged = Eligible(stored, replay)
    BY <2>1 DEF NumbersInv, TrustInv
  <2> QED
    BY <2>2 DEF Mined, Reading
<1> QED
  BY <1>1, TrustInvariant, PTL
-----------------------------------------------------------------------------
(* What the backtest replays. *)

\* Induction, over the members of a set: among the natural numbers outside of it there would
\* be a smallest one.
Below == {p \in Nat \X Nat : p[1] < p[2]}
LEMMA LessIsWellFounded == IsWellFoundedOn(Below, Nat)
BY NatLessThanWellFounded DEF OpToRel, Below

LEMMA SetInduction ==
    ASSUME NEW S, 0 \in S, \A n \in Nat : n \in S => n + 1 \in S
    PROVE  Nat \subseteq S
<1> SUFFICES ASSUME Nat \ S # {} PROVE FALSE
  OBVIOUS
<1>1. PICK x \in Nat \ S : \A y \in Nat \ S : ~(<<y, x>> \in Below)
  BY LessIsWellFounded, WFMin
<1>2. x # 0 /\ x - 1 \in Nat
  BY <1>1
<1>3. <<x - 1, x>> \in Below
  BY <1>1, <1>2 DEF Below
<1>4. x - 1 \in S
  BY <1>1, <1>2, <1>3
<1> QED
  BY <1>1, <1>2, <1>4

\* r is the replay of the first n commits of h.
ReplayOf(r, h, n) ==
    r = [i \in 0..n |-> IF i = 0 THEN NothingCounted ELSE Count(r[i - 1], h[i])]

LEMMA ReplayExists ==
    ASSUME NEW h, NEW n \in Nat PROVE \E r : ReplayOf(r, h, n)
<1> DEFINE S == {m \in Nat : \E r : ReplayOf(r, h, m)}
<1>1. 0 \in S
  <2> DEFINE r == [i \in 0..0 |-> NothingCounted]
  <2>1. ReplayOf(r, h, 0)
    <3>1. \A i \in 0..0 : i = 0
      OBVIOUS
    <3> QED
      BY <3>1 DEF ReplayOf
  <2> QED
    BY <2>1
<1>2. ASSUME NEW m \in Nat, m \in S PROVE m + 1 \in S
  <2>1. PICK r : ReplayOf(r, h, m)
    BY <1>2
  <2> DEFINE q == [i \in 0..(m + 1) |-> IF i <= m THEN r[i] ELSE Count(r[m], h[m + 1])]
  <2>2. \A i \in 0..m : r[i] = IF i = 0 THEN NothingCounted ELSE Count(r[i - 1], h[i])
    BY <2>1 DEF ReplayOf
  <2>3. ASSUME NEW i \in 0..(m + 1)
        PROVE  q[i] = IF i = 0 THEN NothingCounted ELSE Count(q[i - 1], h[i])
    <3>1. CASE i = 0
      <4>1. q[i] = r[0] /\ r[0] = NothingCounted
        BY <2>2, <3>1
      <4> QED
        BY <3>1, <4>1
    <3>2. CASE i \in 1..m
      <4>1. q[i] = r[i] /\ q[i - 1] = r[i - 1] /\ i \in 0..m /\ i # 0
        BY <3>2
      <4> HIDE DEF q
      <4> QED
        BY <2>2, <4>1
    <3>3. CASE i = m + 1
      <4>1. q[i] = Count(r[m], h[m + 1]) /\ q[i - 1] = r[m] /\ i # 0
        BY <3>3
      <4> HIDE DEF q
      <4> QED
        BY <3>3, <4>1
    <3> QED
      BY <2>3, <3>1, <3>2, <3>3
  <2>4. ReplayOf(q, h, m + 1)
    BY <2>3 DEF ReplayOf
  <2> QED
    BY <2>4
<1> HIDE DEF S
<1>3. n \in S
  BY <1>1, <1>2, SetInduction
<1> QED
  BY <1>3 DEF S

LEMMA ReplayedIsReplay ==
    ASSUME NEW flags
    PROVE  LET h == History(flags)
           IN  Len(h) \in Nat => \E r : ReplayOf(r, h, Len(h)) /\ Replayed(flags) = r[Len(h)]
<1> DEFINE h == History(flags)
<1> SUFFICES ASSUME Len(h) \in Nat
             PROVE  \E r : ReplayOf(r, h, Len(h)) /\ Replayed(flags) = r[Len(h)]
  OBVIOUS
<1> DEFINE r == CHOOSE r : ReplayOf(r, h, Len(h))
<1> HIDE DEF h
<1>1. ReplayOf(r, h, Len(h))
  BY ReplayExists
<1>2. Replayed(flags) = r[Len(h)]
  BY DEF Replayed, h, ReplayOf
<1> QED
  BY <1>1, <1>2

-----------------------------------------------------------------------------
\* The place of a commit: how many of S come before it.
Before(S, c) == {d \in S : Earlier(d, c)}

LEMMA RanksAreDistinct ==
    ASSUME CountAssumption, NEW S \in SUBSET Commit, NEW c \in S, NEW d \in S, Earlier(c, d)
    PROVE  Cardinality(Before(S, c)) < Cardinality(Before(S, d))
<1>1. \A x \in S : When[x] \in Nat /\ x \in Nat
  BY DEF CountAssumption
<1>2. Before(S, c) \subseteq Before(S, d)
  <2> SUFFICES ASSUME NEW x \in S, Earlier(x, c) PROVE Earlier(x, d)
    BY DEF Before
  <2> QED
    BY <1>1 DEF Earlier
<1>3. c \in Before(S, d) /\ c \notin Before(S, c)
  BY <1>1 DEF Before, Earlier
<1>4. IsFiniteSet(Before(S, d)) /\ IsFiniteSet(Before(S, c))
  <2>1. IsFiniteSet(S)
    BY CommitAssumption, FS_Subset DEF CountAssumption
  <2>2. Before(S, d) \in SUBSET S /\ Before(S, c) \in SUBSET S
    BY DEF Before
  <2> QED
    BY <2>1, <2>2, FS_Subset
<1>5. /\ Cardinality(Before(S, c)) <= Cardinality(Before(S, d))
      /\ Cardinality(Before(S, c)) # Cardinality(Before(S, d))
  BY <1>2, <1>3, <1>4, FS_Subset
<1>6. Cardinality(Before(S, c)) \in Nat /\ Cardinality(Before(S, d)) \in Nat
  BY <1>4, FS_CardinalityType
<1> QED
  BY <1>5, <1>6

\* The commits of S have the places from 1 to its size, one each.
LEMMA EveryPlaceIsTaken ==
    ASSUME CountAssumption, NEW S \in SUBSET Commit
    PROVE  /\ IsFiniteSet(S) /\ Cardinality(S) \in Nat
           /\ [c \in S |-> Cardinality(Before(S, c)) + 1] \in Bijection(S, 1..Cardinality(S))
<1> DEFINE n == Cardinality(S)
           place == [c \in S |-> Cardinality(Before(S, c)) + 1]
<1>1. IsFiniteSet(S) /\ n \in Nat
  BY CommitAssumption, FS_Subset, FS_CardinalityType DEF CountAssumption
<1>2. ASSUME NEW c \in S PROVE place[c] \in 1..n
  <2>1. Before(S, c) \in SUBSET S /\ Before(S, c) # S
    BY DEF Before, Earlier, CountAssumption
  <2>2. /\ Cardinality(Before(S, c)) <= n /\ Cardinality(Before(S, c)) # n
        /\ IsFiniteSet(Before(S, c))
    BY <1>1, <2>1, FS_Subset
  <2>3. Cardinality(Before(S, c)) \in Nat
    BY <2>2, FS_CardinalityType
  <2> QED
    BY <1>1, <2>2, <2>3
<1>3. ASSUME NEW c \in S, NEW d \in S, c # d PROVE place[c] # place[d]
  <2>1. Earlier(c, d) \/ Earlier(d, c)
    <3>1. When[c] \in Nat /\ When[d] \in Nat /\ c \in Nat /\ d \in Nat
      BY DEF CountAssumption
    <3> QED
      BY <1>3, <3>1 DEF Earlier
  <2>2. Cardinality(Before(S, c)) < Cardinality(Before(S, d))
        \/ Cardinality(Before(S, d)) < Cardinality(Before(S, c))
    <3> HIDE DEF n, place
    <3>1. CASE Earlier(c, d)
      BY <3>1, RanksAreDistinct
    <3>2. CASE Earlier(d, c)
      BY <3>2, RanksAreDistinct
    <3> QED
      BY <2>1, <3>1, <3>2
  <2>3. Cardinality(Before(S, c)) \in Nat /\ Cardinality(Before(S, d)) \in Nat
    <3>1. Before(S, c) \in SUBSET S /\ Before(S, d) \in SUBSET S
      BY DEF Before
    <3> QED
      BY <1>1, <3>1, FS_Subset, FS_CardinalityType
  <2> QED
    BY <2>2, <2>3
<1>4. place \in Injection(S, 1..n)
  BY <1>2, <1>3 DEF Injection, IsInjective
<1>5. IsFiniteSet(1..n) /\ Cardinality(1..n) = n
  BY <1>1, FS_Interval
<1>6. place \in Surjection(S, 1..n)
  BY <1>4, <1>5, FS_Injection
<1>7. place \in Bijection(S, 1..n)
  BY <1>4, <1>6 DEF Bijection
<1> QED
  BY <1>1, <1>7

\* _history lists every changed commit once.
LEMMA HistoryListsEachOnce ==
    ASSUME CountAssumption, NEW F \in SUBSET Commit
    PROVE  LET S == {c \in F : Touched[c] # {}}
               h == History(F)
           IN  /\ Len(h) = Cardinality(S)
               /\ \A i \in 1..Cardinality(S) : h[i] \in S
               /\ \A i, j \in 1..Cardinality(S) : i # j => h[i] # h[j]
               /\ \A c \in S : \E i \in 1..Cardinality(S) : h[i] = c
<1> DEFINE S == {c \in F : Touched[c] # {}}
           h == History(F)
           n == Cardinality(S)
           place == [c \in S |-> Cardinality(Before(S, c)) + 1]
<1>1. S \in SUBSET Commit
  OBVIOUS
<1>2. n \in Nat /\ place \in Bijection(S, 1..n)
  BY <1>1, EveryPlaceIsTaken
<1>3. h = [i \in 1..n |-> CHOOSE c \in S : Cardinality(Before(S, c)) = i - 1]
  BY DEF History, Before
<1>4. \A c \in S : Cardinality(Before(S, c)) \in Nat
  <2> TAKE c \in S
  <2>1. IsFiniteSet(S) /\ Before(S, c) \in SUBSET S
    BY <1>1, EveryPlaceIsTaken DEF Before
  <2> QED
    BY <2>1, FS_Subset, FS_CardinalityType
<1>5. \A c \in S : place[c] = Cardinality(Before(S, c)) + 1
  OBVIOUS
<1>10. Len(h) = n
  <2>1. DOMAIN h = 1..n /\ h \in [1..n -> {h[i] : i \in 1..n}]
    BY <1>3
  <2> HIDE DEF h, n
  <2> QED
    BY <1>2, <2>1, LenProperties
<1> HIDE DEF S, h, place, n
<1>6. /\ \A c \in S : place[c] \in 1..n
      /\ \A c, d \in S : place[c] = place[d] => c = d
      /\ \A i \in 1..n : \E c \in S : place[c] = i
  BY <1>2 DEF Bijection, Injection, IsInjective, Surjection
<1>7. ASSUME NEW i \in 1..n PROVE h[i] \in S /\ place[h[i]] = i
  <2>1. \E c \in S : Cardinality(Before(S, c)) = i - 1
    BY <1>4, <1>5, <1>6
  <2>2. h[i] \in S /\ Cardinality(Before(S, h[i])) = i - 1
    BY <1>3, <2>1
  <2> QED
    BY <1>2, <1>5, <2>2
<1>8. \A i, j \in 1..n : i # j => h[i] # h[j]
  BY <1>7
<1>9. ASSUME NEW c \in S PROVE \E i \in 1..n : h[i] = c
  BY <1>6, <1>7
<1> QED
  BY <1>7, <1>8, <1>9, <1>10 DEF S, h, n

\* h lists the commits of S, each once.
Lists(h, n, S) ==
    /\ \A i \in 1..n : h[i] \in S
    /\ \A i, j \in 1..n : i # j => h[i] # h[j]
    /\ \A c \in S : \E i \in 1..n : h[i] = c

\* t goes up by one at every commit of the list that is in X.
Tallies(t, h, n, X) ==
    /\ t[0] = 0
    /\ \A i \in 1..n : t[i] = t[i - 1] + IF h[i] \in X THEN 1 ELSE 0

\* What goes up by one at every listed member of X ends as the number of members of X.
LEMMA TallyIsSize ==
    ASSUME NEW S, IsFiniteSet(S), NEW X \in SUBSET S, NEW h, NEW n \in Nat, Lists(h, n, S),
           NEW t, Tallies(t, h, n, X)
    PROVE  t[n] = Cardinality(X)
<1> DEFINE Seen(i) == {c \in X : \E k \in 1..i : h[k] = c}
           G == {i \in Nat : i <= n => t[i] = Cardinality(Seen(i))}
<1>1. \A i : IsFiniteSet(Seen(i)) /\ Cardinality(Seen(i)) \in Nat
  <2> TAKE i
  <2>1. Seen(i) \in SUBSET S
    OBVIOUS
  <2> QED
    BY <2>1, FS_Subset, FS_CardinalityType
<1>2. 0 \in G
  <2>1. Seen(0) = {}
    OBVIOUS
  <2> QED
    BY <2>1, FS_EmptySet DEF Tallies
<1>3. ASSUME NEW i \in Nat, i \in G PROVE i + 1 \in G
  <2> SUFFICES ASSUME i + 1 <= n PROVE t[i + 1] = Cardinality(Seen(i + 1))
    OBVIOUS
  <2>1. t[i] = Cardinality(Seen(i))
    BY <1>3
  <2>2. t[i + 1] = t[i] + IF h[i + 1] \in X THEN 1 ELSE 0
    <3>1. i + 1 \in 1..n /\ (i + 1) - 1 = i
      OBVIOUS
    <3> QED
      BY <3>1 DEF Tallies
  <2>3. h[i + 1] \notin Seen(i)
    <3> SUFFICES ASSUME NEW k \in 1..i, h[k] = h[i + 1] PROVE FALSE
      OBVIOUS
    <3>1. k \in 1..n /\ i + 1 \in 1..n /\ k # i + 1
      OBVIOUS
    <3> QED
      BY <3>1 DEF Lists
  <2>4. 1..(i + 1) = (1..i) \cup {i + 1}
    OBVIOUS
  <2>5. CASE h[i + 1] \in X
    <3>1. Seen(i + 1) = Seen(i) \cup {h[i + 1]}
      BY <2>4, <2>5
    <3> HIDE DEF Seen
    <3>2. Cardinality(Seen(i + 1)) = Cardinality(Seen(i)) + 1
      BY <1>1, <2>3, <3>1, FS_AddElement
    <3> QED
      BY <2>1, <2>2, <2>5, <3>2
  <2>6. CASE h[i + 1] \notin X
    <3>1. Seen(i + 1) = Seen(i)
      BY <2>4, <2>6
    <3> HIDE DEF Seen
    <3> QED
      BY <1>1, <2>1, <2>2, <2>6, <3>1
  <2> QED
    BY <2>5, <2>6
<1>4. n \in G
  <2> HIDE DEF G
  <2> QED
    BY <1>2, <1>3, SetInduction
<1>5. Seen(n) = X
  BY DEF Lists
<1> QED
  BY <1>4, <1>5

\* What one turn of the loop adds.
LEMMA CountAdds ==
    ASSUME NEW ran, NEW c
    PROVE  /\ Count(ran, c).total = ran.total + 1
           /\ \A f \in File : Count(ran, c).marginal[f]
                                = ran.marginal[f] + IF f \in Touched[c] THEN 1 ELSE 0
           /\ \A p \in Pair : Count(ran, c).joint[p]
                                = ran.joint[p] + IF p \in FilePairs(c) THEN 1 ELSE 0
BY DEF Count

\* The replay of a list of commits ends with the numbers of the commits, of those that touch
\* each file and of those that touch each pair.
LEMMA ReplayCounts ==
    ASSUME CountAssumption, NEW S \in SUBSET Commit, NEW h, NEW n \in Nat, Lists(h, n, S),
           NEW r, ReplayOf(r, h, n)
    PROVE  /\ r[n].total = Cardinality(S)
           /\ \A f \in File : r[n].marginal[f] = Cardinality({c \in S : f \in Touched[c]})
           /\ \A p \in Pair : r[n].joint[p] = Cardinality({c \in S : p \in FilePairs(c)})
<1>1. IsFiniteSet(S)
  BY CommitAssumption, FS_Subset DEF CountAssumption
<1>2. r[0] = NothingCounted
  BY DEF ReplayOf
<1>3. \A i \in 1..n : r[i] = Count(r[i - 1], h[i]) /\ h[i] \in S
  BY DEF ReplayOf, Lists
<1>4. r[n].total = Cardinality(S)
  <2> DEFINE t == [i \in 0..n |-> r[i].total]
  <2>1. t[0] = 0 /\ t[n] = r[n].total
    BY <1>2 DEF NothingCounted
  <2>2. \A i \in 1..n : t[i] = t[i - 1] + IF h[i] \in S THEN 1 ELSE 0
    <3> TAKE i \in 1..n
    <3>1. r[i].total = r[i - 1].total + 1
      BY <1>3, CountAdds
    <3>2. t[i] = r[i].total /\ t[i - 1] = r[i - 1].total
      OBVIOUS
    <3> QED
      BY <1>3, <3>1, <3>2
  <2> HIDE DEF t
  <2>3. S \in SUBSET S
    OBVIOUS
  <2>4. Tallies(t, h, n, S)
    BY <2>1, <2>2 DEF Tallies
  <2>5. t[n] = Cardinality(S)
    BY <1>1, <2>3, <2>4, TallyIsSize
  <2> QED
    BY <2>1, <2>5
<1>5. ASSUME NEW f \in File PROVE r[n].marginal[f] = Cardinality({c \in S : f \in Touched[c]})
  <2> DEFINE t == [i \in 0..n |-> r[i].marginal[f]]
             X == {c \in S : f \in Touched[c]}
  <2>1. t[0] = 0 /\ t[n] = r[n].marginal[f]
    BY <1>2 DEF NothingCounted
  <2>2. \A i \in 1..n : t[i] = t[i - 1] + IF h[i] \in X THEN 1 ELSE 0
    <3> TAKE i \in 1..n
    <3>1. r[i].marginal[f] = r[i - 1].marginal[f] + IF f \in Touched[h[i]] THEN 1 ELSE 0
      BY <1>3, CountAdds
    <3>2. t[i] = r[i].marginal[f] /\ t[i - 1] = r[i - 1].marginal[f]
      OBVIOUS
    <3> QED
      BY <1>3, <3>1, <3>2
  <2>3. X \in SUBSET S
    OBVIOUS
  <2> HIDE DEF t, X
  <2>4. Tallies(t, h, n, X)
    BY <2>1, <2>2 DEF Tallies
  <2>5. t[n] = Cardinality(X)
    BY <1>1, <2>3, <2>4, TallyIsSize
  <2> QED
    BY <2>1, <2>5 DEF X
<1>6. ASSUME NEW p \in Pair PROVE r[n].joint[p] = Cardinality({c \in S : p \in FilePairs(c)})
  <2> DEFINE t == [i \in 0..n |-> r[i].joint[p]]
             X == {c \in S : p \in FilePairs(c)}
  <2>1. t[0] = 0 /\ t[n] = r[n].joint[p]
    BY <1>2 DEF NothingCounted
  <2>2. \A i \in 1..n : t[i] = t[i - 1] + IF h[i] \in X THEN 1 ELSE 0
    <3> TAKE i \in 1..n
    <3>1. r[i].joint[p] = r[i - 1].joint[p] + IF p \in FilePairs(h[i]) THEN 1 ELSE 0
      BY <1>3, CountAdds
    <3>2. t[i] = r[i].joint[p] /\ t[i - 1] = r[i - 1].joint[p]
      OBVIOUS
    <3> QED
      BY <1>3, <3>1, <3>2
  <2>3. X \in SUBSET S
    OBVIOUS
  <2> HIDE DEF t, X
  <2>4. Tallies(t, h, n, X)
    BY <2>1, <2>2 DEF Tallies
  <2>5. t[n] = Cardinality(X)
    BY <1>1, <2>3, <2>4, TallyIsSize
  <2> QED
    BY <2>1, <2>5 DEF X
<1> QED
  BY <1>4, <1>5, <1>6

\* What the replay of a set of countable commits says: the counts of that set.
LEMMA ReplayOfCountable ==
    ASSUME CountAssumption, NEW S \in SUBSET Commit, \A c \in S : Countable(c)
    PROVE  /\ Replayed(S).total = Cardinality(S)
           /\ \A f \in File : Replayed(S).marginal[f] = Cardinality(Touching(S, f))
           /\ \A p \in Pair \cap (File \X File) : Replayed(S).joint[p] = NumberOf(S, p)
<1> DEFINE h == History(S)
           n == Cardinality(S)
<1>1. {c \in S : Touched[c] # {}} = S
  BY DEF Countable
<1>2. n \in Nat /\ Len(h) = n /\ Lists(h, n, S)
  <2>1. n \in Nat
    BY EveryPlaceIsTaken
  <2>2. LET C == {c \in S : Touched[c] # {}}
        IN  Len(h) = Cardinality(C) /\ Lists(h, Cardinality(C), C)
    BY HistoryListsEachOnce DEF Lists
  <2> QED
    BY <1>1, <2>1, <2>2
<1>3. PICK r : ReplayOf(r, h, n) /\ Replayed(S) = r[n]
  BY <1>2, ReplayedIsReplay
<1> HIDE DEF h, n
<1>4. /\ Replayed(S).total = Cardinality(S)
      /\ \A f \in File : Replayed(S).marginal[f] = Cardinality({c \in S : f \in Touched[c]})
      /\ \A p \in Pair : Replayed(S).joint[p] = Cardinality({c \in S : p \in FilePairs(c)})
  BY <1>2, <1>3, ReplayCounts
<1>5. \A f \in File : Touching(S, f) = {c \in S : f \in Touched[c]}
  <2> SUFFICES ASSUME NEW f \in File, NEW c \in S PROVE f \in Items(c) <=> f \in Touched[c]
    BY DEF Touching
  <2>1. f \notin Directory /\ \A g \in Touched[c] : Holds[g] \subseteq Directory
    BY DEF CountAssumption
  <2> QED
    BY <2>1 DEF Items
<1>6. ASSUME NEW p \in Pair \cap (File \X File)
      PROVE  Together(S, p) = {c \in S : p \in FilePairs(c)}
  <2>1. p[1] \in File /\ p[2] \in File
    OBVIOUS
  <2>2. /\ Touching(S, p[1]) = {c \in S : p[1] \in Touched[c]}
        /\ Touching(S, p[2]) = {c \in S : p[2] \in Touched[c]}
    BY <1>5, <2>1
  <2> QED
    BY <2>2 DEF Together, FilePairs
<1> QED
  BY <1>4, <1>5, <1>6 DEF NumberOf

\* Whatever was loaded, rewritten, marked a replay or interrupted before, the replay of a
\* settled repository's flagged commits (backtest.run over _history) ends with the numbers
\* its tables hold, for every history and every order of its commits: each flagged commit is
\* replayed once, and the pairs below the support, which the tables leave out, are the pairs
\* the replay counts less often than that.
THEOREM ReplayMatchesTables == StatsSpec => []ReplayEndsInTheTables
<1>1. SettledIsCounted /\ TypeOK => ReplayEndsInTheTables
  <2> SUFFICES ASSUME SettledIsCounted, TypeOK, Settled, Undisturbed
               PROVE  LET ran == Replayed(flagged)
                      IN  /\ ran.total = counts.population
                          /\ \A f \in File : ran.marginal[f] = counts.marginal[f]
                          /\ \A p \in Pair \cap (File \X File) :
                                IF ran.joint[p] >= Support
                                THEN p \in DOMAIN counts.n_ab /\ counts.n_ab[p] = ran.joint[p]
                                ELSE p \notin DOMAIN counts.n_ab
    BY DEF ReplayEndsInTheTables
  <2> DEFINE S == Eligible(stored, replay)
  <2>1. flagged = S /\ counts = Counts(stored, replay)
    BY DEF SettledIsCounted
  <2>2. S \in SUBSET Commit /\ \A c \in S : Countable(c)
    BY DEF Eligible, TypeOK
  <2>3. /\ counts.population = Cardinality(S)
        /\ counts.marginal = [x \in Item |-> Cardinality(Touching(S, x))]
        /\ counts.n_ab = [p \in {p \in Pair : NumberOf(S, p) >= Support} |-> NumberOf(S, p)]
    BY <2>1 DEF Counts
  <2> HIDE DEF S
  <2>4. /\ Replayed(S).total = Cardinality(S)
        /\ \A f \in File : Replayed(S).marginal[f] = Cardinality(Touching(S, f))
        /\ \A p \in Pair \cap (File \X File) : Replayed(S).joint[p] = NumberOf(S, p)
    BY <2>2, ReplayOfCountable, CountAssumption
  <2>5. \A f \in File : counts.marginal[f] = Cardinality(Touching(S, f))
    BY <2>3 DEF Item
  <2>6. \A p \in Pair : /\ p \in DOMAIN counts.n_ab <=> NumberOf(S, p) >= Support
                        /\ p \in DOMAIN counts.n_ab => counts.n_ab[p] = NumberOf(S, p)
    BY <2>3
  <2> QED
    BY <2>1, <2>3, <2>4, <2>5, <2>6
<1> QED
  BY <1>1, SettledNumbers, SyncCarriesOver, PTL
-----------------------------------------------------------------------------
(* Sums, and the heaviest and the smallest of a set. *)

\* What holds of the empty set and is handed on by every set without its chosen member holds
\* of every subset of a finite set.
LEMMA SubsetInduction ==
    ASSUME NEW D, IsFiniteSet(D), NEW G, {} \in G,
           \A S \in SUBSET D : S # {} /\ S \ {CHOOSE x \in S : TRUE} \in G => S \in G
    PROVE  SUBSET D \subseteq G
<1> DEFINE N == {n \in Nat : \A S \in SUBSET D : Cardinality(S) = n => S \in G}
<1>1. \A S \in SUBSET D : IsFiniteSet(S) /\ Cardinality(S) \in Nat
  BY FS_Subset, FS_CardinalityType
<1>2. 0 \in N
  BY <1>1, FS_EmptySet
<1>3. ASSUME NEW n \in Nat, n \in N PROVE n + 1 \in N
  <2> SUFFICES ASSUME NEW S \in SUBSET D, Cardinality(S) = n + 1 PROVE S \in G
    OBVIOUS
  <2> DEFINE x == CHOOSE x \in S : TRUE
  <2>1. S # {} /\ IsFiniteSet(S)
    BY <1>1, FS_EmptySet
  <2>2. x \in S /\ S \ {x} \in SUBSET D
    BY <2>1
  <2> HIDE DEF x
  <2>3. Cardinality(S \ {x}) = n
    <3>1. Cardinality(S \ {x}) = Cardinality(S) - 1
      BY <2>1, <2>2, FS_RemoveElement
    <3> HIDE DEF N
    <3> QED
      BY <3>1
  <2> USE DEF x
  <2>4. S \ {x} \in G
    BY <1>3, <2>2, <2>3
  <2> QED
    BY <2>1, <2>4
<1> HIDE DEF N
<1>4. Nat \subseteq N
  BY <1>2, <1>3, SetInduction
<1> QED
  BY <1>1, <1>4 DEF N

\* s adds up the values of v over the members of F, a set of sets.
Sums(s, v, F) ==
    s = [S \in F |-> IF S = {} THEN 0
                     ELSE LET x == CHOOSE x \in S : TRUE IN v[x] + s[S \ {x}]]

\* There is such a function over any finite set.
LEMMA SumsExist ==
    ASSUME NEW v, IsFiniteSet(DOMAIN v) PROVE \E s : Sums(s, v, SUBSET DOMAIN v)
<1> DEFINE D == DOMAIN v
           UpTo(n) == {S \in SUBSET D : Cardinality(S) <= n}
           N == {n \in Nat : \E s : Sums(s, v, UpTo(n))}
<1>1. \A S \in SUBSET D : IsFiniteSet(S) /\ Cardinality(S) \in Nat
  BY FS_Subset, FS_CardinalityType
<1>2. 0 \in N
  <2> DEFINE s == [S \in UpTo(0) |-> 0]
  <2>1. \A S \in UpTo(0) : S = {}
    BY <1>1, FS_EmptySet
  <2>2. Sums(s, v, UpTo(0))
    BY <2>1 DEF Sums
  <2> QED
    BY <2>2
<1>3. ASSUME NEW n \in Nat, n \in N PROVE n + 1 \in N
  <2>1. PICK s : Sums(s, v, UpTo(n))
    BY <1>3
  <2> DEFINE Rest(S) == S \ {CHOOSE x \in S : TRUE}
             q == [S \in UpTo(n + 1) |-> IF Cardinality(S) <= n THEN s[S]
                                         ELSE v[CHOOSE x \in S : TRUE] + s[Rest(S)]]
  <2>2. \A S \in UpTo(n) : s[S] = IF S = {} THEN 0 ELSE v[CHOOSE x \in S : TRUE] + s[Rest(S)]
    BY <2>1 DEF Sums
  <2>3. ASSUME NEW S \in UpTo(n + 1), S # {}
        PROVE  /\ Rest(S) \in UpTo(n) /\ Rest(S) \in UpTo(n + 1)
               /\ q[Rest(S)] = s[Rest(S)]
    <3>1. (CHOOSE x \in S : TRUE) \in S
      BY <2>3
    <3>2. Cardinality(Rest(S)) = Cardinality(S) - 1 /\ Rest(S) \in SUBSET D
      BY <1>1, <3>1, FS_RemoveElement
    <3>3. Cardinality(Rest(S)) <= n /\ Cardinality(Rest(S)) \in Nat
      BY <1>1, <3>2
    <3> HIDE DEF Rest
    <3> QED
      BY <3>2, <3>3
  <2>4. ASSUME NEW S \in UpTo(n + 1)
        PROVE  q[S] = IF S = {} THEN 0 ELSE v[CHOOSE x \in S : TRUE] + q[Rest(S)]
    <3>1. CASE Cardinality(S) <= n
      <4>1. S \in UpTo(n) /\ q[S] = s[S]
        BY <3>1
      <4> HIDE DEF q, UpTo, Rest
      <4> QED
        BY <2>2, <2>3, <4>1
    <3>2. CASE ~(Cardinality(S) <= n)
      <4>1. S # {}
        BY <3>2, FS_EmptySet
      <4>2. q[S] = v[CHOOSE x \in S : TRUE] + s[Rest(S)]
        BY <3>2
      <4> HIDE DEF q, UpTo, Rest
      <4> QED
        BY <2>3, <4>1, <4>2
    <3> QED
      BY <3>1, <3>2
  <2>5. q = [S \in UpTo(n + 1) |-> q[S]]
    OBVIOUS
  <2> HIDE DEF q, UpTo
  <2>6. Sums(q, v, UpTo(n + 1))
    BY <2>4, <2>5 DEF Sums
  <2> QED
    BY <2>6
<1>4. Cardinality(D) \in N
  <2> HIDE DEF N
  <2> QED
    BY <1>1, <1>2, <1>3, SetInduction
<1>5. UpTo(Cardinality(D)) = SUBSET D
  BY FS_Subset
<1> QED
  BY <1>4, <1>5

\* Total is the sum over the whole domain, and sums grow member by member.
LEMMA TotalIsASum ==
    ASSUME NEW v, IsFiniteSet(DOMAIN v)
    PROVE  \E s : /\ Total(v) = s[DOMAIN v]
                  /\ s[{}] = 0
                  /\ \A S \in SUBSET DOMAIN v : S # {} =>
                        LET x == CHOOSE x \in S : TRUE IN s[S] = v[x] + s[S \ {x}]
<1> DEFINE s == CHOOSE s : Sums(s, v, SUBSET DOMAIN v)
<1>1. Sums(s, v, SUBSET DOMAIN v)
  BY SumsExist
<1>2. Total(v) = s[DOMAIN v]
  BY DEF Total, Sums
<1>3. /\ s[{}] = 0
      /\ \A S \in SUBSET DOMAIN v : S # {} =>
            LET x == CHOOSE x \in S : TRUE IN s[S] = v[x] + s[S \ {x}]
  <2> HIDE DEF s
  <2> QED
    BY <1>1 DEF Sums
<1> HIDE DEF s
<1> QED
  BY <1>2, <1>3

\* A sum of integers is an integer.
LEMMA TotalIsInt ==
    ASSUME NEW v, IsFiniteSet(DOMAIN v), \A x \in DOMAIN v : v[x] \in Int
    PROVE  Total(v) \in Int
<1>1. PICK s : /\ Total(v) = s[DOMAIN v]
               /\ s[{}] = 0
               /\ \A S \in SUBSET DOMAIN v : S # {} =>
                     LET x == CHOOSE x \in S : TRUE IN s[S] = v[x] + s[S \ {x}]
  BY TotalIsASum
<1> DEFINE G == {S \in SUBSET DOMAIN v : s[S] \in Int}
<1>2. {} \in G
  BY <1>1
<1>3. ASSUME NEW S \in SUBSET DOMAIN v, S # {}, S \ {CHOOSE x \in S : TRUE} \in G PROVE S \in G
  <2> DEFINE x == CHOOSE x \in S : TRUE
  <2>1. x \in S
    BY <1>3
  <2>2. s[S] = v[x] + s[S \ {x}]
    BY <1>1, <1>3
  <2>3. s[S \ {x}] \in Int /\ v[x] \in Int
    BY <1>3, <2>1
  <2> HIDE DEF x
  <2> QED
    BY <2>2, <2>3
<1> HIDE DEF G
<1>4. SUBSET DOMAIN v \subseteq G
  BY <1>2, <1>3, SubsetInduction
<1> QED
  BY <1>1, <1>4 DEF G

\* One more author's square, between the sum and its square.
LEMMA OneMoreSquare ==
    ASSUME NEW a \in Nat, NEW m \in Nat, NEW t \in Int, m <= t, t <= m * m
    PROVE  /\ a + m <= Square(a) + t
           /\ Square(a) + t <= (a + m) * (a + m)
<1>1. a <= a * a /\ 0 <= a * m /\ a * m \in Int /\ a * a \in Int /\ m * m \in Int
  <2>1. CASE a = 0
    BY <2>1
  <2>2. CASE a >= 1
    BY <2>2, ProductsKeepOrder
  <2> QED
    BY <2>1, <2>2
<1>2. (a + m) * (a + m) = a * a + 2 * (a * m) + m * m
  OBVIOUS
<1>3. Square(a) = a * a
  BY DEF Square
<1> QED
  BY <1>1, <1>2, <1>3

\* The commits of a set, shared out among their authors: the squared shares add up to no less
\* than the commits and no more than their square.
LEMMA SharesAddUp ==
    ASSUME CountAssumption, NEW T \in SUBSET Commit
    PROVE  LET squares == [w \in Author |-> Square(Cardinality({c \in T : WrittenBy[c] = w}))]
           IN  /\ Total(squares) \in Int
               /\ Cardinality(T) <= Total(squares)
               /\ Total(squares) <= Cardinality(T) * Cardinality(T)
<1> DEFINE Of(w) == {c \in T : WrittenBy[c] = w}
           By(W) == {c \in T : WrittenBy[c] \in W}
           v == [w \in Author |-> Square(Cardinality(Of(w)))]
           m(W) == Cardinality(By(W))
<1>1. IsFiniteSet(Author) /\ IsFiniteSet(T)
  BY CommitAssumption, FS_Subset DEF CountAssumption
<1>2. \A W : IsFiniteSet(By(W)) /\ m(W) \in Nat
  <2> TAKE W
  <2>1. By(W) \in SUBSET T
    OBVIOUS
  <2> QED
    BY <1>1, <2>1, FS_Subset, FS_CardinalityType
<1>3. \A w : IsFiniteSet(Of(w)) /\ Cardinality(Of(w)) \in Nat
  <2> TAKE w
  <2>1. Of(w) \in SUBSET T
    OBVIOUS
  <2> QED
    BY <1>1, <2>1, FS_Subset, FS_CardinalityType
<1>4. PICK s : /\ Total(v) = s[Author]
               /\ s[{}] = 0
               /\ \A S \in SUBSET Author : S # {} =>
                     LET x == CHOOSE x \in S : TRUE IN s[S] = v[x] + s[S \ {x}]
  <2>1. DOMAIN v = Author
    OBVIOUS
  <2> HIDE DEF v
  <2>2. \E s : /\ Total(v) = s[DOMAIN v]
               /\ s[{}] = 0
               /\ \A S \in SUBSET DOMAIN v : S # {} =>
                     LET x == CHOOSE x \in S : TRUE IN s[S] = v[x] + s[S \ {x}]
    BY <1>1, <2>1, TotalIsASum
  <2> QED
    BY <2>1, <2>2
<1> DEFINE G == {W \in SUBSET Author : s[W] \in Int /\ m(W) <= s[W] /\ s[W] <= m(W) * m(W)}
<1>5. {} \in G
  <2>1. By({}) = {}
    OBVIOUS
  <2>2. m({}) = 0
    BY <2>1, FS_EmptySet
  <2> HIDE DEF m
  <2> QED
    BY <1>4, <2>2
<1>6. ASSUME NEW S \in SUBSET Author, S # {}, S \ {CHOOSE x \in S : TRUE} \in G PROVE S \in G
  <2> DEFINE x == CHOOSE x \in S : TRUE
             R == S \ {x}
             a == Cardinality(Of(x))
  <2>1. x \in S /\ x \in Author
    BY <1>6
  <2>2. s[S] = v[x] + s[R] /\ v[x] = Square(a)
    BY <1>4, <1>6, <2>1
  <2>3. s[R] \in Int /\ m(R) <= s[R] /\ s[R] <= m(R) * m(R)
    BY <1>6
  <2>4. m(S) = a + m(R)
    <3>1. By(S) = Of(x) \cup By(R) /\ Of(x) \cap By(R) = {}
      BY <2>1
    <3> HIDE DEF Of, By, x, R
    <3>2. Cardinality(By(S)) = Cardinality(Of(x)) + Cardinality(By(R)) - Cardinality(Of(x) \cap By(R))
      BY <1>2, <1>3, <3>1, FS_Union
    <3>3. Cardinality(Of(x) \cap By(R)) = 0
      BY <3>1, FS_EmptySet
    <3> QED
      BY <1>2, <1>3, <3>2, <3>3
  <2>5. a \in Nat /\ m(R) \in Nat
    BY <1>2, <1>3
  <2> HIDE DEF x, R, a, v, m
  <2>6. /\ a + m(R) <= Square(a) + s[R] /\ Square(a) + s[R] <= (a + m(R)) * (a + m(R))
    BY <2>3, <2>5, OneMoreSquare
  <2>7. Square(a) \in Int
    BY <2>5 DEF Square
  <2>8. s[S] \in Int /\ m(S) <= s[S] /\ s[S] <= m(S) * m(S)
    BY <2>2, <2>3, <2>4, <2>6, <2>7
  <2> QED
    BY <2>8
<1>7. SUBSET Author \subseteq G
  <2> HIDE DEF G
  <2> QED
    BY <1>1, <1>5, <1>6, SubsetInduction
<1>8. m(Author) = Cardinality(T)
  <2>1. By(Author) = T
    BY DEF CountAssumption
  <2> QED
    BY <2>1
<1>9. Author \in G
  BY <1>7
<1> QED
  BY <1>4, <1>8, <1>9

\* A finite set has a heaviest member.
LEMMA OneIsHeaviest ==
    ASSUME NEW L, IsFiniteSet(L), L # {}, NEW w, \A l \in L : w[l] \in Int
    PROVE  \E l \in L : \A k \in L : w[k] <= w[l]
<1> DEFINE G == {S \in SUBSET L : S # {} => \E l \in S : \A k \in S : w[k] <= w[l]}
<1>1. {} \in G
  OBVIOUS
<1>2. ASSUME NEW S \in SUBSET L, S # {}, S \ {CHOOSE x \in S : TRUE} \in G PROVE S \in G
  <2> DEFINE x == CHOOSE x \in S : TRUE
  <2>1. x \in S
    BY <1>2
  <2>2. S \ {x} # {} => \E l \in S \ {x} : \A k \in S \ {x} : w[k] <= w[l]
    BY <1>2
  <2> HIDE DEF x
  <2>3. \E l \in S : \A k \in S : w[k] <= w[l]
    <3>1. CASE S \ {x} = {}
      BY <2>1, <3>1
    <3>2. CASE S \ {x} # {}
      <4>1. PICK l \in S \ {x} : \A k \in S \ {x} : w[k] <= w[l]
        BY <2>2, <3>2
      <4>2. w[l] \in Int /\ w[x] \in Int /\ \A k \in S : w[k] \in Int
        BY <2>1
      <4>3. CASE w[x] <= w[l]
        BY <4>1, <4>3
      <4>4. CASE ~(w[x] <= w[l])
        BY <2>1, <4>1, <4>2, <4>4
      <4> QED
        BY <4>3, <4>4
    <3> QED
      BY <3>1, <3>2
  <2> QED
    BY <2>3
<1> HIDE DEF G
<1>3. SUBSET L \subseteq G
  BY <1>1, <1>2, SubsetInduction
<1> QED
  BY <1>3 DEF G

\* The smallest of a set of numbers is one of them.
LEMMA MinIsMember ==
    ASSUME NEW S \in SUBSET Nat, S # {} PROVE Min(S) \in S
<1>1. PICK x \in S : \A y \in S : ~(<<y, x>> \in Below)
  BY LessIsWellFounded, WFMin
<1>2. ASSUME NEW y \in S PROVE x <= y
  <2>1. x \in Nat /\ y \in Nat
    BY <1>1
  <2>2. ~(y < x)
    BY <1>1, <2>1 DEF Below
  <2> QED
    BY <2>1, <2>2
<1> QED
  BY <1>2 DEF Min

-----------------------------------------------------------------------------
(* Modules: what label propagation joins. *)

\* No edge has one file in X and the other outside.
Separate(edges, X) == \A p \in edges : p[1] \in X <=> p[2] \in X

Linked(edges) == UNION {Ends(p) : p \in edges}
Across(p, f) == IF p[1] = f THEN p[2] ELSE p[1]

\* Edges of files whose weights are numbers.
AreEdges(scoring, edges) ==
    /\ edges \subseteq Pair \cap (File \X File)
    /\ \A p \in edges : Npmi(scoring[p]) \in Int

\* There are finitely many edges.
LEMMA EdgesAreFinite ==
    ASSUME CountAssumption, NEW edges \in SUBSET (Pair \cap (File \X File))
    PROVE  IsFiniteSet(edges)
<1>1. edges \in SUBSET (File \X File) /\ IsFiniteSet(File)
  BY DEF CountAssumption
<1> QED
  BY <1>1, FS_Product, FS_Subset

\* The next label of a file is the present one of a file it is coupled with.
LEMMA HeaviestIsOffered ==
    ASSUME CountAssumption, NEW scoring, NEW edges, AreEdges(scoring, edges), NEW labels, NEW f,
           \E p \in edges : f \in Ends(p),
           \A p \in edges : labels[p[1]] \in Nat /\ labels[p[2]] \in Nat
    PROVE  \E p \in edges : f \in Ends(p) /\ Heaviest(scoring, edges, labels, f) = labels[Across(p, f)]
<1> DEFINE near      == {p \in edges : f \in Ends(p)}
           part(l)   == {p \in near : labels[Across(p, f)] = l}
           weight(l) == [p \in part(l) |-> Npmi(scoring[p])]
           offered   == {labels[Across(p, f)] : p \in near}
           best      == {l \in offered : \A k \in offered : Total(weight(k)) <= Total(weight(l))}
<1>1. Heaviest(scoring, edges, labels, f) = Min(best)
  BY DEF Heaviest, Across
<1>2. IsFiniteSet(edges) /\ IsFiniteSet(near) /\ near # {}
  <2>1. IsFiniteSet(edges) /\ near \in SUBSET edges
    BY EdgesAreFinite DEF AreEdges
  <2> QED
    BY <2>1, FS_Subset
<1>3. offered \in SUBSET Nat /\ offered # {}
  BY <1>2 DEF Across
<1>4. IsFiniteSet(offered)
  <2> DEFINE label == [p \in near |-> labels[Across(p, f)]]
  <2>1. label \in Surjection(near, offered)
    BY DEF Surjection
  <2> HIDE DEF label, near, offered
  <2> QED
    BY <1>2, <2>1, FS_Surjection
<1>5. ASSUME NEW l PROVE Total(weight(l)) \in Int
  <2>1. part(l) \in SUBSET edges /\ DOMAIN weight(l) = part(l)
    OBVIOUS
  <2>2. \A p \in DOMAIN weight(l) : weight(l)[p] \in Int
    BY DEF AreEdges
  <2>3. IsFiniteSet(DOMAIN weight(l))
    BY <1>2, <2>1, FS_Subset
  <2> HIDE DEF weight
  <2> QED
    BY <2>2, <2>3, TotalIsInt
<1>6. best # {}
  <2> DEFINE w == [l \in offered |-> Total(weight(l))]
  <2>1. \A l \in offered : w[l] \in Int /\ w[l] = Total(weight(l))
    BY <1>5
  <2> HIDE DEF w, weight, offered
  <2>2. PICK l \in offered : \A k \in offered : w[k] <= w[l]
    BY <1>3, <1>4, <2>1, OneIsHeaviest
  <2>3. l \in best
    BY <2>1, <2>2
  <2> QED
    BY <2>3
<1>7. Min(best) \in offered
  <2>1. best \in SUBSET offered
    OBVIOUS
  <2> HIDE DEF best, offered
  <2> QED
    BY <1>3, <1>6, <2>1, MinIsMember
<1> QED
  BY <1>1, <1>7

\* g lists the labels after every round up to the n-th.
RoundsOf(g, scoring, edges, n) ==
    g = [k \in 0..n |-> IF k = 0 THEN [f \in Linked(edges) |-> f]
                        ELSE Propagated(scoring, edges, g[k - 1])]

\* Every round has its labels.
LEMMA RoundsExist ==
    ASSUME NEW scoring, NEW edges, NEW n \in Nat PROVE \E g : RoundsOf(g, scoring, edges, n)
<1> DEFINE start == [f \in Linked(edges) |-> f]
           S == {m \in Nat : \E g : RoundsOf(g, scoring, edges, m)}
<1>1. 0 \in S
  <2> DEFINE g == [k \in 0..0 |-> start]
  <2>1. RoundsOf(g, scoring, edges, 0)
    <3>1. \A k \in 0..0 : k = 0
      OBVIOUS
    <3> QED
      BY <3>1 DEF RoundsOf
  <2> QED
    BY <2>1
<1>2. ASSUME NEW m \in Nat, m \in S PROVE m + 1 \in S
  <2>1. PICK g : RoundsOf(g, scoring, edges, m)
    BY <1>2
  <2> DEFINE q == [k \in 0..(m + 1) |-> IF k <= m THEN g[k] ELSE Propagated(scoring, edges, g[m])]
  <2>2. \A k \in 0..m : g[k] = IF k = 0 THEN start ELSE Propagated(scoring, edges, g[k - 1])
    BY <2>1 DEF RoundsOf
  <2>3. ASSUME NEW k \in 0..(m + 1)
        PROVE  q[k] = IF k = 0 THEN start ELSE Propagated(scoring, edges, q[k - 1])
    <3>1. CASE k = 0
      <4>1. q[k] = g[0] /\ g[0] = start
        BY <2>2, <3>1
      <4> QED
        BY <3>1, <4>1
    <3>2. CASE k \in 1..m
      <4>1. q[k] = g[k] /\ q[k - 1] = g[k - 1] /\ k \in 0..m /\ k # 0
        BY <3>2
      <4> HIDE DEF q
      <4> QED
        BY <2>2, <4>1
    <3>3. CASE k = m + 1
      <4>1. q[k] = Propagated(scoring, edges, g[m]) /\ q[k - 1] = g[m] /\ k # 0
        BY <3>3
      <4> HIDE DEF q
      <4> QED
        BY <3>3, <4>1
    <3> QED
      BY <2>3, <3>1, <3>2, <3>3
  <2>4. RoundsOf(q, scoring, edges, m + 1)
    BY <2>3 DEF RoundsOf
  <2> QED
    BY <2>4
<1> HIDE DEF S
<1>3. n \in S
  BY <1>1, <1>2, SetInduction
<1> QED
  BY <1>3 DEF S

\* What the model computes is the last of the rounds.
LEMMA LabelsAreRounds ==
    ASSUME MiningAssumption, NEW scoring, NEW edges
    PROVE  \E g : RoundsOf(g, scoring, edges, Rounds) /\ Labels(scoring, edges) = g[Rounds]
<1> DEFINE g == CHOOSE g : RoundsOf(g, scoring, edges, Rounds)
<1>1. RoundsOf(g, scoring, edges, Rounds)
  BY RoundsExist DEF MiningAssumption
<1>2. Labels(scoring, edges) = g[Rounds]
  BY DEF Labels, RoundsOf, Linked
<1> QED
  BY <1>1, <1>2

\* The labels of a round: files, and on the side of X their own file is on.
Faithful(edges, labels) ==
    /\ labels \in [Linked(edges) -> Linked(edges)]
    /\ \A X \in SUBSET File : Separate(edges, X) =>
          \A f \in Linked(edges) : labels[f] \in X <=> f \in X

\* One round keeps every file on its side.
LEMMA RoundsAreFaithful ==
    ASSUME CountAssumption, NEW scoring, NEW edges, AreEdges(scoring, edges), NEW labels,
           Faithful(edges, labels)
    PROVE  Faithful(edges, Propagated(scoring, edges, labels))
<1>1. Propagated(scoring, edges, labels) = [f \in Linked(edges) |-> Heaviest(scoring, edges, labels, f)]
  <2>1. DOMAIN labels = Linked(edges)
    BY DEF Faithful
  <2> QED
    BY <2>1 DEF Propagated
<1>2. Linked(edges) \subseteq File /\ File \subseteq Nat
  BY DEF Linked, Ends, AreEdges, CountAssumption
<1>3. \A p \in edges : p[1] \in Linked(edges) /\ p[2] \in Linked(edges)
  BY DEF Linked, Ends
<1>4. ASSUME NEW f \in Linked(edges)
      PROVE  /\ Heaviest(scoring, edges, labels, f) \in Linked(edges)
             /\ \A X \in SUBSET File : Separate(edges, X) =>
                   (Heaviest(scoring, edges, labels, f) \in X <=> f \in X)
  <2>1. \E p \in edges : f \in Ends(p)
    BY DEF Linked
  <2>2. \A p \in edges : labels[p[1]] \in Nat /\ labels[p[2]] \in Nat
    <3>1. labels \in [Linked(edges) -> Linked(edges)]
      BY DEF Faithful
    <3>2. \A g \in Linked(edges) : labels[g] \in Nat
      BY <1>2, <3>1
    <3> QED
      BY <1>3, <3>2
  <2>3. PICK p \in edges : f \in Ends(p) /\ Heaviest(scoring, edges, labels, f) = labels[Across(p, f)]
    BY <2>1, <2>2, HeaviestIsOffered
  <2>4. Across(p, f) \in Linked(edges)
    BY <1>3, <2>3 DEF Across
  <2>5. \A X : Separate(edges, X) => (Across(p, f) \in X <=> f \in X)
    BY <2>3 DEF Separate, Across, Ends
  <2> QED
    BY <2>3, <2>4, <2>5 DEF Faithful
<1> QED
  BY <1>1, <1>4 DEF Faithful

\* So do all of them.
LEMMA LabelsAreFaithful ==
    ASSUME CountAssumption, MiningAssumption, NEW scoring, NEW edges, AreEdges(scoring, edges)
    PROVE  Faithful(edges, Labels(scoring, edges))
<1>1. PICK g : RoundsOf(g, scoring, edges, Rounds) /\ Labels(scoring, edges) = g[Rounds]
  BY LabelsAreRounds
<1>2. Rounds \in Nat
  BY DEF MiningAssumption
<1> DEFINE S == {k \in Nat : k <= Rounds => Faithful(edges, g[k])}
<1>3. 0 \in S
  <2>1. g[0] = [f \in Linked(edges) |-> f]
    BY <1>1, <1>2 DEF RoundsOf
  <2>2. Faithful(edges, g[0])
    BY <2>1 DEF Faithful
  <2> QED
    BY <2>2
<1>4. ASSUME NEW k \in Nat, k \in S PROVE k + 1 \in S
  <2> SUFFICES ASSUME k + 1 <= Rounds PROVE Faithful(edges, g[k + 1])
    OBVIOUS
  <2>1. Faithful(edges, g[k])
    BY <1>2, <1>4
  <2>2. g[k + 1] = Propagated(scoring, edges, g[k])
    <3>1. k + 1 \in 0..Rounds /\ k + 1 # 0 /\ (k + 1) - 1 = k
      BY <1>2
    <3> QED
      BY <1>1, <3>1 DEF RoundsOf
  <2> QED
    BY <2>1, <2>2, RoundsAreFaithful
<1> HIDE DEF S
<1>5. Rounds \in S
  BY <1>2, <1>3, <1>4, SetInduction
<1> QED
  BY <1>1, <1>2, <1>5 DEF S

\* The rounds after one that changed nothing change nothing either: the model goes through all
\* of them, the code breaks out of its loop, and both end with the same labels.
LEMMA QuietRoundIsTheLast ==
    ASSUME NEW scoring, NEW edges, NEW n \in Nat, NEW g, RoundsOf(g, scoring, edges, n),
           NEW k \in 0..n, k < n => g[k + 1] = g[k]
    PROVE  g[n] = g[k]
<1> DEFINE S == {i \in Nat : k + i <= n => g[k + i] = g[k]}
<1>1. 0 \in S
  OBVIOUS
<1>2. ASSUME NEW i \in Nat, i \in S PROVE i + 1 \in S
  <2> SUFFICES ASSUME k + (i + 1) <= n PROVE g[k + (i + 1)] = g[k]
    OBVIOUS
  <2>1. g[k + i] = g[k]
    BY <1>2
  <2>2. g[k + (i + 1)] = Propagated(scoring, edges, g[k + i])
    <3>1. k + (i + 1) \in 0..n /\ k + (i + 1) # 0 /\ (k + (i + 1)) - 1 = k + i
      OBVIOUS
    <3> QED
      BY <3>1 DEF RoundsOf
  <2>3. g[k + 1] = Propagated(scoring, edges, g[k])
    <3>1. k + 1 \in 0..n /\ k + 1 # 0 /\ (k + 1) - 1 = k
      OBVIOUS
    <3> QED
      BY <3>1 DEF RoundsOf
  <2>4. k < n
    OBVIOUS
  <2> QED
    BY <2>1, <2>2, <2>3, <2>4
<1> HIDE DEF S
<1>3. n - k \in S
  BY <1>1, <1>2, SetInduction
<1> QED
  BY <1>3 DEF S

\* What is read out of labels that are faithful.
LEMMA ClustersAreConnected ==
    ASSUME CountAssumption, MiningAssumption, NEW tallies, NEW scoring,
           AreEdges(scoring, Coupled(tallies, scoring))
    PROVE  LET edges == Coupled(tallies, scoring)
               modules == Clusters(tallies, scoring)
           IN  /\ \A K \in modules :
                     /\ K \subseteq Linked(edges) /\ Cardinality(K) >= 2
                     /\ \A X \in SUBSET File : Separate(edges, X) => K \subseteq X \/ K \cap X = {}
               /\ \A K, L \in modules : K = L \/ K \cap L = {}
<1> DEFINE edges == Coupled(tallies, scoring)
           labels == Labels(scoring, edges)
           With(l) == {f \in DOMAIN labels : labels[f] = l}
<1>1. Faithful(edges, labels)
  BY LabelsAreFaithful
<1>2. DOMAIN labels = Linked(edges)
  BY <1>1 DEF Faithful
<1>3. Clusters(tallies, scoring)
        = {With(l) : l \in {k \in {labels[f] : f \in DOMAIN labels} : Cardinality(With(k)) >= 2}}
  BY DEF Clusters
<1>4. ASSUME NEW K \in Clusters(tallies, scoring)
      PROVE  \E l : K = With(l) /\ Cardinality(With(l)) >= 2
  <2> HIDE DEF With, labels
  <2> QED
    BY <1>3
<1> HIDE DEF edges, labels
<1>5. ASSUME NEW K \in Clusters(tallies, scoring)
      PROVE  /\ K \subseteq Linked(edges) /\ Cardinality(K) >= 2
             /\ \A X \in SUBSET File : Separate(edges, X) => K \subseteq X \/ K \cap X = {}
  <2>1. PICK l : K = With(l) /\ Cardinality(With(l)) >= 2
    BY <1>4
  <2>2. ASSUME NEW X \in SUBSET File, Separate(edges, X) PROVE K \subseteq X \/ K \cap X = {}
    <3>1. \A f \in K : l \in X <=> f \in X
      BY <1>1, <1>2, <2>1, <2>2 DEF Faithful
    <3> QED
      BY <3>1
  <2> QED
    BY <1>2, <2>1, <2>2
<1>6. ASSUME NEW K \in Clusters(tallies, scoring), NEW L \in Clusters(tallies, scoring)
      PROVE  K = L \/ K \cap L = {}
  <2>1. (\E k : K = With(k)) /\ (\E l : L = With(l))
    BY <1>4
  <2> QED
    BY <2>1
<1> QED
  BY <1>5, <1>6 DEF edges
-----------------------------------------------------------------------------
\* Modules do not overlap, have two files or more, and join only files that a chain of coupled
\* pairs connects.
ModulesAreConnected ==
    LET edges   == Coupled(read.counts, read.scores)
        modules == Mined(read).clusters
    IN  /\ \A K \in modules :
              /\ K \subseteq Linked(edges) /\ Cardinality(K) >= 2
              /\ \A X \in SUBSET File : Separate(edges, X) => K \subseteq X \/ K \cap X = {}
        /\ \A K, L \in modules : K = L \/ K \cap L = {}

\* However the labels move in _cluster_repo, and however many rounds they have, what is called
\* a module is held together by coupled pairs: a set of files that no coupled pair leaves holds
\* each module whole or not at all.  For up to eight commits, as for ScoresKeepTheRegistry.
THEOREM ModulesHoldTogether ==
    ASSUME Cardinality(Commit) <= 8 PROVE StatsSpec => []ModulesAreConnected
<1>1. NumbersInv => ModulesAreConnected
  <2> SUFFICES ASSUME NumbersInv PROVE ModulesAreConnected
    OBVIOUS
  <2> DEFINE edges == Coupled(read.counts, read.scores)
  <2>1. PICK C \in SUBSET Commit, R \in SUBSET Commit : read.counts = Counts(C, R)
    BY DEF NumbersInv
  <2>2. Eligible(C, R) \in SUBSET Commit /\ CountedFrom(Eligible(C, R), read.counts)
    BY <2>1, CountsAreOfEligible, EligibleIsCommits
  <2>3. ASSUME NEW p \in DOMAIN read.scores PROVE p \in Pair /\ Npmi(read.scores[p]) \in Int
    <3>1. read.scores = Scored(read.counts)
      BY <2>3, NothingScored DEF NumbersInv
    <3>2. Cardinality(Commit) \in Nat
      BY CommitAssumption, FS_CardinalityType
    <3>3. p \in Pair /\ IsTable(read.scores[p]) /\ read.scores[p].n <= 8
      BY <2>2, <2>3, <3>1, <3>2, ScoredIsATable
    <3> QED
      BY <3>3, InformationIsBounded
  <2>4. AreEdges(read.scores, edges)
    BY <2>3 DEF AreEdges, Coupled
  <2>5. Mined(read).clusters = Clusters(read.counts, read.scores)
    BY DEF Mined
  <2> DEFINE modules == Clusters(read.counts, read.scores)
  <2>6. /\ \A K \in modules :
              /\ K \subseteq Linked(edges) /\ Cardinality(K) >= 2
              /\ \A X \in SUBSET File : Separate(edges, X) => K \subseteq X \/ K \cap X = {}
        /\ \A K, L \in modules : K = L \/ K \cap L = {}
    BY <2>4, ClustersAreConnected, CountAssumption, MiningAssumption
  <2> QED
    BY <2>5, <2>6 DEF ModulesAreConnected
<1> QED
  BY <1>1, NumbersInvariant, PTL
-----------------------------------------------------------------------------
(* Risk and drift. *)

\* A rank is below the number of what is ranked and follows the values.
LEMMA RanksFollowValues ==
    ASSUME NEW value, IsFiniteSet(DOMAIN value), \A g \in DOMAIN value : value[g] \in Int,
           NEW f \in DOMAIN value
    PROVE  /\ Rank(value, f) \in 0..(Cardinality(DOMAIN value) - 1)
           /\ \A g \in DOMAIN value : value[f] <= value[g] => Rank(value, f) <= Rank(value, g)
<1> DEFINE UpTo(g) == {h \in DOMAIN value : value[h] <= value[g]}
<1>1. \A g : UpTo(g) \in SUBSET DOMAIN value
  OBVIOUS
<1>2. ASSUME NEW g
      PROVE  /\ IsFiniteSet(UpTo(g)) /\ Cardinality(UpTo(g)) \in Nat
             /\ Cardinality(UpTo(g)) <= Cardinality(DOMAIN value)
  BY <1>1, FS_Subset, FS_CardinalityType
<1>3. Cardinality(UpTo(f)) # 0
  <2>1. f \in UpTo(f)
    OBVIOUS
  <2> HIDE DEF UpTo
  <2> QED
    BY <1>2, <2>1, FS_EmptySet
<1>4. \A g : Rank(value, g) = Cardinality(UpTo(g)) - 1
  BY DEF Rank
<1>5. ASSUME NEW g \in DOMAIN value, value[f] <= value[g]
      PROVE  Cardinality(UpTo(f)) <= Cardinality(UpTo(g))
  <2>1. UpTo(f) \in SUBSET UpTo(g)
    BY <1>5
  <2> HIDE DEF UpTo
  <2> QED
    BY <1>2, <2>1, FS_Subset
<1>6. Cardinality(DOMAIN value) \in Nat
  BY FS_CardinalityType
<1> HIDE DEF UpTo
<1> QED
  BY <1>2, <1>3, <1>4, <1>5, <1>6

\* The ranks of a file stay below the number of files, so that percentiles are at most one, and
\* the rank of its changes follows them; its authors' squared shares of its changes lie between
\* those of one author for each change and of one for all, so that ownership_hhi is above zero
\* and at most one.
RiskIsInRange ==
    LET risk == Mined(read).risk
    IN  \A f \in DOMAIN risk :
            /\ {risk[f].churn, risk[f].coupling} \subseteq 0..(Cardinality(DOMAIN risk) - 1)
            /\ \A g \in DOMAIN risk :
                  risk[f].changes <= risk[g].changes => risk[f].churn <= risk[g].churn
            /\ risk[f].changes > 0
            /\ risk[f].changes <= risk[f].shares /\ risk[f].shares <= Square(risk[f].changes)

\* What is proved of risk, for the counts of any set of commits.
LEMMA RiskOfCounts ==
    ASSUME CountAssumption, NEW C \in SUBSET Commit, NEW R \in SUBSET Commit
    PROVE  LET risk == Risk(Counts(C, R))
           IN  \A f \in DOMAIN risk :
                  /\ {risk[f].churn, risk[f].coupling} \subseteq 0..(Cardinality(DOMAIN risk) - 1)
                  /\ \A g \in DOMAIN risk :
                        risk[f].changes <= risk[g].changes => risk[f].churn <= risk[g].churn
                  /\ risk[f].changes > 0
                  /\ risk[f].changes <= risk[f].shares
                  /\ risk[f].shares <= Square(risk[f].changes)
<1> DEFINE c == Counts(C, R)
           files    == {f \in File : c.changes[f] > 0}
           changes  == [f \in files |-> c.changes[f]]
           partners == [f \in files |-> Cardinality({p \in DOMAIN c.n_ab : f \in Ends(p)})]
           shares(f) == Total([w \in Author |-> Square(c.owners[f][w])])
           risk == Risk(c)
<1>1. risk = [f \in files |-> [churn |-> Rank(changes, f), coupling |-> Rank(partners, f),
                               shares |-> shares(f), changes |-> changes[f]]]
  BY DEF Risk
<1>2. /\ c.changes = [f \in File |-> Cardinality(Touching(C, f))]
      /\ c.owners = [f \in File |-> [w \in Author |->
                        Cardinality({d \in Touching(C, f) : WrittenBy[d] = w})]]
      /\ DOMAIN c.n_ab \subseteq Pair
  BY DEF Counts, Owners
<1>3. \A f : Touching(C, f) \in SUBSET Commit /\ Cardinality(Touching(C, f)) \in Nat
  <2> TAKE f
  <2>1. Touching(C, f) \in SUBSET Commit
    BY DEF Touching
  <2> QED
    BY CommitAssumption, <2>1, FS_Subset, FS_CardinalityType DEF CountAssumption
<1> HIDE DEF c
<1>4. IsFiniteSet(files) /\ files \subseteq File
  <2>1. files \in SUBSET File
    OBVIOUS
  <2> QED
    BY CommitAssumption, <2>1, FS_Subset DEF CountAssumption
<1>5. DOMAIN changes = files /\ \A f \in files : changes[f] \in Int /\ changes[f] = c.changes[f]
  BY <1>2, <1>3
<1>6. DOMAIN partners = files /\ \A f \in files : partners[f] \in Int
  <2> DEFINE Of(f) == {p \in DOMAIN c.n_ab : f \in Ends(p)}
  <2>1. IsFiniteSet(DOMAIN c.n_ab)
    <3>1. Pair \in SUBSET ((File \X File) \cup (Directory \X Directory))
      BY DEF Pair
    <3>2. IsFiniteSet((File \X File) \cup (Directory \X Directory))
      BY CommitAssumption, FS_Product, FS_Union DEF CountAssumption
    <3> QED
      BY <1>2, <3>1, <3>2, FS_Subset
  <2>2. ASSUME NEW f PROVE Cardinality(Of(f)) \in Nat
    <3>1. Of(f) \in SUBSET DOMAIN c.n_ab
      OBVIOUS
    <3> QED
      BY <2>1, <3>1, FS_Subset, FS_CardinalityType
  <2>3. \A f \in files : partners[f] = Cardinality(Of(f))
    OBVIOUS
  <2>4. \A f \in files : partners[f] \in Int
    <3> HIDE DEF partners, Of
    <3> QED
      BY <2>2, <2>3
  <2> QED
    BY <2>4
<1>7. ASSUME NEW f \in files
      PROVE  changes[f] <= shares(f) /\ shares(f) <= Square(changes[f]) /\ changes[f] > 0
  <2> DEFINE T == Touching(C, f)
  <2>1. c.owners[f] = [w \in Author |-> Cardinality({d \in T : WrittenBy[d] = w})]
    BY <1>2, <1>4
  <2>2. [w \in Author |-> Square(c.owners[f][w])]
          = [w \in Author |-> Square(Cardinality({d \in T : WrittenBy[d] = w}))]
    BY <2>1
  <2>3. changes[f] = Cardinality(T) /\ changes[f] > 0
    BY <1>2, <1>4, <1>5
  <2> HIDE DEF T, changes
  <2>4. T \in SUBSET Commit
    BY <1>3 DEF T
  <2>5. Cardinality(T) <= shares(f) /\ shares(f) <= Cardinality(T) * Cardinality(T)
    BY <2>2, <2>4, SharesAddUp
  <2> QED
    BY <2>3, <2>5 DEF Square
<1> HIDE DEF files, changes, partners, shares, risk
<1>8. DOMAIN risk = files
  BY <1>1
<1>9. ASSUME NEW f \in files
      PROVE  /\ Rank(changes, f) \in 0..(Cardinality(files) - 1)
             /\ Rank(partners, f) \in 0..(Cardinality(files) - 1)
             /\ \A g \in files : changes[f] <= changes[g] => Rank(changes, f) <= Rank(changes, g)
  <2>1. /\ Rank(changes, f) \in 0..(Cardinality(files) - 1)
        /\ \A g \in files : changes[f] <= changes[g] => Rank(changes, f) <= Rank(changes, g)
    BY <1>4, <1>5, RanksFollowValues
  <2>2. Rank(partners, f) \in 0..(Cardinality(files) - 1)
    BY <1>4, <1>6, RanksFollowValues
  <2> QED
    BY <2>1, <2>2
<1>10. ASSUME NEW f \in files
       PROVE  /\ risk[f].churn = Rank(changes, f) /\ risk[f].coupling = Rank(partners, f)
              /\ risk[f].shares = shares(f) /\ risk[f].changes = changes[f]
  BY <1>1
<1> QED
  BY <1>7, <1>8, <1>9, <1>10 DEF risk, c

\* Whatever history a repository was mined from, _rebuild_risk ranks within bounds, however many
\* files and authors there are.
\* Whatever history a repository was mined from, _rebuild_risk ranks within bounds, however many
\* files and authors there are.
THEOREM RiskStaysInRange == StatsSpec => []RiskIsInRange
<1>1. NumbersInv => RiskIsInRange
  <2> SUFFICES ASSUME NumbersInv PROVE RiskIsInRange
    OBVIOUS
  <2>1. PICK C \in SUBSET Commit, R \in SUBSET Commit : read.counts = Counts(C, R)
    BY DEF NumbersInv
  <2>2. Mined(read).risk = Risk(Counts(C, R))
    BY <2>1 DEF Mined
  <2> QED
    BY <2>2, RiskOfCounts, CountAssumption DEF RiskIsInRange
<1> QED
  BY <1>1, NumbersInvariant, PTL

\* The two windows of a drifting pair share out what its pair table counts.
DriftAddsUp ==
    Settled /\ ~unmined /\ Undisturbed =>
        LET drift == Mined(read).drift
        IN  \A p \in DOMAIN drift :
               IF drift[p].recent + drift[p].historic >= Support
               THEN /\ p \in DOMAIN counts.n_ab
                    /\ counts.n_ab[p] = drift[p].recent + drift[p].historic
               ELSE p \notin DOMAIN counts.n_ab

\* Commits are in one of the two windows.
LEMMA WindowsAddUp ==
    ASSUME CountAssumption, NEW S \in SUBSET Commit, NEW T \in SUBSET S, NEW p
    PROVE  NumberOf(T, p) + NumberOf(S \ T, p) = NumberOf(S, p)
<1> DEFINE A == Together(T, p)
           B == Together(S \ T, p)
<1>1. A \cup B = Together(S, p) /\ A \cap B = {} /\ A \in SUBSET Commit /\ B \in SUBSET Commit
  BY DEF Together, Touching
<1>2. NumberOf(T, p) = Cardinality(A) /\ NumberOf(S \ T, p) = Cardinality(B)
      /\ NumberOf(S, p) = Cardinality(A \cup B)
  BY <1>1 DEF NumberOf
<1> HIDE DEF A, B
<1>3. IsFiniteSet(A) /\ IsFiniteSet(B) /\ Cardinality(A) \in Nat /\ Cardinality(B) \in Nat
  BY CommitAssumption, <1>1, FS_Subset, FS_CardinalityType DEF CountAssumption
<1>4. Cardinality(A \cup B) = Cardinality(A) + Cardinality(B) - Cardinality(A \cap B)
  BY <1>3, FS_Union
<1>5. Cardinality(A \cap B) = 0
  BY <1>1, FS_EmptySet
<1> QED
  BY <1>2, <1>3, <1>4, <1>5
\* pair_drift and file_pair come from two passes over the history, at different times, by
\* different code (_rebuild_drift, rebuild_repo): in a settled repository that was mined since
\* it was counted they agree on every pair they share.
THEOREM DriftAgreesWithTables == StatsSpec => []DriftAddsUp
<1>1. SettledIsCounted /\ MinedIsCurrent /\ TypeOK => DriftAddsUp
  <2> SUFFICES ASSUME SettledIsCounted, MinedIsCurrent, TypeOK, Settled, ~unmined, Undisturbed,
                      NEW p \in DOMAIN Mined(read).drift
               PROVE  LET drift == Mined(read).drift
                      IN  IF drift[p].recent + drift[p].historic >= Support
                          THEN /\ p \in DOMAIN counts.n_ab
                               /\ counts.n_ab[p] = drift[p].recent + drift[p].historic
                          ELSE p \notin DOMAIN counts.n_ab
    BY DEF DriftAddsUp
  <2> DEFINE S == Eligible(stored, replay)
             recent == {c \in S : When[c] >= read.today - Window}
  <2>1. counts = Counts(stored, replay)
    BY DEF SettledIsCounted
  <2>2. S \in SUBSET Commit /\ recent \in SUBSET S
    BY EligibleIsCommits DEF TypeOK
  <2>3. Mined(read).drift = Drift(S, read.today)
    BY DEF MinedIsCurrent, Mined, Reading
  <2>4. /\ p \in Pair
        /\ Mined(read).drift[p].recent = NumberOf(recent, p)
        /\ Mined(read).drift[p].historic = NumberOf(S \ recent, p)
    BY <2>3 DEF Drift
  <2>5. counts.n_ab = [q \in {q \in Pair : NumberOf(S, q) >= Support} |-> NumberOf(S, q)]
    BY <2>1 DEF Counts
  <2> HIDE DEF S, recent
  <2>6. NumberOf(recent, p) + NumberOf(S \ recent, p) = NumberOf(S, p)
    BY <2>2, WindowsAddUp, CountAssumption
  <2> QED
    BY <2>4, <2>5, <2>6
<1> QED
  BY <1>1, SettledNumbers, MiningIsCurrent, SyncCarriesOver, PTL
=============================================================================
