------------------------------ MODULE Measures --------------------------------
(***************************************************************************)
(* Association measures (stats/measures.py) and what the registry declares  *)
(* of them (stats/registry.py).                                             *)
(*                                                                          *)
(* A measure whose value is rational is that rational.  One that is a       *)
(* square root, or a quotient with one in it, is its square with the sign   *)
(* of the value: squaring keeps order, sign, zero, and the bounds -1, 0 and *)
(* 1, which are all the registry states.  The logarithms of the pointwise   *)
(* mutual informations are read from a table in thousandths, which serves   *)
(* populations up to 8.                                                     *)
(***************************************************************************)
EXTENDS Contingency, Sequences

AtMost(x, y) == x[1] * y[2] <= y[1] * x[2]

Sum2(x, y) == <<x[1] * y[2] + y[1] * x[2], x[2] * y[2]>>
Half(x)    == <<x[1], 2 * x[2]>>

Signed(sign, x) == IF sign < 0 THEN <<-x[1], x[2]>> ELSE x

Square(x) == x * x

-----------------------------------------------------------------------------
(* Similarity and overlap. *)

Jaccard(t)       == SafeDiv(t.a, t.a + t.b + t.c)
Dice(t)          == SafeDiv(2 * t.a, 2 * t.a + t.b + t.c)
Sorensen(t)      == Dice(t)
Ochiai(t)        == SafeDiv(Square(t.a), t.n_a * t.n_b)     \* squared
Simpson(t)       == SafeDiv(t.a, Smaller(t.n_a, t.n_b))
BraunBlanquet(t) == SafeDiv(t.a, Larger(t.n_a, t.n_b))

\* Mutant: the sum of the two conditional probabilities instead of their mean.
KulczynskiSum(t) == Sum2(SafeDiv(t.a, t.n_a), SafeDiv(t.a, t.n_b))

Kulczynski(t) == Half(Sum2(SafeDiv(t.a, t.n_a), SafeDiv(t.a, t.n_b)))

(* Matching coefficients. *)

RussellRao(t)     == SafeDiv(t.a, t.n)
SokalMichener(t)  == SafeDiv(t.a + t.d, t.n)
RogersTanimoto(t) == SafeDiv(t.a + t.d, t.a + t.d + 2 * (t.b + t.c))
Hamann(t)         == SafeDiv((t.a + t.d) - (t.b + t.c), t.n)
Faith(t)          == SafeDiv(2 * t.a + t.d, 2 * t.n)

(* Information. *)

\* log2 of 1..8 in thousandths.
Log2 == <<0, 1000, 1585, 2000, 2322, 2585, 2807, 3000>>

\* Thousandths of a bit; zero where the ratio is not positive.
Pmi(t) ==
    IF t.a > 0 THEN Log2[t.a] + Log2[t.n] - Log2[t.n_a] - Log2[t.n_b] ELSE 0

\* Thousandths.  "never" and "always" override the quotient, the clip comes last.
Npmi(t) ==
    Clip(IF t.n > 0 /\ t.a >= t.n THEN 1000
         ELSE IF t.a <= 0 THEN IF t.n_a > 0 /\ t.n_b > 0 /\ t.n > 0 THEN -1000 ELSE 0
         ELSE (1000 * Pmi(t)) \div (Log2[t.n] - Log2[t.a]),
         -1000, 1000)

Ppmi(t) == Larger(Pmi(t), 0)

(* Significance and correlation. *)

Skew(t) == t.a * t.d - t.b * t.c

ChiSquare(t) == SafeDiv(t.n * Square(Skew(t)), t.n_a * t.n_b * (t.c + t.d) * (t.b + t.d))

\* a - E as a numerator over N.
Excess(t) == t.a * t.n - t.n_a * t.n_b

TScore(t) == Signed(Excess(t), SafeDiv(Square(Excess(t)), Square(t.n) * Larger(t.a, 1)))  \* squared
ZScore(t) == Signed(Excess(t), SafeDiv(Square(Excess(t)), t.n * t.n_a * t.n_b))           \* squared

Phi(t) == Signed(Skew(t),
                 SafeDiv(Square(Skew(t)), t.n_a * t.n_b * (t.c + t.d) * (t.b + t.d)))     \* squared

CramersV(t) == LET x == ChiSquare(t) IN SafeDiv(x[1], x[2] * t.n)                         \* squared
YulesQ(t)   == SafeDiv(Skew(t), t.a * t.d + t.b * t.c)
Michael(t)  == SafeDiv(4 * Skew(t), Square(t.a + t.d) + Square(t.b + t.c))

(* Probability, lift and direction. *)

AssociationStrength(t) == SafeDiv(t.a * t.n, t.n_a * t.n_b)
ConfidenceAB(t) == SafeDiv(t.a, t.n_a)
ConfidenceBA(t) == SafeDiv(t.a, t.n_b)

-----------------------------------------------------------------------------
(* The registry: the bounds of each measure, and the value it takes when   *)
(* the two files are independent.  A bound the registry leaves open is {}. *)

Row(lower, upper, neutral) == [lower |-> lower, upper |-> upper, neutral |-> neutral]

Unit     == Row({0}, {1}, {})
Balanced == Row({-1}, {1}, {0})

SimilarityRows ==
    [jaccard |-> Unit, dice |-> Unit, sorensen |-> Unit, ochiai |-> Unit,
     simpson |-> Unit, braun_blanquet |-> Unit, kulczynski |-> Unit]

MatchingRows ==
    [russell_rao |-> Unit, sokal_michener |-> Unit, rogers_tanimoto |-> Unit,
     hamann |-> Row({-1}, {1}, {}), faith |-> Unit]

InformationRows ==
    [pmi |-> Row({}, {}, {0}), npmi |-> Balanced, ppmi |-> Row({0}, {}, {})]

ChiSquareRow == [chi_square |-> Row({0}, {}, {})]

StandardScoreRows == [t_score |-> Row({}, {}, {0}), z_score |-> Row({}, {}, {0})]

CorrelationRows == [phi |-> Balanced, cramers_v |-> Unit, yules_q |-> Balanced]

MichaelRow == [michael |-> Balanced]

DirectionRows ==
    [association_strength |-> Row({0}, {}, {1}), confidence_ab |-> Unit,
     confidence_ba |-> Unit]

\* MEASURES, in the parts above.
Registry == {SimilarityRows, MatchingRows, InformationRows, ChiSquareRow, StandardScoreRows,
             CorrelationRows, MichaelRow, DirectionRows}

\* _score_batch: every registered measure of one table.
Scores(t) ==
    [jaccard |-> Jaccard(t), dice |-> Dice(t), sorensen |-> Sorensen(t),
     ochiai |-> Ochiai(t), simpson |-> Simpson(t), braun_blanquet |-> BraunBlanquet(t),
     kulczynski |-> Kulczynski(t),
     russell_rao |-> RussellRao(t), sokal_michener |-> SokalMichener(t),
     rogers_tanimoto |-> RogersTanimoto(t), hamann |-> Hamann(t), faith |-> Faith(t),
     pmi |-> <<Pmi(t), 1000>>, npmi |-> <<Npmi(t), 1000>>, ppmi |-> <<Ppmi(t), 1000>>,
     chi_square |-> ChiSquare(t), t_score |-> TScore(t), z_score |-> ZScore(t),
     phi |-> Phi(t), cramers_v |-> CramersV(t), yules_q |-> YulesQ(t),
     michael |-> Michael(t),
     association_strength |-> AssociationStrength(t),
     confidence_ab |-> ConfidenceAB(t), confidence_ba |-> ConfidenceBA(t)]

Whole(k) == <<k, 1>>

\* A score x of a table keeps what a row of the registry tells the reader of it.
KeepsRow(row, x, t) ==
    /\ \A k \in row.lower : AtMost(Whole(k), x)
    /\ \A k \in row.upper : AtMost(x, Whole(k))
    /\ Excess(t) = 0 /\ ~IsDegenerate(t) =>
          \A k \in row.neutral : AtMost(Whole(k), x) /\ AtMost(x, Whole(k))

KeepsRegistry(t) == LET scores == Scores(t) IN
    \A part \in Registry : \A key \in DOMAIN part : KeepsRow(part[key], scores[key], t)
=============================================================================
