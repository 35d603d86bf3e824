----------------------------- MODULE Contingency ------------------------------
(***************************************************************************)
(* The 2x2 table every association measure is a function of                 *)
(* (stats/contingency.py).  Counts are natural numbers, so the float arrays *)
(* of the code are exact here; a quotient is a pair <<numerator,            *)
(* denominator>> with a positive denominator.                               *)
(***************************************************************************)
EXTENDS Integers

Smaller(x, y) == IF x <= y THEN x ELSE y
Larger(x, y)  == IF x >= y THEN x ELSE y

\* np.clip: the lower bound is applied first.
Clip(x, lo, hi) == Smaller(Larger(x, lo), hi)

\* The table from its cell a and its marginals.
Table(a, n_a, n_b, n) ==
    [a |-> a, b |-> n_a - a, c |-> n_b - a, d |-> n - n_a - n_b + a,
     n_a |-> n_a, n_b |-> n_b, n |-> n]

\* Contingency.from_counts: counts no table can have are moved to the nearest that one can.
FromCounts(n_ab, n_a, n_b, n) ==
    LET na == Clip(n_a, 0, n)
        nb == Clip(n_b, 0, n)
    IN  Table(Clip(n_ab, Larger(0, na + nb - n), Smaller(na, nb)), na, nb, n)

\* "A 2x2 table only exists when max(0, n_a + n_b - N) <= n_ab <= min(n_a, n_b)."
Feasible(n_ab, n_a, n_b, n) ==
    /\ n_a \in 0..n /\ n_b \in 0..n
    /\ Larger(0, n_a + n_b - n) <= n_ab /\ n_ab <= Smaller(n_a, n_b)

\* is_degenerate: a marginal that covers nothing or everything.
IsDegenerate(t) == t.n <= 0 \/ t.n_a <= 0 \/ t.n_b <= 0 \/ t.n_a >= t.n \/ t.n_b >= t.n

Zero == <<0, 1>>

\* safe_div: nothing over nothing is zero.
SafeDiv(num, den) == IF den = 0 THEN Zero ELSE <<num, den>>
=============================================================================
