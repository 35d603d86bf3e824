------------------------------- MODULE Backtest -------------------------------
(***************************************************************************)
(* The replay of analysis/backtest.py: the countable commits in time order, *)
(* each a prompt against the counts of the ones before it, then counted.    *)
(* How a measure and the baselines rank is left out; what they rank is here.*)
(***************************************************************************)
EXTENDS CoChange, Sequences

CONSTANTS
    Warmup,             \* WARMUP_COMMITS
    MaxPrompt           \* MAX_FILES_PER_PROMPT

FilePairs(c) == {p \in Pair : p[1] \in Touched[c] /\ p[2] \in Touched[c]}

\* A commit asks about its files only when there is enough history and it is small enough.
Asks(replay, c) ==
    /\ replay.total >= Warmup
    /\ Cardinality(Touched[c]) \in 2..MaxPrompt

\* Mutant: what is not asked about is not counted either.
CountAsked(replay, c) ==
    IF replay.total < Warmup \/ Asks(replay, c)
    THEN [total    |-> replay.total + 1,
          marginal |-> [f \in File |-> replay.marginal[f] + IF f \in Touched[c] THEN 1 ELSE 0],
          joint    |-> [p \in Pair |-> replay.joint[p] + IF p \in FilePairs(c) THEN 1 ELSE 0],
          prompts  |-> replay.prompts + IF Asks(replay, c) THEN Cardinality(Touched[c]) ELSE 0]
    ELSE replay

\* One turn of run's loop, with every file of the commit as a seed.
Count(replay, c) ==
    [total    |-> replay.total + 1,
     marginal |-> [f \in File |-> replay.marginal[f] + IF f \in Touched[c] THEN 1 ELSE 0],
     joint    |-> [p \in Pair |-> replay.joint[p] + IF p \in FilePairs(c) THEN 1 ELSE 0],
     prompts  |-> replay.prompts + IF Asks(replay, c) THEN Cardinality(Touched[c]) ELSE 0]

\* _history: the flagged commits with at least one change, in the order of committed_at and id.
Earlier(c, d) == When[c] < When[d] \/ (When[c] = When[d] /\ c < d)

History(flagged) ==
    LET changed == {c \in flagged : Touched[c] # {}}
        Rank(c) == Cardinality({d \in changed : Earlier(d, c)})
    IN  [i \in 1..Cardinality(changed) |-> CHOOSE c \in changed : Rank(c) = i - 1]

NothingCounted ==
    [total |-> 0, marginal |-> [f \in File |-> 0], joint |-> [p \in Pair |-> 0], prompts |-> 0]

\* run
Replayed(flagged) ==
    LET history == History(flagged)
        replay[i \in 0..Len(history)] ==
            IF i = 0 THEN NothingCounted ELSE Count(replay[i - 1], history[i])
    IN  replay[Len(history)]
=============================================================================
