----------------------------- MODULE RunLedger ------------------------------
(***************************************************************************)
(* What the ingest_run table promises a reader: a row is opened once, its    *)
(* run closes it at most once, and nobody else closes it but by giving it    *)
(* up.  Giving up is a guess: a run that was only slow still has the last    *)
(* word.  Every other verdict is final.                                      *)
(***************************************************************************)
CONSTANT RunId

VARIABLES
    verdict,    \* verdict[n]: ingest_run.status of row n, "none" while there is no row
    open        \* the rows whose run has not said its last word

Verdicts == {"success", "partial", "failed"}

Init == verdict = [n \in RunId |-> "none"] /\ open = {}

Start(n) ==
    /\ verdict[n] = "none"
    /\ verdict' = [verdict EXCEPT ![n] = "running"]
    /\ open' = open \cup {n}

\* The run's own verdict, over that of whoever gave it up.
Finish(n) ==
    /\ n \in open /\ verdict[n] \in {"running", "failed"}
    /\ \E v \in Verdicts : verdict' = [verdict EXCEPT ![n] = v]
    /\ open' = open \ {n}

\* Running rows are given up together, their runs dead or alive.
GiveUp(rows) ==
    /\ \A n \in rows : verdict[n] = "running"
    /\ verdict' = [n \in RunId |-> IF n \in rows THEN "failed" ELSE verdict[n]]
    /\ UNCHANGED open

\* A run ends without a word.
Abandon(n) ==
    /\ open' = open \ {n}
    /\ UNCHANGED verdict

Next ==
    \/ \E n \in RunId : Start(n) \/ Finish(n) \/ Abandon(n)
    \/ \E rows \in SUBSET RunId : GiveUp(rows)

Spec == Init /\ [][Next]_<<verdict, open>>
=============================================================================
