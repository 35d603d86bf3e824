--------------------------- MODULE MCIngestRuns -----------------------------
(***************************************************************************)
(* Small instances of IngestRuns: one or two scheduler threads and an API    *)
(* process, interchangeable repositories and row ids.                        *)
(***************************************************************************)
EXTENDS IngestRuns, TLC

\* Sound for the runs without liveness: nothing in them tells repositories or rows apart.
Interchangeable == Permutations(Repo) \cup Permutations(RunId)
=============================================================================
