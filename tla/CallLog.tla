------------------------------- MODULE CallLog --------------------------------
(***************************************************************************)
(* The call log (analysis/calls.py): callers put rows on a bounded queue    *)
(* without waiting, one daemon thread inserts them in batches, what is left *)
(* is drained when the process exits, and ingest runs prune the table.      *)
(*                                                                          *)
(* Abstractions: a row is its call.  The gets that fill one batch are one   *)
(* step.  `Unreadable` are the calls whose arguments, cut at 8000           *)
(* characters, no longer parse when the row is inserted.                    *)
(***************************************************************************)
EXTENDS Integers, FiniteSets, Sequences, SequencesExt, FiniteSetsExt

CONSTANTS
    Entry,          \* what may be recorded
    Unreadable,     \* entries whose arguments do not survive being cut
    QueueMax,       \* _QUEUE_MAX
    BatchMax,       \* the limit of _flush_once
    KeepRows        \* KEEP_ROWS

ASSUME LogAssumption ==
    /\ Unreadable \subseteq Entry
    /\ QueueMax \in Nat \ {0} /\ BatchMax \in Nat \ {0} /\ KeepRows \in Nat \ {0}

VARIABLES
    queue,      \* _queue
    worker,     \* the daemon thread
    batch,      \* the rows it is inserting
    exiting,    \* is the process draining its queue to exit?
    drain,      \* the rows the exiting thread is inserting
    dropped,    \* _dropped
    table,      \* call_log, in the order of its ids
    old,        \* how many of its rows, from the first, are past KEEP_DAYS
    pruned,     \* rows dropped by prune
    pruning     \* the prune under way, and what it has read

logVars == <<queue, worker, batch, exiting, drain, dropped, table, old, pruned, pruning>>

LogTypeOK ==
    /\ queue \in Seq(Entry) /\ Len(queue) <= QueueMax
    /\ worker \in {"none", "idle", "inserting", "asleep"}
    /\ batch \in Seq(Entry) /\ drain \in Seq(Entry)
    /\ exiting \in BOOLEAN
    /\ dropped \in Nat
    /\ table \in Seq(Entry) /\ old \in 0..Len(table)
    /\ pruned \subseteq Entry
    /\ pruning \in [on : BOOLEAN, seen : 0..Len(table), aged : 0..old]

\* `seen` rows were in the table when the threshold was read, `aged` of them past the cutoff.
NoPrune == [on |-> FALSE, seen |-> 0, aged |-> 0]

LogInit ==
    /\ queue = <<>> /\ worker = "none" /\ batch = <<>>
    /\ exiting = FALSE /\ drain = <<>> /\ dropped = 0
    /\ table = <<>> /\ old = 0 /\ pruned = {} /\ pruning = NoPrune

\* Mutant: a full queue makes room by forgetting its oldest row.
RecordEvicts(e) ==
    /\ worker' = IF worker = "none" THEN "idle" ELSE worker
    /\ queue' = IF Len(queue) < QueueMax THEN Append(queue, e) ELSE Append(Tail(queue), e)
    /\ UNCHANGED <<batch, exiting, drain, dropped, table, old, pruned, pruning>>

\* record, with _ensure_worker: "Never raises, never blocks".
Record(e) ==
    /\ worker' = IF worker = "none" THEN "idle" ELSE worker
    /\ IF Len(queue) < QueueMax THEN queue' = Append(queue, e) /\ UNCHANGED dropped
       ELSE dropped' = dropped + 1 /\ UNCHANGED queue
    /\ UNCHANGED <<batch, exiting, drain, table, old, pruned, pruning>>

Batch == SubSeq(queue, 1, Min({BatchMax, Len(queue)}))
Rest  == SubSeq(queue, Min({BatchMax, Len(queue)}) + 1, Len(queue))

\* Mutant: the rows stay on the queue until the insert, and the insert takes them all off.
TakeKeepsQueue ==
    /\ worker = "idle" /\ queue # <<>>
    /\ worker' = "inserting"
    /\ batch' = Batch
    /\ UNCHANGED <<queue, exiting, drain, dropped, table, old, pruned, pruning>>

\* _flush_once(block=True)
Take ==
    /\ worker = "idle" /\ queue # <<>>
    /\ worker' = "inserting"
    /\ batch' = Batch /\ queue' = Rest
    /\ UNCHANGED <<exiting, drain, dropped, table, old, pruned, pruning>>

Readable(rows) == Range(rows) \cap Unreadable = {}

Insert ==
    /\ worker = "inserting" /\ Readable(batch)
    /\ table' = table \o batch
    /\ batch' = <<>> /\ worker' = "idle"
    /\ UNCHANGED <<queue, exiting, drain, dropped, old, pruned, pruning>>

\* Mutant: the failure ends the thread.
InsertFailsDies ==
    /\ worker = "inserting"
    /\ batch' = <<>> /\ worker' = "dead"
    /\ UNCHANGED <<queue, exiting, drain, dropped, table, old, pruned, pruning>>

\* _flush_forever: the batch is gone, and the thread goes on after five seconds.
InsertFails ==
    /\ worker = "inserting"
    /\ batch' = <<>> /\ worker' = "asleep"
    /\ UNCHANGED <<queue, exiting, drain, dropped, table, old, pruned, pruning>>

Wake ==
    /\ worker = "asleep"
    /\ worker' = "idle"
    /\ UNCHANGED <<queue, batch, exiting, drain, dropped, table, old, pruned, pruning>>

\* _drain_at_exit, beside the daemon thread.
Exit ==
    /\ ~exiting
    /\ exiting' = TRUE
    /\ UNCHANGED <<queue, worker, batch, drain, dropped, table, old, pruned, pruning>>

DrainTake ==
    /\ exiting /\ drain = <<>> /\ queue # <<>>
    /\ drain' = Batch /\ queue' = Rest
    /\ UNCHANGED <<worker, batch, exiting, dropped, table, old, pruned, pruning>>

DrainInsert ==
    /\ drain # <<>> /\ Readable(drain)
    /\ table' = table \o drain
    /\ drain' = <<>>
    /\ UNCHANGED <<queue, worker, batch, exiting, dropped, old, pruned, pruning>>

\* The process is gone, and all it held with it.
Vanish ==
    /\ queue' = <<>> /\ worker' = "none" /\ batch' = <<>>
    /\ exiting' = FALSE /\ drain' = <<>> /\ dropped' = 0
    /\ UNCHANGED <<table, old, pruned, pruning>>

\* The last insert is done, or one failed and the drain with it.
Drained == exiting /\ drain = <<>> /\ queue = <<>> /\ Vanish
DrainFails == exiting /\ drain # <<>> /\ Vanish

\* A row gets past KEEP_DAYS.
GrowOld ==
    /\ old < Len(table)
    /\ old' = old + 1
    /\ UNCHANGED <<queue, worker, batch, exiting, drain, dropped, table, pruned, pruning>>

\* prune, at the end of a run, which the run lock admits one at a time: the cutoff, and the
\* KEEP_ROWS-th newest id, which a shorter table does not have.
PruneFind ==
    /\ ~pruning.on
    /\ pruning' = [on |-> TRUE, seen |-> Len(table), aged |-> old]
    /\ UNCHANGED <<queue, worker, batch, exiting, drain, dropped, table, old, pruned>>

Threshold == pruning.seen - (KeepRows - 1)

\* The front of the table goes, of which `old` may have grown since.
Cut(doomed) ==
    /\ table' = SubSeq(table, Cardinality(doomed) + 1, Len(table))
    /\ pruned' = pruned \cup {table[i] : i \in doomed}
    /\ old' = Max({0, old - Cardinality(doomed)})
    /\ pruning' = NoPrune
    /\ UNCHANGED <<queue, worker, batch, exiting, drain, dropped>>

\* Mutant: the threshold row goes too.
PruneThreshold ==
    /\ pruning.on
    /\ Cut({i \in DOMAIN table : i <= pruning.aged \/ i <= Threshold})

\* The delete, a statement of its own: it sees what was inserted meanwhile.
PruneDelete ==
    /\ pruning.on
    /\ Cut({i \in DOMAIN table : i <= pruning.aged \/ i < Threshold})

\* _prune_call_log logs the error; or the run's process dies.
PruneFails ==
    /\ pruning.on
    /\ pruning' = NoPrune
    /\ UNCHANGED <<queue, worker, batch, exiting, drain, dropped, table, old, pruned>>

-----------------------------------------------------------------------------
(* Properties. *)

\* Where a recorded call can be found.
Kept == Range(queue) \cup Range(batch) \cup Range(drain) \cup Range(table) \cup pruned

\* No row is stored twice, or stored and still on its way: a flush takes from the queue what
\* it inserts, and a failed one does not try again.
StoredOnce ==
    LET places == queue \o batch \o drain \o table
    IN  IsInjective(places) /\ Range(places) \cap pruned = {}

\* "Pruned by age and by count", while others insert: no row goes that is not past KEEP_DAYS
\* and has fewer than KEEP_ROWS newer rows beside it, although the threshold is one of an
\* earlier table; and a prune leaves no more than KEEP_ROWS rows and those that arrived since
\* it read the threshold, and none that was past KEEP_DAYS when it began.
PruneKeepsNewest ==
    [][/\ \A i \in DOMAIN table : table[i] \in pruned' \ pruned =>
             i <= old \/ Len(table) - i >= KeepRows
       /\ PruneDelete => /\ Len(table') <= KeepRows + (Len(table) - pruning.seen)
                         /\ old' <= old - pruning.aged]_logVars
=============================================================================
