------------------------------ MODULE ApiProcess ------------------------------
(***************************************************************************)
(* The API process (api/main.py): its threads serve the requests of Access, *)
(* every call that ends is recorded in its CallLog, and it stops, dies and  *)
(* starts again while both go on.  `Read` are the calls that change nothing *)
(* (a page of the dashboard, an MCP tool of the other server): they are     *)
(* only recorded.                                                           *)
(***************************************************************************)
EXTENDS Access, CallLog

CONSTANTS
    Read,           \* calls that only read
    MaxFaults       \* bound: deaths of the process and failed inserts

ASSUME ProcessAssumption ==
    /\ Entry = Call \cup Read /\ Call \cap Read = {}
    /\ MaxFaults \in Nat

VARIABLES
    up,         \* is the process there?
    reads,      \* the calls of Read that have been answered
    disturbed,  \* has an insert failed, or the process stopped?
    faults

vars == <<accessVars, logVars, up, reads, disturbed, faults>>

TypeOK ==
    /\ AccessTypeOK /\ LogTypeOK
    /\ up \in BOOLEAN /\ disturbed \in BOOLEAN
    /\ reads \subseteq Read
    /\ faults \in 0..MaxFaults

Init ==
    /\ AccessInit /\ LogInit
    /\ up = TRUE /\ disturbed = FALSE
    /\ reads = {} /\ faults = 0

Serving == up /\ ~exiting

Serve ==
    /\ Serving
    /\ AccessStep
    /\ UNCHANGED <<logVars, up, reads, disturbed, faults>>

\* _record_calls: the middleware records the request when its reply is there.
Answer(q) ==
    /\ Serving
    /\ request[q].at = "answered"
    /\ request' = [request EXCEPT ![q] = Quiet("over")]
    /\ Record(q)
    /\ UNCHANGED <<user, overtaken, raced, up, reads, disturbed, faults>>

AnswerRead(r) ==
    /\ Serving
    /\ r \notin reads
    /\ reads' = reads \cup {r}
    /\ Record(r)
    /\ UNCHANGED <<accessVars, up, disturbed, faults>>

Elsewhere == UNCHANGED <<accessVars, up, reads>>

Flush ==
    /\ up
    /\ Take \/ Insert \/ Wake \/ DrainTake \/ DrainInsert
    /\ Elsewhere /\ UNCHANGED <<disturbed, faults>>

\* A batch with a row that does not parse fails before it reaches the database.
FlushFails ==
    /\ up
    /\ IF Readable(batch) THEN faults < MaxFaults /\ faults' = faults + 1 ELSE UNCHANGED faults
    /\ InsertFails
    /\ disturbed' = TRUE
    /\ Elsewhere

\* The scheduler's runs prune, whatever the API does.
Retain ==
    /\ GrowOld \/ PruneFind \/ PruneDelete \/ PruneFails
    /\ Elsewhere /\ UNCHANGED <<disturbed, faults>>

\* The server stops taking requests, waits for those it serves, and drains.
Stop ==
    /\ Serving /\ faults < MaxFaults
    /\ Running = {} /\ \A q \in Call : request[q].at # "answered"
    /\ Exit
    /\ faults' = faults + 1 /\ disturbed' = TRUE
    /\ Elsewhere

Stopped ==
    /\ \/ Drained /\ UNCHANGED faults
       \/ /\ DrainFails
          /\ IF Readable(drain) THEN faults < MaxFaults /\ faults' = faults + 1 ELSE UNCHANGED faults
    /\ up' = FALSE
    /\ UNCHANGED <<accessVars, reads, disturbed>>

Kill ==
    /\ up /\ faults < MaxFaults
    /\ Abandon /\ Vanish
    /\ up' = FALSE
    /\ faults' = faults + 1 /\ disturbed' = TRUE
    /\ UNCHANGED reads

\* lifespan: the administrator of the environment, before anything is served.
Start ==
    /\ ~up
    /\ up' = TRUE
    /\ EnsureAdmin
    /\ UNCHANGED <<logVars, reads, disturbed, faults>>

Next ==
    \/ Serve
    \/ \E q \in Call : Answer(q)
    \/ \E r \in Read : AnswerRead(r)
    \/ Flush \/ FlushFails \/ Retain \/ Stop \/ Stopped \/ Kill \/ Start

Spec == Init /\ [][Next]_vars

\* The thread goes on flushing, a process that stops drains and stops, and the container is
\* started again.  Nobody has to call.
FairSpec ==
    /\ Spec
    /\ WF_vars(Flush \/ FlushFails)
    /\ WF_vars(Stopped)
    /\ WF_vars(Start)
-----------------------------------------------------------------------------
(* Properties of the composition. *)

Recorded == {q \in Call : request[q].at = "over"} \cup reads

\* "An under-report that says so is honest; a silent one is not": while no insert failed and
\* the process has not stopped, the calls that cannot be found are exactly as many as it says
\* it dropped.
DropsAreCounted == ~disturbed => Cardinality(Recorded \ Kept) = dropped

\* "A row goes to a bounded queue and one daemon thread batches the inserts": no call stays on
\* its way for ever, whichever insert failed or however the process ended.
EveryCallSettles == []<>(queue = <<>> /\ batch = <<>> /\ drain = <<>>)

\* The same count with failures and restarts: what a failed insert or the end of the process
\* took is not counted anywhere.
NoneIsSilent == Cardinality(Recorded \ Kept) <= dropped
=============================================================================
