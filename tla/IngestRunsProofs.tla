-------------------------- MODULE IngestRunsProofs --------------------------
(***************************************************************************)
(* Theorems about a run, for any number of callers, repositories, rows and *)
(* faults: the lock, the verdicts of the ledger, the pool's bookkeeping,   *)
(* and the layers across repositories that a run refreshes.                *)
(*                                                                         *)
(* The breaker reads results in the order they arrive and cancels what is  *)
(* left. PoolInv says what its locals stand for: the streak is the number  *)
(* of network failures since the last success among the results read, and  *)
(* every repository is read once or has a future. The invariants of the    *)
(* layers are further down (LayersInv, SmoothInv).                         *)
(***************************************************************************)
EXTENDS IngestRuns, CrossRepo, SequenceTheorems, FiniteSetTheorems, TLAPS

-----------------------------------------------------------------------------
(* Mutual exclusion.  Only `at` and `holder` matter. *)

LockType == at \in [Caller -> Places] /\ holder \in Caller \cup {NoCaller}

LEMMA LockTypeStep == LockType /\ [Next]_vars => LockType'
<1> SUFFICES ASSUME LockType, [Next]_vars PROVE LockType'
  OBVIOUS
<1>1. ASSUME NEW c \in Caller, NEW p \in Places, Go(c, p) PROVE at' \in [Caller -> Places]
  BY <1>1 DEF Go, LockType
<1>2. ASSUME NEW c \in Caller, Commit(c) \/ Rollback(c)
      PROVE  holder' \in Caller \cup {NoCaller}
  BY <1>2 DEF Commit, Rollback, LockType, lock
<1>3. CASE UNCHANGED vars
  BY <1>3 DEF vars, lock, LockType
<1>4. ASSUME NEW c \in Caller, RunStep(c) PROVE LockType'
  <2>1. CASE Answer(c)
    BY <1>1, <2>1 DEF Answer, LockType, lock, Places
  <2>2. CASE TakeLock(c)
    BY <1>1, <2>2 DEF TakeLock, LockType, Places
  <2>3. CASE SkipRun(c) \/ InsertBehind(c)
    BY <1>1, <2>3 DEF SkipRun, InsertBehind, LockType, lock, Places
  <2>4. CASE InsertResolved(c)
    BY <1>1, <2>4 DEF InsertResolved, LockType, Places
  <2>5. CASE Reconcile(c) \/ PassChecks(c) \/ LeavePool(c) \/ FinishRun(c)
    BY <1>1, <2>5 DEF Reconcile, PassChecks, LeavePool, FinishRun, LockType, lock, Places
  <2>6. CASE Refuse(c) \/ StartPool(c)
    BY <1>1, <2>6 DEF Refuse, StartPool, LockType, lock, Places
  <2>7. CASE RecordRefusal(c) \/ ReleaseLock(c)
    BY <1>1, <1>2, <2>7 DEF RecordRefusal, ReleaseLock, LockType, Places
  <2>8. CASE DiscoverRefused(c) \/ Unwound(c)
    BY <1>1, <1>2, <2>8 DEF DiscoverRefused, Unwound, LockType, Places
  <2>9. ASSUME NEW r \in Repo,
               Pick(c, r) \/ ReadResult(c, r)
                 \/ \E o \in Outcomes \ {"cancelled"} : SyncReturns(c, r, o)
        PROVE  LockType'
    BY <2>9 DEF Pick, ReadResult, SyncReturns, LockType, lock
  <2> QED
    BY <1>4, <2>1, <2>2, <2>3, <2>4, <2>5, <2>6, <2>7, <2>8, <2>9 DEF RunStep
<1>5. ASSUME NEW c \in Caller, Ask(c) PROVE LockType'
  BY <1>1, <1>5 DEF Ask, LockType, lock, Places
<1>6. ASSUME NEW c \in Caller, Raise(c) PROVE LockType'
  <2>1. CASE at[c] = "pool"
    BY <1>1, <1>6, <2>1 DEF Raise, LockType, lock, Places
  <2>2. CASE at[c] # "pool"
    BY <1>1, <1>2, <1>6, <2>2 DEF Raise, LockType, Places
  <2> QED
    BY <2>1, <2>2
<1>7. ASSUME NEW c \in Caller, Crash(c) PROVE LockType'
  BY <1>1, <1>2, <1>7 DEF Crash, LockType, Places
<1>8. ASSUME NEW c \in Caller, LoseLock(c) PROVE LockType'
  BY <1>8 DEF LoseLock, LockType, Places
<1>9. ASSUME NEW n \in RunId, Age(n) PROVE LockType'
  BY <1>9 DEF Age, LockType, lock
<1> QED
  BY <1>3, <1>4, <1>5, <1>6, <1>7, <1>8, <1>9 DEF Next

LEMMA InsideStep ==
    ASSUME Restarts = FALSE
    PROVE  LockType /\ InsideHolds /\ [Next]_vars => InsideHolds'
<1> SUFFICES ASSUME LockType, InsideHolds, [Next]_vars PROVE InsideHolds'
  OBVIOUS
<1>1. CASE UNCHANGED vars
  BY <1>1 DEF vars, lock, InsideHolds
\* Moving within, into or out of the run, while the lock stays where it is.
<1>2. ASSUME NEW c \in Caller, NEW p \in Places, Go(c, p), holder' = holder,
             p \in Inside => at[c] \in Inside
      PROVE  InsideHolds'
  BY <1>2 DEF Go, InsideHolds, LockType
\* Leaving the run with the lock given back.
<1>3. ASSUME NEW c \in Caller, Go(c, "idle"), Commit(c) \/ Rollback(c)
      PROVE  InsideHolds'
  BY <1>3 DEF Go, Commit, Rollback, lock, InsideHolds, LockType, Inside
\* Entering it while nobody holds the lock.
<1>4. ASSUME NEW c \in Caller, holder = NoCaller, holder' = c, Go(c, "locked")
      PROVE  InsideHolds'
  BY <1>4, RunsAssumption DEF Go, InsideHolds, LockType
<1>5. ASSUME NEW c \in Caller, RunStep(c) PROVE InsideHolds'
  <2>1. CASE Answer(c) \/ SkipRun(c) \/ InsertBehind(c)
    BY <1>2, <2>1 DEF Answer, SkipRun, InsertBehind, lock, Places, Inside
  <2>2. CASE TakeLock(c)
    BY <1>4, <2>2 DEF TakeLock
  <2>3. CASE InsertResolved(c)
    <3>1. CASE lockRow
      BY <1>2, <2>3, <3>1 DEF InsertResolved, Places, Inside
    <3>2. CASE ~lockRow
      BY <1>4, <2>3, <3>2 DEF InsertResolved
    <3> QED
      BY <3>1, <3>2
  <2>4. CASE Reconcile(c) \/ PassChecks(c) \/ LeavePool(c) \/ FinishRun(c)
    BY <1>2, <2>4 DEF Reconcile, PassChecks, LeavePool, FinishRun, lock, Places, Inside
  <2>5. CASE Refuse(c) \/ StartPool(c)
    BY <1>2, <2>5 DEF Refuse, StartPool, lock, Places, Inside
  <2>6. CASE RecordRefusal(c) \/ ReleaseLock(c) \/ DiscoverRefused(c) \/ Unwound(c)
    BY <1>3, <2>6 DEF RecordRefusal, ReleaseLock, DiscoverRefused, Unwound
  <2>7. ASSUME NEW r \in Repo,
               Pick(c, r) \/ ReadResult(c, r)
                 \/ \E o \in Outcomes \ {"cancelled"} : SyncReturns(c, r, o)
        PROVE  InsideHolds'
    BY <2>7 DEF Pick, ReadResult, SyncReturns, lock, InsideHolds
  <2> QED
    BY <1>5, <2>1, <2>2, <2>3, <2>4, <2>5, <2>6, <2>7 DEF RunStep
<1>6. ASSUME NEW c \in Caller, Ask(c) PROVE InsideHolds'
  BY <1>2, <1>6 DEF Ask, lock, Places, Inside
<1>7. ASSUME NEW c \in Caller, Raise(c) PROVE InsideHolds'
  <2>1. CASE at[c] = "pool"
    BY <1>2, <1>7, <2>1 DEF Raise, lock, Places, Inside
  <2>2. CASE at[c] # "pool"
    BY <1>3, <1>7, <2>2 DEF Raise
  <2> QED
    BY <2>1, <2>2
<1>8. ASSUME NEW c \in Caller, Crash(c) PROVE InsideHolds'
  BY <1>3, <1>8 DEF Crash
<1>9. ASSUME NEW c \in Caller, LoseLock(c) PROVE InsideHolds'
  BY <1>9 DEF LoseLock
<1>10. ASSUME NEW n \in RunId, Age(n) PROVE InsideHolds'
  BY <1>10 DEF Age, lock, InsideHolds
<1> QED
  BY <1>1, <1>5, <1>6, <1>7, <1>8, <1>9, <1>10 DEF Next

\* As long as the database keeps its connections, at most one caller is inside a run,
\* however many callers, crashes and exceptions there are.
THEOREM OneRunAtATime ==
    ASSUME Restarts = FALSE
    PROVE  Spec => []SingleRun
<1>1. Init => LockType /\ InsideHolds
  BY DEF Init, LockType, InsideHolds, Inside, Places
<1>2. LockType /\ InsideHolds => SingleRun
  BY DEF InsideHolds, SingleRun
<1>3. LockType /\ InsideHolds /\ [Next]_vars => LockType' /\ InsideHolds'
  BY LockTypeStep, InsideStep
<1> QED
  BY <1>1, <1>2, <1>3, PTL DEF Spec
-----------------------------------------------------------------------------
(* The ledger.  Only `run` and `ledger` matter. *)

LedgerType ==
    run \in [Caller -> RunId \cup {NoRun}] /\ ledger \in [RunId -> Rows]

LedgerInv == LedgerType /\ OwnRows

\* ingest_run.status of every row, which RunLedger calls verdict.
Status == [n \in RunId |-> ledger[n].status]

\* A step of the ledger, or none that its reader sees.
LedgerMoves == [Ledger!Next]_<<Status, Open>>

LEMMA RowType ==
    \A s \in {"none", "running"} \cup Verdicts, a \in {"fresh", "idle", "old"} :
        Row(s, a) \in Rows /\ Row(s, a).status = s /\ Row(s, a).age = a
BY DEF Row, Rows

\* A caller without its row leaves the others theirs.
LEMMA ClosedRow ==
    ASSUME LedgerInv, NEW c \in Caller, run' = [run EXCEPT ![c] = NoRun]
    PROVE  /\ run' \in [Caller -> RunId \cup {NoRun}] /\ Open' = Open \ {run[c]}
           /\ \A d \in Caller : run'[d] \in RunId => d # c /\ run'[d] = run[d] /\ run[d] # run[c]
<1>1. \A d \in Caller : run'[d] = IF d = c THEN NoRun ELSE run[d]
  BY DEF LedgerInv, LedgerType
<1>2. \A d \in Caller : run[d] \in RunId /\ d # c => run[d] # run[c]
  BY DEF LedgerInv, OwnRows
<1>3. run' \in [Caller -> RunId \cup {NoRun}]
  BY DEF LedgerInv, LedgerType
<1>4. \A d \in Caller : run[d] \in RunId \cup {NoRun}
  BY DEF LedgerInv, LedgerType
<1>5. Open' = Open \ {run[c]}
  BY <1>1, <1>2, <1>4 DEF Open
<1> QED
  BY <1>1, <1>2, <1>3, <1>5, RunsAssumption

\* Forgetting or keeping one's row while the table stays as it is.
LEMMA LedgerKept ==
    ASSUME LedgerInv, ledger' = ledger,
           NEW c \in Caller, run' = run \/ run' = [run EXCEPT ![c] = NoRun]
    PROVE  LedgerInv' /\ LedgerMoves
<1>1. Status' = Status
  BY DEF Status
<1>2. CASE run' = run
  BY <1>1, <1>2 DEF LedgerInv, LedgerType, OwnRows, LedgerMoves, Open
<1>3. CASE run' = [run EXCEPT ![c] = NoRun]
  <2>1. LedgerInv'
    BY <1>3, ClosedRow DEF LedgerInv, LedgerType, OwnRows
  <2>2. CASE run[c] \in RunId
    <3>1. Ledger!Abandon(run[c])
      BY <1>1, <1>3, ClosedRow DEF Ledger!Abandon, Status
    <3> QED
      BY <2>1, <2>2, <3>1 DEF LedgerMoves, Ledger!Next
  <2>3. CASE run[c] \notin RunId
    <3>1. Open' = Open
      BY <1>3, <2>3, ClosedRow DEF Open, LedgerInv, LedgerType
    <3> QED
      BY <1>1, <2>1, <3>1 DEF LedgerMoves
  <2> QED
    BY <2>2, <2>3
<1> QED
  BY <1>2, <1>3

\* Rows that are not fresh are given up, that of a live run perhaps among them.
LEMMA GiveUpStep ==
    ASSUME LedgerInv, GiveUpStale, run' = run
    PROVE  LedgerInv' /\ LedgerMoves
<1> DEFINE gone == {n \in RunId : Stale(n)}
<1>1. \A n \in RunId : /\ ledger'[n] \in Rows
                       /\ ledger'[n].status = IF n \in gone THEN "failed" ELSE ledger[n].status
  BY RowType DEF GiveUpStale, LedgerInv, LedgerType, Rows, Verdicts
<1>2. ledger' \in [RunId -> Rows]
  BY <1>1 DEF GiveUpStale
<1>3. LedgerInv'
  BY <1>1, <1>2 DEF LedgerInv, LedgerType, OwnRows
<1>4. Status' = [n \in RunId |-> IF n \in gone THEN "failed" ELSE Status[n]]
  BY <1>1 DEF Status
<1>5. Ledger!GiveUp(gone)
  BY <1>4 DEF Ledger!GiveUp, Status, Stale, Open
<1>6. \E rows \in SUBSET RunId : Ledger!GiveUp(rows)
  <2>1. gone \in SUBSET RunId
    OBVIOUS
  <2> QED
    BY <1>5, <2>1 DEF Ledger!GiveUp
<1>7. Ledger!Next
  BY <1>6 DEF Ledger!Next
<1> QED
  BY <1>3, <1>7 DEF LedgerMoves

\* A caller without a row opens one that nobody has.
LEMMA OpenStep ==
    ASSUME LedgerInv, NEW c \in Caller, run[c] = NoRun, NEW n \in RunId, OpenRow(c, n)
    PROVE  LedgerInv' /\ LedgerMoves
<1>1. LedgerType'
  BY RowType DEF OpenRow, LedgerInv, LedgerType
<1>2. \A d \in Caller : run[d] # n /\ run'[d] = IF d = c THEN n ELSE run[d]
  BY DEF OpenRow, LedgerInv, LedgerType, OwnRows
<1>3. \A m \in RunId : ledger'[m].status = IF m = n THEN "running" ELSE ledger[m].status
  BY RowType DEF OpenRow, LedgerInv, LedgerType
<1>4. OwnRows'
  BY <1>2, <1>3 DEF LedgerInv, LedgerType, OwnRows
<1>5. Open' = Open \cup {n}
  BY <1>2, RunsAssumption DEF Open
<1>6. Status' = [Status EXCEPT ![n] = "running"]
  BY <1>3 DEF Status
<1>7. Ledger!Start(n)
  BY <1>5, <1>6 DEF OpenRow, Ledger!Start, Status
<1> QED
  BY <1>1, <1>4, <1>7 DEF Ledger!Next, LedgerInv, LedgerMoves

\* A caller closes its own row, given up or not, or has none.
LEMMA CloseStep ==
    ASSUME LedgerInv, NEW c \in Caller, NEW v \in Verdicts,
           ledger' = [ledger EXCEPT ![run[c]].status = v],
           run' = [run EXCEPT ![c] = NoRun]
    PROVE  LedgerInv' /\ LedgerMoves
<1>1. CASE run[c] \notin RunId
  <2>1. ledger' = ledger
    BY <1>1 DEF LedgerInv, LedgerType
  <2> QED
    BY <2>1, LedgerKept
<1>2. CASE run[c] \in RunId
  <2>1. \A n \in RunId : /\ ledger'[n] \in Rows
                         /\ ledger'[n].status = IF n = run[c] THEN v ELSE ledger[n].status
    BY <1>2 DEF LedgerInv, LedgerType, Rows
  <2>2. ledger' \in [RunId -> Rows]
    BY <2>1 DEF LedgerInv, LedgerType
  <2>3. LedgerInv'
    BY <2>1, <2>2, ClosedRow DEF LedgerInv, LedgerType, OwnRows
  <2>4. Status' = [Status EXCEPT ![run[c]] = v]
    BY <1>2, <2>1 DEF Status
  <2>5. run[c] \in Open /\ Status[run[c]] \in {"running", "failed"}
    BY <1>2, RunsAssumption DEF Open, LedgerInv, OwnRows, Status
  <2>6. Open' = Open \ {run[c]} /\ v \in Ledger!Verdicts
    BY ClosedRow DEF Ledger!Verdicts, Verdicts
  <2>7. \E n \in RunId : Ledger!Finish(n)
    <3>1. \E w \in Ledger!Verdicts : Status' = [Status EXCEPT ![run[c]] = w]
      BY <2>4, <2>6
    <3> QED
      BY <1>2, <2>5, <2>6, <3>1 DEF Ledger!Finish, Status
  <2>8. Ledger!Next
    BY <2>7 DEF Ledger!Next
  <2> QED
    BY <2>3, <2>8 DEF LedgerMoves
<1> QED
  BY <1>1, <1>2

\* A caller has a row only between opening and closing it.
WithRow == {"refused", "pool", "unwind", "settle"}
NoRowElsewhere == \A c \in Caller : at[c] \notin WithRow => run[c] = NoRun

LEMMA NoRowStep ==
    LockType /\ LedgerType /\ NoRowElsewhere /\ [Next]_vars => NoRowElsewhere'
<1> SUFFICES ASSUME LockType, LedgerType, NoRowElsewhere, [Next]_vars PROVE NoRowElsewhere'
  OBVIOUS
<1>1. CASE UNCHANGED vars
  BY <1>1 DEF vars, NoRowElsewhere
\* Moving with the row one has.
<1>2. ASSUME NEW c \in Caller, NEW p \in Places, Go(c, p), run' = run,
             p \notin WithRow => at[c] \notin WithRow
      PROVE  NoRowElsewhere'
  BY <1>2 DEF Go, NoRowElsewhere, LockType
\* Leaving without it.
<1>3. ASSUME NEW c \in Caller, NEW p \in Places, Go(c, p), run' = [run EXCEPT ![c] = NoRun]
      PROVE  NoRowElsewhere'
  BY <1>3 DEF Go, NoRowElsewhere, LockType, LedgerType
<1>4. ASSUME NEW c \in Caller, RunStep(c) PROVE NoRowElsewhere'
  <2>1. CASE Answer(c) \/ TakeLock(c) \/ SkipRun(c) \/ InsertBehind(c)
    BY <1>2, <2>1 DEF Answer, TakeLock, SkipRun, MayStart, InsertBehind, Places, WithRow
  <2>2. CASE InsertResolved(c)
    BY <1>2, <2>2 DEF InsertResolved, Places, WithRow
  <2>3. CASE Reconcile(c) \/ PassChecks(c) \/ LeavePool(c)
    BY <1>2, <2>3 DEF Reconcile, PassChecks, LeavePool, Places, WithRow
  <2>4. CASE Refuse(c) \/ StartPool(c)
    BY <2>4 DEF Refuse, StartPool, OpenRow, Go, NoRowElsewhere, WithRow, LockType, LedgerType
  <2>5. CASE RecordRefusal(c) \/ FinishRun(c) \/ DiscoverRefused(c) \/ ReleaseLock(c) \/ Unwound(c)
    BY <1>3, <2>5 DEF RecordRefusal, FinishRun, DiscoverRefused, ReleaseLock, Unwound, Forget, Places
  <2>6. ASSUME NEW r \in Repo,
               Pick(c, r) \/ ReadResult(c, r)
                 \/ \E o \in Outcomes \ {"cancelled"} : SyncReturns(c, r, o)
        PROVE  NoRowElsewhere'
    BY <2>6 DEF Pick, ReadResult, SyncReturns, NoRowElsewhere
  <2> QED
    BY <1>4, <2>1, <2>2, <2>3, <2>4, <2>5, <2>6 DEF RunStep
<1>5. ASSUME NEW c \in Caller, Ask(c) \/ Raise(c) \/ Crash(c) PROVE NoRowElsewhere'
  BY <1>2, <1>3, <1>5 DEF Ask, Raise, Crash, Forget, Places, WithRow
<1>6. ASSUME NEW c \in Caller, LoseLock(c) PROVE NoRowElsewhere'
  BY <1>6 DEF LoseLock, NoRowElsewhere, LockType, WithRow
<1>7. ASSUME NEW n \in RunId, Age(n) PROVE NoRowElsewhere'
  BY <1>7 DEF Age, NoRowElsewhere
<1> QED
  BY <1>1, <1>4, <1>5, <1>6, <1>7 DEF Next

LEMMA LedgerStep ==
    LedgerInv /\ NoRowElsewhere /\ [Next]_vars => LedgerInv' /\ LedgerMoves
<1> SUFFICES ASSUME LedgerInv, NoRowElsewhere, [Next]_vars
             PROVE  LedgerInv' /\ LedgerMoves
  OBVIOUS
<1>1. ASSUME run' = run, ledger' = ledger PROVE LedgerInv' /\ LedgerMoves
  BY <1>1 DEF LedgerInv, LedgerType, OwnRows, Status, Open, LedgerMoves
\* The clock and the heartbeat leave every verdict alone.
<1>2. ASSUME run' = run, NEW n \in RunId, NEW age \in {"fresh", "idle", "old"},
             ledger' = [ledger EXCEPT ![n].age = age]
      PROVE  LedgerInv' /\ LedgerMoves
  <2>1. \A m \in RunId : ledger'[m] \in Rows /\ ledger'[m].status = ledger[m].status
    BY <1>2 DEF LedgerInv, LedgerType, Rows
  <2>2. ledger' \in [RunId -> Rows]
    BY <1>2, <2>1 DEF LedgerInv, LedgerType
  <2>3. LedgerInv'
    BY <1>2, <2>1, <2>2 DEF LedgerInv, LedgerType, OwnRows
  <2>4. Status' = Status /\ Open' = Open
    BY <1>2, <2>1 DEF Status, Open
  <2> QED
    BY <2>3, <2>4 DEF LedgerMoves
<1>3. CASE UNCHANGED vars
  BY <1>1, <1>3 DEF vars
<1>4. ASSUME NEW c \in Caller, RunStep(c) PROVE LedgerInv' /\ LedgerMoves
  <2>1. CASE Answer(c) \/ TakeLock(c) \/ SkipRun(c) \/ InsertBehind(c) \/ InsertResolved(c)
    BY <1>1, <2>1 DEF Answer, TakeLock, SkipRun, InsertBehind, InsertResolved
  <2>2. CASE PassChecks(c) \/ LeavePool(c)
    BY <1>1, <2>2 DEF PassChecks, LeavePool
  <2>3. CASE Reconcile(c)
    BY <2>3, GiveUpStep DEF Reconcile
  <2>4. CASE Refuse(c) \/ StartPool(c)
    <3>1. run[c] = NoRun
      BY <2>4 DEF Refuse, StartPool, NoRowElsewhere, WithRow
    <3> QED
      BY <2>4, <3>1, OpenStep DEF Refuse, StartPool
  <2>5. CASE RecordRefusal(c)
    BY <2>5, CloseStep DEF RecordRefusal, Forget, Verdicts
  <2>6. CASE FinishRun(c)
    <3>1. Verdict(c) \in Verdicts
      BY DEF Verdict, Verdicts
    <3> QED
      BY <2>6, <3>1, CloseStep DEF FinishRun
  <2>7. CASE DiscoverRefused(c) \/ ReleaseLock(c) \/ Unwound(c)
    BY <2>7, LedgerKept DEF DiscoverRefused, ReleaseLock, Unwound, Forget
  <2>8. ASSUME NEW r \in Repo, Pick(c, r) PROVE LedgerInv' /\ LedgerMoves
    BY <1>1, <2>8 DEF Pick
  <2>9. ASSUME NEW r \in Repo, NEW o \in Outcomes, SyncReturns(c, r, o)
        PROVE  LedgerInv' /\ LedgerMoves
    BY <1>1, <2>9 DEF SyncReturns
  <2>10. ASSUME NEW r \in Repo, ReadResult(c, r) PROVE LedgerInv' /\ LedgerMoves
    <3>1. run' = run /\ Heartbeat(c, future[c][r])
      BY <2>10 DEF ReadResult
    <3>2. CASE run[c] \in RunId
      BY <1>1, <1>2, <3>1, <3>2 DEF Heartbeat
    <3>3. CASE run[c] \notin RunId
      <4>1. ledger' = ledger
        BY <3>1, <3>3 DEF Heartbeat, LedgerInv, LedgerType
      <4> QED
        BY <1>1, <3>1, <4>1
    <3> QED
      BY <3>2, <3>3
  <2> QED
    BY <1>4, <2>1, <2>2, <2>3, <2>4, <2>5, <2>6, <2>7, <2>8, <2>9, <2>10 DEF RunStep
<1>5. ASSUME NEW c \in Caller, Ask(c) PROVE LedgerInv' /\ LedgerMoves
  BY <1>5, GiveUpStep DEF Ask
<1>6. ASSUME NEW c \in Caller, Raise(c) \/ Crash(c) PROVE LedgerInv' /\ LedgerMoves
  <2>1. ledger' = ledger /\ (run' = run \/ run' = [run EXCEPT ![c] = NoRun])
    BY <1>6 DEF Raise, Crash, Forget
  <2> QED
    BY <2>1, LedgerKept
<1>7. ASSUME NEW c \in Caller, LoseLock(c) PROVE LedgerInv' /\ LedgerMoves
  BY <1>1, <1>7 DEF LoseLock
<1>8. ASSUME NEW n \in RunId, Age(n) PROVE LedgerInv' /\ LedgerMoves
  BY <1>2, <1>8 DEF Age
<1> QED
  BY <1>3, <1>4, <1>5, <1>6, <1>7, <1>8 DEF Next

\* A run's own verdict is the last word on its row, also where other processes gave the row up
\* meanwhile; no other verdict is replaced and no row runs again (_finish_run,
\* reconcile_stale_runs), however long runs take and also when lock connections are lost.
THEOREM VerdictsAreFinal == Spec => LedgerIsFinal
<1>1. Init => LockType /\ LedgerInv /\ NoRowElsewhere /\ Ledger!Init
  <2> SUFFICES ASSUME Init PROVE LockType /\ LedgerInv /\ NoRowElsewhere /\ Ledger!Init
    OBVIOUS
  <2>1. LedgerType /\ \A n \in RunId : ledger[n].status = "none"
    BY RowType DEF Init, LedgerType
  <2>2. OwnRows /\ NoRowElsewhere
    BY RunsAssumption DEF Init, OwnRows, NoRowElsewhere
  <2>3. LockType
    BY DEF Init, LockType, Places
  <2>4. Ledger!Init
    BY <2>1 DEF Init, Ledger!Init, Open
  <2> QED
    BY <2>1, <2>2, <2>3, <2>4 DEF LedgerInv
<1>2. LockType /\ LedgerInv /\ NoRowElsewhere /\ [Next]_vars
         => LockType' /\ LedgerInv' /\ NoRowElsewhere' /\ LedgerMoves
  BY LockTypeStep, NoRowStep, LedgerStep DEF LedgerInv
<1>3. Spec => [](LockType /\ LedgerInv /\ NoRowElsewhere)
  BY <1>1, <1>2, PTL DEF Spec
<1>4. LockType /\ LedgerInv /\ NoRowElsewhere /\ [Next]_vars
         => [Ledger!Next]_(<<[n \in RunId |-> ledger[n].status], Open>>)
  BY <1>2 DEF Status, LedgerMoves
<1> QED
  BY <1>1, <1>3, <1>4, PTL DEF Spec, LedgerIsFinal, Ledger!Spec

-----------------------------------------------------------------------------
(* The pool's accounts.  Only `at` and what c's stack holds matter.  That the  *)
(* results are all there when a run settles needs the futures (none is         *)
(* missing while the pool is there), and that the breaker follows the network  *)
(* needs what the streak counts (Since).                                       *)

Results == Seq(Repo \X Outcomes)

ReadOf(results) == {results[i][1] : i \in DOMAIN results}

\* The network failures among the results i + 1..n.
Failures(results, i, n) == {k \in (i + 1)..n : results[k][2] = "network"}

NoneGood(results, i, n) == \A k \in (i + 1)..n : results[k][2] \notin Good

\* NetworkDown, of the first n results.
DownAt(results, n) ==
    \E i \in 0..n : NoneGood(results, i, n) /\ Cardinality(Failures(results, i, n)) >= AbortAfter

\* A streak of s counts the network failures since the last repository that did not fail.
Since(results, s) ==
    \E i \in 0..Len(results) :
        /\ i = 0 \/ results[i][2] \in Good
        /\ NoneGood(results, i, Len(results))
        /\ s = Cardinality(Failures(results, i, Len(results)))

\* What holds of one caller: where it is, its futures, its results, its streak, its breaker.
Sound(place, futures, results, s, tripped) ==
    /\ place \in Places /\ futures \in [Repo -> Futures] /\ results \in Results
    /\ s \in Nat /\ tripped \in BOOLEAN
    /\ IsFiniteSet(ReadOf(results)) /\ Cardinality(ReadOf(results)) = Len(results)
    /\ place \in {"pool", "unwind"} => \A r \in Repo : futures[r] # "none"
    /\ place = "settle" => ReadOf(results) = Repo
    /\ place \notin {"pool", "unwind", "settle", "closed"} => ~tripped
    /\ tripped <=> NetworkDown(results)
    /\ tripped => \A r \in Repo : futures[r] # "queued"
    /\ Since(results, s)

PoolInv ==
    /\ at \in [Caller -> Places] /\ future \in [Caller -> [Repo -> Futures]]
    /\ run_repos \in [Caller -> Results]
    /\ streak \in [Caller -> Nat] /\ aborted \in [Caller -> BOOLEAN]
    /\ \A c \in Caller : Sound(at[c], future[c], run_repos[c], streak[c], aborted[c])

LEMMA ResultsFinite ==
    ASSUME NEW results, NEW i \in Nat, NEW n \in Nat
    PROVE  /\ IsFiniteSet(Failures(results, i, n)) /\ Cardinality(Failures(results, i, n)) \in Nat
           /\ \A j \in Nat : j <= i =>
                 Cardinality(Failures(results, i, n)) <= Cardinality(Failures(results, j, n))
<1>1. \A j \in Nat : IsFiniteSet(Failures(results, j, n))
  <2> SUFFICES ASSUME NEW j \in Nat PROVE IsFiniteSet(Failures(results, j, n))
      OBVIOUS
  <2>1. IsFiniteSet((j + 1)..n)
    <3>1. j + 1 \in Int /\ n \in Int
      OBVIOUS
    <3> QED BY <3>1, FS_Interval
  <2>2. Failures(results, j, n) \subseteq (j + 1)..n
    BY DEF Failures
  <2> QED BY <2>1, <2>2, FS_Subset
<1>2. \A j \in Nat : j <= i => Failures(results, i, n) \subseteq Failures(results, j, n)
    BY DEF Failures
<1>3. \A j \in Nat : j <= i =>
         Cardinality(Failures(results, i, n)) <= Cardinality(Failures(results, j, n))
    BY <1>1, <1>2, FS_Subset
<1> QED BY <1>1, <1>3, FS_CardinalityType

\* The longest run of results without a good one is the one the streak counts.
LEMMA StreakDecides ==
    ASSUME NEW results \in Results, NEW s, Since(results, s)
    PROVE  DownAt(results, Len(results)) <=> s >= AbortAfter
<1> DEFINE n == Len(results)
<1>1. n \in Nat
    BY LenProperties DEF Results
<1>2. PICK i \in 0..n : /\ i = 0 \/ results[i][2] \in Good
                        /\ NoneGood(results, i, n)
                        /\ s = Cardinality(Failures(results, i, n))
    BY DEF Since
<1> HIDE DEF n
<1>3. ASSUME s >= AbortAfter PROVE DownAt(results, n)
    BY <1>2, <1>3 DEF DownAt
<1>4. ASSUME NEW j \in 0..n, NoneGood(results, j, n), Cardinality(Failures(results, j, n)) >= AbortAfter
      PROVE  s >= AbortAfter
  <2>1. i <= j
      BY <1>1, <1>2, <1>4 DEF NoneGood
  <2>2. Cardinality(Failures(results, j, n)) <= s
      BY <1>1, <1>2, <2>1, ResultsFinite
  <2>3. s \in Nat /\ Cardinality(Failures(results, j, n)) \in Nat /\ AbortAfter \in Nat
      BY <1>1, <1>2, ResultsFinite, RunsAssumption DEF RunsAssumption
  <2> QED BY <1>4, <2>2, <2>3
<1> QED BY <1>3, <1>4 DEF DownAt, n

LEMMA NothingReadYet ==
    /\ <<>> \in Results /\ ReadOf(<<>>) = {} /\ IsFiniteSet({}) /\ Cardinality({}) = 0
    /\ Len(<<>>) = 0 /\ ~NetworkDown(<<>>) /\ Since(<<>>, 0)
<1>1. <<>> \in Results /\ Len(<<>>) = 0 /\ DOMAIN <<>> = {}
    BY EmptySeq DEF Results
<1>2. ReadOf(<<>>) = {} /\ ~NetworkDown(<<>>)
    BY <1>1 DEF ReadOf, NetworkDown
<1>3. Failures(<<>>, 0, 0) = {} /\ NoneGood(<<>>, 0, 0)
    BY DEF Failures, NoneGood
<1>4. Since(<<>>, 0)
    BY <1>1, <1>3, FS_EmptySet DEF Since
<1> QED BY <1>1, <1>2, <1>4, FS_EmptySet

\* One more result.
LEMMA ReadOneMore ==
    ASSUME NEW results \in Results, NEW r \in Repo, NEW o \in Outcomes
    PROVE  LET more == Append(results, <<r, o>>)
           IN  /\ more \in Results /\ Len(more) = Len(results) + 1
               /\ \A i \in 1..Len(results) : more[i] = results[i]
               /\ more[Len(results) + 1] = <<r, o>>
               /\ ReadOf(more) = ReadOf(results) \cup {r}
               /\ NetworkDown(more) <=> NetworkDown(results) \/ DownAt(more, Len(more))
<1> DEFINE more == Append(results, <<r, o>>)
           n == Len(results)
<1>1. /\ more \in Results /\ Len(more) = n + 1
      /\ \A i \in 1..n : more[i] = results[i]
      /\ more[n + 1] = <<r, o>>
    BY AppendProperties DEF Results
<1>2. n \in Nat /\ DOMAIN results = 1..n /\ DOMAIN more = 1..(n + 1)
    BY <1>1, LenProperties DEF Results
<1> HIDE DEF more, n
<1>3. 1..(n + 1) = (1..n) \cup {n + 1}
    BY <1>2
<1>4. ReadOf(more) = ReadOf(results) \cup {r}
  <2>1. more[n + 1][1] = r
      BY <1>1
  <2> QED BY <1>1, <1>2, <1>3, <2>1 DEF ReadOf
<1>5. \A m \in 1..n : DownAt(more, m) <=> DownAt(results, m)
  <2> SUFFICES ASSUME NEW m \in 1..n, NEW i \in 0..m
               PROVE  /\ NoneGood(more, i, m) <=> NoneGood(results, i, m)
                      /\ Failures(more, i, m) = Failures(results, i, m)
      BY DEF DownAt
  <2>1. \A k \in (i + 1)..m : more[k] = results[k]
      BY <1>1, <1>2
  <2> QED BY <2>1 DEF NoneGood, Failures
<1>6. \A t : NetworkDown(t) <=> \E m \in DOMAIN t : DownAt(t, m)
    BY DEF NetworkDown, DownAt, NoneGood, Failures
<1>7. NetworkDown(more) <=> NetworkDown(results) \/ DownAt(more, n + 1)
    BY <1>2, <1>3, <1>5, <1>6
<1> QED BY <1>1, <1>4, <1>7 DEF more, n

LEMMA StreakFollows ==
    ASSUME NEW results \in Results, NEW r \in Repo, NEW o \in Outcomes, NEW c \in Caller,
           streak[c] \in Nat, Since(results, streak[c])
    PROVE  Streak(c, o) \in Nat /\ Since(Append(results, <<r, o>>), Streak(c, o))
<1> DEFINE more == Append(results, <<r, o>>)
           n == Len(results)
<1>1. /\ more \in Results /\ Len(more) = n + 1
      /\ \A i \in 1..n : more[i] = results[i]
      /\ more[n + 1][2] = o
    BY ReadOneMore
<1>2. n \in Nat
    BY LenProperties DEF Results
<1>3. PICK i \in 0..n : /\ i = 0 \/ results[i][2] \in Good
                        /\ NoneGood(results, i, n)
                        /\ streak[c] = Cardinality(Failures(results, i, n))
    BY DEF Since
<1> HIDE DEF more, n
<1>4. (i + 1)..(n + 1) = ((i + 1)..n) \cup {n + 1} /\ n + 1 \notin (i + 1)..n
    BY <1>2
<1>5. \A k \in (i + 1)..n : more[k] = results[k]
    BY <1>1, <1>2
<1>6. i = 0 \/ more[i][2] \in Good
    BY <1>1, <1>2, <1>3
<1>7. CASE o = "network"
  <2>1. Failures(more, i, n + 1) = Failures(results, i, n) \cup {n + 1}
      BY <1>1, <1>4, <1>5, <1>7 DEF Failures
  <2>2. n + 1 \notin Failures(results, i, n)
      BY <1>4 DEF Failures
  <2>3. Cardinality(Failures(more, i, n + 1)) = streak[c] + 1
      BY <1>2, <1>3, <2>1, <2>2, ResultsFinite, FS_AddElement
  <2>4. NoneGood(more, i, n + 1)
      BY <1>1, <1>3, <1>4, <1>5, <1>7 DEF NoneGood, Good
  <2>5. Since(more, streak[c] + 1)
      BY <1>1, <1>2, <1>6, <2>3, <2>4 DEF Since
  <2> QED BY <1>7, <2>5 DEF Streak, more
<1>8. CASE o \in Good
  <2>1. Failures(more, n + 1, n + 1) = {} /\ NoneGood(more, n + 1, n + 1)
      BY <1>2 DEF Failures, NoneGood
  <2>2. Since(more, 0)
    <3>1. n + 1 \in 0..Len(more) /\ more[n + 1][2] \in Good /\ Len(more) = n + 1
        BY <1>1, <1>2, <1>8
    <3>2. 0 = Cardinality(Failures(more, n + 1, n + 1))
        BY <2>1, FS_EmptySet
    <3> QED BY <2>1, <3>1, <3>2 DEF Since
  <2> QED BY <1>8, <2>2 DEF Streak, Good, more
<1>9. CASE o # "network" /\ o \notin Good
  <2>1. Failures(more, i, n + 1) = Failures(results, i, n) /\ NoneGood(more, i, n + 1)
      BY <1>1, <1>3, <1>4, <1>5, <1>9 DEF Failures, NoneGood
  <2>2. Since(more, streak[c])
      BY <1>1, <1>2, <1>3, <1>6, <2>1 DEF Since
  <2> QED BY <1>9, <2>2 DEF Streak, more
<1> QED BY <1>7, <1>8, <1>9

\* Sound says nothing of the state but through its arguments.
LEMMA SoundNext ==
    ASSUME NEW c \in Caller,
           Sound(at'[c], future'[c], run_repos'[c], streak'[c], aborted'[c])
    PROVE  Sound(at[c], future[c], run_repos[c], streak[c], aborted[c])'
BY DEF Sound, ReadOf, NetworkDown, Since, Failures, NoneGood

LEMMA OneCaller ==
    ASSUME PoolInv, NEW c \in Caller,
           NEW place, NEW futures, NEW results, NEW s, NEW tripped,
           Sound(place, futures, results, s, tripped),
           at' = [at EXCEPT ![c] = place], future' = [future EXCEPT ![c] = futures],
           run_repos' = [run_repos EXCEPT ![c] = results],
           streak' = [streak EXCEPT ![c] = s], aborted' = [aborted EXCEPT ![c] = tripped]
    PROVE  PoolInv'
<1>1. /\ at' \in [Caller -> Places] /\ future' \in [Caller -> [Repo -> Futures]]
      /\ run_repos' \in [Caller -> Results]
      /\ streak' \in [Caller -> Nat] /\ aborted' \in [Caller -> BOOLEAN]
    BY DEF PoolInv, Sound
<1>2. ASSUME NEW d \in Caller
      PROVE  Sound(at'[d], future'[d], run_repos'[d], streak'[d], aborted'[d])
  <2>1. CASE d = c
    <3>1. /\ at'[d] = place /\ future'[d] = futures /\ run_repos'[d] = results
          /\ streak'[d] = s /\ aborted'[d] = tripped
        BY <2>1 DEF PoolInv
    <3> QED BY <3>1
  <2>2. CASE d # c
    <3>1. /\ at'[d] = at[d] /\ future'[d] = future[d] /\ run_repos'[d] = run_repos[d]
          /\ streak'[d] = streak[d] /\ aborted'[d] = aborted[d]
        BY <2>2 DEF PoolInv
    <3> QED BY <3>1 DEF PoolInv
  <2> QED BY <2>1, <2>2
<1>3. \A d \in Caller : Sound(at[d], future[d], run_repos[d], streak[d], aborted[d])'
    BY <1>2, SoundNext
<1> QED BY <1>1, <1>3 DEF PoolInv

\* The caller moves, and what its stack holds stays.
LEMMA CallerMoves ==
    ASSUME PoolInv, NEW c \in Caller, NEW place \in Places, Go(c, place), UNCHANGED batch,
           place \in {"pool", "unwind"} => at[c] \in {"pool", "unwind"},
           place = "settle" => Read(c) = Repo,
           at[c] \in {"pool", "unwind", "settle", "closed"}
               => place \in {"pool", "unwind", "settle", "closed"}
    PROVE  PoolInv'
<1>1. Sound(at[c], future[c], run_repos[c], streak[c], aborted[c])
    BY DEF PoolInv
<1>2. Sound(place, future[c], run_repos[c], streak[c], aborted[c])
    BY <1>1 DEF Sound, Read, ReadOf
<1>3. /\ at' = [at EXCEPT ![c] = place] /\ future' = [future EXCEPT ![c] = future[c]]
      /\ run_repos' = [run_repos EXCEPT ![c] = run_repos[c]]
      /\ streak' = [streak EXCEPT ![c] = streak[c]] /\ aborted' = [aborted EXCEPT ![c] = aborted[c]]
    BY DEF PoolInv, Go, batch
<1> QED BY <1>2, <1>3, OneCaller

LEMMA CallerForgets ==
    ASSUME PoolInv, NEW c \in Caller, Go(c, "idle"), Forget(c)
    PROVE  PoolInv'
<1>1. NoFutures \in [Repo -> Futures] /\ \A r \in Repo : NoFutures[r] # "queued"
    BY DEF NoFutures, Futures
<1>2. Sound("idle", NoFutures, <<>>, 0, FALSE)
    BY <1>1, NothingReadYet DEF Sound, Places
<1> QED BY <1>2, OneCaller DEF Go, Forget

read == <<run_repos, streak, aborted>>

\* The pool moves on and nothing is read.
LEMMA FuturesMove ==
    ASSUME PoolInv, NEW c \in Caller, NEW place \in {"pool", "unwind"},
           place = at[c] \/ at[c] = "discover", at' = [at EXCEPT ![c] = place],
           NEW futures \in [Repo -> Futures], future' = [future EXCEPT ![c] = futures],
           \A r \in Repo : futures[r] # "none",
           aborted[c] => \A r \in Repo : futures[r] # "queued",
           UNCHANGED read
    PROVE  PoolInv'
<1>1. Sound(at[c], future[c], run_repos[c], streak[c], aborted[c])
    BY DEF PoolInv
<1>2. Sound(place, futures, run_repos[c], streak[c], aborted[c])
    BY <1>1 DEF Sound, Places
<1>3. /\ run_repos' = [run_repos EXCEPT ![c] = run_repos[c]]
      /\ streak' = [streak EXCEPT ![c] = streak[c]] /\ aborted' = [aborted EXCEPT ![c] = aborted[c]]
    BY DEF PoolInv, read
<1> QED BY <1>2, <1>3, OneCaller

LEMMA ReadKeeps ==
    ASSUME PoolInv, NEW c \in Caller, NEW r \in Repo, ReadResult(c, r)
    PROVE  PoolInv'
<1> DEFINE o == future[c][r]
           results == run_repos[c]
           more == Append(results, <<r, o>>)
           trips == Streak(c, o) >= AbortAfter /\ ~aborted[c]
           tripped == aborted[c] \/ trips
           futures == [x \in Repo |-> IF trips /\ future[c][x] = "queued" THEN "withdrawn"
                                      ELSE future[c][x]]
<1>1. Sound("pool", future[c], results, streak[c], aborted[c])
    BY DEF PoolInv, ReadResult
<1>2. o \in Outcomes /\ r \notin ReadOf(results) /\ results \in Results
    BY <1>1 DEF ReadResult, Read, ReadOf, Sound
<1>3. /\ at' = [at EXCEPT ![c] = "pool"] /\ future' = [future EXCEPT ![c] = futures]
      /\ run_repos' = [run_repos EXCEPT ![c] = more]
      /\ streak' = [streak EXCEPT ![c] = Streak(c, o)]
      /\ aborted' = [aborted EXCEPT ![c] = tripped]
    BY DEF ReadResult, PoolInv
<1>4. /\ more \in Results /\ Len(more) = Len(results) + 1
      /\ ReadOf(more) = ReadOf(results) \cup {r}
      /\ NetworkDown(more) <=> NetworkDown(results) \/ DownAt(more, Len(more))
    BY <1>2, ReadOneMore
<1>5. Streak(c, o) \in Nat /\ Since(more, Streak(c, o))
    BY <1>1, <1>2, StreakFollows DEF Sound
<1>6. DownAt(more, Len(more)) <=> Streak(c, o) >= AbortAfter
    BY <1>4, <1>5, StreakDecides
<1>7. IsFiniteSet(ReadOf(more)) /\ Cardinality(ReadOf(more)) = Len(more)
  <2>1. IsFiniteSet(ReadOf(results)) /\ Cardinality(ReadOf(results)) = Len(results)
      BY <1>1 DEF Sound
  <2> QED BY <1>2, <1>4, <2>1, FS_AddElement
<1>8. tripped \in BOOLEAN /\ (tripped <=> NetworkDown(more))
    BY <1>1, <1>4, <1>6 DEF Sound
<1>9. /\ futures \in [Repo -> Futures]
      /\ \A x \in Repo : futures[x] # "none" /\ (tripped => futures[x] # "queued")
    BY <1>1 DEF Sound, Futures
<1> HIDE DEF more, tripped, futures, o
<1>10. Sound("pool", futures, more, Streak(c, o), tripped)
    BY <1>4, <1>5, <1>7, <1>8, <1>9 DEF Sound, Places
<1> QED BY <1>3, <1>10, OneCaller

LEMMA PoolStep == PoolInv /\ [Next]_vars => PoolInv'
<1> SUFFICES ASSUME PoolInv, [Next]_vars PROVE PoolInv'
  OBVIOUS
<1>1. ASSUME UNCHANGED <<at, batch>> PROVE PoolInv'
  <2>1. ASSUME NEW c \in Caller
        PROVE  Sound(at[c], future[c], run_repos[c], streak[c], aborted[c])'
    <3>1. Sound(at'[c], future'[c], run_repos'[c], streak'[c], aborted'[c])
      BY <1>1 DEF PoolInv, batch
    <3> QED
      BY <3>1, SoundNext
  <2> QED
    BY <1>1, <2>1 DEF PoolInv, batch
<1>2. CASE UNCHANGED vars
  BY <1>1, <1>2 DEF vars
<1>3. ASSUME NEW c \in Caller, RunStep(c) PROVE PoolInv'
  <2>1. CASE Answer(c)
    BY <2>1, CallerMoves DEF Answer, Places
  <2>2. CASE TakeLock(c) \/ SkipRun(c) \/ InsertBehind(c)
    BY <2>2, CallerMoves DEF TakeLock, SkipRun, InsertBehind, MayStart, Places
  <2>3. CASE InsertResolved(c)
    BY <2>3, CallerMoves DEF InsertResolved, Places
  <2>4. CASE Reconcile(c) \/ Refuse(c) \/ PassChecks(c)
    BY <2>4, CallerMoves DEF Reconcile, Refuse, PassChecks, Places
  <2>5. CASE RecordRefusal(c) \/ DiscoverRefused(c) \/ ReleaseLock(c) \/ Unwound(c)
    BY <2>5, CallerForgets DEF RecordRefusal, DiscoverRefused, ReleaseLock, Unwound
  <2>6. CASE StartPool(c)
    <3> DEFINE futures == [r \in Repo |-> "queued"]
    <3>1. /\ at[c] = "discover" /\ at' = [at EXCEPT ![c] = "pool"]
          /\ future' = [future EXCEPT ![c] = futures]
          /\ UNCHANGED read
      BY <2>6 DEF StartPool, Go, read
    <3>2. ~aborted[c]
      BY <3>1 DEF PoolInv, Sound
    <3>3. futures \in [Repo -> Futures] /\ \A r \in Repo : futures[r] # "none"
      BY DEF Futures
    <3> QED
      BY <3>1, <3>2, <3>3, FuturesMove
  <2>7. CASE LeavePool(c)
    <3>1. at[c] = "pool" /\ Go(c, "settle") /\ UNCHANGED batch
      BY <2>7 DEF LeavePool
    <3>2. Sound("pool", future[c], run_repos[c], streak[c], aborted[c])
      BY <3>1 DEF PoolInv
    <3>3. \A r \in Repo : future[c][r] \in Outcomes
      BY <2>7, <3>2 DEF LeavePool, Pending, Sound, Futures
    <3>4. Repo \subseteq Read(c)
      BY <2>7, <3>3 DEF LeavePool
    <3>5. Read(c) \subseteq Repo
      BY <3>2, ElementOfSeq, LenProperties DEF Sound, Results, Read
    <3> QED
      BY <3>1, <3>4, <3>5, CallerMoves DEF Places
  <2>8. CASE FinishRun(c)
    BY <2>8, CallerMoves DEF FinishRun, Places
  <2>9. ASSUME NEW r \in Repo, Pick(c, r) \/ \E o \in Outcomes : SyncReturns(c, r, o)
        PROVE  PoolInv'
    <3>1. PICK to \in {"running", "cancelled"} \cup Outcomes : future' = [future EXCEPT ![c][r] = to]
      BY <2>9 DEF Pick, SyncReturns
    <3>2. /\ at[c] \in {"pool", "unwind"} /\ at' = [at EXCEPT ![c] = at[c]]
          /\ UNCHANGED read
      BY <2>9 DEF Pick, SyncReturns, PoolInv, read
    <3> DEFINE futures == [future[c] EXCEPT ![r] = to]
    <3>3. /\ future[c] \in [Repo -> Futures]
          /\ \A x \in Repo : future[c][x] # "none" /\ (aborted[c] => future[c][x] # "queued")
      BY <3>2 DEF PoolInv, Sound
    <3>4. /\ to \in Futures /\ to # "none" /\ to # "queued"
      BY DEF Futures, Outcomes, Good, Bad
    <3>5. /\ futures \in [Repo -> Futures]
          /\ \A x \in Repo : futures[x] # "none" /\ (aborted[c] => futures[x] # "queued")
      BY <3>3, <3>4
    <3>6. future' = [future EXCEPT ![c] = futures]
      BY <3>1 DEF PoolInv
    <3> HIDE DEF futures
    <3> QED
      BY <3>2, <3>5, <3>6, FuturesMove
  <2>10. ASSUME NEW r \in Repo, ReadResult(c, r) PROVE PoolInv'
    BY <2>10, ReadKeeps
  <2> QED
    BY <1>3, <2>1, <2>2, <2>3, <2>4, <2>5, <2>6, <2>7, <2>8, <2>9, <2>10 DEF RunStep
<1>4. ASSUME NEW c \in Caller, Ask(c) PROVE PoolInv'
  BY <1>4, CallerMoves DEF Ask, Places
<1>5. ASSUME NEW c \in Caller, Raise(c) PROVE PoolInv'
  <2>1. CASE at[c] = "pool"
    BY <1>5, <2>1, CallerMoves DEF Raise, Places
  <2>2. CASE at[c] # "pool"
    BY <1>5, <2>2, CallerForgets DEF Raise
  <2> QED
    BY <2>1, <2>2
<1>6. ASSUME NEW c \in Caller, Crash(c) PROVE PoolInv'
  BY <1>6, CallerForgets DEF Crash
<1>7. ASSUME NEW c \in Caller, LoseLock(c) PROVE PoolInv'
  <2>1. /\ at' = [d \in Caller |-> IF at[d] = "inserting" THEN "idle" ELSE at[d]]
        /\ UNCHANGED batch
    BY <1>7 DEF LoseLock
  <2>2. at' \in [Caller -> Places]
    BY <2>1 DEF PoolInv, Places
  <2>3. ASSUME NEW d \in Caller
        PROVE  Sound(at[d], future[d], run_repos[d], streak[d], aborted[d])'
    <3>1. Sound(at[d], future[d], run_repos[d], streak[d], aborted[d])
      BY DEF PoolInv
    <3>2. Sound(at'[d], future[d], run_repos[d], streak[d], aborted[d])
      BY <2>1, <3>1 DEF Sound, Places
    <3> QED
      BY <2>1, <3>2, SoundNext DEF batch
  <2> QED
    BY <2>1, <2>2, <2>3 DEF PoolInv, batch
<1>8. ASSUME NEW n \in RunId, Age(n) PROVE PoolInv'
  BY <1>1, <1>8 DEF Age
<1> QED
  BY <1>2, <1>3, <1>4, <1>5, <1>6, <1>7, <1>8 DEF Next

LEMMA PoolInitially == Init => PoolInv
<1> SUFFICES ASSUME Init PROVE PoolInv
  OBVIOUS
<1>1. NoFutures \in [Repo -> Futures] /\ \A r \in Repo : NoFutures[r] # "queued"
  BY DEF NoFutures, Futures
<1>2. Sound("idle", NoFutures, <<>>, 0, FALSE)
  BY <1>1, NothingReadYet DEF Sound, Places
<1>3. \A c \in Caller : /\ at[c] = "idle" /\ future[c] = NoFutures /\ run_repos[c] = <<>>
                        /\ streak[c] = 0 /\ aborted[c] = FALSE
  BY DEF Init
<1> QED
  BY <1>1, <1>2, <1>3, NothingReadYet DEF Init, PoolInv, Places

\* A run that goes on to its verdict has read one result for every repository, also of those
\* whose futures the breaker cancelled: whatever the repositories, the threads of the pool and
\* the order their syncs end in, and while exceptions, crashes and restarts befall the callers.
THEOREM RunsAreAccounted == Spec => []RunIsAccounted
<1>1. PoolInv => RunIsAccounted
  BY DEF PoolInv, Sound, RunIsAccounted, Read, ReadOf
<1> QED
  BY <1>1, PoolInitially, PoolStep, PTL DEF Spec

\* The breaker has tripped exactly when some of the results read so far had AbortAfter network
\* failures with no good result among or after them, and then no sync is still to start.
THEOREM BreakerIsExact == Spec => []BreakerFollowsNetwork
<1>1. PoolInv => BreakerFollowsNetwork
  BY DEF PoolInv, Sound, BreakerFollowsNetwork
<1> QED
  BY <1>1, PoolInitially, PoolStep, PTL DEF Spec

-----------------------------------------------------------------------------
(* The layers a run refreshes while its pool works, and when it is done: the   *)
(* specification CrossRepo, over the tracked repositories.                     *)
(*                                                                             *)
(* A watermark says little by itself: a manifest may have been read from a     *)
(* mirror that was ahead of the head it is marked with, a fingerprint may come *)
(* from before a failure.  LayersInv says why both can be believed when        *)
(* nothing is due (ReadLate, RanksBetween).  That bumps are dated, resolved    *)
(* and paired has no watermark, and needs that nothing failed: SmoothInv says  *)
(* which repositories are at rest while a refresh is for them, and that the    *)
(* last refresh of a run still holds until another commit is added.            *)

\* What predict reads of a consumer.
Reads == Nat \X [Version -> {"none", "undated", "dated"}] \X SUBSET Version

\* What each version column is ahead of, and what a sync leaves it at.
Columns == [Tracked -> Nat]

Typed ==
    /\ host \in Columns /\ mirror \in Columns /\ head \in Columns /\ loaded \in Columns
    /\ agg \in Columns /\ mined \in Columns /\ seen \in Columns
    /\ last_depbump_sha \in Columns /\ declared \in Columns /\ last_declared_sha \in Columns
    /\ DOMAIN status = Tracked /\ sync \in [Tracked -> SyncStates]
    /\ bumps \in [Tracked -> [Version -> {"none", "undated", "dated"}]]
    /\ resolved \in [Tracked -> SUBSET Version] /\ adopted \in [Tracked -> SUBSET Version]
    /\ pairs \in [Tracked -> SUBSET Version]
    /\ impact \in [Tracked -> Reads] /\ predict_inputs \in [Tracked -> Reads]
    /\ phase \in {"idle", "pool"} \cup Stages /\ todo \subseteq Tracked /\ layerFaults \in Nat
    /\ Scoped => scope \subseteq Tracked

\* Versions reach the commit table in the order host, mirror, head_sha, commits.
InOrderAt(r) ==
    /\ 1 <= host[r] /\ loaded[r] <= head[r] /\ head[r] <= mirror[r] /\ mirror[r] <= host[r]
    /\ sync[r] \in {"fetched", "recorded", "loaded"} => 1 <= mirror[r]
    /\ sync[r] \in {"recorded", "loaded"} => head[r] = mirror[r] /\ status[r] # "ready"
    /\ sync[r] = "loaded" => loaded[r] = head[r]
    /\ status[r] = "ready" => loaded[r] = head[r] /\ 1 <= loaded[r]

InOrder == \A r \in Tracked : InOrderAt(r)

\* A manifest was read from a mirror at least as new as the head it is marked with.
ReadLate == \A r \in Tracked : last_declared_sha[r] <= declared[r] /\ declared[r] <= mirror[r]

\* Facts only ever grow, so equal fingerprints mean that nothing changed in between.
Within(f, g) ==
    /\ f[1] <= g[1]
    /\ \A v \in Version : f[2][v] = "none" \/ f[2][v] = g[2][v]
    /\ f[3] \subseteq g[3]

RanksBetween == \A c \in Tracked : Within(predict_inputs[c], impact[c]) /\ Within(impact[c], FactsOf(c))

AdoptedOf == \A c \in Tracked :
    /\ adopted[c] \subseteq resolved[c] /\ resolved[c] \subseteq Resolvable(c)
    /\ \A v \in adopted[c] : v <= loaded[c]

MinedUnlessDue == \A r \in Tracked : r \notin mining_due => mined[r] = agg[r]

LayersInv == Typed /\ InOrder /\ ReadLate /\ RanksBetween /\ AdoptedOf /\ MinedUnlessDue

\* Where nothing failed: a repository whose worker is not at it is level, ...
Level == \A r \in Tracked :
    /\ sync[r] \notin {"fetched", "recorded"} => head[r] = mirror[r] /\ loaded[r] = head[r]
    /\ sync[r] = "fetched" => loaded[r] = head[r]

\* ... and the main thread refreshes the layers of such repositories only, after a commit
\* was added if it is for one of them.
AtRest == \A r \in Tracked :
    /\ phase = "idle" => sync[r] \in {"none", "read"}
    /\ phase \in Stages /\ r \in scope => sync[r] = "read"

InScopeOnly ==
    /\ phase \in Stages /\ Scoped => added # {}
    /\ phase = "mining" => ~Scoped
    /\ phase = "depbump" => todo \subseteq scope /\ \A r \in todo : seen[r] = head[r]

\* The bumps up to the scanned head are stored, with their dates.
Scanned == \A r \in Tracked :
    /\ last_depbump_sha[r] <= loaded[r]
    /\ \A v \in Version : bumps[r][v] = (IF v <= last_depbump_sha[r] THEN "dated" ELSE "none")

\* What a run's last refresh has resolved and paired stays so until a commit is added.
Untouched == phase = "idle" \/ (phase = "pool" /\ added = {})

LastRefresh ==
    /\ Untouched \/ (~Scoped /\ phase \in {"declared", "predict", "xrepo", "mining"}) => Resolved
    /\ Untouched \/ phase = "mining" => Paired
    /\ phase = "xrepo" /\ ~Scoped => \A c \in Tracked \ todo : pairs[c] = Linked(c)

SmoothInv == layerFaults = 0 => Level /\ AtRest /\ InScopeOnly /\ Scanned /\ LastRefresh

LEMMA TypedStep == Typed /\ [LayersNext]_layersVars => Typed'
<1> SUFFICES ASSUME Typed, [LayersNext]_layersVars PROVE Typed'
  OBVIOUS
<1> USE CrossAssumption DEF Columns
\* The tables a worker moves.
<1>1. ASSUME NEW r \in Tracked, Push(r) \/ Sync(r) \/ FailSync(r) PROVE Typed'
  <2>1. UNCHANGED <<edges, layers, main>> /\ layerFaults' \in Nat
    BY <1>1 DEF Typed, Push, Sync, FailSync, LayerFault,
       SkipUnchanged, Fetch, RecordHead, Load, Aggregate
  <2>2. host' \in Columns
    <3>1. CASE Push(r)
      BY <3>1 DEF Typed, Push
    <3>2. CASE host' = host
      BY <3>2 DEF Typed
    <3> QED
      BY <1>1, <3>1, <3>2 DEF Sync, FailSync, SkipUnchanged, Fetch,
         RecordHead, Load, Aggregate
  <2>7. mirror' \in Columns
    BY <1>1 DEF Typed, Push, Sync, FailSync, SkipUnchanged,
       Fetch, RecordHead, Load, Aggregate, repos
  <2>6. head' \in Columns /\ loaded' \in Columns
    BY <1>1 DEF Typed, Push, Sync, FailSync, SkipUnchanged,
       Fetch, RecordHead, Load, Aggregate, repos
  <2>3. agg' \in Columns
    BY <1>1 DEF Typed, Push, Sync, FailSync, SkipUnchanged,
       Fetch, RecordHead, Load, Aggregate, repos
  <2>4. DOMAIN status' = Tracked
    BY <1>1 DEF Typed, Push, Sync, FailSync, SkipUnchanged,
       Fetch, RecordHead, Load, Aggregate, repos
  <2>5. sync' \in [Tracked -> SyncStates]
    BY <1>1 DEF Typed, Push, Sync, FailSync, SkipUnchanged,
       Fetch, RecordHead, Load, Aggregate,
       WorkerAt, SyncStates, Synced, work
  <2> QED
    BY <2>1, <2>2, <2>3, <2>4, <2>5, <2>6, <2>7 DEF Typed, edges, layers,
       main, Scoped, Everything
<1>2. CASE StartRun \/ EndPool \/ \E r \in Tracked : ReadSynced(r)
  <2>1. UNCHANGED <<host, repos, edges, layers, layerFaults>>
    BY <1>2 DEF StartRun, EndPool, ReadSynced
  <2>2. sync' \in [Tracked -> SyncStates]
    BY <1>2 DEF Typed, StartRun, EndPool, ReadSynced, SyncStates,
       work
  <2>3. ASSUME NEW rs, BeginRefresh(rs), rs \subseteq Tracked \/ rs = Everything
        PROVE  /\ phase' = "depbump" /\ todo' \subseteq Tracked /\ seen' \in Columns
               /\ Scoped' => scope' \subseteq Tracked
    BY <2>3 DEF BeginRefresh, Typed, Due, Manifest, Scoped,
       Everything
  <2>4. /\ phase' \in {"idle", "pool"} \cup Stages /\ todo' \subseteq Tracked /\ seen' \in Columns
        /\ Scoped' => scope' \subseteq Tracked
    <3>1. CASE StartRun \/ UNCHANGED <<phase, scope, todo, seen>> \/
                  (phase' = "idle" /\ UNCHANGED <<scope, todo, seen>>)
      BY <3>1 DEF Typed, StartRun, Scoped, Everything
    <3>2. CASE \E rs : BeginRefresh(rs) /\ (rs \subseteq Tracked \/ rs = Everything)
      BY <2>3, <3>2 DEF Stages
    <3>3. CASE EndPool
      BY <3>1, <3>2, <3>3 DEF EndPool
    <3>4. ASSUME NEW r \in Tracked, ReadSynced(r)
          PROVE  UNCHANGED main \/ (BeginRefresh({r}) /\ {r} \subseteq Tracked)
      BY <3>4 DEF ReadSynced
    <3> QED
      BY <1>2, <3>1, <3>2, <3>3, <3>4 DEF main
  <2> QED
    BY <2>1, <2>2, <2>4 DEF Typed, repos, edges, layers
<1>3. ASSUME NEW r \in Tracked, Scan(r) PROVE Typed'
  <2>1. bumps' \in [Tracked -> [Version -> {"none", "undated", "dated"}]]
    BY <1>3 DEF Scan, Typed
  <2>2. last_depbump_sha' \in Columns /\ seen' \in Columns /\ todo' \subseteq Tracked
    BY <1>3 DEF Scan, Typed
  <2> QED
    BY <1>3, <2>1, <2>2 DEF Scan, Typed, repos, layers, work,
       Scoped, Everything
<1>4. ASSUME NEW r \in Tracked, Pair(r) PROVE Typed'
  <2>1. pairs' \in [Tracked -> SUBSET Version] /\ todo' \subseteq Tracked
    BY <1>4 DEF Pair, Typed, Linked
  <2> QED
    BY <1>4, <2>1 DEF Pair, Typed, repos, edges, work,
       Scoped, Everything
\* What ends a stage.
<1>5. ASSUME NEW next \in {"idle", "pool"} \cup Stages, GoOn(next)
      PROVE  /\ phase' \in {"idle", "pool"} \cup Stages /\ todo' \subseteq Tracked /\ seen' \in Columns
             /\ Scoped' => scope' \subseteq Tracked
  BY <1>5 DEF GoOn, ToPair, Scoped, Everything, Typed
<1>6. CASE ResolveBumps
  <2>1. resolved' \in [Tracked -> SUBSET Version]
    BY <1>6 DEF ResolveBumps, Typed, Resolvable, Recorded
  <2>2. adopted' \in [Tracked -> SUBSET Version]
    BY <1>6, <2>1 DEF ResolveBumps
  <2> QED
    BY <1>5, <1>6, <2>1, <2>2 DEF ResolveBumps, Typed, repos, layers,
       work, Stages
<1>7. CASE RefreshDeclared
  <2>1. declared' \in Columns /\ last_declared_sha' \in Columns
    BY <1>7 DEF RefreshDeclared, Typed
  <2> QED
    BY <1>5, <1>7, <2>1 DEF RefreshDeclared, Typed, repos, edges,
       work, Stages
<1>8. CASE Predict
  <2>1. Facts \in [Tracked -> Reads] /\ \A c \in Tracked : FactsOf(c) \in Reads
    BY DEF Facts, FactsOf, Reads, Typed
  <2>2. impact' \in [Tracked -> Reads] /\ predict_inputs' \in [Tracked -> Reads]
    BY <1>8, <2>1 DEF Predict, Typed
  <2> QED
    BY <1>5, <1>8, <2>2 DEF Predict, Typed, repos, edges, work,
       Stages
<1>9. CASE Mine
  <2>1. mined' \in Columns
    BY <1>9 DEF Mine, Typed
  <2> QED
    BY <1>5, <1>9, <2>1 DEF Mine, Typed, repos, edges, work,
       Stages
<1>10. CASE PairsDone \/ FailStage \/ CrashLayers
  <2>1. UNCHANGED <<host, repos, edges, layers>>
    BY <1>10 DEF PairsDone, FailStage, CrashLayers
  <2>2. sync' \in [Tracked -> SyncStates] /\ layerFaults' \in Nat
    BY <1>10 DEF PairsDone, FailStage, CrashLayers, Typed, SyncStates,
       work, LayerFault
  <2>3. \E next \in {"idle", "pool"} \cup Stages : GoOn(next)
    BY <1>10 DEF PairsDone, FailStage, CrashLayers, Stages, After
  <2> QED
    BY <1>5, <2>1, <2>2, <2>3 DEF Typed, repos, edges, layers
<1>11. CASE UNCHANGED layersVars
  BY <1>11 DEF layersVars, Typed, repos, edges, layers, work,
     main, Scoped, Everything
<1> QED
  BY <1>1, <1>2, <1>3, <1>4, <1>6, <1>7, <1>8, <1>9, <1>10, <1>11 DEF LayersNext, Main

LEMMA InOrderStep == Typed /\ InOrder /\ [LayersNext]_layersVars => InOrder'
<1> SUFFICES ASSUME Typed, InOrder, [LayersNext]_layersVars, NEW q \in Tracked PROVE InOrderAt(q)'
  BY DEF InOrder
<1>0. InOrderAt(q)
  BY DEF InOrder
<1> USE DEF Typed, Columns, InOrderAt
\* Another repository's worker.
<1>1. ASSUME host'[q] = host[q], mirror'[q] = mirror[q], head'[q] = head[q], loaded'[q] = loaded[q],
             status'[q] = status[q], sync'[q] = sync[q] \/ sync'[q] \notin {"fetched", "recorded", "loaded"}
      PROVE  InOrderAt(q)'
  BY <1>0, <1>1
<1>2. ASSUME NEW r \in Tracked, r # q, Push(r) \/ Sync(r) \/ FailSync(r) PROVE InOrderAt(q)'
  <2>1. host'[q] = host[q] /\ mirror'[q] = mirror[q] /\ head'[q] = head[q]
    BY <1>2 DEF Push, Sync, FailSync, SkipUnchanged, Fetch,
       RecordHead, Load, Aggregate, repos
  <2>2. loaded'[q] = loaded[q] /\ status'[q] = status[q]
    BY <1>2 DEF Push, Sync, FailSync, SkipUnchanged, Fetch,
       RecordHead, Load, Aggregate, repos
  <2>3. sync'[q] = sync[q]
    BY <1>2 DEF Push, Sync, FailSync, SkipUnchanged, Fetch,
       RecordHead, Load, Aggregate, WorkerAt, work
  <2> QED
    BY <1>1, <2>1, <2>2, <2>3
\* Its own.
<1>3. CASE Push(q)
  BY <1>0, <1>3 DEF Push, repos, work
<1>4. CASE SkipUnchanged(q)
  BY <1>0, <1>4 DEF SkipUnchanged, WorkerAt, repos
<1>5. CASE Fetch(q)
  BY <1>0, <1>5 DEF Fetch, WorkerAt
<1>6. CASE RecordHead(q)
  BY <1>0, <1>6 DEF RecordHead, WorkerAt
<1>7. CASE Load(q)
  BY <1>0, <1>7 DEF Load, WorkerAt
<1>8. CASE Aggregate(q)
  BY <1>0, <1>8 DEF Aggregate, WorkerAt
<1>9. CASE FailSync(q)
  BY <1>0, <1>9 DEF FailSync
<1>10. CASE StartRun \/ EndPool \/ (\E r \in Tracked : ReadSynced(r)) \/ CrashLayers
  <2>1. UNCHANGED <<host, repos>>
    BY <1>10 DEF StartRun, EndPool, ReadSynced, CrashLayers
  <2>2. sync'[q] = sync[q] \/ sync'[q] \notin {"fetched", "recorded", "loaded"}
    BY <1>10 DEF StartRun, EndPool, ReadSynced, CrashLayers, work
  <2> QED
    BY <1>1, <2>1, <2>2 DEF repos
<1>11. CASE (\E r \in Tracked : Scan(r) \/ Pair(r)) \/ ResolveBumps
            \/ RefreshDeclared \/ Predict \/ PairsDone \/ Mine \/ FailStage \/ UNCHANGED layersVars
  <2>1. UNCHANGED <<host, repos, sync>>
    BY <1>11 DEF Scan, Pair, ResolveBumps, RefreshDeclared,
       Predict, PairsDone, Mine, FailStage, layersVars, work
  <2> QED
    BY <1>1, <2>1 DEF repos
<1> QED
  BY <1>2, <1>3, <1>4, <1>5, <1>6, <1>7, <1>8, <1>9, <1>10, <1>11 DEF LayersNext, Main,
     Sync

\* Versions and bumps are only added: the host's history is not rewritten here.
LEMMA OnlyGrow ==
    ASSUME Typed, InOrder, [LayersNext]_layersVars, NEW q \in Tracked
    PROVE  /\ loaded[q] <= loaded'[q] /\ mirror[q] <= mirror'[q]
           /\ \A v \in Version : bumps[q][v] = "none" \/ bumps'[q][v] = bumps[q][v]
<1>1. InOrderAt(q) /\ mirror[q] \in Nat /\ loaded[q] \in Nat /\ head[q] \in Nat /\ host[q] \in Nat
  BY DEF InOrder, Typed, Columns
<1>2. loaded'[q] = loaded[q] \/ loaded'[q] = head[q]
  <2>1. ASSUME NEW r \in Tracked, Load(r) PROVE loaded'[q] = loaded[q] \/ loaded'[q] = head[q]
    BY <2>1 DEF Load, Typed, Columns
  <2>2. (\E r \in Tracked : Load(r)) \/ UNCHANGED loaded
    BY DEF LayersNext, Main, Push, Sync, FailSync,
       SkipUnchanged, Fetch, RecordHead, Aggregate, StartRun,
       EndPool, ReadSynced, Scan, Pair, ResolveBumps,
       RefreshDeclared, Predict, PairsDone, Mine,
       FailStage, CrashLayers, layersVars, repos
  <2> QED
    BY <2>1, <2>2
<1>3. mirror'[q] = mirror[q] \/ mirror'[q] = host[q]
  <2>1. ASSUME NEW r \in Tracked, Fetch(r) PROVE mirror'[q] = mirror[q] \/ mirror'[q] = host[q]
    BY <2>1 DEF Fetch, Typed, Columns
  <2>2. (\E r \in Tracked : Fetch(r)) \/ UNCHANGED mirror
    BY DEF LayersNext, Main, Push, Sync, FailSync,
       SkipUnchanged, Load, RecordHead, Aggregate, StartRun,
       EndPool, ReadSynced, Scan, Pair, ResolveBumps,
       RefreshDeclared, Predict, PairsDone, Mine,
       FailStage, CrashLayers, layersVars, repos
  <2> QED
    BY <2>1, <2>2
<1>4. \A v \in Version : bumps[q][v] = "none" \/ bumps'[q][v] = bumps[q][v]
  <2>1. ASSUME NEW r \in Tracked, Scan(r), NEW v \in Version
        PROVE  bumps[q][v] = "none" \/ bumps'[q][v] = bumps[q][v]
    BY <2>1 DEF Scan, Typed
  <2>2. (\E r \in Tracked : Scan(r)) \/ UNCHANGED bumps
    BY DEF LayersNext, Main, Push, Sync, FailSync,
       SkipUnchanged, Fetch, Load, RecordHead, Aggregate,
       StartRun,
       EndPool, ReadSynced, Pair, ResolveBumps,
       RefreshDeclared, Predict, PairsDone, Mine,
       FailStage, CrashLayers, layersVars, edges
  <2> QED
    BY <2>1, <2>2
<1> QED
  BY <1>1, <1>2, <1>3, <1>4 DEF InOrderAt

LEMMA ResolvableGrows ==
    ASSUME Typed, InOrder, [LayersNext]_layersVars, NEW c \in Tracked
    PROVE  Resolvable(c) \subseteq Resolvable(c)'
<1>1. Recorded(c) \subseteq Recorded(c)'
  BY OnlyGrow DEF Recorded
<1>2. ASSUME c \in Manifest
      PROVE  /\ Upstream[c] \in Tracked /\ loaded[Upstream[c]] <= loaded'[Upstream[c]]
             /\ loaded[Upstream[c]] \in Nat /\ loaded'[Upstream[c]] \in Nat
  <2>1. Upstream[c] \in Tracked
    BY <1>2, CrossAssumption DEF Manifest, Typed
  <2>2. Typed'
    BY TypedStep
  <2> QED
    BY <2>1, <2>2, OnlyGrow DEF Typed, Columns
<1> QED
  BY <1>1, <1>2, CrossAssumption DEF Resolvable, Version, Recorded, Typed

LEMMA ReadLateStep == Typed /\ InOrder /\ ReadLate /\ [LayersNext]_layersVars => ReadLate'
<1> SUFFICES ASSUME Typed, InOrder, ReadLate, [LayersNext]_layersVars, NEW q \in Tracked
             PROVE  last_declared_sha'[q] <= declared'[q] /\ declared'[q] <= mirror'[q]
  BY DEF ReadLate
<1>1. /\ InOrderAt(q) /\ last_declared_sha[q] <= declared[q] /\ declared[q] <= mirror[q]
      /\ last_declared_sha[q] \in Nat /\ declared[q] \in Nat
      /\ head[q] \in Nat /\ mirror[q] \in Nat /\ mirror'[q] \in Nat /\ mirror[q] <= mirror'[q]
  BY TypedStep, OnlyGrow DEF InOrder, ReadLate, Typed, Columns
<1>2. CASE RefreshDeclared
  <2>1. mirror' = mirror
    BY <1>2 DEF RefreshDeclared, repos
  <2>2. \/ declared'[q] = mirror[q] /\ last_declared_sha'[q] = head[q]
        \/ declared'[q] = declared[q] /\ last_declared_sha'[q] = last_declared_sha[q]
    BY <1>2 DEF RefreshDeclared
  <2> QED
    BY <1>1, <2>1, <2>2 DEF InOrderAt
<1>3. CASE UNCHANGED <<declared, last_declared_sha>>
  BY <1>1, <1>3
<1> QED
  BY <1>2, <1>3 DEF LayersNext, Main, Push, Sync, FailSync,
     SkipUnchanged, Fetch, Load, RecordHead, Aggregate,
     StartRun, EndPool, ReadSynced, Scan, Pair,
     ResolveBumps, Predict, PairsDone, Mine,
     FailStage, CrashLayers, layersVars, layers

LEMMA AdoptedStep == Typed /\ InOrder /\ AdoptedOf /\ [LayersNext]_layersVars => AdoptedOf'
<1> SUFFICES ASSUME Typed, InOrder, AdoptedOf, [LayersNext]_layersVars, NEW c \in Tracked
             PROVE  /\ adopted'[c] \subseteq resolved'[c] /\ resolved'[c] \subseteq Resolvable(c)'
                    /\ \A v \in adopted'[c] : v <= loaded'[c]
  BY DEF AdoptedOf
<1>1. /\ adopted[c] \subseteq resolved[c] /\ resolved[c] \subseteq Resolvable(c)
      /\ \A v \in adopted[c] : v <= loaded[c]
      /\ Resolvable(c) \subseteq Resolvable(c)'
  BY ResolvableGrows DEF AdoptedOf
<1>2. CASE ResolveBumps
  <2>1. loaded' = loaded /\ bumps' = bumps
    BY <1>2 DEF ResolveBumps, repos
  <2>2. /\ resolved'[c] = Resolvable(c) \/ resolved'[c] = resolved[c]
        /\ adopted'[c] = {v \in resolved'[c] : v <= loaded[c]}
    BY <1>2 DEF ResolveBumps
  <2> QED
    BY <1>1, <2>1, <2>2
<1>3. CASE UNCHANGED <<resolved, adopted>>
  <2>1. \A v \in adopted[c] : v \in Nat
    BY CrossAssumption DEF Typed, Version
  <2>2. loaded[c] \in Nat /\ loaded'[c] \in Nat /\ loaded[c] <= loaded'[c]
    BY OnlyGrow, TypedStep DEF Typed, Columns
  <2>3. \A v \in adopted[c] : v <= loaded'[c]
    BY <1>1, <2>1, <2>2
  <2> QED
    BY <1>1, <1>3, <2>3
<1> QED
  BY <1>2, <1>3 DEF LayersNext, Main, Push, Sync, FailSync,
     SkipUnchanged, Fetch, Load, RecordHead, Aggregate,
     StartRun, EndPool, ReadSynced, Scan, Pair,
     RefreshDeclared, Predict, PairsDone, Mine,
     FailStage, CrashLayers, layersVars, edges

LEMMA MinedStep == Typed /\ MinedUnlessDue /\ [LayersNext]_layersVars => MinedUnlessDue'
<1> SUFFICES ASSUME Typed, MinedUnlessDue, [LayersNext]_layersVars, NEW q \in Tracked, q \notin mining_due'
             PROVE  mined'[q] = agg'[q]
  BY DEF MinedUnlessDue
<1>1. ASSUME NEW r \in Tracked, Aggregate(r) PROVE mined'[q] = agg'[q]
  BY <1>1 DEF Aggregate, MinedUnlessDue, Typed, Columns, layers
<1>2. CASE Mine
  BY <1>2 DEF Mine, MinedUnlessDue, repos
<1>3. CASE UNCHANGED <<mined, agg, mining_due>>
  BY <1>3 DEF MinedUnlessDue
<1> QED
  BY <1>1, <1>2, <1>3 DEF LayersNext, Main, Push, Sync, FailSync,
     SkipUnchanged, Fetch, Load, RecordHead,
     StartRun, EndPool, ReadSynced, Scan, Pair,
     ResolveBumps, RefreshDeclared, Predict, PairsDone,
     FailStage, CrashLayers, layersVars, repos, layers

-----------------------------------------------------------------------------
(* The fingerprint. *)

LEMMA WithinOrders ==
    /\ \A f \in Reads : Within(f, f)
    /\ \A f, g, h \in Reads : Within(f, g) /\ Within(g, h) => Within(f, h)
    /\ \A f, g \in Reads : Within(f, g) /\ Within(g, f) => f = g
<1>1. \A f \in Reads : /\ f[1] \in Nat /\ f[2] \in [Version -> {"none", "undated", "dated"}]
                       /\ f = <<f[1], f[2], f[3]>>
  BY DEF Reads
<1>2. \A f \in Reads : Within(f, f)
  BY <1>1 DEF Within
<1>3. ASSUME NEW f \in Reads, NEW g \in Reads, NEW h \in Reads, Within(f, g), Within(g, h)
      PROVE  Within(f, h)
  BY <1>1, <1>3 DEF Within
<1>4. ASSUME NEW f \in Reads, NEW g \in Reads, Within(f, g), Within(g, f) PROVE f = g
  <2>1. f[1] = g[1] /\ f[3] = g[3]
    BY <1>1, <1>4 DEF Within
  <2>2. \A v \in Version : f[2][v] = g[2][v]
    BY <1>4 DEF Within
  <2>3. f[2] = g[2]
    BY <1>1, <2>2
  <2> QED
    BY <1>1, <2>1, <2>3
<1> QED
  BY <1>2, <1>3, <1>4

LEMMA FactsGrow ==
    ASSUME Typed, InOrder, ReadLate, AdoptedOf, [LayersNext]_layersVars, NEW c \in Tracked
    PROVE  /\ FactsOf(c) \in Reads /\ FactsOf(c)' \in Reads
           /\ Within(FactsOf(c), FactsOf(c)')
<1>1. Typed'
  BY TypedStep
<1>2. FactsOf(c) \in Reads /\ FactsOf(c)' \in Reads
  BY <1>1 DEF Typed, Columns, FactsOf, Reads
<1>3. declared[c] <= declared'[c]
  <2>1. CASE RefreshDeclared
    <3>1. declared'[c] = mirror[c] \/ declared'[c] = declared[c]
      BY <2>1 DEF RefreshDeclared
    <3> QED
      BY <3>1 DEF ReadLate, Typed, Columns
  <2>2. CASE UNCHANGED declared
    BY <2>2 DEF Typed, Columns
  <2> QED
    BY <2>1, <2>2 DEF LayersNext, Main, Push, Sync, FailSync,
       SkipUnchanged, Fetch, Load, RecordHead, Aggregate,
       StartRun, EndPool, ReadSynced, Scan, Pair,
       ResolveBumps, Predict, PairsDone, Mine,
       FailStage, CrashLayers, layersVars, layers
<1>4. adopted[c] \subseteq adopted'[c]
  <2>1. CASE ResolveBumps
    <3>1. /\ resolved'[c] = Resolvable(c) \/ resolved'[c] = resolved[c]
          /\ adopted'[c] = {v \in resolved'[c] : v <= loaded[c]}
      BY <2>1 DEF ResolveBumps
    <3> QED
      BY <3>1 DEF AdoptedOf
  <2>2. CASE UNCHANGED adopted
    BY <2>2
  <2> QED
    BY <2>1, <2>2 DEF LayersNext, Main, Push, Sync, FailSync,
       SkipUnchanged, Fetch, Load, RecordHead, Aggregate,
       StartRun, EndPool, ReadSynced, Scan, Pair,
       RefreshDeclared, Predict, PairsDone, Mine,
       FailStage, CrashLayers, layersVars, edges
<1> QED
  BY <1>2, <1>3, <1>4, OnlyGrow DEF Within, FactsOf

LEMMA RanksStep ==
    Typed /\ InOrder /\ ReadLate /\ AdoptedOf /\ RanksBetween /\ [LayersNext]_layersVars => RanksBetween'
<1> SUFFICES ASSUME Typed, InOrder, ReadLate, AdoptedOf, RanksBetween, [LayersNext]_layersVars, NEW c \in Tracked
             PROVE  Within(predict_inputs'[c], impact'[c]) /\ Within(impact'[c], FactsOf(c)')
  BY DEF RanksBetween
<1>1. /\ predict_inputs[c] \in Reads /\ impact[c] \in Reads
      /\ predict_inputs'[c] \in Reads /\ impact'[c] \in Reads
  BY TypedStep DEF Typed
<1>2. /\ FactsOf(c) \in Reads /\ FactsOf(c)' \in Reads
      /\ Within(FactsOf(c), FactsOf(c)')
  BY FactsGrow
<1>3. Within(predict_inputs[c], impact[c]) /\ Within(impact[c], FactsOf(c))
  BY DEF RanksBetween
<1>4. CASE Predict
  <2>1. FactsOf(c)' = FactsOf(c)
    BY <1>4 DEF Predict, FactsOf, edges
  <2>2. \/ predict_inputs'[c] = predict_inputs[c] /\ impact'[c] = impact[c]
        \/ predict_inputs'[c] = predict_inputs[c] /\ impact'[c] = FactsOf(c)
        \/ predict_inputs'[c] = FactsOf(c) /\ impact'[c] = FactsOf(c)
    BY <1>4 DEF Predict, Facts
  <2> QED
    BY <1>1, <1>2, <1>3, <2>1, <2>2, WithinOrders
<1>5. CASE UNCHANGED <<predict_inputs, impact>>
  BY <1>1, <1>2, <1>3, <1>5, WithinOrders
<1> QED
  BY <1>4, <1>5 DEF LayersNext, Main, Push, Sync, FailSync,
     SkipUnchanged, Fetch, Load, RecordHead, Aggregate,
     StartRun, EndPool, ReadSynced, Scan, Pair,
     ResolveBumps, RefreshDeclared, PairsDone, Mine,
     FailStage, CrashLayers, layersVars, layers

LEMMA LayersStart == LayersInit => LayersInv
<1> SUFFICES ASSUME LayersInit PROVE LayersInv
  OBVIOUS
<1> USE CrossAssumption
<1>1. Typed
  BY DEF LayersInit, Typed, Columns, SyncStates, Reads, NoFacts, NoBumps,
     Scoped, Everything
<1>2. InOrder
  BY DEF LayersInit, InOrder, InOrderAt
<1>3. ReadLate /\ MinedUnlessDue
  BY DEF LayersInit, ReadLate, MinedUnlessDue
<1>4. AdoptedOf
  BY DEF LayersInit, AdoptedOf
<1>5. \A c \in Tracked : FactsOf(c) = NoFacts[c] /\ NoFacts[c] \in Reads
  BY DEF LayersInit, FactsOf, NoFacts, NoBumps, Reads
<1>6. RanksBetween
  BY <1>5, WithinOrders DEF LayersInit, RanksBetween
<1> QED
  BY <1>1, <1>2, <1>3, <1>4, <1>6 DEF LayersInv

LEMMA LayersStep == LayersInv /\ [LayersNext]_layersVars => LayersInv'
BY TypedStep, InOrderStep, ReadLateStep, AdoptedStep, MinedStep, RanksStep DEF LayersInv

LEMMA CalmAreCurrent == LayersInv => CalmIsCurrent
<1> SUFFICES ASSUME LayersInv, Calm PROVE Declared /\ Ranks /\ Mined
  BY DEF CalmIsCurrent
<1>1. Declared
  <2> SUFFICES ASSUME NEW c \in Manifest PROVE declared[c] = loaded[c]
    BY DEF Declared
  <2>1. /\ InOrderAt(c) /\ last_declared_sha[c] <= declared[c] /\ declared[c] <= mirror[c]
        /\ status[c] = "ready" /\ head[c] = mirror[c]
        /\ declared[c] \in Nat /\ loaded[c] \in Nat /\ head[c] \in Nat /\ last_declared_sha[c] \in Nat
    BY DEF LayersInv, InOrder, ReadLate, Calm, Ready, Manifest, Typed,
       Columns
  <2>2. loaded[c] > 0
    BY <2>1 DEF InOrderAt
  <2>3. last_declared_sha[c] = head[c]
    BY <2>2 DEF Calm, Needed
  <2> QED
    BY <2>1, <2>3 DEF InOrderAt
<1>2. Ranks
  <2>1. predict_inputs = Facts
    BY DEF Calm, Needed
  <2>2. ASSUME NEW c \in Tracked PROVE impact[c] = Facts[c]
    <3>1. Facts[c] = FactsOf(c) /\ predict_inputs[c] = FactsOf(c)
      BY <2>1 DEF Facts
    <3>2. impact[c] \in Reads /\ predict_inputs[c] \in Reads
      BY DEF LayersInv, Typed
    <3> QED
      BY <3>1, <3>2, WithinOrders DEF LayersInv, RanksBetween
  <2> QED
    BY <2>2 DEF Ranks, Facts, LayersInv, Typed
<1>3. Mined
  BY DEF Calm, Needed, Mined, LayersInv, MinedUnlessDue, Typed, Columns
<1> QED
  BY <1>1, <1>2, <1>3

-----------------------------------------------------------------------------
(* Where nothing failed. *)

Smooth == Level /\ AtRest /\ InScopeOnly /\ Scanned /\ LastRefresh

\* The steps that are left when nothing fails.
GoodStep ==
    \/ \E r \in Tracked : Push(r) \/ Sync(r)
    \/ StartRun \/ Main \/ UNCHANGED layersVars

LEMMA NothingFails == Typed /\ [LayersNext]_layersVars /\ layerFaults' = 0 => GoodStep /\ layerFaults = 0
<1> SUFFICES ASSUME Typed, [LayersNext]_layersVars, layerFaults' = 0 PROVE GoodStep /\ layerFaults = 0
  OBVIOUS
<1>1. layerFaults \in Nat
  BY DEF Typed
<1>2. ~FailStage /\ ~CrashLayers /\ ~ \E r \in Tracked : FailSync(r)
  BY <1>1 DEF FailStage, CrashLayers, FailSync, LayerFault
<1>3. GoodStep
  BY <1>2 DEF LayersNext, GoodStep
<1>4. layerFaults' = layerFaults
  BY <1>3 DEF GoodStep, Main, Push, Sync, SkipUnchanged,
     Fetch, Load, RecordHead, Aggregate,
     StartRun, EndPool, ReadSynced, Scan, Pair,
     ResolveBumps, RefreshDeclared, Predict, PairsDone,
     Mine, layersVars
<1> QED
  BY <1>3, <1>4

LEMMA LevelStep == Typed /\ InOrder /\ Level /\ AtRest /\ GoodStep => Level'
<1> SUFFICES ASSUME Typed, InOrder, Level, AtRest, GoodStep, NEW q \in Tracked
             PROVE  /\ sync'[q] \notin {"fetched", "recorded"} => head'[q] = mirror'[q] /\ loaded'[q] = head'[q]
                    /\ sync'[q] = "fetched" => loaded'[q] = head'[q]
  BY DEF Level
<1>0. /\ sync[q] \notin {"fetched", "recorded"} => head[q] = mirror[q] /\ loaded[q] = head[q]
      /\ sync[q] = "fetched" => loaded[q] = head[q]
      /\ sync[q] = "recorded" => head[q] = mirror[q]
  BY DEF Level, InOrder, InOrderAt
<1>1. ASSUME mirror'[q] = mirror[q], head'[q] = head[q], loaded'[q] = loaded[q],
             sync'[q] = sync[q] \/ (sync[q] \notin {"fetched", "recorded"} /\ sync'[q] \notin {"fetched", "recorded"})
      PROVE  /\ sync'[q] \notin {"fetched", "recorded"} => head'[q] = mirror'[q] /\ loaded'[q] = head'[q]
             /\ sync'[q] = "fetched" => loaded'[q] = head'[q]
  BY <1>0, <1>1
<1>2. ASSUME NEW r \in Tracked, Fetch(r) \/ RecordHead(r) \/ Load(r)
      PROVE  /\ sync'[q] \notin {"fetched", "recorded"} => head'[q] = mirror'[q] /\ loaded'[q] = head'[q]
             /\ sync'[q] = "fetched" => loaded'[q] = head'[q]
  <2>1. CASE Fetch(r)
    BY <1>0, <2>1 DEF Fetch, WorkerAt, Typed, Columns
  <2>2. CASE RecordHead(r)
    BY <1>0, <2>2 DEF RecordHead, WorkerAt, Typed, Columns
  <2>3. CASE Load(r)
    BY <1>0, <2>3 DEF Load, WorkerAt, Typed, Columns
  <2> QED
    BY <1>2, <2>1, <2>2, <2>3
<1>3. ASSUME NEW r \in Tracked, Push(r) \/ SkipUnchanged(r) \/ Aggregate(r) \/ ReadSynced(r)
      PROVE  /\ UNCHANGED <<mirror, head, loaded>>
             /\ sync'[q] = sync[q] \/ (sync[q] \notin {"fetched", "recorded"} /\ sync'[q] \notin {"fetched", "recorded"})
  BY <1>3 DEF Push, SkipUnchanged, Aggregate, ReadSynced,
     WorkerAt, Typed, repos, work, Synced
<1>4. CASE StartRun
  <2>1. sync'[q] = "queued" /\ sync[q] \in {"none", "read"} /\ UNCHANGED <<mirror, head, loaded>>
    BY <1>4 DEF StartRun, AtRest, repos
  <2> QED
    BY <1>1, <2>1
<1>5. CASE EndPool \/ ResolveBumps \/ RefreshDeclared \/ Predict
           \/ PairsDone \/ Mine \/ UNCHANGED layersVars
           \/ \E r \in Tracked : Scan(r) \/ Pair(r)
  <2>1. UNCHANGED <<mirror, head, loaded, sync>>
    BY <1>5 DEF EndPool, ResolveBumps, RefreshDeclared, Predict,
       PairsDone, Mine, Scan, Pair, layersVars, repos,
       work
  <2> QED
    BY <1>1, <2>1
<1> QED
  BY <1>1, <1>2, <1>3, <1>4, <1>5 DEF GoodStep, Main, Sync

\* What BeginRefresh does to the main thread.
LEMMA Begun ==
    ASSUME Typed, NEW rs, BeginRefresh(rs), UNCHANGED <<head, sync, added>> \/ UNCHANGED head
    PROVE  /\ phase' = "depbump" /\ scope' = rs
           /\ todo' \subseteq rs \cap Tracked /\ \A r \in todo' : seen'[r] = head'[r]
BY DEF BeginRefresh, Due, Manifest, Typed, Columns

LEMMA AtRestStep == Typed /\ AtRest /\ InScopeOnly /\ GoodStep => AtRest' /\ InScopeOnly'
<1> SUFFICES ASSUME Typed, AtRest, InScopeOnly, GoodStep PROVE AtRest' /\ InScopeOnly'
  OBVIOUS
\* A worker that goes on is not at rest.
<1>1. ASSUME NEW r \in Tracked, Sync(r) PROVE AtRest' /\ InScopeOnly'
  <2>1. /\ UNCHANGED <<phase, scope, todo, seen>> /\ added \subseteq added'
        /\ sync[r] \notin {"none", "read"} /\ \A q \in Tracked \ {r} : sync'[q] = sync[q]
    BY <1>1 DEF Sync, SkipUnchanged, Fetch, RecordHead,
       Load, Aggregate, WorkerAt, main, Typed
  <2>2. phase # "idle" /\ ~(phase \in Stages /\ r \in scope)
    BY <2>1 DEF AtRest
  <2>3. AtRest'
    BY <2>1, <2>2 DEF AtRest
  <2>4. \A q \in Tracked : phase = "depbump" /\ q \in todo => head'[q] = head[q]
    <3>1. \A q \in Tracked \ {r} : head'[q] = head[q]
      BY <1>1 DEF Sync, SkipUnchanged, Fetch, RecordHead,
         Load, Aggregate, repos, Typed, Columns
    <3>2. phase = "depbump" => r \notin todo
      BY <2>2 DEF InScopeOnly, Stages
    <3> QED
      BY <3>1, <3>2
  <2>5. InScopeOnly'
    BY <2>1, <2>4 DEF InScopeOnly, Typed, Scoped
  <2> QED
    BY <2>3, <2>5
<1>2. ASSUME NEW r \in Tracked, ReadSynced(r) PROVE AtRest' /\ InScopeOnly'
  <2>1. /\ phase = "pool" /\ sync'[r] = "read" /\ UNCHANGED <<head, added>>
        /\ UNCHANGED main \/ (r \in added /\ BeginRefresh({r}))
    BY <1>2 DEF ReadSynced, repos, Typed
  <2>2. CASE UNCHANGED main
    BY <2>1, <2>2 DEF AtRest, InScopeOnly, main, Stages
  <2>3. CASE r \in added /\ BeginRefresh({r})
    <3>1. phase' = "depbump" /\ scope' = {r} /\ todo' \subseteq {r} /\ \A q \in todo' : seen'[q] = head'[q]
      BY <2>1, <2>3, Begun
    <3> QED
      BY <2>1, <2>3, <3>1 DEF AtRest, InScopeOnly
  <2> QED
    BY <2>1, <2>2, <2>3
<1>3. CASE EndPool
  <2>1. /\ UNCHANGED <<head, sync, added>> /\ \A r \in Tracked : sync[r] = "read"
        /\ phase' = "idle" \/ BeginRefresh(Everything)
    BY <1>3 DEF EndPool, repos, work
  <2>2. CASE phase' = "idle"
    BY <2>1, <2>2 DEF AtRest, InScopeOnly, Stages
  <2>3. CASE BeginRefresh(Everything)
    BY <2>1, <2>3, Begun DEF AtRest, InScopeOnly, Scoped, Stages
  <2> QED
    BY <2>1, <2>2, <2>3
<1>4. CASE StartRun
  BY <1>4 DEF StartRun, AtRest, InScopeOnly, Stages
\* Within a refresh.
<1>5. ASSUME NEW r \in Tracked, Scan(r) \/ Pair(r) PROVE AtRest' /\ InScopeOnly'
  <2>1. UNCHANGED <<head, sync, added, phase, scope>> /\ todo' \subseteq todo
        /\ \A q \in todo' : phase = "depbump" => seen'[q] = seen[q]
    BY <1>5 DEF Scan, Pair, repos, work, Typed, Columns
  <2> QED
    BY <2>1 DEF AtRest, InScopeOnly, Typed, Scoped
<1>6. CASE ResolveBumps \/ RefreshDeclared \/ Predict \/ PairsDone \/ Mine
  <2>1. UNCHANGED <<head, sync, added, scope>> /\ phase \in Stages
    BY <1>6 DEF ResolveBumps, RefreshDeclared, Predict, PairsDone,
       Mine, GoOn, repos, work, Stages
  <2>2. /\ phase' \in {"declared", "predict", "xrepo"} \/ (phase' = "pool" /\ Scoped)
              \/ (phase' = "mining" /\ ~Scoped) \/ (phase' = "idle" /\ phase = "mining")
    BY <1>6 DEF ResolveBumps, RefreshDeclared, Predict, PairsDone,
       Mine, GoOn
  <2>3. phase = "mining" => \A r \in Tracked : sync[r] = "read"
    BY DEF InScopeOnly, Scoped, Everything, AtRest, Stages
  <2> QED
    BY <2>1, <2>2, <2>3 DEF AtRest, InScopeOnly, Stages, Scoped
<1>7. CASE (\E r \in Tracked : Push(r)) \/ UNCHANGED layersVars
  <2>1. UNCHANGED <<head, sync, added, phase, scope, todo, seen>>
    BY <1>7 DEF Push, layersVars, repos, work, main
  <2> QED
    BY <2>1 DEF AtRest, InScopeOnly, Scoped
<1> QED
  BY <1>1, <1>2, <1>3, <1>4, <1>5, <1>6, <1>7 DEF GoodStep, Main

LEMMA ScannedStep ==
    Typed /\ InOrder /\ Level /\ AtRest /\ InScopeOnly /\ Scanned /\ GoodStep => Scanned'
<1> SUFFICES ASSUME Typed, InOrder, Level, AtRest, InScopeOnly, Scanned, GoodStep, NEW q \in Tracked
             PROVE  /\ last_depbump_sha'[q] <= loaded'[q]
                    /\ \A v \in Version :
                          bumps'[q][v] = (IF v <= last_depbump_sha'[q] THEN "dated" ELSE "none")
  BY DEF Scanned
<1>0. /\ last_depbump_sha[q] <= loaded[q]
      /\ \A v \in Version : bumps[q][v] = (IF v <= last_depbump_sha[q] THEN "dated" ELSE "none")
      /\ last_depbump_sha[q] \in Nat /\ loaded[q] \in Nat
  BY DEF Scanned, Typed, Columns
<1>1. ASSUME NEW r \in Tracked, Scan(r)
      PROVE  /\ last_depbump_sha'[q] <= loaded'[q]
             /\ \A v \in Version :
                   bumps'[q][v] = (IF v <= last_depbump_sha'[q] THEN "dated" ELSE "none")
  <2>1. loaded' = loaded
    BY <1>1 DEF Scan, repos
  <2>2. CASE q # r
    <3>1. last_depbump_sha'[q] = last_depbump_sha[q] /\ bumps'[q] = bumps[q]
      BY <1>1, <2>2 DEF Scan, Typed, Columns
    <3> QED
      BY <1>0, <2>1, <3>1
  <2>3. CASE q = r
    <3>1. r \in scope /\ sync[r] = "read" /\ seen[r] = head[r]
      BY <1>1 DEF Scan, InScopeOnly, AtRest, Stages
    <3>2. mirror[r] = loaded[r] /\ seen[r] = loaded[r]
      BY <3>1 DEF Level
    <3>3. last_depbump_sha'[q] = loaded[q]
      BY <1>1, <2>3, <3>2 DEF Scan, Typed, Columns
    <3>4. \A v \in Version : bumps'[q][v] =
              (IF v > loaded[q] \/ bumps[q][v] # "none" THEN bumps[q][v]
               ELSE IF v <= loaded[q] THEN "dated" ELSE "undated")
      BY <1>1, <2>3, <3>2 DEF Scan, Typed
    <3>5. \A v \in Version : v \in Nat
      BY CrossAssumption DEF Version, Typed
    <3> QED
      BY <1>0, <2>1, <3>3, <3>4, <3>5
  <2> QED
    BY <2>2, <2>3
<1>2. CASE UNCHANGED <<bumps, last_depbump_sha>>
  <2>1. [LayersNext]_layersVars
    BY DEF GoodStep, LayersNext
  <2>2. loaded[q] <= loaded'[q] /\ loaded'[q] \in Nat
    BY <2>1, OnlyGrow, TypedStep DEF Typed, Columns
  <2> QED
    BY <1>0, <1>2, <2>2
<1> QED
  BY <1>1, <1>2 DEF GoodStep, Main, Push, Sync, SkipUnchanged,
     Fetch, Load, RecordHead, Aggregate,
     StartRun, EndPool, ReadSynced, Pair, ResolveBumps,
     RefreshDeclared, Predict, PairsDone, Mine, layersVars,
     edges

LEMMA LayersStand ==
    /\ Resolved /\ UNCHANGED <<loaded, bumps, resolved>> => Resolved'
    /\ Paired /\ UNCHANGED <<loaded, resolved, pairs>> => Paired'
BY DEF Resolved, Resolvable, Recorded, Paired, Linked

\* Without an added commit the commit table stands.
LEMMA NothingAdded ==
    ASSUME Typed, InOrder, NEW r \in Tracked, Sync(r), added' = {}
    PROVE  added = {} /\ loaded' = loaded
<1>1. CASE Load(r)
  <2>1. ~(loaded[r] < head[r]) /\ added = {}
    BY <1>1 DEF Load
  <2>2. loaded[r] <= head[r] /\ loaded[r] \in Nat /\ head[r] \in Nat
    BY DEF InOrder, InOrderAt, Typed, Columns
  <2>3. loaded[r] = head[r]
    BY <2>1, <2>2
  <2> QED
    BY <1>1, <2>1, <2>3 DEF Load, Typed, Columns
<1>2. CASE UNCHANGED <<loaded, added>>
  BY <1>2
<1> QED
  BY <1>1, <1>2 DEF Sync, SkipUnchanged, Fetch, RecordHead,
     Aggregate, repos

LEMMA LastRefreshStep ==
    Typed /\ InOrder /\ AtRest /\ InScopeOnly /\ LastRefresh /\ GoodStep => LastRefresh'
<1> SUFFICES ASSUME Typed, InOrder, AtRest, InScopeOnly, LastRefresh, GoodStep PROVE LastRefresh'
  OBVIOUS
<1>1. ASSUME NEW r \in Tracked, Sync(r) PROVE LastRefresh'
  <2>1. /\ UNCHANGED <<phase, scope, bumps, resolved, pairs>>
        /\ sync[r] \notin {"none", "read"}
    BY <1>1 DEF Sync, SkipUnchanged, Fetch, RecordHead,
       Load, Aggregate, WorkerAt, main, edges, layers
  <2>2. phase # "idle" /\ ~(phase \in Stages /\ ~Scoped)
    BY <2>1 DEF AtRest, Scoped, Everything
  <2>3. CASE Untouched'
    <3>1. Untouched /\ loaded' = loaded
      BY <1>1, <2>1, <2>2, <2>3, NothingAdded DEF Untouched
    <3> QED
      BY <2>1, <2>2, <2>3, <3>1, LayersStand DEF LastRefresh, Stages, Scoped,
         Untouched
  <2>4. CASE ~Untouched'
    BY <2>1, <2>2, <2>4 DEF LastRefresh, Stages, Scoped, InScopeOnly
  <2> QED
    BY <2>3, <2>4
<1>2. ASSUME UNCHANGED <<loaded, bumps, resolved, pairs>>, Untouched' => Untouched,
             phase' \in {"idle", "pool", "depbump"}
      PROVE  LastRefresh'
  BY <1>2, LayersStand DEF LastRefresh
<1>3. CASE StartRun \/ EndPool \/ \E r \in Tracked : ReadSynced(r)
  <2>1. UNCHANGED <<loaded, bumps, resolved, pairs>>
    BY <1>3 DEF StartRun, EndPool, ReadSynced, repos, edges,
       layers
  <2>2. CASE StartRun
    BY <1>2, <2>1, <2>2 DEF StartRun, Untouched
  <2>3. CASE EndPool
    BY <1>2, <2>1, <2>3 DEF EndPool, Untouched, BeginRefresh, work
  <2>4. ASSUME NEW r \in Tracked, ReadSynced(r) PROVE LastRefresh'
    BY <1>2, <2>1, <2>4 DEF ReadSynced, Untouched, BeginRefresh, main
  <2> QED
    BY <1>3, <2>2, <2>3, <2>4
<1>4. ASSUME NEW r \in Tracked, Scan(r) PROVE LastRefresh'
  BY <1>4 DEF Scan, LastRefresh, Untouched
<1>5. CASE ResolveBumps
  <2>1. /\ UNCHANGED <<bumps, loaded>> /\ phase' = "declared" /\ Scoped' = Scoped
        /\ \A c \in Tracked : InScope(c) => resolved'[c] = Resolvable(c)
    BY <1>5 DEF ResolveBumps, GoOn, repos, Scoped
  <2>2. ~Scoped => Resolved'
    BY <2>1 DEF InScope, Resolved, Resolvable, Recorded
  <2> QED
    BY <2>1, <2>2 DEF LastRefresh, Untouched
<1>6. CASE RefreshDeclared
  <2>1. /\ UNCHANGED <<bumps, loaded, resolved>> /\ phase = "declared" /\ phase' = "predict"
        /\ Scoped' = Scoped
    BY <1>6 DEF RefreshDeclared, GoOn, repos, edges, Scoped
  <2> QED
    BY <2>1, LayersStand DEF LastRefresh, Untouched
<1>7. CASE Predict
  <2>1. /\ UNCHANGED <<bumps, loaded, resolved, pairs>> /\ phase = "predict" /\ phase' = "xrepo"
        /\ Scoped' = Scoped /\ todo' = ToPair
    BY <1>7 DEF Predict, GoOn, repos, edges, Scoped
  <2>2. ~Scoped => \A c \in Tracked \ todo' : pairs'[c] = Linked(c)'
    BY <2>1 DEF ToPair, Linked
  <2> QED
    BY <2>1, <2>2, LayersStand DEF LastRefresh, Untouched
<1>8. ASSUME NEW r \in Tracked, Pair(r) PROVE LastRefresh'
  <2>1. /\ UNCHANGED <<bumps, loaded, resolved>> /\ phase = "xrepo" /\ phase' = "xrepo"
        /\ Scoped' = Scoped /\ todo' = todo \ {r} /\ pairs' = [pairs EXCEPT ![r] = Linked(r)]
    BY <1>8 DEF Pair, repos, edges, Scoped
  <2>2. ~Scoped => \A c \in Tracked \ todo' : pairs'[c] = Linked(c)'
    BY <2>1 DEF LastRefresh, Linked, Typed
  <2> QED
    BY <2>1, <2>2, LayersStand DEF LastRefresh, Untouched
<1>9. CASE PairsDone
  <2>1. /\ UNCHANGED <<bumps, loaded, resolved, pairs, added>> /\ phase = "xrepo" /\ todo = {}
        /\ Scoped' = Scoped /\ phase' = (IF Scoped THEN "pool" ELSE "mining")
    BY <1>9 DEF PairsDone, GoOn, repos, edges, layers,
       work, Scoped
  <2>2. CASE Scoped
    BY <2>1, <2>2 DEF LastRefresh, Untouched, InScopeOnly, Stages
  <2>3. CASE ~Scoped
    <3>1. Resolved /\ Paired
      BY <2>1, <2>3 DEF LastRefresh, Paired
    <3> QED
      BY <2>1, <2>3, <3>1, LayersStand DEF LastRefresh, Untouched
  <2> QED
    BY <2>2, <2>3
<1>10. CASE Mine
  <2>1. UNCHANGED <<bumps, loaded, resolved, pairs>> /\ phase = "mining" /\ phase' = "idle"
    BY <1>10 DEF Mine, GoOn, repos, edges
  <2>2. Resolved /\ Paired
    BY <2>1 DEF LastRefresh, InScopeOnly
  <2> QED
    BY <2>1, <2>2, LayersStand DEF LastRefresh
<1>11. CASE (\E r \in Tracked : Push(r)) \/ UNCHANGED layersVars
  <2>1. UNCHANGED <<bumps, loaded, resolved, pairs, added, phase, scope, todo>>
    BY <1>11 DEF Push, layersVars, repos, edges, layers,
       work, main
  <2> QED
    BY <2>1, LayersStand DEF LastRefresh, Untouched, Scoped, Linked
<1> QED
  BY <1>1, <1>3, <1>4, <1>5, <1>6, <1>7, <1>8, <1>9, <1>10, <1>11 DEF GoodStep, Main

LEMMA SmoothStep == LayersInv /\ SmoothInv /\ [LayersNext]_layersVars => SmoothInv'
<1> SUFFICES ASSUME LayersInv, SmoothInv, [LayersNext]_layersVars, layerFaults' = 0
             PROVE  Level' /\ AtRest' /\ InScopeOnly' /\ Scanned' /\ LastRefresh'
  BY DEF SmoothInv
<1>1. GoodStep /\ layerFaults = 0
  BY NothingFails DEF LayersInv
<1> QED
  BY <1>1, LevelStep, AtRestStep, ScannedStep, LastRefreshStep DEF LayersInv, SmoothInv

LEMMA SmoothStart == LayersInit => SmoothInv
<1> SUFFICES ASSUME LayersInit
             PROVE  Level /\ AtRest /\ InScopeOnly /\ Scanned /\ LastRefresh
  BY DEF SmoothInv
<1>1. Level /\ AtRest /\ InScopeOnly
  BY DEF LayersInit, Level, AtRest, InScopeOnly, Stages
<1>2. Scanned
  BY CrossAssumption DEF LayersInit, Scanned, NoBumps, Version
<1>3. Resolved /\ Paired
  BY DEF LayersInit, Resolved, Resolvable, Recorded, NoBumps,
     Paired, Linked
<1> QED
  BY <1>1, <1>2, <1>3 DEF LayersInit, LastRefresh

LEMMA FinishedAreCurrent == LayersInv /\ SmoothInv => FinishedIsCurrent
<1> SUFFICES ASSUME LayersInv, SmoothInv, Calm, layerFaults = 0
             PROVE  Dated /\ Resolved /\ Paired /\ Declared /\ Ranks /\ Mined
  BY DEF FinishedIsCurrent
<1>1. Declared /\ Ranks /\ Mined
  BY CalmAreCurrent DEF CalmIsCurrent
<1>2. Resolved /\ Paired
  BY DEF SmoothInv, LastRefresh, Untouched, Calm
<1>3. Dated
  <2> SUFFICES ASSUME NEW c \in Manifest PROVE last_depbump_sha[c] = loaded[c]
    BY DEF SmoothInv, Scanned, Dated, Manifest
  <2>1. InOrderAt(c) /\ status[c] = "ready" /\ loaded[c] \in Nat
    BY DEF LayersInv, InOrder, Calm, Ready, Manifest, Typed, Columns
  <2>2. loaded[c] = head[c] /\ loaded[c] > 0
    BY <2>1 DEF InOrderAt
  <2> QED
    BY <2>2 DEF Calm, Needed
<1> QED
  BY <1>1, <1>2, <1>3

\* Whatever failed before and whichever refreshes were for one repository, when no watermark
\* asks for a refresh the declared edges, the ranks and mining are those of the stored
\* commits (_crossrepo_rebuild_needed), for every set of repositories and dependencies.
THEOREM CalmLayersAreCurrent == LayersSpec => []CalmIsCurrent
BY LayersStart, LayersStep, CalmAreCurrent, PTL DEF LayersSpec

\* Where nothing failed, a quiet database has every layer as it should be, the dates of
\* bumps, what they resolve to and the pairs included, in whatever order the pool's results
\* came and whatever was refreshed between them (_refresh_crossrepo).
THEOREM FinishedLayersAreCurrent == LayersSpec => []FinishedIsCurrent
BY LayersStart, LayersStep, SmoothStart, SmoothStep, FinishedAreCurrent, PTL DEF LayersSpec
=============================================================================
