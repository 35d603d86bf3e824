------------------------------ MODULE AuthorPool -------------------------------
(***************************************************************************)
(* ingest/store.py, AuthorCache: author.email is unique over all             *)
(* repositories, and pool threads load repositories at the same time, each   *)
(* in one transaction.  Who inserts an author another open transaction has   *)
(* inserted, or updates a row another one has updated, waits for it to end;  *)
(* a circle of waiting transactions loses one to the database.  sync_repo    *)
(* starts a load that lost in this way again.                                *)
(*                                                                           *)
(* A walk is reduced to the signatures of its commits, author and committer  *)
(* in turn.  Display names follow known_names and are left out.              *)
(***************************************************************************)
EXTENDS Naturals, Sequences, FiniteSets

CONSTANTS
    Worker,         \* threads of the pool, each loading one repository
    Email, Name,
    NoEmail,        \* a signature without an email address
    Walks,          \* the walks git may answer with
    DB_CONTENTION_RETRIES,
    MaxFaults       \* bound: failures that are not contention

Signature == [email : Email \cup {NoEmail}, name : Name]

ASSUME AuthorAssumption ==
    /\ IsFiniteSet(Email) /\ NoEmail \notin Email
    /\ Walks \subseteq Seq(Signature)
    /\ DB_CONTENTION_RETRIES \in Nat \ {0}
    /\ MaxFaults \in Nat

VARIABLES
    author,     \* author[e]: the committed row, NoRow when there is none
    next_id,    \* the sequence behind author.id
    walk, at, attempt,
    cache,      \* cache[w][e]: AuthorCache._cache, 0 when e is not in it
    ids,        \* the authors of the signatures resolved so far
    inserted,   \* inserted[w][e]: the row this transaction inserted
    pending,    \* pending[w][e]: known_names assigned to a row and not yet flushed
    written,    \* written[w][e]: known_names this transaction has updated the row with
    stored,     \* author_id and committer_id of the committed commits
    faults

table == <<author, next_id>>
tx    == <<cache, ids, inserted, pending, written>>
job   == <<walk, attempt>>
vars  == <<table, tx, job, at, stored, faults>>

NoRow == [id |-> 0, names |-> {}]
Rows  == [id : Nat, names : SUBSET Name]
Over  == {"loaded", "failed"}

TypeOK ==
    /\ author \in [Email -> Rows] /\ next_id \in Nat \ {0}
    /\ walk \in [Worker -> Walks]
    /\ at \in [Worker -> {"read", "insert", "flush"} \cup Over]
    /\ attempt \in [Worker -> 1..DB_CONTENTION_RETRIES]
    /\ cache \in [Worker -> [Email -> Nat]]
    /\ ids \in [Worker -> Seq(Nat)] /\ stored \in [Worker -> Seq(Nat)]
    /\ inserted \in [Worker -> [Email -> Rows]]
    /\ pending \in [Worker -> [Email -> SUBSET Name]]
    /\ written \in [Worker -> [Email -> SUBSET Name]]
    /\ faults \in 0..MaxFaults

Nothing == [e \in Email |-> {}]

\* Earlier loads may have left rows, under names that do not matter here.
Init ==
    /\ next_id \in 1..Cardinality(Email) + 1
    /\ author \in [Email -> {NoRow} \cup [id : 1..next_id - 1, names : {{}}]]
    /\ \A id \in 1..next_id - 1 : \E e \in Email :
          \A f \in Email : author[f].id = id <=> f = e
    /\ walk \in [Worker -> Walks]
    /\ at = [w \in Worker |-> "read"] /\ attempt = [w \in Worker |-> 1]
    /\ cache = [w \in Worker |-> [e \in Email |-> 0]]
    /\ ids = [w \in Worker |-> <<>>] /\ stored = [w \in Worker |-> <<>>]
    /\ inserted = [w \in Worker |-> [e \in Email |-> NoRow]]
    /\ pending = [w \in Worker |-> Nothing] /\ written = [w \in Worker |-> Nothing]
    /\ faults = 0

-----------------------------------------------------------------------------
(* resolve *)

Go(w, place) == at' = [at EXCEPT ![w] = place]

Remaining(w) == Len(ids[w]) < Len(walk[w])
Sig(w) == walk[w][Len(ids[w]) + 1]

\* The signature has its id; a commit is flushed when its committer has one.
Resolved(w, id) ==
    /\ ids' = [ids EXCEPT ![w] = Append(@, id)]
    /\ Go(w, IF Len(ids[w]) % 2 = 1 THEN "flush" ELSE "read")

\* No address, or seen before in this load: the row is not looked at again.
Recall(w) ==
    /\ at[w] = "read" /\ Remaining(w)
    /\ \/ Sig(w).email = NoEmail /\ Resolved(w, 0)
       \/ /\ Sig(w).email # NoEmail /\ cache[w][Sig(w).email] # 0
          /\ Resolved(w, cache[w][Sig(w).email])
    /\ UNCHANGED <<table, job, cache, inserted, pending, written, stored, faults>>

\* The row exists: a name that is new to it is assigned, for a later flush to write.
Adopt(w) ==
    LET e == Sig(w).email
        n == Sig(w).name
    IN  /\ cache' = [cache EXCEPT ![w][e] = author[e].id]
        /\ pending' = IF n \in author[e].names THEN pending
                      ELSE [pending EXCEPT ![w][e] = author[e].names \cup {n}]
        /\ Resolved(w, author[e].id)
        /\ UNCHANGED <<table, job, inserted, written, stored, faults>>

Lookup(w) ==
    /\ at[w] = "read" /\ Remaining(w)
    /\ Sig(w).email # NoEmail /\ cache[w][Sig(w).email] = 0
    /\ \/ author[Sig(w).email] # NoRow /\ Adopt(w)
       \/ /\ author[Sig(w).email] = NoRow /\ Go(w, "insert")
          /\ UNCHANGED <<table, tx, job, stored, faults>>

-----------------------------------------------------------------------------
(* Statements that may have to wait. *)

Pending(w) == {e \in Email : pending[w][e] # {}}

\* Updates of one flush are ordered by primary key.
NextUpdate(w) == CHOOSE e \in Pending(w) : \A f \in Pending(w) : author[e].id <= author[f].id

\* The row the transaction is about to write: begin_nested flushes before it inserts.
Wants(w) ==
    IF at[w] \notin {"insert", "flush"} THEN {}
    ELSE IF Pending(w) # {} THEN {NextUpdate(w)}
    ELSE IF at[w] = "insert" THEN {Sig(w).email} ELSE {}

Holds(w, e) == inserted[w][e] # NoRow \/ written[w][e] # {}

WaitsFor(w, v) == v # w /\ \E e \in Wants(w) : Holds(v, e)

Waits(w) == \E v \in Worker : WaitsFor(w, v)

\* The array is written as a whole, whatever the row holds by now.
Update(w) ==
    /\ at[w] \in {"insert", "flush"} /\ Pending(w) # {} /\ ~Waits(w)
    /\ LET e == NextUpdate(w)
       IN  /\ written' = [written EXCEPT ![w][e] = pending[w][e]]
           /\ pending' = [pending EXCEPT ![w][e] = {}]
    /\ UNCHANGED <<table, job, at, cache, ids, inserted, stored, faults>>

Insert(w) ==
    /\ at[w] = "insert" /\ Pending(w) = {} /\ ~Waits(w)
    /\ author[Sig(w).email] = NoRow
    /\ LET e == Sig(w).email
       IN  /\ inserted' = [inserted EXCEPT ![w][e] = [id |-> next_id, names |-> {Sig(w).name}]]
           /\ cache' = [cache EXCEPT ![w][e] = next_id]
    /\ next_id' = next_id + 1
    /\ Resolved(w, next_id)
    /\ UNCHANGED <<author, job, pending, written, stored, faults>>

\* Mutant: the loser of the race is not caught.
AdoptWinnerRaises(w) ==
    /\ at[w] = "insert" /\ Pending(w) = {} /\ ~Waits(w)
    /\ author[Sig(w).email] # NoRow
    /\ Go(w, "failed")
    /\ UNCHANGED <<table, tx, job, stored, faults>>

\* IntegrityError: the savepoint is rolled back and the winner's row is used.
AdoptWinner(w) ==
    /\ at[w] = "insert" /\ Pending(w) = {} /\ ~Waits(w)
    /\ author[Sig(w).email] # NoRow
    /\ Adopt(w)

\* conn.flush() after the commit was added.
FlushCommit(w) ==
    /\ at[w] = "flush" /\ Pending(w) = {}
    /\ Go(w, "read")
    /\ UNCHANGED <<table, tx, job, stored, faults>>

-----------------------------------------------------------------------------
(* The end of a transaction. *)

\* Mutant: the cache outlives the session it was filled from.
BeginWithCache(w) ==
    /\ ids' = [ids EXCEPT ![w] = <<>>]
    /\ inserted' = [inserted EXCEPT ![w] = [e \in Email |-> NoRow]]
    /\ pending' = [pending EXCEPT ![w] = Nothing]
    /\ written' = [written EXCEPT ![w] = Nothing]
    /\ UNCHANGED cache

\* A transaction begins with nothing: a new session and a new AuthorCache.
Begin(w) ==
    /\ cache' = [cache EXCEPT ![w] = [e \in Email |-> 0]]
    /\ ids' = [ids EXCEPT ![w] = <<>>]
    /\ inserted' = [inserted EXCEPT ![w] = [e \in Email |-> NoRow]]
    /\ pending' = [pending EXCEPT ![w] = Nothing]
    /\ written' = [written EXCEPT ![w] = Nothing]

\* The walk is over, and what the transaction wrote becomes visible.
Commit(w) ==
    /\ at[w] = "read" /\ ~Remaining(w)
    /\ author' = [e \in Email |->
          IF inserted[w][e] # NoRow THEN inserted[w][e]
          ELSE IF written[w][e] # {} THEN [author[e] EXCEPT !.names = written[w][e]]
          ELSE author[e]]
    /\ stored' = [stored EXCEPT ![w] = ids[w]]
    /\ Go(w, "loaded") /\ Begin(w)
    /\ UNCHANGED <<next_id, job, faults>>

\* Workers that wait for each other in circles.
Deadlocked(w) ==
    \E circle \in SUBSET Worker :
        /\ w \in circle
        /\ \A x \in circle : \E y, z \in circle : WaitsFor(x, y) /\ WaitsFor(z, x)

\* The database breaks a circle by killing one of its transactions, and sync_repo tries
\* again as often as it may.
Kill(w) ==
    /\ Deadlocked(w)
    /\ IF attempt[w] < DB_CONTENTION_RETRIES
       THEN attempt' = [attempt EXCEPT ![w] = @ + 1] /\ Go(w, "read")
       ELSE Go(w, "failed") /\ UNCHANGED attempt
    /\ Begin(w)
    /\ UNCHANGED <<table, walk, stored, faults>>

\* Mutant: the session is not rolled back, and its rows stay locked.
FailHolding(w) ==
    /\ faults < MaxFaults /\ faults' = faults + 1
    /\ at[w] \notin Over
    /\ Go(w, "failed")
    /\ UNCHANGED <<table, tx, job, stored>>

\* Any other exception: session_scope rolls back and the repository is failed.
Fail(w) ==
    /\ faults < MaxFaults /\ faults' = faults + 1
    /\ at[w] \notin Over
    /\ Go(w, "failed") /\ Begin(w)
    /\ UNCHANGED <<table, job, stored>>

-----------------------------------------------------------------------------
Step(w) ==
    \/ Recall(w) \/ Lookup(w) \/ Update(w) \/ Insert(w) \/ AdoptWinner(w)
    \/ FlushCommit(w) \/ Commit(w)

\* The pool has read every result.
Idle == (\A w \in Worker : at[w] \in Over) /\ UNCHANGED vars

Next == (\E w \in Worker : Step(w) \/ Kill(w) \/ Fail(w)) \/ Idle

Spec == Init /\ [][Next]_vars

\* Threads run, and the database looks for deadlocks.
FairSpec ==
    /\ Spec
    /\ \A w \in Worker : WF_vars(Step(w))
    /\ WF_vars(\E w \in Worker : Kill(w))
-----------------------------------------------------------------------------
(* Properties. *)

\* Every commit that is stored names the committed rows of its author's and committer's
\* addresses, whichever transaction inserted them and however often this one was killed.
AuthorsAreCommitted ==
    \A w \in Worker : at[w] = "loaded" =>
        /\ Len(stored[w]) = Len(walk[w])
        /\ \A i \in DOMAIN walk[w] :
              LET e == walk[w][i].email
              IN  IF e = NoEmail THEN stored[w][i] = 0
                  ELSE author[e] # NoRow /\ stored[w][i] = author[e].id

\* "It must adopt the existing author rather than fail the repository": sharing authors
\* fails a load only after as many deadlocks as there are attempts.
OnlyDeadlocksFail ==
    Cardinality({w \in Worker : at[w] = "failed" /\ attempt[w] < DB_CONTENTION_RETRIES}) <= faults

\* However loads block each other, each of them ends.
EveryLoadEnds == \A w \in Worker : <>(at[w] \in Over)

\* "An author seen again gains a display name and keeps the old one": names are added to
\* an author and never lost.
NamesAreKept == [][\A e \in Email : author[e].names \subseteq author'[e].names]_vars
=============================================================================
