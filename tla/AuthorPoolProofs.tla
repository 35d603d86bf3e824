--------------------------- MODULE AuthorPoolProofs ----------------------------
(***************************************************************************)
(* Concurrent loads agree about authors, for every set of workers, walks   *)
(* and addresses, and any number of deadlocks and failures: a commit that  *)
(* is stored names the committed rows of its signatures, and a load is     *)
(* only given up for a deadlock after as many attempts as sync_repo        *)
(* allows.                                                                 *)
(***************************************************************************)
EXTENDS AuthorPool, FiniteSetTheorems, TLAPS

\* What a committed row, and a row of an open transaction, looks like.
RowsInv == \A e \in Email : author[e] # NoRow => author[e].id # 0

TxInv(w) == \A e \in Email :
    /\ inserted[w][e] # NoRow => inserted[w][e].id # 0 /\ author[e] = NoRow
    /\ cache[w][e] # 0 =>
          \/ inserted[w][e] # NoRow /\ cache[w][e] = inserted[w][e].id
          \/ author[e] # NoRow /\ cache[w][e] = author[e].id
    /\ pending[w][e] # {} \/ written[w][e] # {} => author[e] # NoRow

\* The unique key: one open transaction at most has inserted an address.
Alone == \A v, w \in Worker : \A e \in Email :
    v # w => inserted[v][e] = NoRow \/ inserted[w][e] = NoRow

\* What was resolved so far is what the cache holds.
WalkInv(w) ==
    /\ Len(ids[w]) <= Len(walk[w])
    /\ \A i \in 1..Len(ids[w]) :
          LET e == walk[w][i].email
          IN  IF e = NoEmail THEN ids[w][i] = 0
              ELSE cache[w][e] # 0 /\ ids[w][i] = cache[w][e]
    /\ at[w] = "insert" =>
          Remaining(w) /\ Sig(w).email # NoEmail /\ cache[w][Sig(w).email] = 0

StoredInv(w) == at[w] = "loaded" =>
    /\ Len(stored[w]) = Len(walk[w])
    /\ \A i \in DOMAIN walk[w] :
          LET e == walk[w][i].email
          IN  IF e = NoEmail THEN stored[w][i] = 0
              ELSE author[e] # NoRow /\ stored[w][i] = author[e].id

PoolInv ==
    /\ TypeOK /\ RowsInv /\ Alone
    /\ \A w \in Worker : TxInv(w) /\ WalkInv(w) /\ StoredInv(w)

-----------------------------------------------------------------------------
\* A walk is a sequence of signatures.
LEMMA WalkType ==
    ASSUME TypeOK, NEW w \in Worker
    PROVE  /\ walk[w] \in Seq(Signature)
           /\ \A i \in 1..Len(walk[w]) : walk[w][i] \in Signature
           /\ \A i \in 1..Len(walk[w]) : walk[w][i].email \in Email \cup {NoEmail}
           /\ \A i \in 1..Len(walk[w]) : walk[w][i].name \in Name
           /\ DOMAIN walk[w] = 1..Len(walk[w])
<1>1. walk[w] \in Seq(Signature) BY AuthorAssumption DEF TypeOK
<1>2. \A i \in 1..Len(walk[w]) : walk[w][i] \in Signature BY <1>1
<1>3. QED BY <1>1, <1>2 DEF Signature

\* The signature a worker is at.
LEMMA SigType ==
    ASSUME TypeOK, NEW w \in Worker, Remaining(w)
    PROVE  /\ Len(ids[w]) \in Nat /\ Len(ids[w]) + 1 \in 1..Len(walk[w])
           /\ Sig(w).email \in Email \cup {NoEmail} /\ Sig(w).name \in Name
<1>1. Len(ids[w]) \in Nat BY DEF TypeOK
<1>2. Len(walk[w]) \in Nat BY WalkType
<1>3. Len(ids[w]) + 1 \in 1..Len(walk[w]) BY <1>1, <1>2 DEF Remaining
<1>4. QED BY <1>1, <1>3, WalkType DEF Sig

LEMMA InitPool == Init => PoolInv
<1> SUFFICES ASSUME Init PROVE PoolInv OBVIOUS
<1>1. Cardinality(Email) \in Nat BY AuthorAssumption, FS_CardinalityType
<1>2. next_id \in Nat \ {0} BY <1>1 DEF Init
<1>3. \A e \in Email : author[e] \in Rows /\ (author[e] # NoRow => author[e].id # 0)
  BY <1>2 DEF Init, Rows, NoRow
<1>4. TypeOK
  <2>1. author \in [Email -> Rows] BY <1>3 DEF Init
  <2>2. NoRow \in Rows BY DEF NoRow, Rows
  <2>3. inserted \in [Worker -> [Email -> Rows]] BY <2>2 DEF Init
  <2>4. QED BY <1>2, <2>1, <2>3, AuthorAssumption DEF Init, TypeOK, Nothing
<1>5. \A w \in Worker : walk[w] \in Seq(Signature) BY <1>4, WalkType
<1>6. QED BY <1>3, <1>4, <1>5 DEF Init, PoolInv, RowsInv, Alone, TxInv, WalkInv, StoredInv, NoRow, Nothing

-----------------------------------------------------------------------------
\* One more signature has its id; what other workers hold is as it was.
LEMMA ResolvedStep ==
    ASSUME PoolInv, NEW w \in Worker, Remaining(w), NEW id \in Nat, Resolved(w, id),
           UNCHANGED <<walk, stored, author>>,
           cache' \in [Worker -> [Email -> Nat]],
           \A v \in Worker \ {w} : cache'[v] = cache[v],
           \A e \in Email : cache[w][e] # 0 => cache'[w][e] = cache[w][e],
           IF Sig(w).email = NoEmail THEN id = 0
           ELSE id # 0 /\ cache'[w][Sig(w).email] = id
    PROVE  /\ ids' \in [Worker -> Seq(Nat)]
           /\ at' \in [Worker -> {"read", "insert", "flush"} \cup Over]
           /\ \A v \in Worker : WalkInv(v)' /\ StoredInv(v)'
<1>1. ids' \in [Worker -> Seq(Nat)] BY DEF Resolved, PoolInv, TypeOK
<1>2. at' \in [Worker -> {"read", "insert", "flush"} \cup Over] /\ at'[w] \in {"read", "flush"}
  BY DEF Resolved, Go, PoolInv, TypeOK
<1>3. \A v \in Worker \ {w} : ids'[v] = ids[v] /\ at'[v] = at[v]
  BY DEF Resolved, Go, PoolInv, TypeOK
<1>4. ASSUME NEW v \in Worker \ {w} PROVE WalkInv(v)'
  <2>1. ids'[v] = ids[v] /\ at'[v] = at[v] /\ cache'[v] = cache[v] /\ walk' = walk BY <1>3
  <2>2. WalkInv(v) BY DEF PoolInv
  <2>3. QED BY <2>1, <2>2 DEF WalkInv, Remaining, Sig
<1>5. WalkInv(w)'
  <2>1. ids'[w] = Append(ids[w], id) /\ ids[w] \in Seq(Nat) BY DEF Resolved, PoolInv, TypeOK
  <2>2. Len(ids'[w]) = Len(ids[w]) + 1 /\ ids'[w][Len(ids[w]) + 1] = id BY <2>1
  <2>3. \A i \in 1..Len(ids[w]) : ids'[w][i] = ids[w][i] BY <2>1
  <2>4. Len(ids[w]) \in Nat /\ Len(ids[w]) + 1 \in 1..Len(walk[w]) BY SigType DEF PoolInv
  <2>5. Len(ids'[w]) <= Len(walk'[w]) BY <2>2, <2>4
  <2>6. ASSUME NEW i \in 1..Len(ids'[w])
        PROVE  IF walk'[w][i].email = NoEmail THEN ids'[w][i] = 0
               ELSE cache'[w][walk'[w][i].email] # 0
                    /\ ids'[w][i] = cache'[w][walk'[w][i].email]
    <3>1. CASE i = Len(ids[w]) + 1 BY <3>1, <2>2 DEF Sig
    <3>2. CASE i # Len(ids[w]) + 1
      <4>1. i \in 1..Len(ids[w]) BY <3>2, <2>2, <2>4
      <4>2. i \in 1..Len(walk[w]) BY <4>1, <2>4
      <4>3. walk[w][i].email \in Email \cup {NoEmail} BY <4>2, WalkType DEF PoolInv
      <4>4. walk' = walk /\ ids'[w][i] = ids[w][i] BY <4>1, <2>3
      <4>5. IF walk[w][i].email = NoEmail THEN ids[w][i] = 0
            ELSE cache[w][walk[w][i].email] # 0 /\ ids[w][i] = cache[w][walk[w][i].email]
        <5>1. WalkInv(w) BY DEF PoolInv
        <5>2. QED BY ONLY <5>1, <4>1 DEF WalkInv
      <4>6. CASE walk[w][i].email = NoEmail BY <4>4, <4>5, <4>6
      <4>7. CASE walk[w][i].email # NoEmail
        <5>1. walk[w][i].email \in Email BY <4>3, <4>7
        <5>2. cache'[w][walk[w][i].email] = cache[w][walk[w][i].email] BY <4>5, <4>7, <5>1
        <5>3. QED BY <4>4, <4>5, <4>7, <5>2
      <4>8. QED BY <4>6, <4>7
    <3>3. QED BY <3>1, <3>2
  <2>7. QED BY <1>2, <2>5, <2>6 DEF WalkInv
<1>6. ASSUME NEW v \in Worker PROVE StoredInv(v)'
  <2>1. CASE v = w BY <1>2, <2>1 DEF StoredInv
  <2>2. CASE v # w
    <3>1. at'[v] = at[v] /\ UNCHANGED <<walk, stored, author>> BY <1>3, <2>2
    <3>2. StoredInv(v) BY DEF PoolInv
    <3>3. QED BY <3>1, <3>2 DEF StoredInv
  <2>3. QED BY <2>1, <2>2
<1>7. QED BY <1>1, <1>2, <1>4, <1>5, <1>6
-----------------------------------------------------------------------------
\* What a step of w leaves alone: rows, and the transactions of the others.
LEMMA OthersTx ==
    ASSUME PoolInv, NEW w \in Worker, UNCHANGED author,
           \A v \in Worker \ {w} :
              /\ cache'[v] = cache[v] /\ inserted'[v] = inserted[v]
              /\ pending'[v] = pending[v] /\ written'[v] = written[v]
    PROVE  RowsInv' /\ \A v \in Worker \ {w} : TxInv(v)'
<1>1. RowsInv' BY DEF PoolInv, RowsInv
<1>2. ASSUME NEW v \in Worker \ {w} PROVE TxInv(v)' BY <1>2 DEF PoolInv, TxInv
<1>3. QED BY <1>1, <1>2

LEMMA RecallStep ==
    ASSUME PoolInv, NEW w \in Worker, Recall(w)
    PROVE  PoolInv'
<1>1. Remaining(w) /\ UNCHANGED <<table, job, cache, inserted, pending, written, stored, faults>>
  BY DEF Recall
<1>2. PICK id \in Nat : /\ Resolved(w, id)
                       /\ IF Sig(w).email = NoEmail THEN id = 0
                          ELSE id # 0 /\ cache'[w][Sig(w).email] = id
  <2>1. Sig(w).email \in Email \cup {NoEmail} BY <1>1, SigType DEF PoolInv
  <2>2. CASE Sig(w).email = NoEmail BY <2>2 DEF Recall
  <2>3. CASE Sig(w).email # NoEmail
    <3>1. cache[w][Sig(w).email] \in Nat /\ cache' = cache BY <1>1, <2>1, <2>3 DEF PoolInv, TypeOK
    <3>2. QED BY <2>3, <3>1 DEF Recall
  <2>4. QED BY <2>2, <2>3
<1>3. cache' \in [Worker -> [Email -> Nat]] BY <1>1 DEF PoolInv, TypeOK
<1>4. UNCHANGED <<walk, stored, author>> BY <1>1 DEF table, job
<1>5. /\ ids' \in [Worker -> Seq(Nat)]
      /\ at' \in [Worker -> {"read", "insert", "flush"} \cup Over]
      /\ \A v \in Worker : WalkInv(v)' /\ StoredInv(v)'
  BY <1>1, <1>2, <1>3, <1>4, ResolvedStep
<1>6. TypeOK' BY <1>1, <1>5 DEF PoolInv, TypeOK, table, job
<1>7. RowsInv' /\ Alone' /\ \A v \in Worker : TxInv(v)'
  BY <1>1 DEF PoolInv, RowsInv, Alone, TxInv, table
<1>8. QED BY <1>5, <1>6, <1>7 DEF PoolInv

\* The row is adopted, whether it was found at once or after a lost race.
LEMMA AdoptStep ==
    ASSUME PoolInv, NEW w \in Worker, Remaining(w), Sig(w).email # NoEmail,
           cache[w][Sig(w).email] = 0, author[Sig(w).email] # NoRow, Adopt(w)
    PROVE  PoolInv'
<1> DEFINE e == Sig(w).email
<1>1. e \in Email /\ Sig(w).name \in Name BY SigType DEF PoolInv
<1>2. author[e] \in Rows /\ author[e].id \in Nat /\ author[e].names \subseteq Name
  BY <1>1 DEF PoolInv, TypeOK, Rows
<1>3. author[e].id # 0 BY <1>1 DEF PoolInv, RowsInv
<1>4. /\ cache' = [cache EXCEPT ![w][e] = author[e].id]
      /\ pending' = pending
         \/ pending' = [pending EXCEPT ![w][e] = author[e].names \cup {Sig(w).name}]
      /\ Resolved(w, author[e].id)
      /\ UNCHANGED <<table, job, inserted, written, stored, faults>>
  BY DEF Adopt
<1>5. cache' \in [Worker -> [Email -> Nat]] BY <1>1, <1>2, <1>4 DEF PoolInv, TypeOK
<1>6. /\ \A v \in Worker \ {w} : cache'[v] = cache[v] /\ pending'[v] = pending[v]
      /\ cache'[w][e] = author[e].id
      /\ \A f \in Email \ {e} : cache'[w][f] = cache[w][f] /\ pending'[w][f] = pending[w][f]
  BY <1>1, <1>4 DEF PoolInv, TypeOK
<1>7. \A f \in Email : cache[w][f] # 0 => cache'[w][f] = cache[w][f] BY <1>6
<1>8. UNCHANGED <<walk, stored, author, next_id>> BY <1>4 DEF table, job
<1>9. /\ ids' \in [Worker -> Seq(Nat)]
      /\ at' \in [Worker -> {"read", "insert", "flush"} \cup Over]
      /\ \A v \in Worker : WalkInv(v)' /\ StoredInv(v)'
  <2>1. IF Sig(w).email = NoEmail THEN author[e].id = 0
        ELSE author[e].id # 0 /\ cache'[w][Sig(w).email] = author[e].id
    BY <1>3, <1>6
  <2>2. QED BY ONLY PoolInv, Remaining(w), <1>2, <1>4, <1>5, <1>6, <1>7, <1>8, <2>1, ResolvedStep
<1>10. pending' \in [Worker -> [Email -> SUBSET Name]]
  <2>1. author[e].names \cup {Sig(w).name} \in SUBSET Name BY <1>1, <1>2
  <2>2. pending \in [Worker -> [Email -> SUBSET Name]] BY DEF PoolInv, TypeOK
  <2>3. CASE pending' = [pending EXCEPT ![w][e] = author[e].names \cup {Sig(w).name}]
    <3> HIDE DEF e
    <3>1. [pending[w] EXCEPT ![e] = author[e].names \cup {Sig(w).name}] \in [Email -> SUBSET Name]
      BY <1>1, <2>1, <2>2
    <3>2. QED BY <2>2, <2>3, <3>1
  <2>4. QED BY <1>4, <2>2, <2>3
<1>11. TypeOK' BY <1>4, <1>5, <1>8, <1>9, <1>10 DEF PoolInv, TypeOK, job
<1>12. RowsInv' /\ Alone' /\ \A v \in Worker \ {w} : TxInv(v)'
  <2>1. Alone' BY <1>4 DEF PoolInv, Alone
  <2>2. QED BY <1>4, <1>6, <1>8, <2>1, OthersTx
<1>13. TxInv(w)'
  <2>1. TxInv(w) BY DEF PoolInv
  <2>2. inserted' = inserted /\ written' = written /\ author' = author BY <1>4, <1>8
  <2>3. QED BY <1>6, <2>1, <2>2 DEF TxInv
<1>14. QED BY <1>9, <1>11, <1>12, <1>13 DEF PoolInv

LEMMA LookupStep ==
    ASSUME PoolInv, NEW w \in Worker, Lookup(w)
    PROVE  PoolInv'
<1>1. at[w] = "read" /\ Remaining(w) /\ Sig(w).email # NoEmail /\ cache[w][Sig(w).email] = 0
  BY DEF Lookup
<1>2. CASE author[Sig(w).email] # NoRow /\ Adopt(w) BY <1>1, <1>2, AdoptStep
<1>3. CASE Go(w, "insert") /\ UNCHANGED <<table, tx, job, stored, faults>>
  <2>1. TypeOK' BY <1>3 DEF PoolInv, TypeOK, Go, table, tx, job
  <2>2. RowsInv' /\ Alone' /\ \A v \in Worker : TxInv(v)'
    BY <1>3 DEF PoolInv, RowsInv, Alone, TxInv, table, tx
  <2>3. at'[w] = "insert" /\ \A v \in Worker \ {w} : at'[v] = at[v]
    BY <1>3 DEF PoolInv, TypeOK, Go
  <2>4. \A v \in Worker : WalkInv(v)'
    BY <1>1, <1>3, <2>3 DEF PoolInv, WalkInv, Remaining, Sig, tx, job
  <2>5. \A v \in Worker : StoredInv(v)'
    BY <1>3, <2>3 DEF PoolInv, StoredInv, table, job
  <2>6. QED BY <2>1, <2>2, <2>4, <2>5 DEF PoolInv
<1>4. QED BY <1>2, <1>3 DEF Lookup

LEMMA AdoptWinnerStep ==
    ASSUME PoolInv, NEW w \in Worker, AdoptWinner(w)
    PROVE  PoolInv'
<1>1. at[w] = "insert" /\ author[Sig(w).email] # NoRow /\ Adopt(w) BY DEF AdoptWinner
<1>2. Remaining(w) /\ Sig(w).email # NoEmail /\ cache[w][Sig(w).email] = 0
  BY <1>1 DEF PoolInv, WalkInv
<1>3. QED BY <1>1, <1>2, AdoptStep

\* Nobody else holds the address that is inserted.
LEMMA InsertStep ==
    ASSUME PoolInv, NEW w \in Worker, Insert(w)
    PROVE  PoolInv'
<1> DEFINE e == Sig(w).email
           row == [id |-> next_id, names |-> {Sig(w).name}]
<1>1. /\ at[w] = "insert" /\ Pending(w) = {} /\ ~Waits(w) /\ author[e] = NoRow
      /\ inserted' = [inserted EXCEPT ![w][e] = row]
      /\ cache' = [cache EXCEPT ![w][e] = next_id]
      /\ next_id' = next_id + 1 /\ Resolved(w, next_id)
      /\ UNCHANGED <<author, job, pending, written, stored, faults>>
  BY DEF Insert
<1>2. Remaining(w) /\ e # NoEmail /\ cache[w][e] = 0 BY <1>1 DEF PoolInv, WalkInv
<1>3. e \in Email /\ Sig(w).name \in Name BY <1>2, SigType DEF PoolInv
<1>4. next_id \in Nat \ {0} BY DEF PoolInv, TypeOK
<1>5. row \in Rows /\ row # NoRow /\ row.id = next_id BY <1>3, <1>4 DEF Rows, NoRow
<1>6. \A v \in Worker \ {w} : inserted[v][e] = NoRow
  <2>1. e \in Wants(w) BY <1>1 DEF Wants
  <2>2. QED BY <1>1, <2>1 DEF Waits, WaitsFor, Holds
<1> HIDE DEF e, row
<1>7. cache' \in [Worker -> [Email -> Nat]]
  <2>1. [cache[w] EXCEPT ![e] = next_id] \in [Email -> Nat] BY <1>3, <1>4 DEF PoolInv, TypeOK
  <2>2. QED BY <1>1, <2>1 DEF PoolInv, TypeOK
<1>8. inserted' \in [Worker -> [Email -> Rows]]
  <2>1. [inserted[w] EXCEPT ![e] = row] \in [Email -> Rows] BY <1>3, <1>5 DEF PoolInv, TypeOK
  <2>2. QED BY <1>1, <2>1 DEF PoolInv, TypeOK
<1>9. /\ \A v \in Worker \ {w} : cache'[v] = cache[v] /\ inserted'[v] = inserted[v]
      /\ cache'[w][e] = next_id /\ inserted'[w][e] = row
      /\ \A f \in Email \ {e} : cache'[w][f] = cache[w][f] /\ inserted'[w][f] = inserted[w][f]
  BY <1>1, <1>3 DEF PoolInv, TypeOK
<1>10. UNCHANGED <<walk, attempt, stored, author, pending, written, faults>> BY <1>1 DEF job
<1>11. /\ ids' \in [Worker -> Seq(Nat)]
       /\ at' \in [Worker -> {"read", "insert", "flush"} \cup Over]
       /\ \A v \in Worker : WalkInv(v)' /\ StoredInv(v)'
  <2>1. IF Sig(w).email = NoEmail THEN next_id = 0
        ELSE next_id # 0 /\ cache'[w][Sig(w).email] = next_id
    BY <1>2, <1>4, <1>9 DEF e
  <2>2. \A f \in Email : cache[w][f] # 0 => cache'[w][f] = cache[w][f] BY <1>2, <1>9
  <2>3. QED BY ONLY PoolInv, <1>1, <1>2, <1>4, <1>7, <1>9, <1>10, <2>1, <2>2, ResolvedStep
<1>12. TypeOK' BY <1>1, <1>4, <1>7, <1>8, <1>10, <1>11 DEF PoolInv, TypeOK
<1>13. RowsInv' /\ \A v \in Worker \ {w} : TxInv(v)' BY <1>9, <1>10, OthersTx
<1>14. TxInv(w)'
  <2>1. TxInv(w) /\ author[e] = NoRow BY <1>1 DEF PoolInv, e
  <2>2. QED BY <1>4, <1>5, <1>9, <1>10, <2>1 DEF TxInv
<1>15. Alone'
  <2>1. ASSUME NEW v \in Worker, NEW x \in Worker, NEW f \in Email, v # x
        PROVE  inserted'[v][f] = NoRow \/ inserted'[x][f] = NoRow
    <3>1. inserted[v][f] = NoRow \/ inserted[x][f] = NoRow BY <2>1 DEF PoolInv, Alone
    <3>2. CASE f = e BY <1>6, <1>9, <2>1, <3>2
    <3>3. CASE f # e BY <1>9, <2>1, <3>1, <3>3
    <3>4. QED BY <3>2, <3>3
  <2>2. QED BY <2>1 DEF Alone
<1>16. QED BY <1>11, <1>12, <1>13, <1>14, <1>15 DEF PoolInv

LEMMA UpdateStep ==
    ASSUME PoolInv, NEW w \in Worker, Update(w)
    PROVE  PoolInv'
<1> DEFINE e == NextUpdate(w)
<1>1. /\ Pending(w) # {}
      /\ written' = [written EXCEPT ![w][e] = pending[w][e]]
      /\ pending' = [pending EXCEPT ![w][e] = {}]
      /\ UNCHANGED <<author, next_id, walk, attempt, at, cache, ids, inserted, stored, faults>>
  BY DEF Update, table, job
<1> HIDE DEF e
<1>3. CASE e \notin Email
  <2>1. written' = written /\ pending' = pending
    <3>1. [written[w] EXCEPT ![e] = pending[w][e]] = written[w] BY <1>3 DEF PoolInv, TypeOK
    <3>2. [pending[w] EXCEPT ![e] = {}] = pending[w] BY <1>3 DEF PoolInv, TypeOK
    <3>3. written' = [written EXCEPT ![w] = [written[w] EXCEPT ![e] = pending[w][e]]] BY <1>1
    <3>4. pending' = [pending EXCEPT ![w] = [pending[w] EXCEPT ![e] = {}]] BY <1>1
    <3>5. written' = [written EXCEPT ![w] = written[w]] BY <3>1, <3>3
    <3>6. pending' = [pending EXCEPT ![w] = pending[w]] BY <3>2, <3>4
    <3>7. QED BY <3>5, <3>6 DEF PoolInv, TypeOK
  <2>2. UNCHANGED <<author, walk, at, cache, ids, inserted, pending, written, stored>> BY <1>1, <2>1
  <2>3. TypeOK' BY <1>1, <2>2 DEF PoolInv, TypeOK
  <2>4. RowsInv' /\ Alone' BY <2>2 DEF PoolInv, RowsInv, Alone
  <2>5. \A v \in Worker : TxInv(v)' BY <2>2 DEF PoolInv, TxInv
  <2>6. \A v \in Worker : WalkInv(v)' /\ StoredInv(v)'
    BY <2>2 DEF PoolInv, WalkInv, StoredInv, Remaining, Sig
  <2>7. QED BY <2>3, <2>4, <2>5, <2>6 DEF PoolInv
<1>4. CASE e \in Email
  <2>1. [written[w] EXCEPT ![e] = pending[w][e]] \in [Email -> SUBSET Name]
    BY <1>4 DEF PoolInv, TypeOK
  <2>2. [pending[w] EXCEPT ![e] = {}] \in [Email -> SUBSET Name] BY <1>4 DEF PoolInv, TypeOK
  <2>3. written' \in [Worker -> [Email -> SUBSET Name]] BY <1>1, <2>1 DEF PoolInv, TypeOK
  <2>4. pending' \in [Worker -> [Email -> SUBSET Name]] BY <1>1, <2>2 DEF PoolInv, TypeOK
  <2>5. TypeOK' BY <1>1, <2>3, <2>4 DEF PoolInv, TypeOK
  <2>6. /\ \A v \in Worker \ {w} : written'[v] = written[v] /\ pending'[v] = pending[v]
        /\ written'[w][e] = pending[w][e] /\ pending'[w][e] = {}
        /\ \A f \in Email \ {e} : written'[w][f] = written[w][f] /\ pending'[w][f] = pending[w][f]
    BY <1>1, <1>4 DEF PoolInv, TypeOK
  <2>7. RowsInv' /\ \A v \in Worker \ {w} : TxInv(v)' BY <1>1, <2>6, OthersTx
  <2>8. TxInv(w)'
    <3>1. TxInv(w) BY DEF PoolInv
    <3>2. QED BY <1>1, <2>6, <3>1 DEF TxInv
  <2>9. Alone' /\ \A v \in Worker : WalkInv(v)' /\ StoredInv(v)'
    BY <1>1 DEF PoolInv, Alone, WalkInv, StoredInv, Remaining, Sig
  <2>10. QED BY <2>5, <2>7, <2>8, <2>9 DEF PoolInv
<1>5. QED BY <1>3, <1>4

LEMMA FlushCommitStep ==
    ASSUME PoolInv, NEW w \in Worker, FlushCommit(w)
    PROVE  PoolInv'
<1>1. at' = [at EXCEPT ![w] = "read"] BY DEF FlushCommit, Go
<1>2. UNCHANGED <<author, next_id, cache, ids, inserted, pending, written, walk, attempt, stored, faults>>
  BY DEF FlushCommit, table, tx, job
<1>3. TypeOK' BY <1>1, <1>2 DEF PoolInv, TypeOK
<1>4. at'[w] = "read" /\ \A v \in Worker \ {w} : at'[v] = at[v] BY <1>1 DEF PoolInv, TypeOK
<1>5. RowsInv' /\ Alone' /\ \A v \in Worker : TxInv(v)' BY <1>2 DEF PoolInv, RowsInv, Alone, TxInv
<1>6. \A v \in Worker : WalkInv(v)' /\ StoredInv(v)'
  BY <1>2, <1>4 DEF PoolInv, WalkInv, StoredInv, Remaining, Sig
<1>7. QED BY <1>3, <1>5, <1>6 DEF PoolInv

-----------------------------------------------------------------------------
\* A transaction ended, and w's next state starts from nothing.
LEMMA BeginStep ==
    ASSUME TypeOK, NEW w \in Worker, Begin(w), walk' = walk,
           NEW place \in {"read"} \cup Over, at' = [at EXCEPT ![w] = place]
    PROVE  /\ cache' \in [Worker -> [Email -> Nat]] /\ ids' \in [Worker -> Seq(Nat)]
           /\ inserted' \in [Worker -> [Email -> Rows]]
           /\ pending' \in [Worker -> [Email -> SUBSET Name]]
           /\ written' \in [Worker -> [Email -> SUBSET Name]]
           /\ at' \in [Worker -> {"read", "insert", "flush"} \cup Over]
           /\ \A v \in Worker \ {w} :
                 /\ cache'[v] = cache[v] /\ inserted'[v] = inserted[v] /\ ids'[v] = ids[v]
                 /\ pending'[v] = pending[v] /\ written'[v] = written[v] /\ at'[v] = at[v]
           /\ \A e \in Email : inserted'[w][e] = NoRow
           /\ at'[w] = place
           /\ TxInv(w)' /\ WalkInv(w)'
<1>1. NoRow \in Rows BY DEF NoRow, Rows
<1>2. /\ [e \in Email |-> NoRow] \in [Email -> Rows]
      /\ [e \in Email |-> 0] \in [Email -> Nat]
      /\ Nothing \in [Email -> SUBSET Name]
  BY <1>1 DEF Nothing
<1>3. /\ cache' \in [Worker -> [Email -> Nat]] /\ ids' \in [Worker -> Seq(Nat)]
      /\ inserted' \in [Worker -> [Email -> Rows]]
      /\ pending' \in [Worker -> [Email -> SUBSET Name]]
      /\ written' \in [Worker -> [Email -> SUBSET Name]]
  BY <1>2 DEF Begin, TypeOK
<1>4. at' \in [Worker -> {"read", "insert", "flush"} \cup Over] /\ at'[w] = place BY DEF TypeOK
<1>5. \A v \in Worker \ {w} :
         /\ cache'[v] = cache[v] /\ inserted'[v] = inserted[v] /\ ids'[v] = ids[v]
         /\ pending'[v] = pending[v] /\ written'[v] = written[v] /\ at'[v] = at[v]
  BY DEF Begin, TypeOK
<1>6. /\ cache'[w] = [e \in Email |-> 0] /\ ids'[w] = <<>>
      /\ inserted'[w] = [e \in Email |-> NoRow]
      /\ pending'[w] = Nothing /\ written'[w] = Nothing
  BY DEF Begin, TypeOK
<1>7. TxInv(w)' BY <1>6 DEF TxInv, Nothing
<1>8. WalkInv(w)'
  <2>1. Len(ids'[w]) = 0 BY <1>6
  <2>2. Len(walk[w]) \in Nat BY WalkType
  <2>3. Len(ids'[w]) <= Len(walk'[w]) BY <2>1, <2>2
  <2>4. 1..Len(ids'[w]) = {} BY <2>1
  <2>5. at'[w] # "insert" BY <1>4 DEF Over
  <2>6. QED BY <2>3, <2>4, <2>5 DEF WalkInv
<1>9. QED BY <1>3, <1>4, <1>5, <1>6, <1>7, <1>8

\* A rollback: rows and what is stored are as they were.
LEMMA RollbackStep ==
    ASSUME PoolInv, NEW w \in Worker, Begin(w), UNCHANGED <<table, walk, stored>>,
           NEW place \in {"read", "failed"}, at' = [at EXCEPT ![w] = place],
           attempt' \in [Worker -> 1..DB_CONTENTION_RETRIES], faults' \in 0..MaxFaults
    PROVE  PoolInv'
<1>1. TypeOK /\ UNCHANGED <<author, next_id>> BY DEF PoolInv, table
<1>2. place \in {"read"} \cup Over BY DEF Over
<1>3. /\ cache' \in [Worker -> [Email -> Nat]] /\ ids' \in [Worker -> Seq(Nat)]
      /\ inserted' \in [Worker -> [Email -> Rows]]
      /\ pending' \in [Worker -> [Email -> SUBSET Name]]
      /\ written' \in [Worker -> [Email -> SUBSET Name]]
      /\ at' \in [Worker -> {"read", "insert", "flush"} \cup Over]
      /\ \A v \in Worker \ {w} :
            /\ cache'[v] = cache[v] /\ inserted'[v] = inserted[v] /\ ids'[v] = ids[v]
            /\ pending'[v] = pending[v] /\ written'[v] = written[v] /\ at'[v] = at[v]
      /\ \A e \in Email : inserted'[w][e] = NoRow
      /\ at'[w] = place
      /\ TxInv(w)' /\ WalkInv(w)'
  BY <1>1, <1>2, BeginStep
<1>4. TypeOK' BY <1>1, <1>3 DEF TypeOK
<1>5. RowsInv' /\ \A v \in Worker \ {w} : TxInv(v)' BY <1>1, <1>3, OthersTx
<1>6. Alone'
  <2>1. ASSUME NEW v \in Worker, NEW x \in Worker, NEW e \in Email, v # x
        PROVE  inserted'[v][e] = NoRow \/ inserted'[x][e] = NoRow
    <3>1. CASE v = w \/ x = w BY <1>3, <3>1
    <3>2. CASE v # w /\ x # w
      <4>1. inserted'[v] = inserted[v] /\ inserted'[x] = inserted[x] BY <1>3, <3>2
      <4>2. QED BY <2>1, <4>1 DEF PoolInv, Alone
    <3>3. QED BY <3>1, <3>2
  <2>2. QED BY <2>1 DEF Alone
<1>7. ASSUME NEW v \in Worker \ {w} PROVE WalkInv(v)'
  <2>1. ids'[v] = ids[v] /\ at'[v] = at[v] /\ cache'[v] = cache[v] /\ walk' = walk BY <1>3
  <2>2. WalkInv(v) BY DEF PoolInv
  <2>3. QED BY <2>1, <2>2 DEF WalkInv, Remaining, Sig
<1>8. \A v \in Worker : StoredInv(v)'
  <2>1. at'[w] # "loaded" BY <1>3
  <2>2. \A v \in Worker \ {w} : StoredInv(v)' BY <1>1, <1>3 DEF PoolInv, StoredInv
  <2>3. QED BY <2>1, <2>2 DEF StoredInv
<1>9. QED BY <1>3, <1>4, <1>5, <1>6, <1>7, <1>8 DEF PoolInv

LEMMA KillStep ==
    ASSUME PoolInv, NEW w \in Worker, Kill(w)
    PROVE  PoolInv'
<1>1. Begin(w) /\ UNCHANGED <<table, walk, stored>> /\ faults' = faults BY DEF Kill
<1>2. faults' \in 0..MaxFaults BY <1>1 DEF PoolInv, TypeOK
<1>3. attempt[w] \in 1..DB_CONTENTION_RETRIES BY DEF PoolInv, TypeOK
<1>4. CASE attempt[w] < DB_CONTENTION_RETRIES
  <2>1. attempt' = [attempt EXCEPT ![w] = attempt[w] + 1] /\ at' = [at EXCEPT ![w] = "read"]
    BY <1>4 DEF Kill, Go
  <2>2. attempt[w] + 1 \in 1..DB_CONTENTION_RETRIES BY <1>3, <1>4, AuthorAssumption
  <2>3. attempt' \in [Worker -> 1..DB_CONTENTION_RETRIES] BY <2>1, <2>2 DEF PoolInv, TypeOK
  <2>4. QED BY <1>1, <1>2, <2>1, <2>3, RollbackStep
<1>5. CASE ~(attempt[w] < DB_CONTENTION_RETRIES)
  <2>1. attempt' = attempt /\ at' = [at EXCEPT ![w] = "failed"] BY <1>5 DEF Kill, Go
  <2>2. attempt' \in [Worker -> 1..DB_CONTENTION_RETRIES] BY <2>1 DEF PoolInv, TypeOK
  <2>3. QED BY <1>1, <1>2, <2>1, <2>2, RollbackStep
<1>6. QED BY <1>4, <1>5

LEMMA FailStep ==
    ASSUME PoolInv, NEW w \in Worker, Fail(w)
    PROVE  PoolInv'
<1>1. /\ Begin(w) /\ UNCHANGED <<table, walk, stored>> /\ attempt' = attempt
      /\ at' = [at EXCEPT ![w] = "failed"]
  BY DEF Fail, Go, job
<1>2. faults' \in 0..MaxFaults
  <2>1. faults \in 0..MaxFaults /\ MaxFaults \in Nat BY AuthorAssumption DEF PoolInv, TypeOK
  <2>2. faults < MaxFaults /\ faults' = faults + 1 BY DEF Fail
  <2>3. QED BY <2>1, <2>2
<1>3. attempt' \in [Worker -> 1..DB_CONTENTION_RETRIES] BY <1>1 DEF PoolInv, TypeOK
<1>4. QED BY <1>1, <1>2, <1>3, RollbackStep

\* Committed rows keep their ids, and the rows of the transaction become committed.
LEMMA CommitStep ==
    ASSUME PoolInv, NEW w \in Worker, Commit(w)
    PROVE  PoolInv'
<1>1. /\ at[w] = "read" /\ ~Remaining(w)
      /\ author' = [e \in Email |->
            IF inserted[w][e] # NoRow THEN inserted[w][e]
            ELSE IF written[w][e] # {} THEN [author[e] EXCEPT !.names = written[w][e]]
            ELSE author[e]]
      /\ stored' = [stored EXCEPT ![w] = ids[w]]
      /\ at' = [at EXCEPT ![w] = "loaded"] /\ Begin(w)
      /\ UNCHANGED <<next_id, walk, attempt, faults>>
  BY DEF Commit, Go, job
<1>2. TypeOK BY DEF PoolInv
<1>3. "loaded" \in {"read"} \cup Over BY DEF Over
<1>4. /\ cache' \in [Worker -> [Email -> Nat]] /\ ids' \in [Worker -> Seq(Nat)]
      /\ inserted' \in [Worker -> [Email -> Rows]]
      /\ pending' \in [Worker -> [Email -> SUBSET Name]]
      /\ written' \in [Worker -> [Email -> SUBSET Name]]
      /\ at' \in [Worker -> {"read", "insert", "flush"} \cup Over]
      /\ \A v \in Worker \ {w} :
            /\ cache'[v] = cache[v] /\ inserted'[v] = inserted[v] /\ ids'[v] = ids[v]
            /\ pending'[v] = pending[v] /\ written'[v] = written[v] /\ at'[v] = at[v]
      /\ \A e \in Email : inserted'[w][e] = NoRow
      /\ at'[w] = "loaded"
      /\ TxInv(w)' /\ WalkInv(w)'
  BY <1>1, <1>2, <1>3, BeginStep
<1>5. ASSUME NEW e \in Email
      PROVE  /\ author'[e] \in Rows
             /\ author[e] # NoRow => author'[e] # NoRow /\ author'[e].id = author[e].id
             /\ inserted[w][e] # NoRow => author'[e] = inserted[w][e]
             /\ inserted[w][e] = NoRow /\ author[e] = NoRow => author'[e] = NoRow
  <2>1. author[e] \in Rows /\ inserted[w][e] \in Rows /\ written[w][e] \in SUBSET Name
    BY DEF PoolInv, TypeOK
  <2>2. TxInv(w) BY DEF PoolInv
  <2>3. CASE inserted[w][e] # NoRow
    <3>1. author'[e] = inserted[w][e] BY <1>1, <2>3
    <3>2. author[e] = NoRow BY <2>2, <2>3 DEF TxInv
    <3>3. QED BY <2>1, <2>3, <3>1, <3>2
  <2>4. CASE inserted[w][e] = NoRow /\ written[w][e] # {}
    <3>1. author'[e] = [author[e] EXCEPT !.names = written[w][e]] BY <1>1, <2>4
    <3>2. author[e] # NoRow BY <2>2, <2>4 DEF TxInv
    <3>3. author'[e] \in Rows /\ author'[e].id = author[e].id BY <2>1, <3>1 DEF Rows
    <3>4. author'[e].id # 0 BY <3>2, <3>3 DEF PoolInv, RowsInv
    <3>5. author'[e] # NoRow BY <3>4 DEF NoRow
    <3>6. QED BY <2>4, <3>2, <3>3, <3>5
  <2>5. CASE inserted[w][e] = NoRow /\ written[w][e] = {}
    <3>1. author'[e] = author[e] BY <1>1, <2>5
    <3>2. QED BY <2>1, <2>5, <3>1
  <2>6. QED BY <2>3, <2>4, <2>5
<1>6. TypeOK'
  <2>1. author' \in [Email -> Rows]
    <3>1. DOMAIN author' = Email /\ author' = [e \in Email |-> author'[e]] BY <1>1
    <3>2. QED BY <1>5, <3>1
  <2>2. stored' \in [Worker -> Seq(Nat)] BY <1>1 DEF PoolInv, TypeOK
  <2>3. QED BY <1>1, <1>2, <1>4, <2>1, <2>2 DEF TypeOK
<1>7. RowsInv'
  <2>1. ASSUME NEW e \in Email, author'[e] # NoRow PROVE author'[e].id # 0
    <3>1. CASE inserted[w][e] # NoRow BY <1>5, <3>1 DEF PoolInv, TxInv
    <3>2. CASE inserted[w][e] = NoRow
      <4>1. author[e] # NoRow BY <1>5, <2>1, <3>2
      <4>2. QED BY <1>5, <4>1 DEF PoolInv, RowsInv
    <3>3. QED BY <3>1, <3>2
  <2>2. QED BY <2>1 DEF RowsInv
<1>8. Alone'
  <2>1. ASSUME NEW v \in Worker, NEW x \in Worker, NEW e \in Email, v # x
        PROVE  inserted'[v][e] = NoRow \/ inserted'[x][e] = NoRow
    <3>1. CASE v = w \/ x = w BY <1>4, <3>1
    <3>2. CASE v # w /\ x # w
      <4>1. inserted'[v] = inserted[v] /\ inserted'[x] = inserted[x] BY <1>4, <3>2
      <4>2. QED BY <2>1, <4>1 DEF PoolInv, Alone
    <3>3. QED BY <3>1, <3>2
  <2>2. QED BY <2>1 DEF Alone
<1>9. ASSUME NEW v \in Worker \ {w} PROVE TxInv(v)'
  <2>1. ASSUME NEW e \in Email
        PROVE  /\ inserted[v][e] # NoRow => inserted[v][e].id # 0 /\ author'[e] = NoRow
               /\ cache[v][e] # 0 =>
                     \/ inserted[v][e] # NoRow /\ cache[v][e] = inserted[v][e].id
                     \/ author'[e] # NoRow /\ cache[v][e] = author'[e].id
               /\ pending[v][e] # {} \/ written[v][e] # {} => author'[e] # NoRow
    <3>1. /\ inserted[v][e] # NoRow => inserted[v][e].id # 0 /\ author[e] = NoRow
          /\ cache[v][e] # 0 =>
                \/ inserted[v][e] # NoRow /\ cache[v][e] = inserted[v][e].id
                \/ author[e] # NoRow /\ cache[v][e] = author[e].id
          /\ pending[v][e] # {} \/ written[v][e] # {} => author[e] # NoRow
      BY DEF PoolInv, TxInv
    <3>2. inserted[v][e] # NoRow => inserted[w][e] = NoRow BY DEF PoolInv, Alone
    <3>3. QED BY <1>5, <3>1, <3>2
  <2>2. cache'[v] = cache[v] /\ inserted'[v] = inserted[v] /\ pending'[v] = pending[v]
        /\ written'[v] = written[v]
    BY <1>4
  <2>3. QED BY <2>1, <2>2 DEF TxInv
<1>10. ASSUME NEW v \in Worker \ {w} PROVE WalkInv(v)'
  <2>1. ids'[v] = ids[v] /\ at'[v] = at[v] /\ cache'[v] = cache[v] /\ walk' = walk BY <1>1, <1>4
  <2>2. WalkInv(v) BY DEF PoolInv
  <2>3. QED BY <2>1, <2>2 DEF WalkInv, Remaining, Sig
<1>11. ASSUME NEW v \in Worker \ {w} PROVE StoredInv(v)'
  <2>1. at'[v] = at[v] /\ walk'[v] = walk[v] /\ stored'[v] = stored[v]
    BY <1>1, <1>4 DEF PoolInv, TypeOK
  <2>2. StoredInv(v) BY DEF PoolInv
  <2>3. \A i \in DOMAIN walk[v] : walk[v][i].email \in Email \cup {NoEmail} BY <1>2, WalkType
  <2>4. QED BY <1>5, <2>1, <2>2, <2>3 DEF StoredInv
<1>12. StoredInv(w)'
  <2>1. WalkInv(w) /\ TxInv(w) BY DEF PoolInv
  <2>2. stored'[w] = ids[w] /\ ids[w] \in Seq(Nat) /\ walk'[w] = walk[w]
    BY <1>1 DEF PoolInv, TypeOK
  <2>3. Len(walk[w]) \in Nat /\ DOMAIN walk[w] = 1..Len(walk[w]) BY <1>2, WalkType
  <2>4. Len(ids[w]) = Len(walk[w]) BY <1>1, <2>1, <2>2, <2>3 DEF WalkInv, Remaining
  <2>5. ASSUME NEW i \in DOMAIN walk[w], walk[w][i].email # NoEmail
        PROVE  /\ author'[walk[w][i].email] # NoRow
               /\ ids[w][i] = author'[walk[w][i].email].id
    <3>1. i \in 1..Len(ids[w]) BY <2>3, <2>4
    <3>2. walk[w][i].email \in Email BY <1>2, <2>3, <2>5, WalkType
    <3>3. cache[w][walk[w][i].email] # 0 /\ ids[w][i] = cache[w][walk[w][i].email]
      BY <2>1, <2>5, <3>1 DEF WalkInv
    <3>4. QED BY <1>5, <2>1, <3>2, <3>3 DEF TxInv
  <2>6. ASSUME NEW i \in DOMAIN walk[w], walk[w][i].email = NoEmail PROVE ids[w][i] = 0
    BY <2>1, <2>3, <2>4, <2>6 DEF WalkInv
  <2>7. QED BY <2>2, <2>4, <2>5, <2>6 DEF StoredInv
<1>13. QED BY <1>4, <1>6, <1>7, <1>8, <1>9, <1>10, <1>11, <1>12 DEF PoolInv

-----------------------------------------------------------------------------
LEMMA NextPool == PoolInv /\ [Next]_vars => PoolInv'
<1> SUFFICES ASSUME PoolInv, [Next]_vars PROVE PoolInv' OBVIOUS
<1>1. ASSUME NEW w \in Worker, Step(w) PROVE PoolInv'
  BY <1>1, RecallStep, LookupStep, UpdateStep, InsertStep, AdoptWinnerStep, FlushCommitStep,
     CommitStep DEF Step
<1>2. CASE UNCHANGED vars
  <2>1. UNCHANGED <<author, next_id, walk, attempt, at, cache, ids, inserted, pending, written,
                    stored, faults>>
    BY <1>2 DEF vars, table, tx, job
  <2>2. TypeOK' BY <2>1 DEF PoolInv, TypeOK
  <2>3. RowsInv' /\ Alone' BY <2>1 DEF PoolInv, RowsInv, Alone
  <2>4. \A v \in Worker : TxInv(v)' BY <2>1 DEF PoolInv, TxInv
  <2>5. \A v \in Worker : WalkInv(v)' /\ StoredInv(v)'
    BY <2>1 DEF PoolInv, WalkInv, StoredInv, Remaining, Sig
  <2>6. QED BY <2>2, <2>3, <2>4, <2>5 DEF PoolInv
<1>3. QED BY <1>1, <1>2, KillStep, FailStep DEF Next, Idle

\* The invariant of the pool: open transactions agree with the rows, with the walks they
\* have resolved, and with each other about who inserts an address.
THEOREM PoolInvariant == Spec => []PoolInv
<1>1. Init => PoolInv BY InitPool
<1>2. PoolInv /\ [Next]_vars => PoolInv' BY NextPool
<1>3. QED BY <1>1, <1>2, PTL DEF Spec

\* Commits stored by concurrent loads name committed authors: AuthorCache.resolve and the
\* unique key of author.email.
THEOREM StoredAuthorsExist == Spec => []AuthorsAreCommitted
<1>1. PoolInv => AuthorsAreCommitted BY DEF PoolInv, StoredInv, AuthorsAreCommitted
<1>2. QED BY <1>1, PoolInvariant, PTL

-----------------------------------------------------------------------------
\* The loads that failed with attempts left, and the failures that are not contention.
GivenUp == {w \in Worker : at[w] = "failed" /\ attempt[w] < DB_CONTENTION_RETRIES}

GivenUpInv == IsFiniteSet(GivenUp) /\ Cardinality(GivenUp) <= faults

LEMMA GivenUpStep == PoolInv /\ GivenUpInv /\ [Next]_vars => GivenUpInv'
<1> SUFFICES ASSUME PoolInv, GivenUpInv, [Next]_vars PROVE GivenUpInv'
  OBVIOUS
<1>0. /\ at \in [Worker -> {"read", "insert", "flush"} \cup Over]
      /\ attempt \in [Worker -> 1..DB_CONTENTION_RETRIES]
      /\ faults \in Nat /\ DB_CONTENTION_RETRIES \in Nat
  BY AuthorAssumption DEF PoolInv, TypeOK
<1>1. ASSUME GivenUp' = GivenUp, faults' = faults PROVE GivenUpInv'
  BY <1>1 DEF GivenUpInv
\* A thread that is still at work, and goes on.
<1>2. ASSUME NEW w \in Worker, NEW place, Go(w, place), at[w] # "failed", place # "failed",
             UNCHANGED faults,
             \/ UNCHANGED attempt
             \/ attempt' = [attempt EXCEPT ![w] = @ + 1]
      PROVE  GivenUpInv'
  BY <1>0, <1>1, <1>2 DEF Go, GivenUp
<1>3. ASSUME NEW w \in Worker, Step(w) PROVE GivenUpInv'
  <2>1. at[w] # "failed" /\ faults' = faults /\ attempt' = attempt
    BY <1>3 DEF Step, Recall, Lookup, Adopt, Update, Insert, AdoptWinner, FlushCommit, Commit, job
  <2>2. UNCHANGED at \/ \E place : Go(w, place) /\ place # "failed"
    <3>1. CASE Recall(w) \/ Lookup(w) \/ AdoptWinner(w) \/ Insert(w)
      <4>1. ASSUME NEW id, Resolved(w, id) PROVE \E place : Go(w, place) /\ place # "failed"
        <5> DEFINE next == IF Len(ids[w]) % 2 = 1 THEN "flush" ELSE "read"
        <5>1. Go(w, next) /\ next # "failed"
          BY <4>1 DEF Resolved
        <5> QED
          BY <5>1
      <4> QED
        BY <3>1, <4>1 DEF Recall, Lookup, Adopt, AdoptWinner, Insert
    <3>2. CASE Update(w) \/ FlushCommit(w) \/ Commit(w)
      BY <3>2 DEF Update, FlushCommit, Commit
    <3> QED
      BY <1>3, <3>1, <3>2 DEF Step
  <2>3. CASE UNCHANGED at
    BY <1>1, <2>1, <2>3 DEF GivenUp
  <2> QED
    BY <1>2, <2>1, <2>2, <2>3
<1>4. ASSUME NEW w \in Worker, Kill(w) PROVE GivenUpInv'
  <2>1. at[w] # "failed" /\ faults' = faults
    <3>1. \E y \in Worker : WaitsFor(w, y)
      BY <1>4 DEF Kill, Deadlocked
    <3> QED
      BY <1>4, <3>1 DEF Kill, WaitsFor, Wants
  <2>2. CASE attempt[w] < DB_CONTENTION_RETRIES
    BY <1>2, <1>4, <2>1, <2>2 DEF Kill
  \* Out of attempts: it fails, and is not among those that gave up early.
  <2>3. CASE ~(attempt[w] < DB_CONTENTION_RETRIES)
    <3>1. Go(w, "failed") /\ UNCHANGED attempt
      BY <1>4, <2>3 DEF Kill
    <3>2. GivenUp' = GivenUp
      BY <1>0, <2>3, <3>1 DEF Go, GivenUp
    <3> QED
      BY <1>1, <2>1, <3>2
  <2> QED
    BY <2>2, <2>3
<1>5. ASSUME NEW w \in Worker, Fail(w) PROVE GivenUpInv'
  <2>1. faults' = faults + 1 /\ Go(w, "failed") /\ UNCHANGED attempt
    BY <1>5 DEF Fail, job
  <2>2. GivenUp' = GivenUp \/ GivenUp' = GivenUp \cup {w}
    BY <1>0, <2>1 DEF Go, GivenUp
  <2>3. IsFiniteSet(GivenUp \cup {w}) /\ Cardinality(GivenUp \cup {w}) <= Cardinality(GivenUp) + 1
    <3>1. Cardinality(GivenUp) \in Nat /\ IsFiniteSet(GivenUp)
      BY FS_CardinalityType DEF GivenUpInv
    <3>2. /\ IsFiniteSet(GivenUp \cup {w})
          /\ \/ Cardinality(GivenUp \cup {w}) = Cardinality(GivenUp)
             \/ Cardinality(GivenUp \cup {w}) = Cardinality(GivenUp) + 1
      BY <3>1, FS_AddElement
    <3> QED
      BY <3>1, <3>2
  <2>4. Cardinality(GivenUp) \in Nat /\ Cardinality(GivenUp \cup {w}) \in Nat
    BY <2>3, FS_CardinalityType DEF GivenUpInv
  <2>5. CASE GivenUp' = GivenUp
    BY <1>0, <2>1, <2>4, <2>5 DEF GivenUpInv
  <2>6. CASE GivenUp' = GivenUp \cup {w}
    <3>1. Cardinality(GivenUp) <= faults
      BY DEF GivenUpInv
    <3>2. Cardinality(GivenUp \cup {w}) <= faults + 1
      BY <1>0, <2>3, <2>4, <3>1
    <3> QED
      BY <2>1, <2>3, <2>6, <3>2 DEF GivenUpInv
  <2> QED
    BY <2>2, <2>5, <2>6
<1>6. CASE UNCHANGED vars
  BY <1>1, <1>6 DEF GivenUp, vars, job
<1> QED
  BY <1>3, <1>4, <1>5, <1>6 DEF Next, Idle

\* "It must adopt the existing author rather than fail the repository": loads that share
\* authors, in any number and however they block each other, fail only when all attempts
\* ended in a deadlock or something else went wrong (AuthorCache.resolve, sync_repo).
THEOREM SharingFailsNoLoad == Spec => []OnlyDeadlocksFail
<1>1. Init => GivenUpInv
  <2> SUFFICES ASSUME Init PROVE GivenUpInv
    OBVIOUS
  <2>1. GivenUp = {} /\ faults = 0
    BY DEF Init, GivenUp
  <2> QED
    BY <2>1, FS_EmptySet DEF GivenUpInv
<1>2. GivenUpInv => OnlyDeadlocksFail
  BY DEF GivenUpInv, GivenUp, OnlyDeadlocksFail
<1> QED
  BY <1>1, <1>2, GivenUpStep, PoolInvariant, PTL DEF Spec
=============================================================================
