--------------------------- MODULE DiscoveryProofs ---------------------------
(***************************************************************************)
(* After a pass that ended well every account's count is the number of its *)
(* repositories, and stays so until the next pass, for every set of        *)
(* accounts and repositories and any number of edits and failures.         *)
(*                                                                         *)
(* The count alone is not inductive. An account that is added starts at    *)
(* zero, which is right because no repository names an account that is not *)
(* there (OwnersExist); and a recount skips accounts that are not there,   *)
(* which is right because they count nothing (AbsentCountNothing).         *)
(***************************************************************************)
EXTENDS Discovery, FiniteSetTheorems, TLAPS

\* What the invariant needs of the types: the fields that EXCEPT changes are there.
Shaped ==
    /\ DOMAIN account = Account
    /\ \A a \in Account : DOMAIN account[a] = {"state", "only", "skip", "forks", "count"}
    /\ DOMAIN pass = {"at", "todo", "page", "seen", "raw", "kept", "listed", "named", "failed"}

\* A repository names an account that exists, or none.
OwnersExist == \A row \in corpus : row.owner \in Account => Present(row.owner)

AbsentCountNothing == \A a \in Account : ~Present(a) => account[a].count = 0

DiscoveryInv == Shaped /\ OwnersExist /\ AbsentCountNothing /\ CountsAreTrue

LEMMA DiscoveryInit == Init => DiscoveryInv
<1> SUFFICES ASSUME Init PROVE DiscoveryInv
    OBVIOUS
<1>0. /\ DOMAIN account = Account /\ pass = NoPass
      /\ \A a \in Account : \/ account[a] = Blank
                           \/ \E only \in NameLists :
                                account[a] = [Blank EXCEPT !.state = "enabled", !.only = only]
  <2>1. account \in [Account -> {Blank} \cup {[Blank EXCEPT !.state = "enabled", !.only = only] :
                                             only \in NameLists}]
      BY DEF Init
  <2>2. pass = NoPass
      BY DEF Init
  <2> QED BY <2>1, <2>2
<1>1. \A a \in Account : /\ account[a].count = 0
                         /\ DOMAIN account[a] = {"state", "only", "skip", "forks", "count"}
  <2> SUFFICES ASSUME NEW a \in Account
               PROVE  /\ account[a].count = 0
                      /\ DOMAIN account[a] = {"state", "only", "skip", "forks", "count"}
      OBVIOUS
  <2>1. CASE account[a] = Blank
      BY <2>1 DEF Blank
  <2>2. CASE \E only \in NameLists : account[a] = [Blank EXCEPT !.state = "enabled", !.only = only]
      BY <2>2 DEF Blank
  <2> QED BY <2>1, <2>2, <1>0
<1>2. Shaped
    BY <1>0, <1>1 DEF Shaped, NoPass
<1>3. corpus = {} /\ outcome = "none"
    BY DEF Init
<1> QED BY <1>1, <1>2, <1>3 DEF DiscoveryInv, OwnersExist, AbsentCountNothing, CountsAreTrue

\* Without rows of its own an account counts nothing.
LEMMA NothingLive ==
    ASSUME NEW a \in Account, \A row \in corpus : row.owner # a
    PROVE  Live(a) = 0
<1>1. {row \in corpus : row.owner = a} = {}
    OBVIOUS
<1> QED BY <1>1, FS_EmptySet DEF Live

\* A step that touches neither the tables nor the end of a pass.
LEMMA TablesStand ==
    ASSUME DiscoveryInv, UNCHANGED <<account, corpus>>,
           DOMAIN pass' = DOMAIN pass,
           \/ UNCHANGED <<pass, outcome>>
           \/ pass'.at # "idle"
           \/ outcome' # "done"
    PROVE  DiscoveryInv'
BY DEF DiscoveryInv, Shaped, OwnersExist, AbsentCountNothing, CountsAreTrue, Present, Live

LEMMA DashboardKeeps ==
    ASSUME DiscoveryInv, DiscoveryAssumption, DashboardStep \/ \E p \in Pasting : WriteAllowlist(p)
    PROVE  DiscoveryInv'
<1> USE DEF DiscoveryInv
<1>0. NoAccount \notin Account
    BY DEF DiscoveryAssumption
<1>1. CASE \E a \in Account : RemoveAccount(a)
  <2>1. PICK a \in Account : RemoveAccount(a)
      BY <1>1
  <2>2. /\ account' = [account EXCEPT ![a] = Gone]
        /\ corpus' = {IF row.owner = a THEN [name |-> row.name, owner |-> NoAccount] ELSE row :
                      row \in corpus}
        /\ UNCHANGED <<pass, outcome>>
      BY <2>1 DEF RemoveAccount, Edits
  <2>3. account'[a] = Gone /\ \A b \in Account : b # a => account'[b] = account[b]
      BY <2>2 DEF Shaped
  <2>4. \A row \in corpus' : row.owner # a
      BY <2>2, <1>0
  <2>5. Live(a)' = 0
    <3>1. {row \in corpus' : row.owner = a} = {}
        BY <2>4
    <3> QED BY <3>1, FS_EmptySet DEF Live
  <2>6. \A b \in Account : b # a => Live(b)' = Live(b)
    <3> SUFFICES ASSUME NEW b \in Account, b # a PROVE Live(b)' = Live(b)
        OBVIOUS
    <3>1. {row \in corpus' : row.owner = b} = {row \in corpus : row.owner = b}
        BY <2>2, <1>0
    <3> QED BY <3>1 DEF Live
  <2>7. Gone.count = 0 /\ DOMAIN Gone = {"state", "only", "skip", "forks", "count"}
      BY DEF Gone, Blank
  <2>8. Shaped'
      BY <2>2, <2>3, <2>7 DEF Shaped
  <2>9. OwnersExist'
      BY <2>2, <2>3, <2>4, <1>0 DEF OwnersExist, Present
  <2>10. AbsentCountNothing'
      BY <2>3, <2>7 DEF AbsentCountNothing, Present
  <2>11. CountsAreTrue'
      BY <2>2, <2>3, <2>5, <2>6, <2>7 DEF CountsAreTrue
  <2> QED BY <2>8, <2>9, <2>10, <2>11
<1>2. CASE \E a \in Account, only \in NameLists : AddAccount(a, only)
  <2>1. PICK a \in Account, only \in NameLists : AddAccount(a, only)
      BY <1>2
  <2>2. /\ account' = [account EXCEPT ![a] = [Blank EXCEPT !.state = "enabled", !.only = only]]
        /\ account[a].state = "absent"
        /\ UNCHANGED <<pass, outcome, corpus>>
      BY <2>1 DEF AddAccount, Edits
  <2>3. /\ account'[a].count = 0 /\ account'[a].state = "enabled"
        /\ DOMAIN account'[a] = {"state", "only", "skip", "forks", "count"}
        /\ \A b \in Account : b # a => account'[b] = account[b]
      BY <2>2 DEF Shaped, Blank
  <2>4. \A row \in corpus : row.owner # a
      BY <2>2 DEF OwnersExist, Present
  <2>5. Live(a) = 0
      BY <2>4, NothingLive
  <2>6. Shaped'
      BY <2>2, <2>3 DEF Shaped
  <2>7. OwnersExist' /\ AbsentCountNothing'
      BY <2>2, <2>3 DEF OwnersExist, AbsentCountNothing, Present
  <2>l. \A b \in Account : Live(b)' = Live(b)
      BY <2>2 DEF Live
  <2>8. CountsAreTrue'
      BY <2>2, <2>3, <2>5, <2>l DEF CountsAreTrue
  <2> QED BY <2>6, <2>7, <2>8
<1>3. CASE \E a \in Account, state \in {"enabled", "disabled"}, skip \in NameLists, forks \in BOOLEAN :
              UpdateAccount(a, state, skip, forks)
  <2>1. PICK a \in Account, state \in {"enabled", "disabled"}, skip \in NameLists, forks \in BOOLEAN :
              UpdateAccount(a, state, skip, forks)
      BY <1>3
  <2>2. /\ account' = [account EXCEPT ![a].state = state, ![a].skip = skip, ![a].forks = forks]
        /\ Present(a)
        /\ UNCHANGED <<pass, outcome, corpus>>
      BY <2>1 DEF UpdateAccount, Edits
  <2>3. /\ account'[a].count = account[a].count /\ account'[a].state = state
        /\ DOMAIN account'[a] = {"state", "only", "skip", "forks", "count"}
        /\ \A b \in Account : b # a => account'[b] = account[b]
      BY <2>2 DEF Shaped
  <2>4. Shaped'
      BY <2>2, <2>3 DEF Shaped
  <2>5. OwnersExist' /\ AbsentCountNothing'
      BY <2>2, <2>3 DEF OwnersExist, AbsentCountNothing, Present
  <2>l. \A b \in Account : Live(b)' = Live(b)
      BY <2>2 DEF Live
  <2>c. \A b \in Account : account'[b].count = account[b].count
      BY <2>3
  <2>6. CountsAreTrue'
      BY <2>2, <2>c, <2>l DEF CountsAreTrue
  <2> QED BY <2>4, <2>5, <2>6
<1>4. CASE \E p \in Pasting, a \in Account, r \in Repo \cup {NoRepo} : ReadAllowlist(p, a, r)
  <2>1. UNCHANGED <<account, corpus, pass, outcome>>
      BY <1>4 DEF ReadAllowlist, Edits
  <2> QED BY <2>1, TablesStand
<1>5. CASE \E p \in Pasting : WriteAllowlist(p)
  <2>1. PICK p \in Pasting : WriteAllowlist(p)
      BY <1>5
  <2> DEFINE owner == paste[p].account
             only == IF paste[p].repo = NoRepo THEN {} ELSE paste[p].read \cup {paste[p].repo}
  <2>2. /\ account' = IF Present(owner) THEN [account EXCEPT ![owner].only = only] ELSE account
        /\ UNCHANGED <<pass, outcome, corpus>>
      BY <2>1 DEF WriteAllowlist
  <2> HIDE DEF owner, only
  <2>3. \A b \in Account : /\ account'[b].count = account[b].count
                           /\ account'[b].state = account[b].state
                           /\ DOMAIN account'[b] = DOMAIN account[b]
      BY <2>2 DEF Shaped
  <2>4. Shaped'
      BY <2>2, <2>3 DEF Shaped
  <2>5. OwnersExist' /\ AbsentCountNothing'
      BY <2>2, <2>3 DEF OwnersExist, AbsentCountNothing, Present
  <2>l. \A b \in Account : Live(b)' = Live(b)
      BY <2>2 DEF Live
  <2>6. CountsAreTrue'
      BY <2>2, <2>3, <2>l DEF CountsAreTrue
  <2> QED BY <2>4, <2>5, <2>6
<1> QED BY <1>1, <1>2, <1>3, <1>4, <1>5 DEF DashboardStep

LEMMA PassKeeps ==
    ASSUME DiscoveryInv, DiscoveryAssumption, PassStep \/ AccountFails \/ Crash
    PROVE  DiscoveryInv'
<1> USE DEF DiscoveryInv
<1>0. NoAccount \notin Account
    BY DEF DiscoveryAssumption
<1>a. DOMAIN NoPass = DOMAIN pass
    BY DEF NoPass, Shaped
<1>1. CASE StartPass
  <2>1. UNCHANGED <<account, corpus>> /\ DOMAIN pass' = DOMAIN pass /\ pass'.at = "list"
      BY <1>1, <1>a DEF StartPass, Passes, NoPass
  <2> QED BY <2>1, TablesStand
<1>2. CASE ListPage
  <2>1. UNCHANGED <<account, corpus>>
      BY <1>2 DEF ListPage, Passes
  <2>2. DOMAIN pass' = DOMAIN pass /\ pass'.at # "idle"
      BY <1>2 DEF ListPage, Shaped
  <2> QED BY <2>1, <2>2, TablesStand
<1>3. CASE FetchByName
  <2>1. UNCHANGED <<account, corpus>> /\ DOMAIN pass' = DOMAIN pass /\ pass'.at = "select"
      BY <1>3 DEF FetchByName, Passes, Shaped
  <2> QED BY <2>1, TablesStand
<1>4. CASE AccountFails
  <2>1. UNCHANGED <<account, corpus>> /\ DOMAIN pass' = DOMAIN pass /\ pass'.at = "list"
      BY <1>4 DEF AccountFails, Listing, Passes, Shaped
  <2> QED BY <2>1, TablesStand
<1>5. CASE Accept
  <2>1. UNCHANGED <<account, corpus>> /\ DOMAIN pass' = DOMAIN pass /\ pass'.at = "store"
      BY <1>5 DEF Accept, Passes, Shaped
  <2> QED BY <2>1, TablesStand
<1>6. CASE NothingToList \/ NothingFound \/ Refuse \/ StoreConflicts \/ Crash
  <2>1. UNCHANGED <<account, corpus>> /\ pass' = NoPass /\ outcome' # "done"
      BY <1>6 DEF NothingToList, NothingFound, Refuse, StoreConflicts, Crash, Ends, Passes
  <2> QED BY <2>1, <1>a, TablesStand
<1>7. CASE SelectRepos
  <2>1. PICK u \in SUBSET {n.repo : n \in pass.seen} :
           LET found == Selected(Source, u)
           IN  /\ account' = IF Present(Source.account)
                             THEN [account EXCEPT ![Source.account].count = Cardinality(found)]
                             ELSE account
               /\ pass' = [NoPass EXCEPT
                        !.at = "list", !.todo = Tail(pass.todo),
                        !.kept = {row \in pass.kept : row.name \notin found}
                                   \cup {[name |-> n, owner |-> Source.account] : n \in found},
                        !.listed = pass.listed + pass.raw,
                        !.failed = pass.failed]
      BY <1>7 DEF SelectRepos
  <2> DEFINE count == Cardinality(Selected(Source, u))
  <2>2. account' = IF Present(Source.account)
                   THEN [account EXCEPT ![Source.account].count = count] ELSE account
      BY <2>1
  <2>3. DOMAIN pass' = DOMAIN pass /\ pass'.at = "list"
      BY <2>1, <1>a DEF NoPass
  <2> HIDE DEF count
  <2>4. \A b \in Account : /\ account'[b].state = account[b].state
                           /\ DOMAIN account'[b] = DOMAIN account[b]
                           /\ ~Present(b) => account'[b].count = account[b].count
      BY <2>2 DEF Shaped
  <2>5. UNCHANGED corpus /\ DOMAIN account' = Account
      BY <1>7, <2>2 DEF SelectRepos, Passes, Shaped
  <2> QED BY <2>3, <2>4, <2>5 DEF Shaped, OwnersExist, AbsentCountNothing, CountsAreTrue, Present
<1>8. CASE Store
  <2>1. UNCHANGED account /\ corpus' = Upserted /\ DOMAIN pass' = DOMAIN pass /\ pass'.at = "recount"
      BY <1>8 DEF Store, Shaped
  <2>2. \A row \in pass.kept : Present(row.owner)
      BY <1>8 DEF Store, Conflicts
  <2>3. OwnersExist'
      BY <2>1, <2>2 DEF OwnersExist, Upserted, Present
  <2> QED BY <2>1, <2>3 DEF Shaped, AbsentCountNothing, CountsAreTrue, Present
<1>9. CASE Recount
  <2>1. /\ account' = [a \in Account |->
              IF Present(a) THEN [account[a] EXCEPT !.count = Live(a)] ELSE account[a]]
        /\ pass' = NoPass /\ UNCHANGED corpus
      BY <1>9 DEF Recount, Ends, Passes
  <2>2. \A a \in Account : /\ account'[a].state = account[a].state
                           /\ DOMAIN account'[a] = DOMAIN account[a]
                           /\ Present(a) => account'[a].count = Live(a)
                           /\ ~Present(a) => account'[a].count = account[a].count
      BY <2>1 DEF Shaped
  <2>3. \A a \in Account : ~Present(a) => Live(a) = 0
    <3> SUFFICES ASSUME NEW a \in Account, ~Present(a) PROVE Live(a) = 0
        OBVIOUS
    <3>1. \A row \in corpus : row.owner # a
        BY DEF OwnersExist
    <3> QED BY <3>1, NothingLive
  <2>4. \A a \in Account : account'[a].count = Live(a)'
      BY <2>1, <2>2, <2>3 DEF AbsentCountNothing, Live
  <2> QED BY <2>1, <2>2, <2>4, <1>a DEF Shaped, OwnersExist, AbsentCountNothing, CountsAreTrue, Present
<1> QED BY <1>1, <1>2, <1>3, <1>4, <1>5, <1>6, <1>7, <1>8, <1>9 DEF PassStep

\* Set every source's count from the repositories that actually exist: whatever the pass
\* stamped on the accounts while it listed them, a pass that ended well leaves true counts,
\* and edits between passes keep them true.
THEOREM CountsStayTrue == Spec => []CountsAreTrue
<1> USE DiscoveryAssumption
<1>1. DiscoveryInv /\ [Next]_vars => DiscoveryInv'
  <2> SUFFICES ASSUME DiscoveryInv, [Next]_vars PROVE DiscoveryInv'
      OBVIOUS
  <2>1. CASE HostStep
    <3>1. UNCHANGED <<account, corpus, pass, outcome>>
        BY <2>1 DEF HostStep, ChangeToken, Push, Delete, Rename, HostMoves
    <3> QED BY <3>1, TablesStand
  <2>2. CASE DashboardStep \/ \E p \in Pasting : WriteAllowlist(p)
      BY <2>2, DashboardKeeps
  <2>3. CASE PassStep \/ AccountFails \/ Crash
      BY <2>3, PassKeeps
  <2>4. CASE UNCHANGED vars
      BY <2>4, TablesStand DEF vars
  <2> QED BY <2>1, <2>2, <2>3, <2>4 DEF Next
<1> QED BY <1>1, DiscoveryInit, PTL DEF Spec, DiscoveryInv
=============================================================================
