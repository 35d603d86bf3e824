------------------------- MODULE FileIdentityProofs --------------------------
(***************************************************************************)
(* What FileResolver and the loads guarantee for every set of paths,       *)
(* history and number of loads.                                            *)
(*                                                                         *)
(* First, the unique keys of `file` and `file_alias`, however paths are    *)
(* reused and branches rename: a load never fails on the rows it writes    *)
(* itself. by_path owns every path a row has or is about to get, so two    *)
(* rows that move in one flush cannot meet.                                *)
(*                                                                         *)
(* Then, on plain histories, what a row is: IdentityInv says that a path   *)
(* that is known leads to the row of the one file that ever had it,        *)
(* whether it is looked up in memory, among the rows or among the aliases. *)
(* One row is one file, a re-read finds every row again, and no name is    *)
(* lost.                                                                   *)
(***************************************************************************)
EXTENDS FileIdentity, FiniteSetTheorems, TLAPS

HistoryType ==
    /\ history \in Seq(Change) /\ tree \in [Path -> Nat]
    /\ read \in Nat /\ loaded \in Nat
    /\ read <= Len(history) /\ loaded <= Len(history)

SessionType ==
    /\ file \in [FileId -> Path \cup {NoPath}]
    /\ by_path \in [Path -> FileId \cup {NoFile}]
    /\ pending_renames \in [FileId -> Path \cup {NoPath}]
    /\ pending_aliases \in Seq(Path \X FileId)
    /\ file_alias \subseteq Path \X FileId

OnePathOneRow(rows) == \A m, n \in FileId : rows[m] = rows[n] /\ rows[m] # NoPath => m = n
OneAlias(aliases)   == \A a, b \in aliases : a[1] = b[1] => a = b

\* What the last load committed.
SavedKeys ==
    /\ saved[1] \in [FileId -> Path \cup {NoPath}] /\ saved[2] \subseteq Path \X FileId
    /\ OnePathOneRow(saved[1]) /\ OneAlias(saved[2])

\* A path that a row has, or will have, resolves to that row.
Owned ==
    /\ loading => \A n \in FileId : file[n] # NoPath => by_path[file[n]] = n
    /\ \A n \in FileId : pending_renames[n] # NoPath => by_path[pending_renames[n]] = n
    /\ ~loading => pending_renames = NoRenames /\ pending_aliases = <<>>

KeysInv ==
    /\ HistoryType /\ SessionType /\ SavedKeys /\ Owned
    /\ OnePathOneRow(file) /\ OneAlias(file_alias)

-----------------------------------------------------------------------------
\* Rows that move in a flush do not meet each other, nor a row that stays.
LEMMA MovesKeepKeys ==
    ASSUME SessionType, Owned, OnePathOneRow(file)
    PROVE  MovedRows \in [FileId -> Path \cup {NoPath}] /\ OnePathOneRow(MovedRows)
<1>1. MovedRows \in [FileId -> Path \cup {NoPath}]
  BY DEF MovedRows, SessionType
<1>2. CASE ~loading
  <2>1. MovedRows = file
    BY <1>2 DEF Owned, NoRenames, MovedRows, SessionType
  <2> QED
    BY <1>1, <2>1
<1>3. CASE loading
  <2>1. \A n \in FileId : MovedRows[n] # NoPath => by_path[MovedRows[n]] = n
    BY <1>3 DEF Owned, MovedRows
  <2> QED
    BY <1>1, <2>1 DEF OnePathOneRow
<1> QED
  BY <1>2, <1>3

\* Nor do the aliases a flush inserts.
LEMMA InsertedOnce ==
    ASSUME SessionType
    PROVE  \A j, k \in Inserted : pending_aliases[j][1] = pending_aliases[k][1] => j = k
<1> SUFFICES ASSUME NEW j \in Inserted, NEW k \in Inserted,
                    pending_aliases[j][1] = pending_aliases[k][1]
             PROVE  j = k
  OBVIOUS
<1>1. j \in Nat \ {0} /\ k \in Nat \ {0}
  BY DEF Inserted, SessionType
<1>2. ~(j < k)
  <2> SUFFICES ASSUME j < k PROVE FALSE
    OBVIOUS
  <2>1. j \in 1..(k - 1)
    BY <1>1
  <2> QED
    BY <2>1 DEF Inserted
<1>3. ~(k < j)
  <2> SUFFICES ASSUME k < j PROVE FALSE
    OBVIOUS
  <2>1. k \in 1..(j - 1)
    BY <1>1
  <2> QED
    BY <2>1 DEF Inserted
<1> QED
  BY <1>1, <1>2, <1>3

LEMMA InsertsKeepKeys ==
    ASSUME SessionType, OneAlias(file_alias)
    PROVE  OneAlias(file_alias \cup {pending_aliases[j] : j \in Inserted})
<1>1. ASSUME NEW a \in file_alias, NEW j \in Inserted PROVE a[1] # pending_aliases[j][1]
  <2>1. PICK p \in Path, n \in FileId : a = <<p, n>>
    BY DEF SessionType
  <2>2. ~Aliased(pending_aliases[j][1])
    BY DEF Inserted
  <2> QED
    BY <2>1, <2>2 DEF Aliased
<1> QED
  BY <1>1, InsertedOnce DEF OneAlias

\* A loader that starts finds every row under its path.
LEMMA LookupOwns ==
    ASSUME SessionType, OnePathOneRow(file)
    PROVE  /\ Lookup(file, file_alias) \in [Path -> FileId \cup {NoFile}]
           /\ \A n \in FileId : file[n] # NoPath => Lookup(file, file_alias)[file[n]] = n
<1>1. Lookup(file, file_alias) \in [Path -> FileId \cup {NoFile}]
  BY DEF Lookup
<1>2. ASSUME NEW n \in FileId, file[n] # NoPath
      PROVE  Lookup(file, file_alias)[file[n]] = n
  <2>1. file[n] \in Path
    BY <1>2 DEF SessionType
  <2>2. \A m \in FileId : file[m] = file[n] => m = n
    BY <1>2 DEF OnePathOneRow
  <2>3. (CHOOSE m \in FileId : file[m] = file[n]) = n
    BY <2>2
  <2> QED
    BY <2>1, <2>3 DEF Lookup
<1> QED
  BY <1>1, <1>2
-----------------------------------------------------------------------------
\* Whatever git comes up with next is a change.
LEMMA CommitsType ==
    ASSUME HistoryType, Commits, FileAssumption
    PROVE  /\ history' \in Seq(Change) /\ Len(history') = Len(history) + 1
           /\ tree' \in [Path -> Nat]
<1>1. Free \subseteq Path /\ NoPath \notin Path
  BY DEF Free, FileAssumption
<1>2. ASSUME NEW f \in Files PROVE f \in Nat \ {0} /\ Names(f) \subseteq Path
  <2>1. \A i \in DOMAIN history : history[i] \in Change
    BY DEF HistoryType
  <2> QED
    BY <2>1 DEF Files, Names, Change
<1>3. CASE Added
  BY <1>1, <1>3 DEF Added, HistoryType, Change
<1>4. CASE Edited
  BY <1>4 DEF Edited, HistoryType, Change
<1>5. CASE Renamed
  <2>1. PICK p \in Path, q \in Free :
          /\ tree[p] # 0
          /\ history' = Append(history, [path |-> q, old_path |-> p, of |-> tree[p]])
          /\ tree' = [tree EXCEPT ![p] = 0, ![q] = tree[p]]
    BY <1>5 DEF Renamed
  <2>2. [path |-> q, old_path |-> p, of |-> tree[p]] \in Change
    BY <1>1, <2>1 DEF HistoryType, Change
  <2>3. history' \in Seq(Change) /\ Len(history') = Len(history) + 1
    BY <2>1, <2>2 DEF HistoryType
  <2>4. tree[p] \in Nat /\ [tree EXCEPT ![p] = 0] \in [Path -> Nat]
    BY DEF HistoryType
  <2>5. tree' \in [Path -> Nat]
    BY <1>1, <2>1, <2>4
  <2> QED
    BY <2>3, <2>5
<1>6. CASE EditedElsewhere
  BY <1>2, <1>6 DEF EditedElsewhere, branches, HistoryType, Change
<1>7. CASE RenamedElsewhere
  BY <1>1, <1>2, <1>7 DEF RenamedElsewhere, HistoryType, Change
<1> QED
  BY <1>3, <1>4, <1>5, <1>6, <1>7 DEF Commits

\* Resolving a change keeps the resolver the owner of every path.
LEMMA ResolveKeepsOwned ==
    ASSUME SessionType, Owned, OnePathOneRow(file), loading, FileAssumption,
           NEW c \in Change, Resolve(c)
    PROVE  /\ SessionType' /\ OnePathOneRow(file')
           /\ \A n \in FileId : file'[n] # NoPath => by_path'[file'[n]] = n
           /\ \A n \in FileId : pending_renames'[n] # NoPath => by_path'[pending_renames'[n]] = n
           /\ file_alias' = file_alias
<1>1. c.path \in Path /\ c.old_path \in Path \cup {NoPath} /\ NoFile \notin FileId /\ NoPath \notin Path
  BY DEF Change, FileAssumption
<1>2. CASE ResolveRename(c)
  <2> DEFINE existing == by_path[c.old_path]
  <2>1. existing \in FileId /\ c.old_path \in Path
    BY <1>1, <1>2 DEF ResolveRename, Unknown, SessionType
  <2>2. SessionType'
    BY <1>1, <1>2, <2>1 DEF ResolveRename, SessionType
  <2>3. \A p \in Path, n \in FileId : by_path[p] = n => by_path'[p] = n
    BY <1>1, <1>2, <2>1 DEF ResolveRename, SessionType
  <2>4. file' = file /\ file_alias' = file_alias
    BY <1>2 DEF ResolveRename
  <2>5. \A n \in FileId : file[n] # NoPath => by_path'[file[n]] = n
    BY <2>3 DEF SessionType, Owned
  <2>6. \A n \in FileId : pending_renames[n] # NoPath => by_path'[pending_renames[n]] = n
    BY <2>3 DEF SessionType, Owned
  <2>7. by_path'[c.path] = existing
        /\ pending_renames' = [pending_renames EXCEPT ![existing] = c.path]
    BY <1>1, <1>2 DEF ResolveRename, SessionType
  <2>8. \A n \in FileId : pending_renames'[n] # NoPath => by_path'[pending_renames'[n]] = n
    BY <2>6, <2>7 DEF SessionType
  <2> QED
    BY <2>2, <2>4, <2>5, <2>8
<1>3. CASE ResolveOccupied(c) \/ ResolveKnown(c)
  BY <1>3 DEF ResolveOccupied, ResolveKnown, session, SessionType, Owned
<1>4. CASE ResolveNew(c)
  <2>1. PICK n \in FileId : /\ file[n] = NoPath
                            /\ file' = [file EXCEPT ![n] = c.path]
                            /\ by_path' = [by_path EXCEPT ![c.path] = n]
    BY <1>4 DEF ResolveNew
  <2>2. UNCHANGED <<file_alias, pending_renames, pending_aliases>> /\ by_path[c.path] = NoFile
    BY <1>1, <1>4 DEF ResolveNew, Unknown
  <2>3. SessionType'
    BY <1>1, <2>1, <2>2 DEF SessionType
  <2>4. \A m \in FileId : file[m] # c.path /\ pending_renames[m] # c.path
    BY <1>1, <2>2 DEF Owned
  <2>5. OnePathOneRow(file')
    BY <2>1, <2>4 DEF OnePathOneRow, SessionType
  <2>6. \A m \in FileId : file'[m] # NoPath => by_path'[file'[m]] = m
    BY <1>1, <2>1, <2>4 DEF Owned, SessionType
  <2>7. \A m \in FileId : pending_renames'[m] # NoPath => by_path'[pending_renames'[m]] = m
    BY <1>1, <2>1, <2>2, <2>4 DEF Owned, SessionType
  <2> QED
    BY <2>2, <2>3, <2>5, <2>6, <2>7
<1> QED
  BY <1>2, <1>3, <1>4 DEF Resolve
-----------------------------------------------------------------------------
LEMMA KeysStep == FileAssumption /\ KeysInv /\ [Next]_vars => KeysInv'
<1> SUFFICES ASSUME FileAssumption, KeysInv, [Next]_vars PROVE KeysInv'
  OBVIOUS
<1> USE DEF KeysInv
<1>1. CASE BeginLoad \/ BeginReread
  <2>1. HistoryType' /\ SavedKeys'
    BY <1>1 DEF BeginLoad, BeginReread, branches, tables, HistoryType, SavedKeys, OnePathOneRow, OneAlias
  <2>2. SessionType'
    BY <1>1, LookupOwns DEF BeginLoad, BeginReread, tables, SessionType
  <2>3. Owned'
    BY <1>1, LookupOwns DEF BeginLoad, BeginReread, branches, tables, Owned, NoRenames
  <2>4. file' = file /\ file_alias' = file_alias
    BY <1>1 DEF BeginLoad, BeginReread, tables
  <2> QED
    BY <2>1, <2>2, <2>3, <2>4 DEF OnePathOneRow, OneAlias
<1>2. CASE ReadChange
  <2>1. /\ history' \in Seq(Change) /\ tree' \in [Path -> Nat]
        /\ read < Len(history') /\ Len(history) <= Len(history')
    BY <1>2, CommitsType DEF ReadChange, branches, HistoryType
  <2>2. history'[read + 1] \in Change
    BY <2>1 DEF HistoryType
  <2>3. HistoryType'
    BY <1>2, <2>1 DEF ReadChange, HistoryType
  <2>4. SavedKeys'
    BY <1>2 DEF ReadChange, SavedKeys, OnePathOneRow, OneAlias
  <2>5. loading /\ loading' = loading /\ Resolve(history'[read + 1])
    BY <1>2 DEF ReadChange
  <2> HIDE DEF KeysInv
  <2>6. /\ SessionType' /\ OnePathOneRow(file')
        /\ \A n \in FileId : file'[n] # NoPath => by_path'[file'[n]] = n
        /\ \A n \in FileId : pending_renames'[n] # NoPath => by_path'[pending_renames'[n]] = n
        /\ file_alias' = file_alias
    BY <2>2, <2>5, ResolveKeepsOwned DEF KeysInv
  <2>7. Owned'
    BY <2>5, <2>6 DEF Owned
  <2> QED
    BY <2>3, <2>4, <2>6, <2>7 DEF KeysInv
<1>3. CASE Flush
  <2>1. OnePathOneRow(MovedRows) /\ MovedRows \in [FileId -> Path \cup {NoPath}]
    BY MovesKeepKeys
  <2>2. OneAlias(file_alias \cup {pending_aliases[j] : j \in Inserted})
    BY InsertsKeepKeys
  <2>3. file' = MovedRows /\ file_alias' = file_alias \cup {pending_aliases[j] : j \in Inserted}
    BY <1>3 DEF Flush
  <2>4. file_alias' \subseteq Path \X FileId
    <3>1. \A j \in Inserted : pending_aliases[j] \in Path \X FileId
      BY DEF Inserted, SessionType
    <3> QED
      BY <2>3, <3>1 DEF SessionType
  <2>5. SavedKeys'
    <3>1. saved' = <<file', file_alias', commit_file>>
      BY <1>3 DEF Flush
    <3>2. saved'[1] = file' /\ saved'[2] = file_alias'
      BY <3>1
    <3> QED
      BY <2>1, <2>2, <2>3, <2>4, <3>2 DEF SavedKeys
  <2>6. HistoryType'
    BY <1>3 DEF Flush, branches, HistoryType
  <2>7. SessionType' /\ Owned'
    BY <1>3, <2>1, <2>3, <2>4 DEF Flush, EndSession, SessionType, Owned, Nowhere, NoRenames
  <2> QED
    BY <2>1, <2>2, <2>3, <2>5, <2>6, <2>7
<1>4. CASE Abort
  <2>1. HistoryType' /\ SavedKeys'
    BY <1>4 DEF Abort, branches, HistoryType, SavedKeys, OnePathOneRow, OneAlias
  <2>2. SessionType' /\ Owned'
    BY <1>4 DEF Abort, EndSession, SessionType, Owned, Nowhere, NoRenames, SavedKeys
  <2> QED
    BY <1>4, <2>1, <2>2 DEF Abort, SavedKeys
<1>5. CASE UNCHANGED vars
  BY <1>5 DEF vars, branches, tables, session, HistoryType, SessionType, SavedKeys, Owned, OnePathOneRow, OneAlias
<1> QED
  BY <1>1, <1>2, <1>3, <1>4, <1>5 DEF Next

LEMMA KeysInit == Init => KeysInv
<1> SUFFICES ASSUME Init PROVE KeysInv
  OBVIOUS
<1>1. HistoryType /\ SessionType /\ Owned
  BY DEF Init, tables, HistoryType, SessionType, Owned, Nowhere, NoRenames
<1>2. OnePathOneRow(file) /\ OneAlias(file_alias)
  BY DEF Init, OnePathOneRow, OneAlias, NoRenames
<1>3. SavedKeys
  BY <1>1, <1>2 DEF Init, tables, SavedKeys, SessionType
<1> QED
  BY <1>1, <1>2, <1>3 DEF KeysInv

\* No load ever runs into the unique keys of file and file_alias, for every history of
\* additions, renames, reuses and forks.
THEOREM NoLoadBreaksKeys == Spec => []KeysHold
<1>1. Init => KeysInv
  BY KeysInit
<1>2. KeysInv => KeysHold
  <2> SUFFICES ASSUME KeysInv PROVE KeysHold
    OBVIOUS
  <2>1. OnePathOneRow(MovedRows)
    BY MovesKeepKeys DEF KeysInv
  <2>2. \A j, k \in Inserted : pending_aliases[j][1] = pending_aliases[k][1] => j = k
    BY InsertedOnce DEF KeysInv
  <2> QED
    BY <2>1, <2>2 DEF KeysInv, KeysHold, OnePathOneRow, OneAlias
<1>3. KeysInv /\ [Next]_vars => KeysInv'
  BY FileAssumption, KeysStep
<1> QED
  BY <1>1, <1>2, <1>3, PTL DEF Spec

-----------------------------------------------------------------------------
(* One row per file of a plain history. *)

NamesOf(c) == {c.path, c.old_path} \ {NoPath}

\* The paths the first k changes name, and those they rename away.
Told(h, k) == UNION {NamesOf(h[i]) : i \in 1..k}
Gone(h, k) == {h[i].old_path : i \in 1..k} \ {NoPath}

IsAdd(h, i)    == h[i].old_path = NoPath /\ h[i].path \notin Told(h, i - 1) /\ h[i].of = i
IsEdit(h, i)   == h[i].old_path = NoPath /\ h[i].path \in Told(h, i - 1)
IsRename(h, i) == /\ h[i].old_path \in Told(h, i - 1) \ Gone(h, i - 1)
                  /\ h[i].path \notin Told(h, i - 1)

\* Every path belongs to one file.
OneOwner(h) ==
    \A i, j \in DOMAIN h : \A p \in NamesOf(h[i]) : p \in NamesOf(h[j]) => h[i].of = h[j].of

\* A file has one name that was not renamed away.
OneName(h) ==
    \A k \in DOMAIN h : \A i, j \in 1..k : \A p \in NamesOf(h[i]), q \in NamesOf(h[j]) :
        h[i].of = h[j].of /\ p \notin Gone(h, k) /\ q \notin Gone(h, k) => p = q

TreeIsTold ==
    \A p \in Path : tree[p] # 0 =>
        /\ p \notin Gone(history, Len(history))
        /\ \E i \in DOMAIN history : p \in NamesOf(history[i]) /\ history[i].of = tree[p]

PlainChanges(h) ==
    /\ \A i \in DOMAIN h : h[i].of <= i /\ (IsAdd(h, i) \/ IsEdit(h, i) \/ IsRename(h, i))
    /\ OneOwner(h) /\ OneName(h)

PlainHistory == PlainChanges(history) /\ TreeIsTold

\* The names of the first k changes are known, each file's as one row.
Resolves(h, map, k) ==
    /\ \A p \in Path : map[p] # NoFile <=> p \in Told(h, k)
    /\ \A i, j \in 1..k : \A p \in NamesOf(h[i]), q \in NamesOf(h[j]) :
          map[p] = map[q] <=> h[i].of = h[j].of

StoredBy(h, stored, map, k) == \A e \in stored : e[1] \in 1..k /\ e[2] = map[h[e[1]].path]

\* The three tables as a load of the first k changes leaves them: a row has its file's last
\* name, the earlier ones are its aliases.
TablesOf(h, rows, aliases, stored, map, k) ==
    /\ Resolves(h, map, k)
    /\ \A a \in aliases : a[1] \in Gone(h, k) /\ map[a[1]] = a[2]
    /\ \A p \in Gone(h, k) : <<p, map[p]>> \in aliases
    /\ \A n \in FileId : rows[n] # NoPath => rows[n] \notin Gone(h, k) /\ map[rows[n]] = n
    /\ \A p \in Path : map[p] # NoFile => rows[map[p]] # NoPath
    /\ StoredBy(h, stored, map, k)

Furthest == IF read < loaded THEN loaded ELSE read

\* The same half way through a load: rows that will move have not, and names that were
\* renamed away are aliases or about to be.
UnderwayOf(h) ==
    /\ Resolves(h, by_path, Furthest)
    /\ \A a \in file_alias : a[1] \in Gone(h, loaded) /\ by_path[a[1]] = a[2]
    /\ \A j \in DOMAIN pending_aliases :
          /\ pending_aliases[j][1] \in Gone(h, read)
          /\ by_path[pending_aliases[j][1]] = pending_aliases[j][2]
    /\ \A j, k \in DOMAIN pending_aliases : pending_aliases[j][1] = pending_aliases[k][1] => j = k
    /\ \A p \in Gone(h, Furthest) :
          \/ <<p, by_path[p]>> \in file_alias
          \/ \E j \in DOMAIN pending_aliases : pending_aliases[j] = <<p, by_path[p]>>
    /\ \A n \in FileId : file[n] # NoPath /\ pending_renames[n] = NoPath
          => file[n] \notin Gone(h, Furthest)
    /\ \A n \in FileId : pending_renames[n] # NoPath => pending_renames[n] \notin Gone(h, read)
    /\ \A p \in Path : by_path[p] # NoFile => file[by_path[p]] # NoPath
    /\ StoredBy(h, commit_file, by_path, Furthest)

IdentityInv ==
    /\ ~loading => file = saved[1] /\ file_alias = saved[2] /\ commit_file = saved[3]
    /\ plain =>
        /\ PlainHistory
        /\ TablesOf(history, saved[1], saved[2], saved[3], Lookup(saved[1], saved[2]), loaded)
        /\ loading => UnderwayOf(history)

-----------------------------------------------------------------------------
(* The history. *)

LEMMA SamePrefix ==
    ASSUME NEW h, NEW g, NEW k \in Nat, \A i \in 1..k : h[i] = g[i]
    PROVE  Told(h, k) = Told(g, k) /\ Gone(h, k) = Gone(g, k)
BY DEF Told, Gone

LEMMA OneMoreChange ==
    ASSUME NEW h, NEW k \in Nat
    PROVE  /\ Told(h, k + 1) = Told(h, k) \cup NamesOf(h[k + 1])
           /\ Gone(h, k + 1) = Gone(h, k) \cup ({h[k + 1].old_path} \ {NoPath})
<1>1. 1..(k + 1) = (1..k) \cup {k + 1}
  OBVIOUS
<1>2. Told(h, k + 1) = Told(h, k) \cup NamesOf(h[k + 1])
  BY <1>1 DEF Told
<1>3. Gone(h, k + 1) = Gone(h, k) \cup ({h[k + 1].old_path} \ {NoPath})
  BY <1>1 DEF Gone
<1> QED
  BY <1>2, <1>3

LEMMA GrowsOnly ==
    ASSUME NEW h, NEW k \in Nat, NEW m \in Nat, k <= m
    PROVE  Told(h, k) \subseteq Told(h, m) /\ Gone(h, k) \subseteq Gone(h, m)
<1>1. 1..k \subseteq 1..m
  OBVIOUS
<1> QED
  BY <1>1 DEF Told, Gone

LEMMA ToldByAChange ==
    ASSUME NEW h, NEW k \in Nat, NEW p
    PROVE  p \in Told(h, k) <=> \E i \in 1..k : p \in NamesOf(h[i])
BY DEF Told

LEMMA NamesArePaths ==
    ASSUME FileAssumption, NEW c \in Change
    PROVE  /\ NamesOf(c) \subseteq Path /\ c.path \in NamesOf(c)
           /\ c.old_path # NoPath => c.old_path \in NamesOf(c)
BY DEF FileAssumption, Change, NamesOf

LEMMA PathsAreTold ==
    ASSUME FileAssumption, HistoryType, NEW k \in 0..Len(history)
    PROVE  Told(history, k) \subseteq Path /\ Gone(history, k) \subseteq Told(history, k)
<1>1. \A i \in 1..k : history[i] \in Change
  BY DEF HistoryType
<1>2. Told(history, k) \subseteq Path
  BY <1>1, NamesArePaths DEF Told
<1>3. Gone(history, k) \subseteq Told(history, k)
  BY <1>1, NamesArePaths DEF Told, Gone
<1> QED
  BY <1>2, <1>3

LEMMA UsedIsTold ==
    ASSUME FileAssumption, HistoryType PROVE Used = Told(history, Len(history))
<1>1. \A i \in DOMAIN history : history[i] \in Change /\ history[i].path # NoPath
  <2>1. \A i \in DOMAIN history : history[i] \in Change
    BY DEF HistoryType
  <2>2. \A c \in Change : c.path # NoPath
    BY DEF Change, FileAssumption
  <2> QED
    BY <2>1, <2>2
<1>2. DOMAIN history = 1..Len(history)
  BY DEF HistoryType
<1>3. \A p : p \in Used <=> \E i \in DOMAIN history : p \in NamesOf(history[i])
  <2> SUFFICES ASSUME NEW p
               PROVE  p \in Used <=> \E i \in DOMAIN history : p \in NamesOf(history[i])
    OBVIOUS
  <2>1. p \in Used <=> \E i \in DOMAIN history : p \in Names(history[i].of)
    BY DEF Used, Files
  <2>2. \A i \in DOMAIN history : p \in NamesOf(history[i]) => p \in Names(history[i].of)
    BY DEF Names, NamesOf
  <2>3. ASSUME NEW f, p \in Names(f) PROVE \E i \in DOMAIN history : p \in NamesOf(history[i])
    BY <1>1, <2>3 DEF Names, NamesOf
  <2> QED
    BY <2>1, <2>2, <2>3
<1> QED
  BY <1>2, <1>3 DEF Told

\* What git comes up with in a plain history: a new file, a change of a name the file has or
\* had, or a rename of a file at its present name to a path nothing ever had.
NewFile(c) ==
    /\ c.old_path = NoPath /\ c.path \notin Told(history, Len(history))
    /\ c.of = Len(history) + 1
    /\ tree' = [tree EXCEPT ![c.path] = c.of]

SameFile(c) ==
    /\ c.old_path = NoPath
    /\ \E i \in DOMAIN history : c.path \in NamesOf(history[i]) /\ history[i].of = c.of
    /\ \A p \in Path : tree'[p] # 0 => tree'[p] = tree[p]

NewName(c) ==
    /\ c.old_path \in Path /\ tree[c.old_path] # 0 /\ c.of = tree[c.old_path]
    /\ c.path \notin Told(history, Len(history))
    /\ tree' = [tree EXCEPT ![c.old_path] = 0, ![c.path] = c.of]

LEMMA CommitShape ==
    ASSUME FileAssumption, HistoryType, PlainHistory, Commits, plain'
    PROVE  /\ plain
           /\ \E c \in Change : /\ history' = Append(history, c)
                                /\ NewFile(c) \/ SameFile(c) \/ NewName(c)
<1>0. ASSUME NEW p, Taken(p) PROVE plain /\ p \notin Used
  BY <1>0, Zenon DEF Taken
<1>1. Free \subseteq Path /\ NoPath \notin Path
  BY DEF Free, FileAssumption
<1>2. Used = Told(history, Len(history))
  BY UsedIsTold
<1>3. DOMAIN history = 1..Len(history) /\ \A i \in DOMAIN history : history[i] \in Change
  BY DEF HistoryType
<1>4. CASE Added
  <2>1. PICK p \in Free :
          /\ history' = Append(history, [path |-> p, old_path |-> NoPath, of |-> Len(history) + 1])
          /\ tree' = [tree EXCEPT ![p] = Len(history) + 1] /\ Taken(p)
    BY <1>4 DEF Added
  <2> DEFINE c == [path |-> p, old_path |-> NoPath, of |-> Len(history) + 1]
  <2>2. c \in Change
    BY <1>1 DEF Change, HistoryType
  <2>3. plain /\ p \notin Told(history, Len(history))
    BY <1>0, <1>2, <2>1
  <2>4. NewFile(c)
    BY <2>1, <2>3 DEF NewFile
  <2> QED
    BY <2>1, <2>2, <2>3, <2>4
<1>5. CASE Edited
  <2>1. PICK p \in Path :
          /\ tree[p] # 0
          /\ history' = Append(history, [path |-> p, old_path |-> NoPath, of |-> tree[p]])
          /\ tree' \in {tree, [tree EXCEPT ![p] = 0]}
    BY <1>5 DEF Edited
  <2> DEFINE c == [path |-> p, old_path |-> NoPath, of |-> tree[p]]
  <2>2. c \in Change
    BY <2>1 DEF Change, HistoryType
  <2>3. \A q \in Path : tree'[q] # 0 => tree'[q] = tree[q]
    BY <2>1 DEF HistoryType
  <2>4. SameFile(c)
    BY <2>1, <2>3 DEF SameFile, PlainHistory, TreeIsTold
  <2>5. plain
    BY <1>5 DEF Edited
  <2> QED
    BY <2>1, <2>2, <2>4, <2>5
<1>6. CASE Renamed
  <2>1. PICK p \in Path, q \in Free :
          /\ tree[p] # 0
          /\ history' = Append(history, [path |-> q, old_path |-> p, of |-> tree[p]])
          /\ tree' = [tree EXCEPT ![p] = 0, ![q] = tree[p]] /\ Taken(q)
    BY <1>6 DEF Renamed
  <2> DEFINE c == [path |-> q, old_path |-> p, of |-> tree[p]]
  <2>2. c \in Change
    BY <1>1, <2>1 DEF Change, HistoryType
  <2>3. plain /\ q \notin Told(history, Len(history))
    BY <1>0, <1>2, <2>1
  <2>4. NewName(c)
    BY <2>1, <2>3 DEF NewName
  <2> QED
    BY <2>1, <2>2, <2>3, <2>4
<1>7. CASE EditedElsewhere
  <2>0. PICK f \in Files : \E p \in Names(f) :
          /\ history' = Append(history, [path |-> p, old_path |-> NoPath, of |-> f])
          /\ UNCHANGED branches
    BY <1>7 DEF EditedElsewhere
  <2>1. PICK p \in Names(f) :
          /\ history' = Append(history, [path |-> p, old_path |-> NoPath, of |-> f])
          /\ UNCHANGED branches
    BY <2>0
  <2> DEFINE c == [path |-> p, old_path |-> NoPath, of |-> f]
  <2>2. \E i \in DOMAIN history : p \in NamesOf(history[i]) /\ history[i].of = f
    <3>1. \A i \in DOMAIN history : history[i].path # NoPath
      BY <1>1, <1>3 DEF Change
    <3> QED
      BY <3>1 DEF Names, NamesOf
  <2>3. f \in Nat \ {0} /\ p \in Path
    BY <1>3, <2>2, NamesArePaths DEF Change
  <2>4. c \in Change
    BY <2>3 DEF Change
  <2>5. SameFile(c)
    BY <2>1, <2>2 DEF SameFile, branches
  <2> QED
    BY <2>1, <2>4, <2>5 DEF branches
<1>8. CASE RenamedElsewhere
  BY <1>8 DEF RenamedElsewhere
<1> QED
  BY <1>4, <1>5, <1>6, <1>7, <1>8 DEF Commits

LEMMA PlainStep ==
    ASSUME FileAssumption, HistoryType, PlainHistory, Commits, plain'
    PROVE  PlainHistory'
<1>1. PICK c \in Change : /\ history' = Append(history, c)
                          /\ NewFile(c) \/ SameFile(c) \/ NewName(c)
  BY CommitShape
<1> DEFINE n == Len(history)
           N == n + 1
<1>2. /\ n \in Nat /\ DOMAIN history = 1..n /\ DOMAIN history' = 1..N /\ Len(history') = N
      /\ history'[N] = c /\ \A i \in 1..n : history'[i] = history[i]
  BY <1>1 DEF HistoryType
<1>3. \A i \in 1..n : history[i] \in Change
  BY DEF HistoryType
<1>4. tree \in [Path -> Nat] /\ NoPath \notin Path /\ c.path \in Path /\ c.of \in Nat \ {0}
  BY DEF HistoryType, FileAssumption, Change
<1> HIDE DEF n, N
<1>5. \A k \in 0..n : Told(history', k) = Told(history, k) /\ Gone(history', k) = Gone(history, k)
  <2> SUFFICES ASSUME NEW k \in 0..n
               PROVE  Told(history', k) = Told(history, k) /\ Gone(history', k) = Gone(history, k)
    OBVIOUS
  <2>1. k \in Nat /\ \A i \in 1..k : history'[i] = history[i]
    BY <1>2
  <2> QED
    BY <2>1, SamePrefix
<1>6. /\ Told(history', N) = Told(history, n) \cup NamesOf(c)
      /\ Gone(history', N) = Gone(history, n) \cup ({c.old_path} \ {NoPath})
  <2>1. Told(history', n) = Told(history, n) /\ Gone(history', n) = Gone(history, n)
    BY <1>2, <1>5
  <2> QED
    BY <1>2, <2>1, OneMoreChange DEF N
<1>7. \A p : p \in Told(history, n) <=> \E i \in 1..n : p \in NamesOf(history[i])
  BY <1>2, ToldByAChange
<1>8. /\ \A i \in 1..n : /\ history[i].of <= i
                         /\ IsAdd(history, i) \/ IsEdit(history, i) \/ IsRename(history, i)
      /\ OneOwner(history) /\ OneName(history) /\ TreeIsTold
  BY <1>2 DEF PlainHistory, PlainChanges
\* The file a change is about, where it is not a new one.
<1>9. \/ NewFile(c)
      \/ /\ SameFile(c) \/ NewName(c)
         /\ \E i \in 1..n : history[i].of = c.of
         /\ \A j \in 1..n : \A p \in NamesOf(c) : p \in NamesOf(history[j]) => history[j].of = c.of
  <2>1. CASE SameFile(c)
    <3>1. NamesOf(c) = {c.path}
      BY <1>4, <2>1 DEF SameFile, NamesOf
    <3> QED
      BY <1>2, <1>8, <2>1, <3>1 DEF SameFile, OneOwner
  <2>2. CASE NewName(c)
    <3>1. PICK i \in 1..n : c.old_path \in NamesOf(history[i]) /\ history[i].of = c.of
      BY <1>2, <1>8, <2>2 DEF NewName, TreeIsTold
    <3>2. \A p \in NamesOf(c) : p = c.old_path \/ p \notin Told(history, n)
      BY <2>2 DEF NewName, NamesOf, n
    <3> QED
      BY <1>2, <1>7, <1>8, <2>2, <3>1, <3>2 DEF OneOwner
  <2> QED
    BY <1>1, <2>1, <2>2
<1>10. \A i \in 1..N : /\ history'[i].of <= i
                       /\ IsAdd(history', i) \/ IsEdit(history', i) \/ IsRename(history', i)
  <2>1. ASSUME NEW i \in 1..n
        PROVE  /\ history'[i].of <= i
               /\ IsAdd(history', i) \/ IsEdit(history', i) \/ IsRename(history', i)
    <3>1. history'[i] = history[i] /\ i - 1 \in 0..n
      BY <1>2
    <3> QED
      BY <1>5, <1>8, <3>1 DEF IsAdd, IsEdit, IsRename
  <2>2. c.of <= N
    BY <1>2, <1>3, <1>4, <1>8, <1>9 DEF NewFile, N, n, Change
  <2>3. N - 1 = n /\ n \in 0..n
    BY <1>2 DEF N
  <2>4. IsAdd(history', N) \/ IsEdit(history', N) \/ IsRename(history', N)
    <3>1. CASE NewFile(c)
      BY <1>2, <1>5, <2>3, <3>1 DEF NewFile, IsAdd, n, N
    <3>2. CASE SameFile(c)
      BY <1>2, <1>5, <1>7, <2>3, <3>2 DEF SameFile, IsEdit
    <3>3. CASE NewName(c)
      <4>1. c.old_path \in Told(history, n) /\ c.old_path \notin Gone(history, n)
        BY <1>2, <1>7, <1>8, <3>3 DEF NewName, TreeIsTold, n
      <4> QED
        BY <1>2, <1>5, <2>3, <3>3, <4>1 DEF NewName, IsRename, n
    <3> QED
      BY <1>1, <3>1, <3>2, <3>3
  <2> QED
    BY <1>2, <2>1, <2>2, <2>4 DEF N
<1>11. \A j \in 1..n : \A p \in NamesOf(c) : p \in NamesOf(history[j]) => history[j].of = c.of
  <2>1. NewFile(c) => \A p \in NamesOf(c) : p \notin Told(history, n)
    BY DEF NewFile, NamesOf, n
  <2> QED
    BY <1>7, <1>9, <2>1
<1>12. OneOwner(history')
  <2> SUFFICES ASSUME NEW i \in 1..N, NEW j \in 1..N, NEW p \in NamesOf(history'[i]),
                      p \in NamesOf(history'[j])
               PROVE  history'[i].of = history'[j].of
    BY <1>2 DEF OneOwner
  <2>1. /\ (i \in 1..n /\ history'[i] = history[i]) \/ history'[i] = c
        /\ (j \in 1..n /\ history'[j] = history[j]) \/ history'[j] = c
    BY <1>2 DEF N
  <2> QED
    BY <1>2, <1>8, <1>11, <2>1 DEF OneOwner
<1>13. OneName(history')
  <2> SUFFICES ASSUME NEW k \in 1..N, NEW i \in 1..k, NEW j \in 1..k,
                      NEW p \in NamesOf(history'[i]), NEW q \in NamesOf(history'[j]),
                      history'[i].of = history'[j].of,
                      p \notin Gone(history', k), q \notin Gone(history', k)
               PROVE  p = q
    BY <1>2 DEF OneName
  <2>1. CASE k \in 1..n
    <3>1. /\ i \in 1..n /\ j \in 1..n /\ history'[i] = history[i] /\ history'[j] = history[j]
          /\ Gone(history', k) = Gone(history, k)
      BY <1>2, <1>5, <2>1
    <3> QED
      BY <1>2, <1>8, <2>1, <3>1 DEF OneName
  <2>2. CASE k = N
    <3>1. p \notin Gone(history, n) /\ q \notin Gone(history, n) /\ n \in Nat
      BY <1>2, <1>6, <2>2
    <3>2. \A x, y \in 1..n : \A u \in NamesOf(history[x]), v \in NamesOf(history[y]) :
             history[x].of = history[y].of /\ u \notin Gone(history, n) /\ v \notin Gone(history, n)
                => u = v
      <4>1. ASSUME NEW x \in 1..n PROVE n \in 1..n
        BY <1>2
      <4> QED
        BY <1>2, <1>8, <4>1 DEF OneName
    <3>3. /\ (i \in 1..n /\ history'[i] = history[i]) \/ history'[i] = c
          /\ (j \in 1..n /\ history'[j] = history[j]) \/ history'[j] = c
      BY <1>2 DEF N
    \* A name of the new change's file that is still in use is the name in that change.
    <3>4. ASSUME NEW x \in 1..n, NEW u \in NamesOf(history[x]), history[x].of = c.of,
                 u \notin Gone(history', N), NEW v \in NamesOf(c), v \notin Gone(history', N)
          PROVE  u = v
      <4>1. u \notin Gone(history, n) /\ v \notin Gone(history, n)
        BY <1>6, <3>4
      <4>2. CASE NewFile(c)
        BY <1>2, <1>3, <1>8, <3>4, <4>2 DEF NewFile, n, Change
      <4>3. CASE SameFile(c)
        <5>1. PICK y \in 1..n : c.path \in NamesOf(history[y]) /\ history[y].of = c.of
          BY <1>2, <4>3 DEF SameFile
        <5>2. v = c.path
          BY <4>3 DEF SameFile, NamesOf
        <5> QED
          BY <3>2, <3>4, <4>1, <5>1, <5>2
      <4>4. CASE NewName(c)
        <5>1. PICK y \in 1..n : c.old_path \in NamesOf(history[y]) /\ history[y].of = c.of
          BY <1>2, <1>8, <4>4 DEF NewName, TreeIsTold
        <5>2. c.old_path \notin Gone(history, n)
          BY <1>2, <1>8, <4>4 DEF NewName, TreeIsTold, n
        <5>3. u = c.old_path
          BY <3>2, <3>4, <4>1, <5>1, <5>2
        <5>4. c.old_path \in Gone(history', N)
          BY <1>4, <1>6, <4>4 DEF NewName
        <5> QED
          BY <3>4, <5>3, <5>4
      <4> QED
        BY <1>1, <4>2, <4>3, <4>4
    <3>5. CASE history'[i] = c /\ history'[j] = c
      <4>1. NamesOf(c) \ Gone(history', N) \subseteq {c.path}
        BY <1>6 DEF NamesOf
      <4> QED
        BY <2>2, <3>5, <4>1
    <3> QED
      BY <2>2, <3>1, <3>2, <3>3, <3>4, <3>5
  <2> QED
    BY <1>2, <2>1, <2>2 DEF N
<1>14. TreeIsTold'
  <2> SUFFICES ASSUME NEW p \in Path, tree'[p] # 0
               PROVE  /\ p \notin Gone(history', N)
                      /\ \E i \in 1..N : p \in NamesOf(history'[i]) /\ history'[i].of = tree'[p]
    BY <1>2 DEF TreeIsTold
  <2>1. ASSUME tree[p] # 0, tree'[p] = tree[p]
        PROVE  /\ p \notin Gone(history, n)
               /\ \E i \in 1..N : p \in NamesOf(history'[i]) /\ history'[i].of = tree'[p]
    <3>1. PICK i \in 1..n : p \in NamesOf(history[i]) /\ history[i].of = tree[p]
      BY <1>2, <1>8, <2>1 DEF TreeIsTold
    <3>2. p \notin Gone(history, n)
      BY <1>8, <2>1 DEF TreeIsTold, n
    <3>3. i \in 1..N /\ history'[i] = history[i]
      BY <1>2 DEF N
    <3> QED
      BY <2>1, <3>1, <3>2, <3>3
  <2>2. N \in 1..N /\ history'[N] = c /\ c.path \in NamesOf(c)
    BY <1>2, <1>4 DEF N, NamesOf
  <2>3. c.path \notin Told(history, n) => c.path \notin Gone(history, n)
    BY <1>2, PathsAreTold DEF n
  <2>4. CASE SameFile(c)
    BY <1>6, <2>1, <2>4 DEF SameFile
  <2>5. CASE NewFile(c)
    <3>1. CASE p = c.path
      BY <1>4, <1>6, <2>2, <2>3, <2>5, <3>1 DEF NewFile, n
    <3>2. CASE p # c.path
      BY <1>4, <1>6, <2>1, <2>5, <3>2 DEF NewFile
    <3> QED
      BY <3>1, <3>2
  <2>6. CASE NewName(c)
    <3>0. c.path # c.old_path
      BY <1>2, <1>7, <1>8, <2>6 DEF NewName, TreeIsTold, n
    <3>1. CASE p = c.path
      BY <1>4, <1>6, <2>2, <2>3, <2>6, <3>0, <3>1 DEF NewName, n
    <3>2. CASE p # c.path
      <4>1. p # c.old_path
        BY <1>4, <2>6, <3>0, <3>2 DEF NewName
      <4>2. tree'[p] = tree[p]
        BY <1>4, <2>6, <3>2, <4>1 DEF NewName
      <4> QED
        BY <1>6, <2>1, <4>1, <4>2
    <3> QED
      BY <3>1, <3>2
  <2> QED
    BY <1>1, <2>4, <2>5, <2>6
<1> QED
  BY <1>2, <1>10, <1>12, <1>13, <1>14 DEF PlainHistory, PlainChanges

-----------------------------------------------------------------------------
(* A load of a plain history. *)

\* What was told of a history stays true when it grows.
Grown == Len(history') >= Len(history) /\ \A i \in 1..Len(history) : history'[i] = history[i]

LEMMA GrownKeeps ==
    ASSUME HistoryType, Grown, NEW k \in 0..Len(history), NEW map, NEW stored
    PROVE  /\ Told(history', k) = Told(history, k) /\ Gone(history', k) = Gone(history, k)
           /\ Resolves(history', map, k) <=> Resolves(history, map, k)
           /\ StoredBy(history', stored, map, k) <=> StoredBy(history, stored, map, k)
<1>1. k \in Nat /\ \A i \in 1..k : history'[i] = history[i]
  BY DEF HistoryType, Grown
<1>2. Told(history', k) = Told(history, k) /\ Gone(history', k) = Gone(history, k)
  BY <1>1, SamePrefix
<1>3. Resolves(history', map, k) <=> Resolves(history, map, k)
  BY <1>1, <1>2 DEF Resolves
<1>4. StoredBy(history', stored, map, k) <=> StoredBy(history, stored, map, k)
  BY <1>1 DEF StoredBy
<1> QED
  BY <1>2, <1>3, <1>4

LEMMA GrownTables ==
    ASSUME HistoryType, Grown, NEW k \in 0..Len(history),
           NEW rows, NEW aliases, NEW stored, NEW map
    PROVE  TablesOf(history', rows, aliases, stored, map, k)
              <=> TablesOf(history, rows, aliases, stored, map, k)
BY GrownKeeps DEF TablesOf

LEMMA FurthestType ==
    ASSUME HistoryType
    PROVE  /\ Furthest \in 0..Len(history) /\ read <= Furthest /\ loaded <= Furthest
           /\ read \in 0..Len(history) /\ loaded \in 0..Len(history)
BY DEF HistoryType, Furthest

LEMMA GrownUnderway ==
    ASSUME HistoryType, Grown, UnderwayOf(history) PROVE UnderwayOf(history')
<1>1. Gone(history', read) = Gone(history, read) /\ Gone(history', loaded) = Gone(history, loaded)
  BY FurthestType, GrownKeeps
<1>2. /\ Gone(history', Furthest) = Gone(history, Furthest)
      /\ Resolves(history', by_path, Furthest) <=> Resolves(history, by_path, Furthest)
      /\ StoredBy(history', commit_file, by_path, Furthest)
            <=> StoredBy(history, commit_file, by_path, Furthest)
  BY FurthestType, GrownKeeps
<1> QED
  BY <1>1, <1>2 DEF UnderwayOf

LEMMA ReadGrows ==
    ASSUME FileAssumption, HistoryType, ReadChange
    PROVE  /\ Grown /\ HistoryType' /\ history' \in Seq(Change) /\ read + 1 <= Len(history')
           /\ loading /\ loading' = loading /\ read' = read + 1 /\ loaded' = loaded
           /\ saved' = saved /\ Resolve(history'[read + 1])
<1>1. CASE UNCHANGED <<history, branches>> /\ read < Len(history)
  BY <1>1 DEF ReadChange, Grown, HistoryType, branches
<1>2. CASE Commits /\ read = Len(history)
  <2>1. /\ history' \in Seq(Change) /\ Len(history') = Len(history) + 1 /\ tree' \in [Path -> Nat]
    BY <1>2, CommitsType
  <2>2. \E c : history' = Append(history, c)
    BY <1>2 DEF Commits, Added, Edited, Renamed, EditedElsewhere, RenamedElsewhere
  <2>3. \A i \in 1..Len(history) : history'[i] = history[i]
    BY <2>2 DEF HistoryType
  <2> QED
    BY <1>2, <2>1, <2>3 DEF ReadChange, Grown, HistoryType
<1> QED
  BY <1>1, <1>2 DEF ReadChange

\* What a load makes of a change of a plain history: it is stored under the row of its file,
\* which a rename moves; a file is new exactly when its change is.
Now       == history'[read + 1]
Joined(n) == \E j \in 1..Furthest : \E p \in NamesOf(history'[j]) :
                 history'[j].of = Now.of /\ by_path[p] = n

Edits(n) ==
    /\ Now.old_path = NoPath /\ Joined(n)
    /\ UNCHANGED <<file, pending_renames, pending_aliases>>

Renames(n) ==
    /\ Now.old_path \in Path /\ IsRename(history', read + 1)
    /\ by_path[Now.old_path] = n /\ Joined(n)
    /\ pending_renames' = [pending_renames EXCEPT ![n] = Now.path]
    /\ pending_aliases' = Append(pending_aliases, <<Now.old_path, n>>)
    /\ UNCHANGED file

Adds(n) ==
    /\ Now.old_path = NoPath /\ IsAdd(history', read + 1) /\ Furthest = read
    /\ file[n] = NoPath /\ file' = [file EXCEPT ![n] = Now.path]
    /\ UNCHANGED <<pending_renames, pending_aliases>>

LEMMA ResolveShape ==
    ASSUME FileAssumption, KeysInv, UnderwayOf(history'), PlainChanges(history'), ReadChange
    PROVE  /\ file_alias' = file_alias
           /\ \E n \in FileId :
                 /\ by_path' = [by_path EXCEPT ![Now.path] = n]
                 /\ commit_file' = commit_file \cup {<<read + 1, n>>}
                 /\ Edits(n) \/ Renames(n) \/ Adds(n)
<1> DEFINE i == read + 1
           m == Furthest
<1>1. /\ Grown /\ HistoryType' /\ i <= Len(history') /\ i \in Nat \ {0} /\ m \in Nat /\ read \in Nat
      /\ read <= m /\ m <= Len(history') /\ DOMAIN history' = 1..Len(history')
      /\ i \in DOMAIN history' /\ 1..m \subseteq DOMAIN history'
  BY ReadGrows, FurthestType DEF KeysInv, Grown, HistoryType
<1>2. Now \in Change /\ Now = history'[i]
  BY <1>1 DEF Now, HistoryType
<1>3. /\ Now.path \in Path /\ Now.old_path \in Path \cup {NoPath} /\ NoPath \notin Path
      /\ NoFile \notin FileId
      /\ Now.path \in NamesOf(Now) /\ (Now.old_path # NoPath => Now.old_path \in NamesOf(Now))
  BY <1>2, NamesArePaths DEF FileAssumption, Change
<1>4. by_path \in [Path -> FileId \cup {NoFile}]
  BY DEF KeysInv, SessionType
<1>5. Resolve(Now)
  BY ReadGrows DEF KeysInv, Now
<1>6. file_alias' = file_alias
  BY <1>5 DEF Resolve, ResolveRename, ResolveOccupied, ResolveKnown, ResolveNew
<1> HIDE DEF i, m
<1>7. \A p \in Path : by_path[p] # NoFile <=> \E j \in 1..m : p \in NamesOf(history'[j])
  BY <1>1, ToldByAChange DEF UnderwayOf, Resolves, m
<1>8. \A j \in 1..m : \A p \in NamesOf(history'[j]) : p \in NamesOf(Now) => history'[j].of = Now.of
  BY <1>1, <1>2 DEF PlainChanges, OneOwner
<1>9. \A j, k \in 1..m : \A p \in NamesOf(history'[j]), q \in NamesOf(history'[k]) :
         by_path[p] = by_path[q] <=> history'[j].of = history'[k].of
  BY DEF UnderwayOf, Resolves, m
<1>10. IsAdd(history', i) \/ IsEdit(history', i) \/ IsRename(history', i)
  BY <1>1 DEF PlainChanges
<1>11. i - 1 = read /\ \A p : p \in Told(history', read) => \E j \in 1..m : p \in NamesOf(history'[j])
  <2>1. i - 1 = read /\ 1..read \subseteq 1..m
    BY <1>1 DEF i
  <2> QED
    BY <1>1, <2>1, ToldByAChange
<1>12. CASE Now.old_path # NoPath
  <2>1. IsRename(history', i)
    BY <1>2, <1>10, <1>12 DEF IsAdd, IsEdit
  <2>2. PICK j \in 1..m : Now.old_path \in NamesOf(history'[j])
    BY <1>2, <1>11, <2>1 DEF IsRename
  <2> DEFINE n == by_path[Now.old_path]
  <2>3. n \in FileId /\ history'[j].of = Now.of
    BY <1>3, <1>4, <1>7, <1>8, <1>12, <2>2
  <2>4. by_path[Now.path] \in {NoFile, n}
    <3> SUFFICES ASSUME by_path[Now.path] # NoFile PROVE by_path[Now.path] = n
      OBVIOUS
    <3>1. PICK k \in 1..m : Now.path \in NamesOf(history'[k])
      BY <1>3, <1>7
    <3> QED
      BY <1>3, <1>8, <1>9, <2>2, <2>3, <3>1
  <2>5. ResolveRename(Now)
    <3>1. ~ResolveOccupied(Now)
      BY <2>4 DEF ResolveOccupied
    <3>2. ~Unknown(Now.old_path)
      BY <1>3, <1>12, <2>3 DEF Unknown
    <3> QED
      BY <1>5, <3>1, <3>2 DEF Resolve, ResolveKnown, ResolveNew
  <2>6. Joined(n)
    BY <2>2, <2>3 DEF Joined, m
  <2> HIDE DEF n
  <2>7. Renames(n)
    BY <1>3, <1>12, <2>1, <2>5, <2>6 DEF ResolveRename, Renames, i, n
  <2>8. /\ by_path' = [by_path EXCEPT ![Now.path] = n]
        /\ commit_file' = commit_file \cup {<<read + 1, n>>}
    BY <2>5 DEF ResolveRename, Store, n
  <2> QED
    BY <1>6, <2>3, <2>7, <2>8
<1>13. CASE Now.old_path = NoPath
  <2>1. ResolveKnown(Now) \/ ResolveNew(Now)
    BY <1>3, <1>5, <1>13 DEF Resolve, ResolveRename, ResolveOccupied, Unknown
  <2>2. CASE by_path[Now.path] # NoFile
    <3> DEFINE n == by_path[Now.path]
    <3>1. PICK j \in 1..m : Now.path \in NamesOf(history'[j])
      BY <1>3, <1>7, <2>2
    <3>2. Joined(n) /\ n \in FileId
      BY <1>3, <1>4, <1>8, <2>2, <3>1 DEF Joined, m
    <3>3. ResolveKnown(Now)
      BY <1>3, <2>1, <2>2 DEF ResolveNew, Unknown
    <3>4. by_path' = by_path /\ by_path = [by_path EXCEPT ![Now.path] = n]
      BY <1>3, <1>4, <3>3 DEF ResolveKnown, session
    <3> QED
      BY <1>6, <1>13, <3>2, <3>3, <3>4 DEF ResolveKnown, session, Store, Edits
  <2>3. CASE by_path[Now.path] = NoFile
    <3>1. ResolveNew(Now)
      BY <1>3, <2>1, <2>3 DEF ResolveKnown, Unknown
    <3>2. PICK n \in FileId : /\ file[n] = NoPath /\ file' = [file EXCEPT ![n] = Now.path]
                              /\ by_path' = [by_path EXCEPT ![Now.path] = n] /\ Store(n)
      BY <3>1 DEF ResolveNew
    <3>3. ~ \E j \in 1..m : Now.path \in NamesOf(history'[j])
      BY <1>3, <1>7, <2>3
    <3>4. IsAdd(history', i)
      <4>1. NoPath \notin Told(history', read)
        BY DEF Told, NamesOf
      <4>2. ~IsRename(history', i)
        BY <1>2, <1>11, <1>13, <4>1 DEF IsRename
      <4>3. ~IsEdit(history', i)
        BY <1>2, <1>11, <3>3 DEF IsEdit
      <4> QED
        BY <1>10, <4>2, <4>3
    <3>5. ~(i <= m)
      BY <1>1, <1>2, <1>3, <3>3
    <3>6. Furthest = read
      BY <1>1, <3>5 DEF m, i
    <3>7. Adds(n)
      BY <1>13, <3>1, <3>2, <3>4, <3>6 DEF Adds, ResolveNew, i
    <3> QED
      BY <1>6, <3>2, <3>7 DEF Store
  <2> QED
    BY <2>2, <2>3
<1> QED
  BY <1>12, <1>13

\* Reading a change leaves the load where reading it first would have.
LEMMA UnderwayStep ==
    ASSUME FileAssumption, KeysInv, UnderwayOf(history'), PlainChanges(history'), ReadChange
    PROVE  UnderwayOf(history)'
<1> DEFINE i == read + 1
           m == Furthest
           k == Furthest'
           H == history'
<1>1. /\ i <= Len(H) /\ i \in Nat \ {0} /\ m \in Nat /\ read \in Nat /\ loaded \in Nat
      /\ read <= m /\ loaded <= m /\ m <= Len(H) /\ DOMAIN H = 1..Len(H)
      /\ \A j \in 1..Len(H) : H[j] \in Change
      /\ read' = i /\ loaded' = loaded
  BY ReadGrows, FurthestType DEF KeysInv, Grown, HistoryType
<1>2. (i \in 1..m /\ k = m) \/ (m = read /\ k = i)
  BY <1>1 DEF Furthest
<1>3. Now \in Change /\ Now = H[i]
  BY <1>1 DEF Now
<1>4. /\ Now.path \in Path /\ Now.old_path \in Path \cup {NoPath} /\ NoPath \notin Path
      /\ NoFile \notin FileId
      /\ Now.path \in NamesOf(Now) /\ (Now.old_path # NoPath => Now.old_path \in NamesOf(Now))
      /\ NamesOf(Now) = {Now.path, Now.old_path} \ {NoPath}
  BY <1>3, NamesArePaths DEF FileAssumption, Change, NamesOf
<1>5. PICK n \in FileId :
         /\ by_path' = [by_path EXCEPT ![Now.path] = n]
         /\ commit_file' = commit_file \cup {<<i, n>>}
         /\ Edits(n) \/ Renames(n) \/ Adds(n)
  BY ResolveShape
<1>6. file_alias' = file_alias
  BY ResolveShape
<1>7. /\ by_path \in [Path -> FileId \cup {NoFile}] /\ file \in [FileId -> Path \cup {NoPath}]
      /\ pending_renames \in [FileId -> Path \cup {NoPath}]
      /\ pending_aliases \in Seq(Path \X FileId) /\ file_alias \subseteq Path \X FileId
  BY DEF KeysInv, SessionType
<1> HIDE DEF i, m, k, H
<1>8. /\ Told(H, read) \subseteq Told(H, m) /\ Gone(H, read) \subseteq Gone(H, m)
      /\ Gone(H, loaded) \subseteq Gone(H, m)
      /\ Told(H, i) = Told(H, read) \cup NamesOf(Now)
      /\ Gone(H, i) = Gone(H, read) \cup ({Now.old_path} \ {NoPath})
  <2>1. i = read + 1
    BY DEF i
  <2> QED
    BY <1>1, <1>3, <2>1, GrowsOnly, OneMoreChange
<1>9. Told(H, m) \subseteq Path /\ Gone(H, m) \subseteq Told(H, m) /\ Gone(H, read) \subseteq Told(H, read)
  <2>1. \A x \in 0..Len(H) : Told(H, x) \subseteq Path /\ Gone(H, x) \subseteq Told(H, x)
    <3>1. \A x \in 0..Len(H) : \A j \in 1..x :
             NamesOf(H[j]) \subseteq Path /\ (H[j].old_path # NoPath => H[j].old_path \in NamesOf(H[j]))
      BY <1>1, NamesArePaths
    <3> QED
      BY <3>1 DEF Told, Gone
  <2> QED
    BY <1>1, <2>1
<1>10. /\ Told(H, k) = Told(H, m) \cup NamesOf(Now)
       /\ Gone(H, k) = Gone(H, m) \cup ({Now.old_path} \ {NoPath})
  <2>1. CASE i \in 1..m /\ k = m
    <3>1. NamesOf(Now) \subseteq Told(H, m) /\ {Now.old_path} \ {NoPath} \subseteq Gone(H, m)
      BY <1>3, <2>1 DEF Told, Gone
    <3> QED
      BY <2>1, <3>1
  <2>2. CASE m = read /\ k = i
    BY <1>8, <2>2
  <2> QED
    BY <1>2, <2>1, <2>2
<1>11. \A p \in Path : by_path[p] # NoFile <=> p \in Told(H, m)
  BY DEF UnderwayOf, Resolves, m, H
<1>12. \A x, y \in 1..m : \A p \in NamesOf(H[x]), q \in NamesOf(H[y]) :
          by_path[p] = by_path[q] <=> H[x].of = H[y].of
  BY DEF UnderwayOf, Resolves, m, H
<1>13. \A p : p \in Told(H, m) <=> \E x \in 1..m : p \in NamesOf(H[x])
  BY <1>1, ToldByAChange
\* The row of the change is the row of its file, and of no other.
<1>14. \A x \in 1..m : \A p \in NamesOf(H[x]) : by_path[p] = n <=> H[x].of = Now.of
  <2>1. CASE Joined(n)
    BY <1>12, <2>1 DEF Joined, m, H
  <2>2. CASE Adds(n)
    <3>1. \A x \in 1..m : H[x].of <= x /\ x < i /\ H[x].of \in Nat
      BY <1>1, <2>2 DEF Adds, PlainChanges, H, m, i, Change
    <3>2. Now.of = i
      BY <1>3, <2>2 DEF Adds, IsAdd, H, i
    <3>3. \A p \in Path : by_path[p] # n
      BY <1>5, <1>7, <2>2 DEF Adds, UnderwayOf
    <3>4. \A x \in 1..m : \A p \in NamesOf(H[x]) : p \in Path
      BY <1>9, <1>13
    <3> QED
      BY <1>1, <3>1, <3>2, <3>3, <3>4
  <2> QED
    BY <1>5, <2>1, <2>2 DEF Edits, Renames
<1>15. \A p \in Told(H, m) : by_path'[p] = by_path[p]
  <2>1. Now.path \in Told(H, m) => by_path[Now.path] = n
    <3> SUFFICES ASSUME Now.path \in Told(H, m) PROVE by_path[Now.path] = n
      OBVIOUS
    <3>1. PICK x \in 1..m : Now.path \in NamesOf(H[x])
      BY <1>13
    <3>2. x \in DOMAIN H /\ i \in DOMAIN H
      BY <1>1
    <3>3. H[x].of = Now.of
      BY <1>3, <1>4, <3>1, <3>2 DEF PlainChanges, OneOwner, H
    <3> QED
      BY <1>14, <3>1, <3>3
  <2> QED
    BY <1>4, <1>5, <1>7, <1>9, <2>1
<1>16. \A q \in NamesOf(Now) : by_path'[q] = n
  <2>1. by_path'[Now.path] = n
    BY <1>4, <1>5, <1>7
  <2>2. Now.old_path # NoPath => by_path'[Now.old_path] = n
    <3>1. Now.old_path # NoPath => by_path[Now.old_path] = n
      BY <1>4, <1>5 DEF Edits, Renames, Adds
    <3>2. Now.old_path # NoPath => Now.old_path \in Told(H, m)
      BY <1>4, <1>5, <1>7, <1>11, <3>1
    <3> QED
      BY <1>15, <3>1, <3>2
  <2> QED
    BY <1>4, <2>1, <2>2
<1>17. Resolves(H, by_path', k)
  <2>1. ASSUME NEW p \in Path PROVE by_path'[p] # NoFile <=> p \in Told(H, k)
    <3>1. CASE p \in Told(H, k)
      BY <1>4, <1>10, <1>11, <1>15, <1>16, <3>1
    <3>2. CASE p \notin Told(H, k)
      <4>1. p # Now.path /\ p \notin Told(H, m)
        BY <1>4, <1>10, <3>2
      <4> QED
        BY <1>5, <1>7, <1>11, <3>2, <4>1
    <3> QED
      BY <3>1, <3>2
  <2>2. ASSUME NEW x \in 1..k, NEW y \in 1..k, NEW p \in NamesOf(H[x]), NEW q \in NamesOf(H[y])
        PROVE  by_path'[p] = by_path'[q] <=> H[x].of = H[y].of
    <3>1. x \in 1..m \/ H[x] = Now
      BY <1>1, <1>2, <1>3 DEF i
    <3>2. y \in 1..m \/ H[y] = Now
      BY <1>1, <1>2, <1>3 DEF i
    <3>3. x \in 1..m => by_path'[p] = by_path[p]
      BY <1>13, <1>15, <2>2
    <3>4. y \in 1..m => by_path'[q] = by_path[q]
      BY <1>13, <1>15, <2>2
    <3> QED
      BY <1>12, <1>14, <1>16, <2>2, <3>1, <3>2, <3>3, <3>4
  <2> QED
    BY <2>1, <2>2 DEF Resolves
<1>18. \A a \in file_alias' : a[1] \in Gone(H, loaded) /\ by_path'[a[1]] = a[2]
  <2>1. \A a \in file_alias : a[1] \in Gone(H, loaded) /\ by_path[a[1]] = a[2]
    BY DEF UnderwayOf, H
  <2> QED
    BY <1>6, <1>8, <1>9, <1>15, <2>1
\* The aliases of the load, of which a rename adds one.
<1>19. \/ Now.old_path = NoPath /\ pending_aliases' = pending_aliases
       \/ /\ Now.old_path \in Told(H, read) \ Gone(H, read)
          /\ pending_aliases' = Append(pending_aliases, <<Now.old_path, n>>)
  <2>1. i - 1 = read
    BY <1>1 DEF i
  <2> QED
    BY <1>3, <1>5, <2>1 DEF Edits, Renames, Adds, IsRename, H, i
<1>20. \A j \in DOMAIN pending_aliases :
         /\ pending_aliases[j][1] \in Gone(H, read) /\ by_path[pending_aliases[j][1]] = pending_aliases[j][2]
         /\ by_path'[pending_aliases[j][1]] = pending_aliases[j][2]
  <2>1. \A j \in DOMAIN pending_aliases :
          pending_aliases[j][1] \in Gone(H, read) /\ by_path[pending_aliases[j][1]] = pending_aliases[j][2]
    BY DEF UnderwayOf, H
  <2> QED
    BY <1>8, <1>9, <1>15, <2>1
<1>21. \A j \in DOMAIN pending_aliases' :
         \/ j \in DOMAIN pending_aliases /\ pending_aliases'[j] = pending_aliases[j]
         \/ /\ j = Len(pending_aliases) + 1 /\ Now.old_path \in Told(H, read) \ Gone(H, read)
            /\ pending_aliases'[j] = <<Now.old_path, n>>
  <2>1. CASE pending_aliases' = pending_aliases
    BY <2>1
  <2>2. CASE /\ Now.old_path \in Told(H, read) \ Gone(H, read)
             /\ pending_aliases' = Append(pending_aliases, <<Now.old_path, n>>)
    <3> DEFINE new == <<Now.old_path, n>>
    <3>1. /\ DOMAIN Append(pending_aliases, new) = 1..(Len(pending_aliases) + 1)
          /\ DOMAIN pending_aliases = 1..Len(pending_aliases)
          /\ \A j \in 1..Len(pending_aliases) : Append(pending_aliases, new)[j] = pending_aliases[j]
          /\ Append(pending_aliases, new)[Len(pending_aliases) + 1] = new
          /\ Len(pending_aliases) \in Nat
      <4> HIDE DEF new
      <4> QED
        BY <1>7
    <3> QED
      BY <2>2, <3>1
  <2> QED
    BY <1>19, <2>1, <2>2
<1>22. /\ \A j \in DOMAIN pending_aliases' :
            /\ pending_aliases'[j][1] \in Gone(H, i)
            /\ by_path'[pending_aliases'[j][1]] = pending_aliases'[j][2]
  <2>1. Now.old_path \in Told(H, read) => Now.old_path \in Gone(H, i) /\ by_path'[Now.old_path] = n
    <3>1. Now.old_path \in Told(H, read) => Now.old_path \in Path
      BY <1>8, <1>9
    <3> QED
      BY <1>4, <1>8, <1>16, <3>1
  <2> QED
    BY <1>8, <1>20, <1>21, <2>1
<1>23. \A x, y \in DOMAIN pending_aliases' : pending_aliases'[x][1] = pending_aliases'[y][1] => x = y
  <2>1. \A x, y \in DOMAIN pending_aliases : pending_aliases[x][1] = pending_aliases[y][1] => x = y
    BY DEF UnderwayOf
  <2>2. \A x \in DOMAIN pending_aliases : pending_aliases[x][1] # Now.old_path
          \/ Now.old_path \in Gone(H, read)
    BY <1>20
  <2> QED
    BY <1>21, <2>1, <2>2
<1>24. \A p \in Gone(H, k) :
          \/ <<p, by_path'[p]>> \in file_alias'
          \/ \E j \in DOMAIN pending_aliases' : pending_aliases'[j] = <<p, by_path'[p]>>
  <2>1. \A j \in DOMAIN pending_aliases : j \in DOMAIN pending_aliases' /\ pending_aliases'[j] = pending_aliases[j]
    BY <1>7, <1>19
  <2>2. ASSUME NEW p \in Gone(H, m)
        PROVE  \/ <<p, by_path'[p]>> \in file_alias'
               \/ \E j \in DOMAIN pending_aliases' : pending_aliases'[j] = <<p, by_path'[p]>>
    <3>1. by_path'[p] = by_path[p]
      BY <1>9, <1>15
    <3>2. \/ <<p, by_path[p]>> \in file_alias
          \/ \E j \in DOMAIN pending_aliases : pending_aliases[j] = <<p, by_path[p]>>
      BY DEF UnderwayOf, H, m
    <3> QED
      BY <1>6, <2>1, <3>1, <3>2
  <2>3. ASSUME Now.old_path # NoPath
        PROVE  \E j \in DOMAIN pending_aliases' :
                  pending_aliases'[j] = <<Now.old_path, by_path'[Now.old_path]>>
    <3>1. by_path'[Now.old_path] = n
      BY <1>4, <1>16, <2>3
    <3>2. /\ Len(pending_aliases) + 1 \in DOMAIN pending_aliases'
          /\ pending_aliases'[Len(pending_aliases) + 1] = <<Now.old_path, n>>
      BY <1>7, <1>19, <2>3
    <3> QED
      BY <3>1, <3>2
  <2> QED
    BY <1>10, <2>2, <2>3
\* Rows: what moved, and what is still where it was.
<1>25. /\ \A x \in FileId : file[x] # NoPath => by_path[file[x]] = x
       /\ \A x \in FileId : pending_renames[x] # NoPath => by_path[pending_renames[x]] = x
  BY ReadGrows DEF KeysInv, Owned
<1>26. \A x \in FileId : file[x] # NoPath => file'[x] # NoPath
  BY <1>4, <1>5, <1>7 DEF Edits, Renames, Adds
<1>27. \A x \in FileId : file'[x] # NoPath /\ pending_renames'[x] = NoPath => file'[x] \notin Gone(H, k)
  <2>1. \A x \in FileId : file[x] # NoPath /\ pending_renames[x] = NoPath => file[x] \notin Gone(H, m)
    BY DEF UnderwayOf, H, m
  <2>2. CASE Edits(n)
    BY <1>10, <2>1, <2>2 DEF Edits
  <2>3. CASE Renames(n)
    <3> SUFFICES ASSUME NEW x \in FileId, file'[x] # NoPath, pending_renames'[x] = NoPath
                 PROVE  file'[x] \notin Gone(H, k)
      OBVIOUS
    <3>1. file' = file /\ pending_renames' = [pending_renames EXCEPT ![n] = Now.path]
          /\ by_path[Now.old_path] = n
      BY <2>3 DEF Renames
    <3>2. x # n /\ pending_renames[x] = NoPath
      BY <1>4, <1>7, <3>1
    <3>3. file[x] # Now.old_path
      BY <1>25, <3>1, <3>2
    <3> QED
      BY <1>10, <2>1, <3>1, <3>2, <3>3
  <2>4. CASE Adds(n)
    <3>1. /\ file' = [file EXCEPT ![n] = Now.path] /\ pending_renames' = pending_renames
          /\ Now.old_path = NoPath /\ m = read
      BY <2>4 DEF Adds, m
    <3>2. Now.path \notin Told(H, read)
      <4>1. i - 1 = read
        BY <1>1 DEF i
      <4> QED
        BY <1>3, <2>4, <4>1 DEF Adds, IsAdd, H, i
    <3>3. Gone(H, k) = Gone(H, m) /\ Now.path \notin Gone(H, m)
      BY <1>9, <1>10, <3>1, <3>2
    <3> QED
      BY <1>7, <2>1, <3>1, <3>3
  <2> QED
    BY <1>5, <2>2, <2>3, <2>4
<1>28. \A x \in FileId : pending_renames'[x] # NoPath => pending_renames'[x] \notin Gone(H, i)
  <2>1. \A x \in FileId : pending_renames[x] # NoPath => pending_renames[x] \notin Gone(H, read)
    BY DEF UnderwayOf, H
  <2>2. CASE Now.old_path = NoPath
    <3>1. pending_renames' = pending_renames
      BY <1>4, <1>5, <2>2 DEF Edits, Renames, Adds
    <3> QED
      BY <1>8, <2>1, <2>2, <3>1
  <2>3. CASE Now.old_path # NoPath
    <3>1. /\ pending_renames' = [pending_renames EXCEPT ![n] = Now.path]
          /\ by_path[Now.old_path] = n /\ IsRename(H, i)
      BY <1>5, <2>3 DEF Edits, Renames, Adds, H, i
    <3>2. Now.path \notin Told(H, read) /\ Now.old_path \in Told(H, read)
      <4>1. i - 1 = read
        BY <1>1 DEF i
      <4> QED
        BY <1>3, <3>1, <4>1 DEF IsRename
    <3>3. \A x \in FileId : x # n /\ pending_renames[x] # NoPath => pending_renames[x] # Now.old_path
      BY <1>25, <3>1
    <3>4. Now.path \notin Gone(H, i)
      BY <1>8, <1>9, <3>2
    <3> QED
      BY <1>7, <1>8, <2>1, <3>1, <3>3, <3>4
  <2> QED
    BY <2>2, <2>3
<1>29. \A p \in Path : by_path'[p] # NoFile => file'[by_path'[p]] # NoPath
  <2>1. \A p \in Path : by_path[p] # NoFile => file[by_path[p]] # NoPath /\ by_path[p] \in FileId
    BY <1>7 DEF UnderwayOf
  <2>2. file'[n] # NoPath
    <3>1. CASE Joined(n)
      <4>1. PICK p \in Path : by_path[p] = n
        <5>1. PICK x \in 1..m : \E p \in NamesOf(H[x]) : by_path[p] = n
          BY <3>1 DEF Joined, m, H
        <5> QED
          BY <1>9, <1>13, <5>1
      <4> QED
        BY <1>4, <1>26, <2>1, <4>1
    <3>2. CASE Adds(n)
      BY <1>4, <1>7, <3>2 DEF Adds
    <3> QED
      BY <1>5, <3>1, <3>2 DEF Edits, Renames
  <2> QED
    BY <1>5, <1>7, <1>26, <2>1, <2>2
<1>30. StoredBy(H, commit_file', by_path', k)
  <2>1. \A e \in commit_file : e[1] \in 1..m /\ e[2] = by_path[H[e[1]].path]
    BY DEF UnderwayOf, StoredBy, H, m
  <2>2. \A x \in 1..m : H[x].path \in Told(H, m)
    BY <1>1, <1>13, NamesArePaths
  <2>3. 1..m \subseteq 1..k /\ i \in 1..k
    BY <1>1, <1>2 DEF i
  <2>4. \A e \in commit_file : e[1] \in 1..k /\ e[2] = by_path'[H[e[1]].path]
    BY <1>15, <2>1, <2>2, <2>3
  <2>5. by_path'[H[i].path] = n
    BY <1>3, <1>4, <1>16
  <2> QED
    BY <1>5, <2>3, <2>4, <2>5 DEF StoredBy
<1> QED
  BY <1>1, <1>17, <1>18, <1>22, <1>23, <1>24, <1>27, <1>28, <1>29, <1>30 DEF UnderwayOf, H, k

\* A load starts from what the last one committed, wherever it starts to read.
LEMMA UnderwayBegins ==
    ASSUME FileAssumption, KeysInv, BeginLoad \/ BeginReread,
           file = saved[1], file_alias = saved[2], commit_file = saved[3],
           TablesOf(history, saved[1], saved[2], saved[3], Lookup(saved[1], saved[2]), loaded)
    PROVE  UnderwayOf(history)'
<1> DEFINE map == Lookup(file, file_alias)
<1>1. /\ by_path' = map /\ read' \in {0, loaded} /\ loaded' = loaded /\ ~loading
      /\ UNCHANGED <<history, file, file_alias, commit_file, pending_renames, pending_aliases>>
  BY DEF BeginLoad, BeginReread, tables
<1>2. loaded \in Nat /\ Furthest' = loaded
  BY <1>1 DEF Furthest, KeysInv, HistoryType
<1>3. pending_renames' = NoRenames /\ pending_aliases' = <<>>
  BY <1>1 DEF KeysInv, Owned
<1>4. DOMAIN pending_aliases' = {} /\ \A n \in FileId : pending_renames'[n] = NoPath
  BY <1>3 DEF NoRenames
<1>5. TablesOf(history, file, file_alias, commit_file, map, loaded)
  OBVIOUS
<1> HIDE DEF map
<1> QED
  BY <1>1, <1>2, <1>4, <1>5 DEF TablesOf, UnderwayOf

\* A flush commits what the load knows: the next load's lookup finds every name where this one
\* had it.
LEMMA FlushCommits ==
    ASSUME FileAssumption, KeysInv, PlainHistory, UnderwayOf(history), Flush
    PROVE  /\ Lookup(file', file_alias') = by_path
           /\ TablesOf(history, file', file_alias', commit_file, by_path, read)
<1>1. /\ loading /\ read = Len(history) /\ loaded <= read /\ read \in Nat /\ loaded \in Nat
      /\ Furthest = read /\ DOMAIN history = 1..read
      /\ file' = MovedRows /\ file_alias' = file_alias \cup {pending_aliases[j] : j \in Inserted}
  BY DEF Flush, Furthest, KeysInv, HistoryType
<1>2. /\ by_path \in [Path -> FileId \cup {NoFile}] /\ file \in [FileId -> Path \cup {NoPath}]
      /\ pending_renames \in [FileId -> Path \cup {NoPath}]
      /\ pending_aliases \in Seq(Path \X FileId) /\ file_alias \subseteq Path \X FileId
      /\ NoFile \notin FileId /\ NoPath \notin Path
  BY DEF KeysInv, SessionType, FileAssumption
<1>3. /\ \A n \in FileId : file[n] # NoPath => by_path[file[n]] = n
      /\ \A n \in FileId : pending_renames[n] # NoPath => by_path[pending_renames[n]] = n
  BY <1>1 DEF KeysInv, Owned
<1>4. /\ Resolves(history, by_path, read) /\ StoredBy(history, commit_file, by_path, read)
      /\ \A p \in Path : by_path[p] # NoFile => file[by_path[p]] # NoPath
  BY <1>1 DEF UnderwayOf
<1>5. \A n \in FileId :
         MovedRows[n] = IF pending_renames[n] # NoPath THEN pending_renames[n] ELSE file[n]
  BY <1>2, <1>3 DEF MovedRows
<1>6. \A n \in FileId : MovedRows[n] # NoPath =>
         /\ MovedRows[n] \in Path /\ by_path[MovedRows[n]] = n
         /\ MovedRows[n] \notin Gone(history, read)
  BY <1>1, <1>2, <1>3, <1>5 DEF UnderwayOf
<1>7. \A p \in Path : by_path[p] # NoFile => by_path[p] \in FileId /\ MovedRows[by_path[p]] # NoPath
  BY <1>2, <1>4, <1>5
<1>8. \A p \in Path : by_path[p] # NoFile /\ p \notin Gone(history, read) => MovedRows[by_path[p]] = p
  <2> SUFFICES ASSUME NEW p \in Path, by_path[p] # NoFile, p \notin Gone(history, read)
               PROVE  MovedRows[by_path[p]] = p
    OBVIOUS
  <2> DEFINE r == MovedRows[by_path[p]]
  <2>1. r \in Path /\ by_path[r] = by_path[p] /\ r \notin Gone(history, read)
    BY <1>6, <1>7
  <2> HIDE DEF r
  <2>2. p \in Told(history, read) /\ r \in Told(history, read)
    BY <1>4, <2>1 DEF Resolves
  <2>3. PICK i \in 1..read : p \in NamesOf(history[i])
    BY <1>1, <2>2, ToldByAChange
  <2>4. PICK j \in 1..read : r \in NamesOf(history[j])
    BY <1>1, <2>2, ToldByAChange
  <2>5. history[i].of = history[j].of
    BY <1>4, <2>1, <2>3, <2>4 DEF Resolves
  <2>6. read \in DOMAIN history
    BY <1>1, <2>3
  <2>7. r = p
    BY <2>1, <2>3, <2>4, <2>5, <2>6 DEF PlainHistory, PlainChanges, OneName
  <2> QED
    BY <2>7 DEF r
<1>9. \A a \in file_alias : a[1] \in Gone(history, read) /\ by_path[a[1]] = a[2]
  BY <1>1, GrowsOnly DEF UnderwayOf
<1>10. \A j \in DOMAIN pending_aliases :
          /\ pending_aliases[j][1] \in Gone(history, read)
          /\ by_path[pending_aliases[j][1]] = pending_aliases[j][2]
  BY DEF UnderwayOf
<1>11. \A a \in file_alias' : a[1] \in Gone(history, read) /\ by_path[a[1]] = a[2]
  <2>1. Inserted \subseteq DOMAIN pending_aliases
    BY DEF Inserted
  <2> QED
    BY <1>1, <1>9, <1>10, <2>1
<1>12. \A p \in Gone(history, read) : <<p, by_path[p]>> \in file_alias'
  <2> SUFFICES ASSUME NEW p \in Gone(history, read), <<p, by_path[p]>> \notin file_alias
               PROVE  \E j \in Inserted : pending_aliases[j] = <<p, by_path[p]>>
    BY <1>1
  <2>1. PICK j \in DOMAIN pending_aliases : pending_aliases[j] = <<p, by_path[p]>>
    BY <1>1 DEF UnderwayOf
  <2>2. pending_aliases[j][1] = p
    BY <2>1
  <2>3. ~Aliased(p)
    <3> SUFFICES ASSUME NEW n \in FileId, <<p, n>> \in file_alias PROVE FALSE
      BY DEF Aliased
    <3>1. by_path[p] = n
      BY <1>9
    <3> QED
      BY <3>1
  <2>4. \A x \in 1..(j - 1) : pending_aliases[x][1] # pending_aliases[j][1]
    <3> SUFFICES ASSUME NEW x \in 1..(j - 1), pending_aliases[x][1] = pending_aliases[j][1] PROVE FALSE
      OBVIOUS
    <3>1. x \in DOMAIN pending_aliases /\ x # j
      BY <1>2
    <3> QED
      BY <3>1 DEF UnderwayOf
  <2>5. j \in Inserted
    BY <2>2, <2>3, <2>4 DEF Inserted
  <2> QED
    BY <2>1, <2>5
<1>13. Gone(history, read) \subseteq Path
  BY <1>1, PathsAreTold DEF KeysInv
<1>14. file_alias' \subseteq Path \X FileId
  <2>1. \A j \in Inserted : pending_aliases[j] \in Path \X FileId
    BY <1>2 DEF Inserted
  <2> QED
    BY <1>1, <1>2, <2>1
<1>15. Lookup(file', file_alias') = by_path
  <2> SUFFICES ASSUME NEW p \in Path PROVE Lookup(file', file_alias')[p] = by_path[p]
    BY <1>2 DEF Lookup
  <2>1. CASE \E n \in FileId : MovedRows[n] = p
    <3>1. \A n \in FileId : MovedRows[n] = p => n = by_path[p]
      BY <1>2, <1>6
    <3>2. (CHOOSE n \in FileId : MovedRows[n] = p) = by_path[p]
      BY <2>1, <3>1
    <3> QED
      BY <1>1, <2>1, <3>2 DEF Lookup
  <2>2. CASE ~ \E n \in FileId : MovedRows[n] = p
    <3>1. \A n \in FileId : <<p, n>> \in file_alias' => n = by_path[p]
      BY <1>11
    <3>2. CASE \E n \in FileId : <<p, n>> \in file_alias'
      <4>1. (CHOOSE n \in FileId : <<p, n>> \in file_alias') = by_path[p]
        BY <3>1, <3>2
      <4> QED
        BY <1>1, <2>2, <3>2, <4>1 DEF Lookup
    <3>3. CASE ~ \E n \in FileId : <<p, n>> \in file_alias'
      <4>1. by_path[p] = NoFile
        BY <1>7, <1>8, <1>12, <2>2, <3>3
      <4> QED
        BY <1>1, <2>2, <3>3, <4>1 DEF Lookup
    <3> QED
      BY <3>2, <3>3
  <2> QED
    BY <2>1, <2>2
<1>16. \A n \in FileId : file'[n] # NoPath => file'[n] \notin Gone(history, read) /\ by_path[file'[n]] = n
  BY <1>1, <1>6
<1>17. \A p \in Path : by_path[p] # NoFile => file'[by_path[p]] # NoPath
  BY <1>1, <1>7
<1> QED
  BY <1>4, <1>11, <1>12, <1>15, <1>16, <1>17 DEF TablesOf

LEMMA PlainBefore == Next \/ UNCHANGED vars => (plain' => plain)
<1>1. \A p : Taken(p) => (plain' => plain)
  BY Zenon DEF Taken
<1>2. Commits => (plain' => plain)
  BY <1>1 DEF Commits, Added, Edited, Renamed, EditedElsewhere, RenamedElsewhere, branches
<1> QED
  BY <1>2 DEF Next, BeginLoad, BeginReread, ReadChange, Flush, Abort, vars, branches

LEMMA IdentityStep ==
    ASSUME FileAssumption, KeysInv, IdentityInv, [Next]_vars PROVE IdentityInv'
<1>1. plain' => plain
  BY PlainBefore
<1>2. PlainHistory /\ plain' => PlainHistory'
  <2>1. CASE ReadChange /\ Commits
    BY <2>1, PlainStep DEF KeysInv
  <2>2. CASE UNCHANGED <<history, tree>>
    BY <2>2 DEF PlainHistory, TreeIsTold
  <2> QED
    BY <2>1, <2>2 DEF Next, BeginLoad, BeginReread, ReadChange, Flush, Abort, vars, branches
<1>3. CASE BeginLoad \/ BeginReread
  <2>1. /\ file = saved[1] /\ file_alias = saved[2] /\ commit_file = saved[3]
        /\ UNCHANGED <<history, saved, loaded>> /\ loading' = TRUE
    BY <1>3 DEF IdentityInv, BeginLoad, BeginReread
  <2>2. plain' => UnderwayOf(history)'
    BY <1>1, <1>3, <2>1, UnderwayBegins DEF IdentityInv
  <2> QED
    BY <1>1, <1>2, <2>1, <2>2 DEF IdentityInv
<1>4. CASE ReadChange
  <2>1. /\ Grown /\ HistoryType /\ loading /\ loading' = loading
        /\ loaded' = loaded /\ saved' = saved /\ loaded \in 0..Len(history)
    BY <1>4, ReadGrows, FurthestType DEF KeysInv
  <2>2. ASSUME plain'
        PROVE  TablesOf(history', saved[1], saved[2], saved[3], Lookup(saved[1], saved[2]), loaded)
    BY <1>1, <2>1, <2>2, GrownTables DEF IdentityInv
  <2>3. ASSUME plain' PROVE UnderwayOf(history)'
    <3>1. UnderwayOf(history')
      BY <1>1, <2>1, <2>3, GrownUnderway DEF IdentityInv
    <3>2. PlainChanges(history')
      BY <1>1, <1>2, <2>3 DEF IdentityInv, PlainHistory
    <3> QED
      BY <1>4, <3>1, <3>2, UnderwayStep
  <2> QED
    BY <1>1, <1>2, <2>1, <2>2, <2>3 DEF IdentityInv
<1>5. CASE Flush
  <2>1. /\ loading /\ loading' = FALSE /\ loaded' = read
        /\ UNCHANGED <<history, commit_file, plain>>
        /\ saved' = <<file', file_alias', commit_file>>
    BY <1>5 DEF Flush, EndSession, branches
  <2>2. saved'[1] = file' /\ saved'[2] = file_alias' /\ saved'[3] = commit_file
    BY <2>1
  <2>3. plain => /\ Lookup(file', file_alias') = by_path
                 /\ TablesOf(history, file', file_alias', commit_file, by_path, read)
    BY <1>5, <2>1, FlushCommits DEF IdentityInv
  <2> QED
    BY <1>1, <1>2, <2>1, <2>2, <2>3 DEF IdentityInv
<1>6. CASE Abort
  <2>1. /\ file' = saved[1] /\ file_alias' = saved[2] /\ commit_file' = saved[3]
        /\ UNCHANGED <<history, saved, loaded>> /\ loading' = FALSE
    BY <1>6 DEF Abort, EndSession, branches
  <2> QED
    BY <1>1, <1>2, <2>1 DEF IdentityInv
<1>7. CASE UNCHANGED vars
  BY <1>1, <1>2, <1>7 DEF IdentityInv, vars, branches, tables, session, UnderwayOf, Furthest
<1> QED
  BY <1>3, <1>4, <1>5, <1>6, <1>7 DEF Next

LEMMA IdentityInit == FileAssumption /\ Init => IdentityInv
<1> SUFFICES ASSUME FileAssumption, Init PROVE IdentityInv
  OBVIOUS
<1>1. history = <<>> /\ Len(history) = 0 /\ DOMAIN history = {}
  BY DEF Init
<1>2. saved[1] = file /\ saved[2] = file_alias /\ saved[3] = commit_file
  BY DEF Init, tables
<1>3. /\ file = NoRenames /\ file_alias = {} /\ commit_file = {} /\ loaded = 0 /\ loading = FALSE
      /\ \A p \in Path : tree[p] = 0
  BY DEF Init
<1>4. PlainHistory
  BY <1>1, <1>3 DEF PlainHistory, PlainChanges, OneOwner, OneName, TreeIsTold
<1>5. \A p \in Path : Lookup(file, file_alias)[p] = NoFile
  <2>1. \A n \in FileId : \A p \in Path : file[n] # p
    BY <1>3 DEF NoRenames, FileAssumption
  <2> QED
    BY <1>3, <2>1 DEF Lookup
<1>6. Told(history, 0) = {} /\ Gone(history, 0) = {}
  BY DEF Told, Gone
<1>7. TablesOf(history, file, file_alias, commit_file, Lookup(file, file_alias), 0)
  <2>1. Resolves(history, Lookup(file, file_alias), 0)
    BY <1>5, <1>6 DEF Resolves
  <2>2. \A n \in FileId : file[n] = NoPath
    BY <1>3 DEF NoRenames
  <2> QED
    BY <1>3, <1>5, <1>6, <2>1, <2>2 DEF TablesOf, StoredBy
<1> QED
  BY <1>2, <1>3, <1>4, <1>7 DEF IdentityInv

LEMMA IdentityInvariant == Spec => [](KeysInv /\ IdentityInv)
<1>1. Init => KeysInv /\ IdentityInv
  BY FileAssumption, KeysInit, IdentityInit
<1>2. KeysInv /\ IdentityInv /\ [Next]_vars => (KeysInv /\ IdentityInv)'
  BY FileAssumption, KeysStep, IdentityStep
<1> QED
  BY <1>1, <1>2, PTL DEF Spec

\* What is stored of a plain history is stored under the row of its file.
LEMMA StoredIsResolved ==
    ASSUME FileAssumption, KeysInv, IdentityInv, plain
    PROVE  \E map, k : /\ Resolves(history, map, k) /\ StoredBy(history, commit_file, map, k)
                       /\ k \in 0..Len(history)
<1>1. CASE loading
  BY <1>1, FurthestType DEF KeysInv, IdentityInv, UnderwayOf
<1>2. CASE ~loading
  <2> DEFINE map == Lookup(saved[1], saved[2])
  <2>1. TablesOf(history, saved[1], saved[2], saved[3], map, loaded) /\ commit_file = saved[3]
    BY <1>2 DEF IdentityInv
  <2>2. loaded \in 0..Len(history)
    BY FurthestType DEF KeysInv
  <2> HIDE DEF map
  <2> QED
    BY <2>1, <2>2 DEF TablesOf
<1> QED
  BY <1>1, <1>2

\* "Renames keep a file's identity" and rows are not shared, for every plain history and
\* however its loads are cut, fail, repeat or overlap: all changes of a file are stored under
\* one row and a row's changes are about one file (FileResolver.resolve, flush and _load).
THEOREM IdentityIsKept == Spec => []IdentityIsExact
<1>1. ASSUME FileAssumption, KeysInv, IdentityInv PROVE IdentityIsExact
  <2> SUFFICES ASSUME plain PROVE KeepsIdentity /\ SharesNoIdentity
    BY DEF IdentityIsExact
  <2>1. PICK map, k : /\ Resolves(history, map, k) /\ StoredBy(history, commit_file, map, k)
                      /\ k \in 0..Len(history)
    BY <1>1, StoredIsResolved
  <2>2. \A i \in DOMAIN history : history[i].path \in NamesOf(history[i])
    <3>1. \A i \in DOMAIN history : history[i] \in Change
      BY <1>1 DEF KeysInv, HistoryType
    <3> QED
      BY <1>1, <3>1, NamesArePaths
  <2>3. \A i \in DOMAIN history : \A n \in Stored(i) : i \in 1..k /\ n = map[history[i].path]
    <3> SUFFICES ASSUME NEW i \in DOMAIN history, NEW n \in Stored(i)
                 PROVE  i \in 1..k /\ n = map[history[i].path]
      OBVIOUS
    <3>1. <<i, n>> \in commit_file
      BY DEF Stored
    <3>2. <<i, n>>[1] \in 1..k /\ <<i, n>>[2] = map[history[<<i, n>>[1]].path]
      BY <2>1, <3>1 DEF StoredBy
    <3> QED
      BY <3>2
  <2>4. \A i, j \in DOMAIN history : i \in 1..k /\ j \in 1..k =>
           (map[history[i].path] = map[history[j].path] <=> history[i].of = history[j].of)
    BY <2>1, <2>2 DEF Resolves
  <2>5. KeepsIdentity
    BY <2>3, <2>4 DEF KeepsIdentity
  <2>6. SharesNoIdentity
    <3> SUFFICES ASSUME NEW i \in DOMAIN history, NEW j \in DOMAIN history,
                        Stored(i) \cap Stored(j) # {}
                 PROVE  history[i].of = history[j].of
      BY DEF SharesNoIdentity
    <3>1. PICK n : n \in Stored(i) /\ n \in Stored(j)
      OBVIOUS
    <3> QED
      BY <2>3, <2>4, <3>1
  <2> QED
    BY <2>5, <2>6
<1>2. Spec => [](KeysInv /\ IdentityInv)
  BY IdentityInvariant
<1>3. KeysInv /\ IdentityInv => IdentityIsExact
  BY <1>1, FileAssumption
<1> QED
  BY <1>2, <1>3, PTL

\* It does not matter where one load ends and the next begins: after the flush of a plain
\* history the aliases and the moved rows give back every name the load knew, for the same
\* row (FileResolver.flush, then _load of the next FileResolver).
THEOREM NoNameIsLost == Spec => NamesSurvive
<1>1. KeysInv /\ IdentityInv /\ [Next]_vars => [Flush /\ plain => Lookup(file', file_alias') = by_path]_vars
  <2> SUFFICES ASSUME KeysInv, IdentityInv, Flush, plain
               PROVE  Lookup(file', file_alias') = by_path
    OBVIOUS
  <2>1. PlainHistory /\ UnderwayOf(history)
    BY DEF IdentityInv, Flush
  <2> QED
    BY <2>1, FileAssumption, FlushCommits
<1>2. Spec => [](KeysInv /\ IdentityInv)
  BY IdentityInvariant
<1>3. Spec => [][Next]_vars
  BY DEF Spec
<1> QED
  BY <1>1, <1>2, <1>3, PTL DEF NamesSurvive
=============================================================================
