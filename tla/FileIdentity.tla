---------------------------- MODULE FileIdentity -----------------------------
(***************************************************************************)
(* FileResolver and load_commits of ingest/store.py: which `file` row a      *)
(* change is stored under when files are renamed, over several loads, loads  *)
(* that fail, and forced re-reads of the whole history.                      *)
(*                                                                           *)
(* The repository's history is a sequence of changes, one per commit, that   *)
(* grows as the loader reads it.  Each change carries, besides its path and  *)
(* the old path git reports, the file it is really about (`of`), which the   *)
(* loader does not see.  Branches are walked together, so a change may name  *)
(* a file by a name that another branch has already changed.                 *)
(***************************************************************************)
EXTENDS Naturals, FiniteSets, Sequences

CONSTANTS
    Path, NoPath,
    FileId, NoFile,     \* ids of `file` rows: 1..n
    MaxChanges,         \* bound: changes in the history
    MaxLoads            \* bound: loads of a behaviour

ASSUME FileAssumption ==
    /\ NoPath \notin Path /\ NoFile \notin FileId /\ FileId \subseteq Nat
    /\ MaxChanges \in Nat /\ MaxLoads \in Nat

VARIABLES
    history,            \* the changes git log yields, oldest first
    tree,               \* tree[p]: the file at path p, 0 when there is none
    plain,              \* no path was taken twice, no two branches renamed one file
    file,               \* file[n]: the path of row n, NoPath while there is no row
    file_alias,         \* rows (old_path, file_id)
    commit_file,        \* rows (position of the change in history, file_id)
    saved,              \* what the last committed load left in the three tables
    read,               \* changes read by the load that is running
    loaded,             \* changes committed loads have stored
    by_path, pending_renames, pending_aliases,
    loading, loads

branches == <<tree, plain>>
tables == <<file, file_alias, commit_file>>
session == <<by_path, pending_renames, pending_aliases>>
vars == <<history, branches, tables, saved, read, loaded, session, loading, loads>>

Change == [path : Path, old_path : Path \cup {NoPath}, of : Nat \ {0}]

TypeOK ==
    /\ history \in Seq(Change) /\ tree \in [Path -> Nat] /\ plain \in BOOLEAN
    /\ file \in [FileId -> Path \cup {NoPath}]
    /\ file_alias \subseteq Path \X FileId /\ commit_file \subseteq (1..MaxChanges) \X FileId
    /\ read \in 0..MaxChanges /\ loaded \in 0..MaxChanges
    /\ by_path \in [Path -> FileId \cup {NoFile}]
    /\ pending_renames \in [FileId -> Path \cup {NoPath}]
    /\ pending_aliases \in Seq(Path \X FileId)
    /\ loading \in BOOLEAN /\ loads \in 0..MaxLoads

Nowhere   == [p \in Path |-> NoFile]
NoRenames == [n \in FileId |-> NoPath]

Init ==
    /\ history = <<>> /\ tree = [p \in Path |-> 0] /\ plain = TRUE
    /\ file = NoRenames /\ file_alias = {} /\ commit_file = {} /\ saved = tables
    /\ read = 0 /\ loaded = 0
    /\ by_path = Nowhere /\ pending_renames = NoRenames /\ pending_aliases = <<>>
    /\ loading = FALSE /\ loads = 0

-----------------------------------------------------------------------------
(* The history. *)

Files   == {history[i].of : i \in DOMAIN history}
Names(f) == {history[i].path : i \in {j \in DOMAIN history : history[j].of = f}}
             \cup ({history[i].old_path : i \in {j \in DOMAIN history : history[j].of = f}} \ {NoPath})
Used    == UNION {Names(f) : f \in Files}

Free == {p \in Path : tree[p] = 0}

\* A path is plainly taken when no file ever had it.
Taken(p) == plain' = (plain /\ p \notin Used)

Added ==
    \E p \in Free : LET f == Len(history) + 1 IN      \* named after the change that adds it
        /\ history' = Append(history, [path |-> p, old_path |-> NoPath, of |-> f])
        /\ tree' = [tree EXCEPT ![p] = f] /\ Taken(p)

Edited ==
    \E p \in Path :
        /\ tree[p] # 0
        /\ history' = Append(history, [path |-> p, old_path |-> NoPath, of |-> tree[p]])
        /\ tree' \in {tree, [tree EXCEPT ![p] = 0]}         \* edited or deleted
        /\ UNCHANGED plain

Renamed ==
    \E p \in Path, q \in Free :
        /\ tree[p] # 0
        /\ history' = Append(history, [path |-> q, old_path |-> p, of |-> tree[p]])
        /\ tree' = [tree EXCEPT ![p] = 0, ![q] = tree[p]] /\ Taken(q)

\* A branch that has not seen the rename edits the file under its earlier name.
EditedElsewhere ==
    \E f \in Files : \E p \in Names(f) :
        /\ tree[p] = 0
        /\ history' = Append(history, [path |-> p, old_path |-> NoPath, of |-> f])
        /\ UNCHANGED branches

\* A branch that has not seen the rename gives the file another name.
RenamedElsewhere ==
    \E f \in Files, q \in Free : \E p \in Names(f) :
        /\ tree[p] = 0
        /\ history' = Append(history, [path |-> q, old_path |-> p, of |-> f])
        /\ tree' = [tree EXCEPT ![q] = f] /\ plain' = FALSE

Commits == Added \/ Edited \/ Renamed \/ EditedElsewhere \/ RenamedElsewhere

-----------------------------------------------------------------------------
(* FileResolver. *)

\* _load: the rows' own paths first, then the aliases that none of them covers.
Lookup(rows, aliases) ==
    [p \in Path |->
        IF \E n \in FileId : rows[n] = p THEN CHOOSE n \in FileId : rows[n] = p
        ELSE IF \E n \in FileId : <<p, n>> \in aliases
             THEN CHOOSE n \in FileId : <<p, n>> \in aliases
             ELSE NoFile]

BeginLoad ==
    /\ ~loading /\ loads < MaxLoads
    /\ by_path' = Lookup(file, file_alias)
    /\ loading' = TRUE /\ loads' = loads + 1 /\ read' = loaded
    /\ UNCHANGED <<history, branches, tables, saved, loaded, pending_renames, pending_aliases>>

\* A forced sync hands load_commits the whole history again.
BeginReread ==
    /\ ~loading /\ loads < MaxLoads /\ loaded > 0
    /\ by_path' = Lookup(file, file_alias)
    /\ loading' = TRUE /\ loads' = loads + 1 /\ read' = 0
    /\ UNCHANGED <<history, branches, tables, saved, loaded, pending_renames, pending_aliases>>

Unknown(p) == p \in Path => by_path[p] = NoFile

Store(n) == commit_file' = commit_file \cup {<<read + 1, n>>}

\* Mutant: the old path is not kept as an alias.
ResolveRenameWithoutAlias(c) ==
    LET existing == by_path[c.old_path] IN
    /\ ~Unknown(c.old_path)
    /\ by_path[c.path] \in {NoFile, existing}
    /\ by_path' = [by_path EXCEPT ![c.path] = existing]
    /\ pending_renames' = [pending_renames EXCEPT ![existing] = c.path]
    /\ UNCHANGED pending_aliases
    /\ Store(existing)
    /\ UNCHANGED <<file, file_alias>>

\* A rename of a known file moves its row, once the load is flushed.
ResolveRename(c) ==
    LET existing == by_path[c.old_path] IN
    /\ ~Unknown(c.old_path)
    /\ by_path[c.path] \in {NoFile, existing}
    /\ by_path' = [by_path EXCEPT ![c.path] = existing]
    /\ pending_renames' = [pending_renames EXCEPT ![existing] = c.path]
    /\ pending_aliases' = Append(pending_aliases, <<c.old_path, existing>>)
    /\ Store(existing)
    /\ UNCHANGED <<file, file_alias>>

\* Another file holds the new path: the change goes to that file.
ResolveOccupied(c) ==
    LET existing == by_path[c.old_path]  occupant == by_path[c.path] IN
    /\ ~Unknown(c.old_path)
    /\ occupant \notin {NoFile, existing}
    /\ Store(occupant)
    /\ UNCHANGED <<file, file_alias, session>>

ResolveKnown(c) ==
    /\ Unknown(c.old_path) /\ ~Unknown(c.path)
    /\ Store(by_path[c.path])
    /\ UNCHANGED <<file, file_alias, session>>

\* Rows are numbered as they are inserted.
ResolveNew(c) ==
    /\ Unknown(c.old_path) /\ Unknown(c.path)
    /\ \E n \in FileId :
          /\ file[n] = NoPath /\ \A m \in FileId : m < n => file[m] # NoPath
          /\ file' = [file EXCEPT ![n] = c.path]
          /\ by_path' = [by_path EXCEPT ![c.path] = n]
          /\ Store(n)
    /\ UNCHANGED <<file_alias, pending_renames, pending_aliases>>

Resolve(c) == ResolveRename(c) \/ ResolveOccupied(c) \/ ResolveKnown(c) \/ ResolveNew(c)

\* load_commits reads the next change, which git may only now come up with.
ReadChange ==
    /\ loading
    /\ \/ read < Len(history) /\ UNCHANGED <<history, branches>>
       \/ read = Len(history) /\ read < MaxChanges /\ Commits
    /\ Resolve(history'[read + 1])
    /\ read' = read + 1
    /\ UNCHANGED <<saved, loaded, loading, loads>>

\* Mutant: the rows do not move.
MovedRowsNever == file

\* Rows that move.  The occupant query does not see the moves of this loop.
MovedRows ==
    [n \in FileId |->
        IF pending_renames[n] # NoPath /\ ~ \E m \in FileId \ {n} : file[m] = pending_renames[n]
        THEN pending_renames[n] ELSE file[n]]

Aliased(p) == \E n \in FileId : <<p, n>> \in file_alias

\* Mutant: the query for an existing alias does not see those the loop has just added.
InsertedUnseen == {j \in DOMAIN pending_aliases : ~Aliased(pending_aliases[j][1])}

\* The pending aliases that are inserted: the first of each old path that had none.
Inserted ==
    {j \in DOMAIN pending_aliases :
        /\ ~Aliased(pending_aliases[j][1])
        /\ \A k \in 1..(j - 1) : pending_aliases[k][1] # pending_aliases[j][1]}

EndSession ==
    /\ by_path' = Nowhere /\ pending_renames' = NoRenames /\ pending_aliases' = <<>>
    /\ loading' = FALSE

\* FileResolver.flush and the commit of the load.
Flush ==
    /\ loading /\ read >= loaded /\ read = Len(history)
    /\ file' = MovedRows
    /\ file_alias' = file_alias \cup {pending_aliases[j] : j \in Inserted}
    /\ saved' = <<file', file_alias', commit_file>> /\ loaded' = read
    /\ EndSession
    /\ UNCHANGED <<history, branches, commit_file, read, loads>>

\* Anything raised inside load_commits rolls the whole load back.
Abort ==
    /\ loading
    /\ file' = saved[1] /\ file_alias' = saved[2] /\ commit_file' = saved[3]
    /\ read' = loaded
    /\ EndSession
    /\ UNCHANGED <<history, branches, saved, loaded, loads>>

Next == BeginLoad \/ BeginReread \/ ReadChange \/ Flush \/ Abort

Spec == Init /\ [][Next]_vars
-----------------------------------------------------------------------------
(* Properties. *)

\* The unique keys of file and file_alias hold, so that no load fails on its own renames:
\* neither now nor after a flush do two rows have the same path or two aliases the same
\* old path.
KeysHold ==
    /\ \A m, n \in FileId : file[m] = file[n] /\ file[m] # NoPath => m = n
    /\ \A m, n \in FileId : MovedRows[m] = MovedRows[n] /\ MovedRows[m] # NoPath => m = n
    /\ \A a, b \in file_alias : a[1] = b[1] => a = b
    /\ \A j, k \in Inserted : pending_aliases[j][1] = pending_aliases[k][1] => j = k

Stored(i) == {n \in FileId : <<i, n>> \in commit_file}

\* "Renames keep a file's identity": all changes of a file are stored under one row.
KeepsIdentity ==
    \A i, j \in DOMAIN history :
        history[i].of = history[j].of => \A m \in Stored(i), n \in Stored(j) : m = n

\* The converse: what is stored under one row is about one file.
SharesNoIdentity ==
    \A i, j \in DOMAIN history :
        Stored(i) \cap Stored(j) # {} => history[i].of = history[j].of

\* Whatever the loads, failures and re-reads: one row per file and one file per row, as long
\* as the history is plain.  A change that is read again is found under the row it has.
IdentityIsExact == plain => KeepsIdentity /\ SharesNoIdentity

\* The next load of a plain history knows every name the last one knew, and for the same
\* file, so it does not matter where one load ends and the next one begins.
NamesSurvive == [][Flush /\ plain => Lookup(file', file_alias') = by_path]_vars
=============================================================================
