------------------------------ MODULE Discovery ------------------------------
(***************************************************************************)
(* Which repositories get ingested: the sources of ingest/accounts.py, the  *)
(* pass of ingest/pipeline.py discover that lists each of them page by page *)
(* (ingest/providers.py, ingest/github.py), filters what it saw and upserts *)
(* it into the repo table (ingest/store.py).                                *)
(*                                                                          *)
(* Each action is one request to the host or one database transaction.  The *)
(* host and the dashboard move between them; the run lock admits one pass.  *)
(*                                                                          *)
(* Abstractions: a repository is its identity at the host (github_id) and   *)
(* whether it still has its first name; `skip` stands for every filter that *)
(* looks at one record alone (skip_repos, disabled, private, archived);     *)
(* descriptive columns are left out.                                        *)
(***************************************************************************)
EXTENDS Integers, FiniteSets, Sequences, SequencesExt, FiniteSetsExt, TLC

CONSTANTS
    Logins,         \* the accounts that may be configured, in the order of their logins
    Repo,           \* repositories that may exist on the host
    Lists,          \* account -> the repositories its owner (and its subgroups) has
    Private,        \* repositories only an accepted credential shows
    Parent,         \* repository -> what it was forked from, or NoRepo
    NoRepo, NoAccount,
    Page,           \* providers.PAGE: repositories in one page of a listing
    Providers,      \* the kinds of host the accounts may be at
    Enumerable,     \* accounts whose host has an API that lists
    Renames,        \* bound: the kinds of host at which a repository may be renamed
    NameLists,      \* the lists of names a dashboard user may type into a filter
    Pasting,        \* people who paste a repository's URL
    MaxMoves, MaxEdits, MaxFaults   \* bounds: host changes, dashboard edits, failures

Account == Range(Logins)

ASSUME DiscoveryAssumption ==
    /\ Page \in Nat \ {0}
    /\ Lists \in [Account -> SUBSET Repo]
    /\ Parent \in [Repo -> Repo \cup {NoRepo}] /\ NoRepo \notin Repo
    /\ NoAccount \notin Account
    /\ Private \subseteq Repo /\ Enumerable \subseteq Account
    /\ Providers \subseteq {"github", "gitlab", "bitbucket"} /\ Renames \subseteq Providers
    /\ NameLists \subseteq SUBSET Repo
    /\ MaxMoves \in Nat /\ MaxEdits \in Nat /\ MaxFaults \in Nat

VARIABLES
    host,       \* its kind, its repositories as listed, the renamed ones; is the token good?
    account,    \* the account table
    corpus,     \* the repo table
    pass,       \* the pass of discover(): where it is, and its locals
    outcome,    \* how the last pass ended
    paste,      \* person -> the allowlist add_from_url has read, while it has not written it
    moves, edits, faults

vars == <<host, account, corpus, pass, outcome, paste, moves, edits, faults>>

\* A full_name: the repository, under its first name or the one it was renamed to.
Name == [repo : Repo, renamed : BOOLEAN]
Row  == [name : Name, owner : Account \cup {NoAccount}]

\* The columns discovery reads, and the count it writes; `state` says if the row is there.
Settings == [state : {"absent", "enabled", "disabled", "removed"}, only : SUBSET Repo,
             skip : SUBSET Repo, forks : BOOLEAN, count : Nat]

Outcomes == {"none", "done", "refused", "failed", "conflict"}

TypeOK ==
    /\ host.provider \in Providers
    /\ host.order \in Seq(Repo) /\ IsInjective(host.order)
    /\ host.renamed \subseteq Repo /\ host.token \in BOOLEAN
    /\ account \in [Account -> Settings]
    /\ \A row \in corpus : row \in Row
    /\ \A x, y \in corpus : x.name = y.name => x = y
    /\ pass.at \in {"idle", "list", "select", "store", "recount"}
    /\ \A row \in pass.kept : row \in Row /\ row.owner # NoAccount
    /\ \A n \in pass.seen : n \in Name
    /\ outcome \in Outcomes
    /\ moves \in 0..MaxMoves /\ edits \in 0..MaxEdits /\ faults \in 0..MaxFaults

NoPass == [at |-> "idle", todo |-> <<>>, page |-> 1, seen |-> {}, raw |-> 0, kept |-> {},
           listed |-> 0, named |-> FALSE, failed |-> FALSE]

Blank == [state |-> "absent", only |-> {}, skip |-> {}, forks |-> FALSE, count |-> 0]
Gone  == [Blank EXCEPT !.state = "removed"]

Init ==
    /\ host \in [provider : Providers, order : {SetToSeq(Repo)}, renamed : {{}}, token : {TRUE}]
    /\ account \in [Account -> {Blank} \cup {[Blank EXCEPT !.state = "enabled", !.only = only] :
                                               only \in NameLists}]
    /\ corpus = {} /\ pass = NoPass /\ outcome = "none"
    /\ paste = <<>>
    /\ moves = 0 /\ edits = 0 /\ faults = 0

-----------------------------------------------------------------------------
(* The host. *)

HostMoves ==
    /\ moves < MaxMoves
    /\ moves' = moves + 1
    /\ UNCHANGED <<account, corpus, pass, outcome, paste, edits, faults>>

\* A push, or a repository's creation, puts it first on GitHub, whose listing is asked for
\* sorted by push.  The others' orders do not move with pushes; a new repository comes last.
Push(r) ==
    /\ HostMoves
    /\ IF host.provider = "github" THEN host.order = <<>> \/ Head(host.order) # r
       ELSE r \notin Range(host.order)
    /\ host' = [host EXCEPT !.order = IF host.provider = "github" THEN <<r>> \o Remove(@, r)
                                      ELSE Append(@, r)]

Delete(r) ==
    /\ HostMoves
    /\ r \in Range(host.order)
    /\ host' = [host EXCEPT !.order = Remove(@, r)]

Rename(r) ==
    /\ HostMoves
    /\ host.provider \in Renames /\ r \in Range(host.order) \ host.renamed
    /\ host' = [host EXCEPT !.renamed = @ \cup {r}]

\* The token expires, or is replaced.
ChangeToken ==
    /\ HostMoves
    /\ host' = [host EXCEPT !.token = ~@]

\* What a listing of this account shows at this moment, and a repository's name in it.
Visible(a) == SelectSeq(host.order, LAMBDA r : r \in Lists[a] /\ (host.token \/ r \notin Private))
NameOf(r)  == [repo |-> r, renamed |-> r \in host.renamed]

-----------------------------------------------------------------------------
(* The dashboard: ingest/accounts.py. *)

Edits ==
    /\ edits < MaxEdits
    /\ edits' = edits + 1
    /\ UNCHANGED <<host, pass, outcome, moves, faults>>

Present(a) == account[a].state \in {"enabled", "disabled"}

\* The enabled accounts in the order of their logins.
EnabledLogins == SelectSeq(Logins, LAMBDA a : account[a].state = "enabled")

\* add_account: the unique index on login and host refuses a second row.
AddAccount(a, only) ==
    /\ Edits
    /\ account[a].state = "absent"
    /\ account' = [account EXCEPT ![a] = [Blank EXCEPT !.state = "enabled", !.only = only]]
    /\ UNCHANGED <<corpus, paste>>

\* update_account: enabled and the filters.  The allowlist is add_from_url's below.
UpdateAccount(a, state, skip, forks) ==
    /\ Edits
    /\ Present(a)
    /\ account' = [account EXCEPT ![a].state = state, ![a].skip = skip, ![a].forks = forks]
    /\ account' # account
    /\ UNCHANGED <<corpus, paste>>

\* remove_account: "Its repositories and their history are kept"; the foreign key is set null.
RemoveAccount(a) ==
    /\ Edits
    /\ Present(a)
    /\ account' = [account EXCEPT ![a] = Gone]
    /\ corpus' = {IF row.owner = a THEN [name |-> row.name, owner |-> NoAccount] ELSE row :
                   row \in corpus}
    /\ UNCHANGED paste

\* add_from_url reads the source in one transaction and writes the merged list in another;
\* the URL of the whole owner (NoRepo) clears the list.  A whole owner is never narrowed.
ReadAllowlist(p, a, r) ==
    /\ Edits
    /\ p \notin DOMAIN paste
    /\ Present(a) /\ account[a].only # {} /\ r \in Lists[a] \cup {NoRepo}
    /\ paste' = (p :> [account |-> a, read |-> account[a].only, repo |-> r]) @@ paste
    /\ UNCHANGED <<account, corpus>>

WriteAllowlist(p) ==
    /\ p \in DOMAIN paste
    /\ LET a == paste[p].account
           r == paste[p].repo
       IN  account' = IF Present(a)
                      THEN [account EXCEPT ![a].only = IF r = NoRepo THEN {} ELSE paste[p].read \cup {r}]
                      ELSE account
    /\ paste' = Restrict(paste, DOMAIN paste \ {p})
    /\ UNCHANGED <<host, corpus, pass, outcome, moves, edits, faults>>

-----------------------------------------------------------------------------
(* The pass. *)

Passes == UNCHANGED <<host, corpus, paste, moves, edits>>

Ends(how) == pass' = NoPass /\ outcome' = how

\* config_for: an account's own filters.
SettingsOf(a) == [account |-> a, only |-> account[a].only, skip |-> account[a].skip,
                  forks |-> account[a].forks]

\* discover: the enabled accounts, with their settings as they are now, in login order.
StartPass ==
    /\ pass.at = "idle"
    /\ \E a \in Account : account[a].state = "enabled"
    /\ pass' = [NoPass EXCEPT !.at = "list",
                              !.todo = [i \in DOMAIN EnabledLogins |-> SettingsOf(EnabledLogins[i])]]
    /\ UNCHANGED <<account, outcome, faults>>
    /\ Passes

\* "no accounts are configured": there is nothing to list.
NothingToList ==
    /\ pass.at = "idle"
    /\ \A a \in Account : account[a].state # "enabled"
    /\ Ends("failed")
    /\ UNCHANGED <<account, faults>>
    /\ Passes

\* The account being listed, what its host shows, and whether there is another page: the
\* host says so, and a full page of GitLab's is always followed by another request.
Source  == Head(pass.todo)
Shown   == Visible(Source.account)
More    == \/ Len(Shown) > pass.page * Page
           \/ host.provider = "gitlab" /\ Len(Shown) = pass.page * Page
Listing == pass.at = "list" /\ pass.todo # <<>>

\* An allowlist shorter than the pages still to read is fetched name by name.
FewNames ==
    /\ Source.only # {}
    /\ pass.page = 1 /\ More
    /\ (Len(Shown) - 1) \div Page > Cardinality(Source.only)

\* A request fails for good: a rate limit, which discovery does not wait out, or an error
\* that outlasts the retries.
RequestFails == faults < MaxFaults /\ faults' = faults + 1

\* Mutant: the listing ends at its first full page.
ListOnePage ==
    /\ Listing /\ Source.account \in Enumerable /\ ~FewNames
    /\ LET rows == SubSeq(Shown, (pass.page - 1) * Page + 1, Min({pass.page * Page, Len(Shown)}))
       IN  pass' = [pass EXCEPT !.seen = @ \cup {NameOf(r) : r \in Range(rows)},
                                !.raw  = @ + Len(rows),
                                !.at   = "select"]
    /\ UNCHANGED <<account, outcome, faults>>
    /\ Passes

\* list_page: one page of the listing as it is now.
ListPage ==
    /\ Listing /\ Source.account \in Enumerable /\ ~FewNames
    /\ LET rows == SubSeq(Shown, (pass.page - 1) * Page + 1, Min({pass.page * Page, Len(Shown)}))
       IN  pass' = [pass EXCEPT !.seen    = @ \cup {NameOf(r) : r \in Range(rows)},
                                !.raw     = @ + Len(rows),
                                !.page    = IF More THEN @ + 1 ELSE @,
                                !.at      = IF More THEN "list" ELSE "select"]
    /\ UNCHANGED <<account, outcome, faults>>
    /\ Passes

\* A host without an API makes the record up from the name; the others look it up, and
\* follow a rename.
Fetched ==
    IF Source.account \in Enumerable THEN {NameOf(r) : r \in Source.only \cap Range(Shown)}
    ELSE {[repo |-> r, renamed |-> FALSE] : r \in Source.only}

\* _fetch_by_name: a name that cannot be fetched is left out.
FetchByName ==
    /\ Listing /\ (Source.account \notin Enumerable \/ FewNames)
    /\ \E lost \in SUBSET Fetched :
          /\ IF lost = {} THEN UNCHANGED faults ELSE RequestFails
          /\ pass' = [pass EXCEPT !.seen = Fetched \ lost,
                                  !.raw  = Cardinality(Source.only),
                                  !.at   = "select", !.named = TRUE]
    /\ UNCHANGED <<account, outcome>>
    /\ Passes

\* _discover_account failed: "one bad account must not stop the rest".
AccountFails ==
    /\ Listing
    /\ RequestFails
    /\ pass' = [pass EXCEPT !.todo = Tail(@), !.failed = TRUE,
                            !.page = 1, !.seen = {}, !.raw = 0, !.named = FALSE]
    /\ UNCHANGED <<account, outcome>>
    /\ Passes

Tracked == {row.name : row \in corpus}

\* is_fork, which a record of Bitbucket's never is.
IsFork(r) == host.provider # "bitbucket" /\ Parent[r] # NoRepo

\* Mutant: any fork is a copy.
IsCopyAnyFork(n, source, unplaced) == IsFork(n.repo) /\ ~source.forks

\* A fork is skipped when its parent is tracked or is in the same listing, itself no fork.
IsCopy(n, source, unplaced) ==
    /\ IsFork(n.repo) /\ n.repo \notin unplaced
    /\ ~source.forks
    /\ NameOf(Parent[n.repo]) \in Tracked \cup {m \in pass.seen : ~IsFork(m.repo)}

\* The allowlist, or select_repos.
Selected(source, unplaced) ==
    IF source.only = {} THEN {n \in pass.seen : n.repo \notin source.skip /\ ~IsCopy(n, source, unplaced)}
    ELSE IF pass.named THEN pass.seen
    ELSE {n \in pass.seen : n.repo \in source.only /\ ~n.renamed}

\* The rest of _discover_account, and record_discovery.  GitLab names the parent in the
\* listing, GitHub in a request of its own (fetch_parent): a fork whose parent could not be
\* fetched is unplaced.  Of two accounts that list one repository the later one owns it.
SelectRepos ==
    /\ pass.at = "select"
    /\ \E unplaced \in SUBSET {n.repo : n \in pass.seen} :
          /\ \A r \in unplaced : host.provider = "github" /\ IsFork(r)
          /\ IF unplaced = {} THEN UNCHANGED faults ELSE RequestFails
          /\ LET found == Selected(Source, unplaced)
             IN  /\ account' = IF Present(Source.account)
                               THEN [account EXCEPT ![Source.account].count = Cardinality(found)]
                               ELSE account
                 /\ pass' = [NoPass EXCEPT
                        !.at = "list", !.todo = Tail(pass.todo),
                        !.kept = {row \in pass.kept : row.name \notin found}
                                   \cup {[name |-> n, owner |-> Source.account] : n \in found},
                        !.listed = pass.listed + pass.raw,
                        !.failed = pass.failed]
    /\ UNCHANGED outcome
    /\ Passes

AllListed == pass.at = "list" /\ pass.todo = <<>>

NothingFound ==
    /\ AllListed
    /\ pass.kept = {} /\ pass.failed
    /\ Ends("failed")
    /\ UNCHANGED <<account, faults>>
    /\ Passes

\* DISCOVERY_SHRINK_FLOOR: fewer than four fifths of the known repositories were listed.
Shrunk == ~pass.failed /\ corpus # {} /\ 5 * pass.listed < 4 * Cardinality(corpus)

Refuse ==
    /\ AllListed /\ ~(pass.kept = {} /\ pass.failed)
    /\ Shrunk
    /\ Ends("refused")
    /\ UNCHANGED <<account, faults>>
    /\ Passes

Accept ==
    /\ AllListed /\ ~(pass.kept = {} /\ pass.failed)
    /\ ~Shrunk
    /\ pass' = [pass EXCEPT !.at = "store"]
    /\ UNCHANGED <<account, outcome, faults>>
    /\ Passes

\* What the upsert of the kept records makes of the repo table, keyed by full name.
Upserted == {row \in corpus : \A k \in pass.kept : k.name # row.name} \cup pass.kept

\* github_id, which GitHub alone gives, is unique, and account_id has to name an account that still exists.
Conflicts ==
    \/ host.provider = "github" /\ \E x, y \in Upserted : x.name.repo = y.name.repo /\ x.name # y.name
    \/ \E row \in pass.kept : ~Present(row.owner)

Store ==
    /\ pass.at = "store" /\ ~Conflicts
    /\ corpus' = Upserted
    /\ pass' = [pass EXCEPT !.at = "recount"]
    /\ UNCHANGED <<host, account, outcome, paste, moves, edits, faults>>

\* One row the database refuses takes the whole transaction, and the pass, with it.
StoreConflicts ==
    /\ pass.at = "store" /\ Conflicts
    /\ Ends("conflict")
    /\ UNCHANGED <<account, faults>>
    /\ Passes

\* The repositories of an account that are there and enabled: is_enabled is true from the
\* insert on, and nothing in the program ever writes it again.
Live(a) == Cardinality({row \in corpus : row.owner = a})

\* Mutant: the counts discovery stamped account by account are left as they are.
NoRecount ==
    /\ pass.at = "recount"
    /\ Ends("done")
    /\ UNCHANGED <<account, faults>>
    /\ Passes

\* refresh_repo_counts
Recount ==
    /\ pass.at = "recount"
    /\ account' = [a \in Account |->
                      IF Present(a) THEN [account[a] EXCEPT !.count = Live(a)] ELSE account[a]]
    /\ Ends("done")
    /\ UNCHANGED faults
    /\ Passes

\* The process dies, or a database call raises.
Crash ==
    /\ faults < MaxFaults
    /\ pass.at # "idle"
    /\ faults' = faults + 1
    /\ Ends("failed")
    /\ UNCHANGED account
    /\ Passes

-----------------------------------------------------------------------------
HostStep == ChangeToken \/ \E r \in Repo : Push(r) \/ Delete(r) \/ Rename(r)

DashboardStep ==
    \/ \E a \in Account : RemoveAccount(a)
    \/ \E a \in Account, only \in NameLists : AddAccount(a, only)
    \/ \E a \in Account, state \in {"enabled", "disabled"}, skip \in NameLists, forks \in BOOLEAN :
          UpdateAccount(a, state, skip, forks)
    \/ \E p \in Pasting, a \in Account, r \in Repo \cup {NoRepo} : ReadAllowlist(p, a, r)

PassStep ==
    \/ StartPass \/ NothingToList \/ ListPage \/ FetchByName \/ SelectRepos \/ NothingFound
    \/ Refuse \/ Accept \/ Store \/ StoreConflicts \/ Recount

Next ==
    \/ HostStep \/ DashboardStep \/ PassStep
    \/ \E p \in Pasting : WriteAllowlist(p)
    \/ AccountFails \/ Crash

Spec == Init /\ [][Next]_vars

\* The scheduler discovers again and again, a pass that started runs on, and so does a request.
FairSpec ==
    /\ Spec
    /\ WF_vars(PassStep)
    /\ \A p \in Pasting : WF_vars(WriteAllowlist(p))
-----------------------------------------------------------------------------
(* Properties. *)

\* "What an account takes": what the settings of the enabled accounts ask for, of what the
\* host shows.  Only a fork whose parent is tracked, or shown and no fork, may be left out.
Wanted(a, r) ==
    /\ account[a].state = "enabled"
    /\ IF account[a].only # {} THEN r \in account[a].only \ host.renamed
       ELSE /\ a \in Enumerable
            /\ r \notin account[a].skip
            /\ \/ ~IsFork(r) \/ account[a].forks
               \/ NameOf(Parent[r]) \notin Tracked \cup
                       {NameOf(x) : x \in {y \in Range(Visible(a)) : ~IsFork(y)}}

\* All that this source asks for is in the corpus.
TracksAll(a) == \A r \in Range(Visible(a)) : Wanted(a, r) => NameOf(r) \in Tracked

\* Discovery converges.  Once the host, the settings and the failures come to rest, every
\* repository an enabled account asks for is in the corpus, however pushes reordered the
\* listings while they were paged through, whichever account failed before, and wherever a
\* pass was cut off; unless the shrink guard goes on refusing.
EventuallyTracked ==
    \/ <>[](\A a \in Account : TracksAll(a))
    \/ []<>(outcome = "refused")

\* "Set every source's count from the repositories that actually exist": after a pass that
\* ended well the counts are true, although the pass stamped each account before anything
\* was stored and accounts may list the same repository or disappear meanwhile.
CountsAreTrue ==
    pass.at = "idle" /\ outcome = "done" =>
        \A a \in Account : account[a].count = Live(a)

\* "One bad account must not stop the rest" (pipeline.py:360): whatever happens to the
\* repositories of one account, what an account asks for that shows no renamed repository
\* is tracked in the end.
OthersAreTracked ==
    \/ <>[](\A a \in Account : Lists[a] \cap host.renamed = {} => TracksAll(a))
    \/ []<>(outcome = "refused")

\* "That is the shape of an unauthenticated or partial listing, not repositories
\* disappearing" (pipeline.py:380): no pass is refused while nothing has happened at the host.
RefusedIsPartial == [][Refuse => moves > 0]_vars

\* "Already tracking the whole owner; naming a subset would narrow it": adding a pasted
\* repository takes nothing away that the source tracked.
AddingKeepsNames ==
    [][\A p \in Pasting : WriteAllowlist(p) =>
          LET a == paste[p].account
          IN  Present(a) => /\ account[a].only = {} => account'[a].only = {}
                            /\ account'[a].only # {} => account[a].only \subseteq account'[a].only]_vars
=============================================================================
