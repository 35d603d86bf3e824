-------------------------------- MODULE Access --------------------------------
(***************************************************************************)
(* Who may administer a deployment (auth.py and the user routes of          *)
(* api/routes): administrators change, remove and create users in requests  *)
(* that run beside each other, each in several transactions, and the API    *)
(* makes sure of the administrator its environment names when it starts.    *)
(*                                                                          *)
(* Abstractions: a user is an address.  Passwords, sessions and tokens are  *)
(* left out: a request comes from some user.  The environment names an      *)
(* administrator; without one there are no users and nothing to change.     *)
(***************************************************************************)
EXTENDS FiniteSets

CONSTANTS
    User,           \* addresses that may have an account
    EnvAdmin,       \* the one ADMIN_EMAIL names
    Nobody,         \* who calls while the door is open
    OpenDoor,       \* may the dashboard be switched to open?
    Call            \* requests

ASSUME AccessAssumption ==
    /\ EnvAdmin \in User
    /\ Nobody \notin User
    /\ OpenDoor \in BOOLEAN

VARIABLES
    user,       \* app_user: address -> is the row there, is it active, its role
    request,    \* the requests: where each is, what it asks, who asks, about whom
    overtaken,  \* running requests since whose checks another one has written
    raced       \* was a row written on a check that had been overtaken, since the last start?

accessVars == <<user, request, overtaken, raced>>

Account == [state : {"absent", "active", "inactive"}, role : {"admin", "member"}]
Creates == {"create", "createAdmin"}     \* create_user, with the role of the body
Kinds   == {"demote", "promote", "deactivate", "activate", "delete"} \cup Creates
Request == [at : {"new", "authorised", "found", "write", "answered", "over", "lost"},
            kind : Kinds, me : User \cup {Nobody}, target : User]

AccessTypeOK ==
    /\ user \in [User -> Account]
    /\ request \in [Call -> Request]
    /\ overtaken \subseteq Call
    /\ raced \in BOOLEAN

Admins == {u \in User : user[u].state = "active" /\ user[u].role = "admin"}

\* A request that has not arrived yet, or is done.
Quiet(place) == [at |-> place, kind |-> "create", me |-> EnvAdmin, target |-> EnvAdmin]

\* After a start, with the users that earlier requests left.
AccessInit ==
    /\ user \in [User -> (Account \ [state : {"absent"}, role : {"admin"}])]
    /\ user[EnvAdmin] = [state |-> "active", role |-> "admin"]
    /\ request = [q \in Call |-> Quiet("new")]
    /\ overtaken = {}
    /\ raced = FALSE

\* Where a request goes next; what it asked no longer matters once it is answered.
Goes(q, place) ==
    request' = [request EXCEPT ![q] = IF place = "answered" THEN Quiet(place) ELSE [@ EXCEPT !.at = place]]

Running == {q \in Call : request[q].at \in {"authorised", "found", "write"}}

\* caller and _require(admin=True), or _require_account: an open door admits anyone, but only
\* to what needs no account to attribute it to.
MayAsk(me, kind) ==
    \/ me \in Admins
    \/ OpenDoor /\ me = Nobody /\ kind \notin {"delete"} \cup Creates

Arrive(q, kind, me, target) ==
    /\ request[q].at = "new"
    /\ request' = [request EXCEPT ![q] =
            IF MayAsk(me, kind) THEN [at |-> "authorised", kind |-> kind, me |-> me, target |-> target]
            ELSE Quiet("answered")]
    /\ UNCHANGED <<user, overtaken, raced>>

Target(q) == user[request[q].target]

\* get_user, or by_email: someone to change, and nobody by that address to create; nobody
\* removes their own account.
Find(q) ==
    /\ request[q].at = "authorised"
    /\ Goes(q, IF \/ request[q].kind = "create" /\ Target(q).state # "absent"
                  \/ request[q].kind # "create" /\ Target(q).state = "absent"
                  \/ request[q].kind = "delete" /\ request[q].target = request[q].me
               THEN "answered"
               ELSE IF request[q].kind \in {"demote", "deactivate"} THEN "found" ELSE "write")
    /\ UNCHANGED <<user, overtaken, raced>>

\* Mutant: the count includes the user who is about to lose the role.
CountEveryAdmin(q) ==
    /\ request[q].at = "found"
    /\ Goes(q, IF Admins = {} THEN "answered" ELSE "write")
    /\ UNCHANGED <<user, overtaken, raced>>

\* admin_count(exclude=user_id): "this is the only administrator".
CountAdmins(q) ==
    /\ request[q].at = "found"
    /\ Goes(q, IF Admins \ {request[q].target} = {} THEN "answered" ELSE "write")
    /\ UNCHANGED <<user, overtaken, raced>>

\* update_user changes a row that is still there; delete_user; create_user's insert fails on
\* the unique index when someone else created the address meanwhile.
Changed(account, kind) ==
    IF kind \in Creates
    THEN IF account.state # "absent" THEN account
         ELSE [state |-> "active", role |-> IF kind = "createAdmin" THEN "admin" ELSE "member"]
    ELSE IF account.state = "absent" THEN account
    ELSE CASE kind = "demote"     -> [account EXCEPT !.role = "member"]
           [] kind = "promote"    -> [account EXCEPT !.role = "admin"]
           [] kind = "deactivate" -> [account EXCEPT !.state = "inactive"]
           [] kind = "activate"   -> [account EXCEPT !.state = "active"]
           [] kind = "delete"     -> [state |-> "absent", role |-> "member"]

Write(q) ==
    /\ request[q].at = "write"
    /\ user' = [user EXCEPT ![request[q].target] = Changed(@, request[q].kind)]
    /\ Goes(q, "answered")
    /\ raced' = (raced \/ q \in overtaken)
    /\ overtaken' = (overtaken \cup Running) \ {q}

\* The requests that were running end with the process.
Abandon ==
    /\ request' = [q \in Call |-> IF request[q].at \in {"new", "over"} THEN request[q]
                                  ELSE Quiet("lost")]
    /\ overtaken' = {}
    /\ UNCHANGED <<user, raced>>

\* ensure_admin: the account is created, or made an active administrator again.
EnsureAdmin ==
    /\ user' = [user EXCEPT ![EnvAdmin] = [state |-> "active", role |-> "admin"]]
    /\ raced' = FALSE
    /\ UNCHANGED <<request, overtaken>>

AccessStep ==
    \/ \E q \in Call, kind \in Kinds, me \in User \cup {Nobody}, target \in User :
          Arrive(q, kind, me, target)
    \/ \E q \in Call : Find(q) \/ CountAdmins(q) \/ Write(q)

-----------------------------------------------------------------------------
(* Properties. *)

\* "Demoting or deactivating the last administrator is refused, since the way back is
\* otherwise the database": there is always an active administrator, unless since the last
\* start two administrators changed users at the same moment, so that one of them wrote on a
\* check the other had overtaken.  Removing others needs no count, because whoever removes is
\* an administrator who stays; and every start restores the one the environment names.
AdminRemains == Admins # {} \/ raced
=============================================================================
