--------------------------- MODULE ApiProcessProofs ---------------------------
(***************************************************************************)
(* What holds of the API process for every set of users, any number of      *)
(* requests in flight, every length of the queue and any failures: there is *)
(* always an active administrator unless a change was written on an         *)
(* overtaken check, no call is stored twice, and what cannot be found was   *)
(* counted as dropped.                                                      *)
(*                                                                          *)
(* AdminRemains is not inductive: a request that is about to take a role    *)
(* away carries the evidence that someone else keeps it, and a request that *)
(* is about to remove a user carries the evidence that its caller stays     *)
(* (Assured).  The evidence holds as long as nobody else has written, and   *)
(* a start forgets `raced` only because no request survives the process     *)
(* (Abandoned).  The invariant of the call log is further down (LogInv).    *)
(***************************************************************************)
EXTENDS ApiProcess, SequenceTheorems, FiniteSetTheorems, TLAPS

\* What the invariant needs of the types.
Typed ==
    /\ user \in [User -> Account]
    /\ request \in [Call -> Request]

Assured == \A q \in Call : q \notin overtaken =>
    /\ request[q].at \in {"authorised", "write"} /\ request[q].kind = "delete" => request[q].me \in Admins
    /\ request[q].at = "write" /\ request[q].kind = "delete" => request[q].me # request[q].target
    /\ request[q].at = "write" /\ request[q].kind \in {"demote", "deactivate"}
          => Admins \ {request[q].target} # {}
    /\ request[q].at = "found" => request[q].kind \in {"demote", "deactivate"}

Abandoned == ~up \/ exiting => Running = {}

AdminInv == Typed /\ Assured /\ Abandoned /\ AdminRemains

LEMMA AdminInit == Init => AdminInv
<1> SUFFICES ASSUME Init PROVE AdminInv
    OBVIOUS
<1> USE AccessAssumption DEF AccessAssumption
<1>1. /\ user \in [User -> Account] /\ user[EnvAdmin] = [state |-> "active", role |-> "admin"]
      /\ request = [q \in Call |-> Quiet("new")]
    BY DEF Init, AccessInit
<1>2. Quiet("new") \in Request /\ Quiet("new").at = "new"
    BY DEF Quiet, Request, Kinds, Creates
<1>3. Typed
    BY <1>1, <1>2 DEF Typed
<1>4. Assured /\ Abandoned
    BY <1>1, <1>2 DEF Assured, Abandoned, Running
<1>5. AdminRemains
    BY <1>1 DEF AdminRemains, Admins
<1> QED BY <1>3, <1>4, <1>5 DEF AdminInv

\* One request moves and no user changes.
LEMMA RequestMoves ==
    ASSUME AdminInv, NEW q \in Call, NEW to \in Request,
           request' = [request EXCEPT ![q] = to],
           UNCHANGED <<user, overtaken, raced, up, exiting>>,
           to.at \in {"authorised", "found", "write"} => up /\ ~exiting,
           q \notin overtaken =>
               /\ to.at \in {"authorised", "write"} /\ to.kind = "delete" => to.me \in Admins
               /\ to.at = "write" /\ to.kind = "delete" => to.me # to.target
               /\ to.at = "write" /\ to.kind \in {"demote", "deactivate"} => Admins \ {to.target} # {}
               /\ to.at = "found" => to.kind \in {"demote", "deactivate"}
    PROVE  AdminInv'
<1> USE DEF AdminInv
<1>1. request'[q] = to /\ \A p \in Call : p # q => request'[p] = request[p]
    BY DEF Typed
<1>2. Typed'
    BY DEF Typed
<1>3. Admins' = Admins
    BY DEF Admins
<1>4. Assured'
  <2> SUFFICES ASSUME NEW p \in Call, p \notin overtaken
               PROVE  /\ request'[p].at \in {"authorised", "write"} /\ request'[p].kind = "delete"
                           => request'[p].me \in Admins
                      /\ request'[p].at = "write" /\ request'[p].kind = "delete"
                           => request'[p].me # request'[p].target
                      /\ request'[p].at = "write" /\ request'[p].kind \in {"demote", "deactivate"}
                           => Admins \ {request'[p].target} # {}
                      /\ request'[p].at = "found" => request'[p].kind \in {"demote", "deactivate"}
      BY <1>3 DEF Assured
  <2>1. CASE p = q
      BY <2>1, <1>1
  <2>2. CASE p # q
      BY <2>2, <1>1 DEF Assured
  <2> QED BY <2>1, <2>2
<1>5. Abandoned'
    BY <1>1 DEF Abandoned, Running
<1>6. AdminRemains'
    BY <1>3 DEF AdminRemains
<1> QED BY <1>2, <1>4, <1>5, <1>6

LEMMA QuietIsRequest ==
    ASSUME NEW place \in {"new", "answered", "over", "lost"}
    PROVE  Quiet(place) \in Request /\ Quiet(place).at = place
BY AccessAssumption DEF AccessAssumption, Quiet, Request, Kinds, Creates

\* The request goes to another place, as it is or forgotten.
LEMMA GoingStaysTyped ==
    ASSUME Typed, NEW q \in Call, NEW place \in {"authorised", "found", "write"}
    PROVE  LET to == [request[q] EXCEPT !.at = place]
           IN  /\ to \in Request /\ to.at = place /\ to.kind = request[q].kind
               /\ to.me = request[q].me /\ to.target = request[q].target
BY DEF Typed, Request

LEMMA ArriveKeeps ==
    ASSUME AdminInv, NEW q \in Call, NEW kind \in Kinds, NEW me \in User \cup {Nobody},
           NEW target \in User, Arrive(q, kind, me, target), Serving, UNCHANGED <<up, exiting>>
    PROVE  AdminInv'
<1> DEFINE to == IF MayAsk(me, kind)
                 THEN [at |-> "authorised", kind |-> kind, me |-> me, target |-> target]
                 ELSE Quiet("answered")
<1>1. /\ request' = [request EXCEPT ![q] = to]
      /\ UNCHANGED <<user, overtaken, raced>>
    BY DEF Arrive
<1>2. to \in Request
    BY QuietIsRequest DEF Request
<1>3. to.at \in {"authorised", "answered"}
    BY QuietIsRequest
<1>4. to.at = "authorised" /\ to.kind = "delete" => to.me \in Admins
    BY QuietIsRequest DEF MayAsk
<1>5. up /\ ~exiting
    BY DEF Serving
<1> HIDE DEF to
<1> QED BY <1>1, <1>2, <1>3, <1>4, <1>5, RequestMoves

LEMMA FindKeeps ==
    ASSUME AdminInv, NEW q \in Call, Find(q), Serving, UNCHANGED <<up, exiting>>
    PROVE  AdminInv'
<1> USE DEF AdminInv
<1>0. up /\ ~exiting
    BY DEF Serving
<1>1. UNCHANGED <<user, overtaken, raced>> /\ request[q].at = "authorised"
    BY DEF Find
<1>2. CASE Goes(q, "answered")
  <2>1. request' = [request EXCEPT ![q] = Quiet("answered")]
      BY <1>2 DEF Goes
  <2> QED BY <1>1, <2>1, QuietIsRequest, RequestMoves
<1>3. CASE Goes(q, "found") /\ request[q].kind \in {"demote", "deactivate"}
  <2>1. request' = [request EXCEPT ![q] = [@ EXCEPT !.at = "found"]]
      BY <1>3 DEF Goes
  <2> QED BY <1>0, <1>1, <1>3, <2>1, GoingStaysTyped, RequestMoves
<1>4. CASE /\ Goes(q, "write") /\ request[q].kind \notin {"demote", "deactivate"}
           /\ request[q].kind = "delete" => request[q].target # request[q].me
  <2>1. request' = [request EXCEPT ![q] = [@ EXCEPT !.at = "write"]]
      BY <1>4 DEF Goes
  <2>2. q \notin overtaken /\ request[q].kind = "delete" => request[q].me \in Admins
      BY <1>1 DEF Assured
  <2> QED BY <1>0, <1>1, <1>4, <2>1, <2>2, GoingStaysTyped, RequestMoves
<1> QED BY <1>2, <1>3, <1>4 DEF Find

LEMMA CountKeeps ==
    ASSUME AdminInv, NEW q \in Call, CountAdmins(q), Serving, UNCHANGED <<up, exiting>>
    PROVE  AdminInv'
<1> USE DEF AdminInv
<1>0. up /\ ~exiting
    BY DEF Serving
<1>1. UNCHANGED <<user, overtaken, raced>> /\ request[q].at = "found"
    BY DEF CountAdmins
<1>2. CASE Goes(q, "answered")
  <2>1. request' = [request EXCEPT ![q] = Quiet("answered")]
      BY <1>2 DEF Goes
  <2> QED BY <1>1, <2>1, QuietIsRequest, RequestMoves
<1>3. CASE Goes(q, "write") /\ Admins \ {request[q].target} # {}
  <2>1. request' = [request EXCEPT ![q] = [@ EXCEPT !.at = "write"]]
      BY <1>3 DEF Goes
  <2>2. q \notin overtaken => request[q].kind \in {"demote", "deactivate"}
      BY <1>1 DEF Assured
  <2> QED BY <1>0, <1>1, <1>3, <2>1, <2>2, GoingStaysTyped, RequestMoves
<1> QED BY <1>2, <1>3 DEF CountAdmins

\* Changing one user keeps the administrators apart from that one.
LEMMA OthersStay ==
    ASSUME Typed, NEW t \in User, NEW x, user' = [user EXCEPT ![t] = x]
    PROVE  Admins \ {t} \subseteq Admins'
BY DEF Typed, Admins

LEMMA WriteKeeps ==
    ASSUME AdminInv, NEW q \in Call, Write(q), Serving, UNCHANGED <<up, exiting>>
    PROVE  AdminInv'
<1> USE DEF AdminInv
<1> DEFINE t == request[q].target
           kind == request[q].kind
<1>0. request[q] \in Request /\ t \in User /\ kind \in Kinds
    BY DEF Typed, Request
<1>1. /\ request[q].at = "write"
      /\ user' = [user EXCEPT ![t] = Changed(user[t], kind)]
      /\ request' = [request EXCEPT ![q] = Quiet("answered")]
      /\ raced' = (raced \/ q \in overtaken)
      /\ overtaken' = (overtaken \cup Running) \ {q}
    BY DEF Write, Goes
<1>2. user[t] \in Account
    BY <1>0 DEF Typed
<1>3. Changed(user[t], kind) \in Account
    BY <1>0, <1>2 DEF Changed, Account, Kinds, Creates
<1>4. request'[q] = Quiet("answered") /\ \A p \in Call : p # q => request'[p] = request[p]
    BY <1>1 DEF Typed
<1>5. Typed'
    BY <1>0, <1>1, <1>3, QuietIsRequest DEF Typed
<1>6. Assured'
  <2> SUFFICES ASSUME NEW p \in Call, p \notin overtaken'
               PROVE  request'[p].at \notin {"authorised", "found", "write"}
      BY DEF Assured
  <2>1. CASE p = q
      BY <2>1, <1>4, QuietIsRequest
  <2>2. CASE p # q
      BY <2>2, <1>1, <1>4 DEF Running
  <2> QED BY <2>1, <2>2
<1>7. Abandoned'
    BY DEF Abandoned, Serving
<1>8. AdminRemains'
  <2>1. CASE q \in overtaken \/ raced
      BY <2>1, <1>1 DEF AdminRemains
  <2>2. CASE q \notin overtaken /\ Admins \ {t} # {}
    <3>1. Admins \ {t} \subseteq Admins'
        BY <1>0, <1>1, OthersStay
    <3> QED BY <2>2, <3>1 DEF AdminRemains
  <2>3. CASE q \notin overtaken /\ kind = "delete"
    <3>1. request[q].me \in Admins \ {t}
        BY <2>3, <1>1 DEF Assured
    <3> QED BY <2>2, <2>3, <3>1
  <2>4. CASE kind \in {"promote", "activate"} \cup Creates /\ Admins # {}
    <3>1. PICK a \in Admins : TRUE
        BY <2>4
    <3>2. a \in User /\ user[a].state = "active" /\ user[a].role = "admin"
        BY <3>1 DEF Admins
    <3>3. CASE a # t
        BY <3>2, <3>3, <1>0, <1>1 DEF Typed, AdminRemains, Admins
    <3>4. CASE a = t
      <4>1. Changed(user[t], kind).state = "active" /\ Changed(user[t], kind).role = "admin"
          BY <2>4, <3>2, <3>4, <1>2 DEF Changed, Account, Creates
      <4>2. user'[t] = Changed(user[t], kind)
          BY <1>0, <1>1 DEF Typed
      <4> QED BY <4>1, <4>2, <1>0 DEF AdminRemains, Admins
    <3> QED BY <3>3, <3>4
  <2>5. q \notin overtaken /\ kind \in {"demote", "deactivate"} => Admins \ {t} # {}
      BY <1>1 DEF Assured
  <2> QED BY <2>1, <2>2, <2>3, <2>4, <2>5, <1>0 DEF Kinds, Creates, AdminRemains
<1> QED BY <1>5, <1>6, <1>7, <1>8

\* A step that concerns only the log.
LEMMA LogKeeps ==
    ASSUME AdminInv, UNCHANGED accessVars, ~up' \/ exiting' => ~up \/ exiting \/ Running = {}
    PROVE  AdminInv'
BY DEF AdminInv, accessVars, Typed, Assured, Abandoned, AdminRemains, Admins, Running

LEMMA AdminStep == AdminInv /\ [Next]_vars => AdminInv'
<1> SUFFICES ASSUME AdminInv, [Next]_vars PROVE AdminInv'
    OBVIOUS
<1>1. CASE Serve
  <2>1. Serving /\ AccessStep /\ UNCHANGED <<up, exiting>>
      BY <1>1 DEF Serve, logVars
  <2> QED BY <2>1, ArriveKeeps, FindKeeps, CountKeeps, WriteKeeps DEF AccessStep
<1>2. CASE \E q \in Call : Answer(q)
  <2>1. PICK q \in Call : Answer(q)
      BY <1>2
  <2>2. /\ request' = [request EXCEPT ![q] = Quiet("over")]
        /\ UNCHANGED <<user, overtaken, raced, up, exiting>>
      BY <2>1 DEF Answer, Record
  <2> QED BY <2>2, QuietIsRequest, RequestMoves
<1>3. CASE (\E r \in Read : AnswerRead(r)) \/ Flush \/ FlushFails \/ Retain
  <2>1. UNCHANGED accessVars /\ UNCHANGED <<up, exiting>>
      BY <1>3 DEF AnswerRead, Record, Flush, FlushFails, Retain, Elsewhere, Take, Insert, Wake,
                  DrainTake, DrainInsert, InsertFails, GrowOld, PruneFind, PruneDelete, Cut,
                  PruneFails
  <2> QED BY <2>1, LogKeeps
<1>4. CASE Stop
  <2>1. UNCHANGED accessVars /\ Running = {}
      BY <1>4 DEF Stop, Elsewhere
  <2> QED BY <2>1, LogKeeps
<1>5. CASE Stopped
  <2>1. UNCHANGED accessVars /\ exiting' = FALSE
      BY <1>5 DEF Stopped, Drained, DrainFails, Vanish
  <2>2. exiting
      BY <1>5 DEF Stopped, Drained, DrainFails
  <2> QED BY <2>1, <2>2, LogKeeps
<1>6. CASE Kill
  <2>1. /\ request' = [q \in Call |-> IF request[q].at \in {"new", "over"} THEN request[q]
                                     ELSE Quiet("lost")]
        /\ UNCHANGED <<user, raced>>
      BY <1>6 DEF Kill, Abandon
  <2>2. \A q \in Call : /\ request'[q] \in Request
                        /\ request'[q].at \notin {"authorised", "found", "write"}
      BY <2>1, QuietIsRequest DEF AdminInv, Typed
  <2>3. Typed'
      BY <2>1, <2>2 DEF AdminInv, Typed
  <2>4. Assured' /\ Abandoned'
      BY <2>2 DEF Assured, Abandoned, Running
  <2>5. AdminRemains'
      BY <2>1 DEF AdminInv, AdminRemains, Admins
  <2> QED BY <2>3, <2>4, <2>5 DEF AdminInv
<1>7. CASE Start
  <2>1. /\ ~up
        /\ user' = [user EXCEPT ![EnvAdmin] = [state |-> "active", role |-> "admin"]]
        /\ UNCHANGED <<request, overtaken>>
      BY <1>7 DEF Start, EnsureAdmin
  <2>2. EnvAdmin \in User
      BY AccessAssumption DEF AccessAssumption
  <2>3. user'[EnvAdmin] = [state |-> "active", role |-> "admin"]
      BY <2>1, <2>2 DEF AdminInv, Typed
  <2>4. Typed'
      BY <2>1, <2>2 DEF AdminInv, Typed, Account
  <2>5. Running = {}
      BY <2>1 DEF AdminInv, Abandoned
  <2>6. Assured' /\ Abandoned'
      BY <2>1, <2>5 DEF Assured, Abandoned, Running
  <2>7. AdminRemains'
      BY <2>2, <2>3 DEF AdminRemains, Admins
  <2> QED BY <2>4, <2>6, <2>7 DEF AdminInv
<1>8. CASE UNCHANGED vars
  <2>1. UNCHANGED accessVars /\ UNCHANGED <<up, exiting>>
      BY <1>8 DEF vars, logVars
  <2> QED BY <2>1, LogKeeps
<1> QED BY <1>1, <1>2, <1>3, <1>4, <1>5, <1>6, <1>7, <1>8 DEF Next

\* "Demoting or deactivating the last administrator is refused": whatever requests are in
\* flight beside each other, however the process dies and starts, an active administrator
\* remains unless a write rested on a check that another write had overtaken.
THEOREM AdministratorRemains == Spec => []AdminRemains
BY AdminInit, AdminStep, PTL DEF Spec, AdminInv
-----------------------------------------------------------------------------
(***************************************************************************)
(* The call log.  A row is in one place at most: StoredOnce says so of the  *)
(* places one after the other, the invariant of each and of every two       *)
(* (Apart), and that nothing is anywhere that was not recorded: a call      *)
(* about to be recorded is therefore in none of them.                       *)
(***************************************************************************)

LEMMA AppendOnce ==
    ASSUME NEW S, NEW s \in Seq(S), NEW e \in S
    PROVE  /\ Append(s, e) \in Seq(S)
           /\ Range(Append(s, e)) = Range(s) \cup {e}
           /\ IsInjective(s) /\ e \notin Range(s) => IsInjective(Append(s, e))
<1> DEFINE t == Append(s, e)
<1>1. /\ t \in Seq(S) /\ Len(t) = Len(s) + 1
      /\ \A i \in 1..Len(s) : t[i] = s[i]
      /\ t[Len(s) + 1] = e
    BY AppendProperties
<1>2. Len(s) \in Nat /\ DOMAIN s = 1..Len(s) /\ DOMAIN t = 1..Len(t)
    BY <1>1, LenProperties
<1> HIDE DEF t
<1>3. 1..Len(t) = (1..Len(s)) \cup {Len(s) + 1}
    BY <1>1, <1>2
<1>4. Range(t) = Range(s) \cup {e}
    BY <1>1, <1>2, <1>3 DEF Range
<1>5. ASSUME IsInjective(s), e \notin Range(s), NEW a \in DOMAIN t, NEW b \in DOMAIN t, t[a] = t[b]
      PROVE  a = b
    BY <1>1, <1>2, <1>3, <1>5 DEF Range, IsInjective
<1> QED BY <1>1, <1>4, <1>5 DEF IsInjective, t

LEMMA ConcatOnce ==
    ASSUME NEW S, NEW s \in Seq(S), NEW t \in Seq(S)
    PROVE  /\ s \o t \in Seq(S)
           /\ Range(s \o t) = Range(s) \cup Range(t)
           /\ IsInjective(s \o t)
                <=> IsInjective(s) /\ IsInjective(t) /\ Range(s) \cap Range(t) = {}
<1> DEFINE u == s \o t
<1>1. /\ u \in Seq(S) /\ Len(u) = Len(s) + Len(t)
      /\ \A i \in 1..Len(s) + Len(t) : u[i] = IF i <= Len(s) THEN s[i] ELSE t[i - Len(s)]
    BY ConcatProperties
<1>2. Range(u) = Range(s) \cup Range(t)
    BY RangeConcatenation
<1>3. /\ Len(s) \in Nat /\ Len(t) \in Nat
      /\ DOMAIN s = 1..Len(s) /\ DOMAIN t = 1..Len(t) /\ DOMAIN u = 1..Len(s) + Len(t)
    BY <1>1, LenProperties
<1> HIDE DEF u
<1>4. \A i \in DOMAIN s : i \in DOMAIN u /\ u[i] = s[i]
    BY <1>1, <1>3
<1>5. \A i \in DOMAIN t : i + Len(s) \in DOMAIN u /\ u[i + Len(s)] = t[i]
    BY <1>1, <1>3
<1>6. ASSUME IsInjective(u)
      PROVE  IsInjective(s) /\ IsInjective(t) /\ Range(s) \cap Range(t) = {}
  <2>1. IsInjective(s)
      BY <1>4, <1>6 DEF IsInjective
  <2>2. ASSUME NEW a \in DOMAIN t, NEW b \in DOMAIN t, t[a] = t[b] PROVE a = b
    <3>1. a + Len(s) = b + Len(s)
        BY <1>5, <1>6, <2>2 DEF IsInjective
    <3> QED BY <3>1, <1>3
  <2>3. ASSUME NEW a \in DOMAIN s, NEW b \in DOMAIN t, s[a] = t[b] PROVE FALSE
    <3>1. a = b + Len(s)
        BY <1>4, <1>5, <1>6, <2>3 DEF IsInjective
    <3> QED BY <3>1, <1>3
  <2> QED BY <2>1, <2>2, <2>3 DEF IsInjective, Range
<1>7. ASSUME IsInjective(s), IsInjective(t), Range(s) \cap Range(t) = {},
             NEW a \in DOMAIN u, NEW b \in DOMAIN u, u[a] = u[b]
      PROVE  a = b
  <2>1. \A i \in DOMAIN u : \/ i \in DOMAIN s /\ u[i] = s[i]
                            \/ i - Len(s) \in DOMAIN t /\ u[i] = t[i - Len(s)]
      BY <1>1, <1>3
  <2>2. a \in DOMAIN s /\ b \in DOMAIN s => a = b
      BY <1>4, <1>7 DEF IsInjective
  <2>3. a - Len(s) \in DOMAIN t /\ u[a] = t[a - Len(s)] /\ b - Len(s) \in DOMAIN t /\ u[b] = t[b - Len(s)]
            => a - Len(s) = b - Len(s)
      BY <1>7 DEF IsInjective
  <2>4. ~\E i \in DOMAIN s, j \in DOMAIN t : s[i] = t[j]
      BY <1>7 DEF Range
  <2> QED BY <1>3, <1>7, <2>1, <2>2, <2>3, <2>4
<1> QED BY <1>1, <1>2, <1>6, <1>7 DEF IsInjective, u

\* The first n of a sequence and the others.
LEMMA CutInTwo ==
    ASSUME NEW S, NEW s \in Seq(S), NEW n \in 0..Len(s)
    PROVE  /\ SubSeq(s, 1, n) \in Seq(S) /\ SubSeq(s, n + 1, Len(s)) \in Seq(S)
           /\ Len(SubSeq(s, 1, n)) = n /\ Len(SubSeq(s, n + 1, Len(s))) = Len(s) - n
           /\ s = SubSeq(s, 1, n) \o SubSeq(s, n + 1, Len(s))
<1> DEFINE a == SubSeq(s, 1, n)
           b == SubSeq(s, n + 1, Len(s))
<1>1. Len(s) \in Nat /\ \A i \in 1..Len(s) : s[i] \in S
    BY LenProperties, ElementOfSeq
<1>2. /\ a \in Seq(S) /\ Len(a) = n
      /\ \A i \in 1..n : a[i] = s[i]
  <2>1. \A i \in 1..n : s[i] \in S
      BY <1>1
  <2>2. /\ a \in Seq(S) /\ Len(a) = IF 1 <= n THEN n - 1 + 1 ELSE 0
        /\ \A i \in 1..n - 1 + 1 : a[i] = s[1 + i - 1]
      BY <1>1, <2>1, SubSeqProperties
  <2> QED BY <1>1, <2>2
<1>3. /\ b \in Seq(S) /\ Len(b) = Len(s) - n
      /\ \A i \in 1..Len(s) - n : b[i] = s[n + i]
  <2>1. \A i \in n + 1..Len(s) : s[i] \in S
      BY <1>1
  <2>2. /\ b \in Seq(S) /\ Len(b) = IF n + 1 <= Len(s) THEN Len(s) - (n + 1) + 1 ELSE 0
        /\ \A i \in 1..Len(s) - (n + 1) + 1 : b[i] = s[(n + 1) + i - 1]
      BY <1>1, <2>1, SubSeqProperties
  <2> QED BY <1>1, <2>2
<1>4. s = SubSeq(s, 1, n) \o SubSeq(s, n + 1, Len(s))
  <2>1. 1 \in 1..Len(s) + 1 /\ n \in (1 - 1)..Len(s) /\ Len(s) \in n..Len(s)
      BY <1>1
  <2>2. SubSeq(s, 1, n) \o SubSeq(s, n + 1, Len(s)) = SubSeq(s, 1, Len(s))
      BY <2>1, ConcatAdjacentSubSeq
  <2> QED BY <2>2, SubSeqFull
<1> QED BY <1>2, <1>3, <1>4 DEF a, b

LEMMA LargerOfTwo ==
    ASSUME NEW m \in Int, NEW n \in Int
    PROVE  Max({m, n}) = IF m >= n THEN m ELSE n
<1> DEFINE most == IF m >= n THEN m ELSE n
<1>1. most \in {m, n} /\ \A y \in {m, n} : most >= y
    OBVIOUS
<1>2. \A x \in {m, n} : (\A y \in {m, n} : x >= y) => x = most
    OBVIOUS
<1> QED BY <1>1, <1>2 DEF Max

LEMMA SmallerOfTwo ==
    ASSUME NEW m \in Int, NEW n \in Int
    PROVE  Min({m, n}) = IF m <= n THEN m ELSE n
<1> DEFINE least == IF m <= n THEN m ELSE n
<1>1. least \in {m, n} /\ \A y \in {m, n} : least <= y
    OBVIOUS
<1>2. \A x \in {m, n} : (\A y \in {m, n} : x <= y) => x = least
    OBVIOUS
<1> QED BY <1>1, <1>2 DEF Min

\* A flush takes what is at the front of the queue and leaves the others.
LEMMA BatchAndRest ==
    ASSUME queue \in Seq(Entry)
    PROVE  /\ Batch \in Seq(Entry) /\ Rest \in Seq(Entry)
           /\ Len(Rest) <= Len(queue)
           /\ Range(queue) = Range(Batch) \cup Range(Rest)
           /\ IsInjective(queue)
                => IsInjective(Batch) /\ IsInjective(Rest) /\ Range(Batch) \cap Range(Rest) = {}
<1> DEFINE n == Min({BatchMax, Len(queue)})
<1>1. n \in 0..Len(queue)
    BY LogAssumption, LenProperties, SmallerOfTwo DEF LogAssumption
<1>2. Batch = SubSeq(queue, 1, n) /\ Rest = SubSeq(queue, n + 1, Len(queue))
    BY Zenon DEF Batch, Rest, n
<1> HIDE DEF n
<1>3. /\ Batch \in Seq(Entry) /\ Rest \in Seq(Entry)
      /\ Len(Rest) = Len(queue) - n
      /\ queue = Batch \o Rest
    BY <1>1, <1>2, CutInTwo, Zenon
<1>4. Len(Rest) <= Len(queue)
    BY <1>1, <1>3, LenProperties
<1>5. /\ Range(Batch \o Rest) = Range(Batch) \cup Range(Rest)
      /\ IsInjective(Batch \o Rest)
            <=> IsInjective(Batch) /\ IsInjective(Rest) /\ Range(Batch) \cap Range(Rest) = {}
    BY <1>3, ConcatOnce
<1> QED BY <1>3, <1>4, <1>5, Zenon

LEMMA FrontRows ==
    ASSUME NEW s \in Seq(Entry), NEW k \in 0..Len(s)
    PROVE  Range(SubSeq(s, 1, k)) = {s[i] : i \in 1..k}
<1> DEFINE front == SubSeq(s, 1, k)
<1>1. Len(s) \in Nat
    BY LenProperties
<1>2. \A i \in 1..k : s[i] \in Entry
    BY <1>1, ElementOfSeq
<1>3. /\ front \in Seq(Entry) /\ Len(front) = IF 1 <= k THEN k - 1 + 1 ELSE 0
      /\ \A i \in 1..k - 1 + 1 : front[i] = s[1 + i - 1]
    BY <1>1, <1>2, SubSeqProperties
<1>4. Range(front) = {front[i] : i \in 1..Len(front)}
    BY <1>3, RangeEquality
<1> HIDE DEF front
<1>5. Len(front) = k /\ \A i \in 1..k : front[i] = s[i]
    BY <1>1, <1>3
<1>6. Range(front) = {s[i] : i \in 1..k}
    BY <1>4, <1>5
<1> QED BY <1>6 DEF front

\* What a prune removes is the front of the table: the rows past the cutoff, or those before
\* the threshold, whichever are more.
LEMMA PruneCuts ==
    ASSUME LogTypeOK, PruneDelete
    PROVE  \E gone \in 0..Len(table) :
              /\ gone = pruning.aged \/ gone = pruning.seen - KeepRows
              /\ gone >= pruning.aged /\ gone >= pruning.seen - KeepRows
              /\ table' = SubSeq(table, gone + 1, Len(table))
              /\ pruned' = pruned \cup Range(SubSeq(table, 1, gone))
              /\ old' = IF old <= gone THEN 0 ELSE old - gone
<1> DEFINE doomed == {i \in DOMAIN table : i <= pruning.aged \/ i < Threshold}
           gone == IF pruning.aged >= pruning.seen - KeepRows THEN pruning.aged
                   ELSE pruning.seen - KeepRows
<1>0. table \in Seq(Entry) /\ old \in 0..Len(table) /\ pruning.seen \in 0..Len(table)
      /\ pruning.aged \in 0..old
    BY DEF LogTypeOK
<1>1. Len(table) \in Nat /\ DOMAIN table = 1..Len(table) /\ KeepRows \in Nat \ {0}
    BY <1>0, LogAssumption, LenProperties DEF LogAssumption
<1>2. /\ table' = SubSeq(table, Cardinality(doomed) + 1, Len(table))
      /\ pruned' = pruned \cup {table[i] : i \in doomed}
      /\ old' = Max({0, old - Cardinality(doomed)})
    BY DEF PruneDelete, Cut
<1>3. /\ gone \in 0..Len(table) /\ gone \in Int
      /\ gone = pruning.aged \/ gone = pruning.seen - KeepRows
      /\ gone >= pruning.aged /\ gone >= pruning.seen - KeepRows
    BY <1>0, <1>1
<1>4. doomed = 1..gone
    BY <1>0, <1>1 DEF Threshold
<1> HIDE DEF gone, doomed
<1>6. Cardinality(doomed) = gone
    BY <1>3, <1>4, FS_Interval
<1>7. {table[i] : i \in doomed} = Range(SubSeq(table, 1, gone))
    BY <1>0, <1>3, <1>4, FrontRows
<1>8. Max({0, old - gone}) = IF old <= gone THEN 0 ELSE old - gone
    BY <1>0, <1>3, LargerOfTwo
<1> QED BY <1>2, <1>3, <1>6, <1>7, <1>8

LEMMA RestLength ==
    ASSUME NEW s \in Seq(Entry), NEW k \in 0..Len(s)
    PROVE  Len(SubSeq(s, k + 1, Len(s))) = Len(s) - k
<1>1. Len(s) \in Nat
    BY LenProperties
<1>2. \A i \in k + 1..Len(s) : s[i] \in Entry
    BY <1>1, ElementOfSeq
<1> QED BY <1>1, <1>2, SubSeqProperties

\* No two places hold the same row, and none holds one twice.
Apart ==
    /\ IsInjective(queue) /\ IsInjective(batch) /\ IsInjective(drain) /\ IsInjective(table)
    /\ Range(queue) \cap Range(batch) = {}
    /\ Range(queue) \cap Range(drain) = {}
    /\ Range(queue) \cap Range(table) = {}
    /\ Range(queue) \cap pruned = {}
    /\ Range(batch) \cap Range(drain) = {}
    /\ Range(batch) \cap Range(table) = {}
    /\ Range(batch) \cap pruned = {}
    /\ Range(drain) \cap Range(table) = {}
    /\ Range(drain) \cap pruned = {}
    /\ Range(table) \cap pruned = {}

LEMMA ApartStoresOnce ==
    ASSUME LogTypeOK, Apart
    PROVE  StoredOnce
<1> DEFINE ahead == queue \o batch
           leaving == ahead \o drain
<1>1. queue \in Seq(Entry) /\ batch \in Seq(Entry) /\ drain \in Seq(Entry) /\ table \in Seq(Entry)
    BY DEF LogTypeOK
<1>2. /\ ahead \in Seq(Entry) /\ IsInjective(ahead)
      /\ Range(ahead) = Range(queue) \cup Range(batch)
  <2>1. IsInjective(queue) /\ IsInjective(batch) /\ Range(queue) \cap Range(batch) = {}
      BY DEF Apart
  <2> QED BY <1>1, <2>1, ConcatOnce
<1>3. Range(ahead) \cap Range(drain) = {}
    BY <1>2 DEF Apart
<1> HIDE DEF ahead
<1>4. /\ leaving \in Seq(Entry) /\ IsInjective(leaving)
      /\ Range(leaving) = Range(ahead) \cup Range(drain)
    BY <1>1, <1>2, <1>3, ConcatOnce, Zenon DEF Apart
<1>5. Range(leaving) \cap Range(table) = {}
    BY <1>2, <1>4 DEF Apart
<1> HIDE DEF leaving
<1>6. IsInjective(leaving \o table) /\ Range(leaving \o table) = Range(leaving) \cup Range(table)
    BY <1>1, <1>4, <1>5, ConcatOnce, Zenon DEF Apart
<1>7. (Range(leaving) \cup Range(table)) \cap pruned = {}
    BY <1>2, <1>4 DEF Apart
<1> QED BY <1>6, <1>7, Zenon DEF StoredOnce, ahead, leaving

\* While nothing was lost with an insert or the process, what cannot be found was dropped.
Counted == ~disturbed => IsFiniteSet(Recorded \ Kept) /\ Cardinality(Recorded \ Kept) = dropped

LogInv ==
    /\ LogTypeOK /\ reads \subseteq Read
    /\ Apart
    /\ Kept \subseteq Recorded
    /\ exiting => disturbed
    /\ worker # "inserting" => batch = <<>>
    /\ Counted

LEMMA LogInitially == Init => LogInv
<1> SUFFICES ASSUME Init PROVE LogInv
    OBVIOUS
<1> USE LogAssumption DEF LogAssumption
<1>1. /\ queue = <<>> /\ batch = <<>> /\ drain = <<>> /\ table = <<>> /\ pruned = {}
      /\ worker = "none" /\ exiting = FALSE /\ dropped = 0 /\ old = 0 /\ reads = {}
      /\ request = [q \in Call |-> Quiet("new")] /\ pruning = NoPrune
    BY DEF Init, AccessInit, LogInit
<1>2. Range(<<>>) = {} /\ IsInjective(<<>>)
    BY DEF Range, IsInjective
<1>3. Recorded = {}
    BY <1>1, QuietIsRequest DEF Recorded
<1>4. LogTypeOK
  <2>1. <<>> \in Seq(Entry) /\ Len(<<>>) = 0 /\ QueueMax \in Nat
      BY EmptySeq
  <2>2. queue \in Seq(Entry) /\ batch \in Seq(Entry) /\ drain \in Seq(Entry) /\ table \in Seq(Entry)
      BY <1>1, <2>1
  <2>3. /\ Len(queue) <= QueueMax /\ old \in 0..Len(table)
        /\ pruning \in [on : BOOLEAN, seen : 0..Len(table), aged : 0..old]
      BY <1>1, <2>1 DEF NoPrune
  <2> QED BY <1>1, <2>2, <2>3 DEF LogTypeOK
<1>5. Apart
    BY <1>1, <1>2 DEF Apart
<1>6. Kept = {}
    BY <1>1, <1>2 DEF Kept
<1>7. Counted
    BY <1>1, <1>3, FS_EmptySet DEF Counted
<1> QED BY <1>1, <1>3, <1>4, <1>5, <1>6, <1>7 DEF LogInv

\* A step that records nothing, and keeps every row where it can be found unless it is one of
\* those that `disturbed` remembers.
LEMMA NothingRecorded ==
    ASSUME LogInv, LogTypeOK', Apart', Recorded' = Recorded, UNCHANGED reads,
           Kept' \subseteq Kept, disturbed => disturbed', exiting' => disturbed',
           worker' # "inserting" => batch' = <<>>,
           ~disturbed' => Kept' = Kept /\ dropped' = dropped
    PROVE  LogInv'
BY DEF LogInv, Counted

\* A call is recorded once, when its reply is there: no place holds it yet.
LEMMA RecordKeeps ==
    ASSUME LogInv, NEW e \in Entry, e \notin Recorded, Record(e),
           Recorded' = Recorded \cup {e}, reads' \subseteq Read, UNCHANGED disturbed
    PROVE  LogInv'
<1> USE DEF LogInv
<1>0. e \notin Kept
    OBVIOUS
<1>1. /\ worker' = IF worker = "none" THEN "idle" ELSE worker
      /\ UNCHANGED <<batch, exiting, drain, table, old, pruned, pruning>>
    BY DEF Record
<1>2. CASE Len(queue) < QueueMax
  <2>1. queue' = Append(queue, e) /\ dropped' = dropped
      BY <1>2 DEF Record
  <2>2. queue \in Seq(Entry) /\ QueueMax \in Nat
      BY LogAssumption DEF LogTypeOK, LogAssumption
  <2>3. /\ queue' \in Seq(Entry) /\ Len(queue') = Len(queue) + 1
        /\ Range(queue') = Range(queue) \cup {e}
        /\ IsInjective(queue) /\ e \notin Range(queue) => IsInjective(queue')
      BY <2>1, <2>2, AppendOnce, AppendProperties
  <2>4. LogTypeOK'
    <3>1. Len(queue') <= QueueMax
        BY <1>2, <2>2, <2>3, LenProperties
    <3> QED BY <1>1, <2>1, <2>3, <3>1 DEF LogTypeOK
  <2>5. Apart'
      BY <1>0, <1>1, <2>3 DEF Apart, Kept
  <2>6. Kept' = Kept \cup {e}
      BY <1>1, <2>3 DEF Kept
  <2>7. Recorded' \ Kept' = Recorded \ Kept
      BY <2>6
  <2> QED BY <1>1, <2>1, <2>4, <2>5, <2>6, <2>7 DEF Counted
<1>3. CASE ~(Len(queue) < QueueMax)
  <2>1. queue' = queue /\ dropped' = dropped + 1
      BY <1>3 DEF Record
  <2>2. LogTypeOK'
      BY <1>1, <2>1 DEF LogTypeOK
  <2>3. Apart' /\ Kept' = Kept
      BY <1>1, <2>1 DEF Apart, Kept
  <2>4. Recorded' \ Kept' = (Recorded \ Kept) \cup {e} /\ e \notin Recorded \ Kept
      BY <1>0, <2>3
  <2>5. Counted'
    <3> SUFFICES ASSUME ~disturbed
                 PROVE  IsFiniteSet(Recorded' \ Kept') /\ Cardinality(Recorded' \ Kept') = dropped'
        BY DEF Counted
    <3>1. IsFiniteSet(Recorded \ Kept) /\ Cardinality(Recorded \ Kept) = dropped
        BY DEF Counted
    <3> QED BY <2>1, <2>4, <3>1, FS_AddElement
  <2> QED BY <1>1, <2>2, <2>3, <2>5
<1> QED BY <1>2, <1>3

LEMMA VanishKeeps ==
    ASSUME LogInv, Vanish, Recorded' = Recorded, UNCHANGED reads, disturbed'
    PROVE  LogInv'
<1> USE DEF LogInv
<1>1. /\ queue' = <<>> /\ batch' = <<>> /\ drain' = <<>> /\ worker' = "none" /\ exiting' = FALSE
      /\ dropped' = 0 /\ UNCHANGED <<table, old, pruned, pruning>>
    BY DEF Vanish
<1>2. Range(<<>>) = {} /\ IsInjective(<<>>)
    BY DEF Range, IsInjective
<1>3. LogTypeOK'
  <2>1. <<>> \in Seq(Entry) /\ Len(<<>>) = 0 /\ QueueMax \in Nat
      BY EmptySeq, LogAssumption DEF LogAssumption
  <2>2. LogTypeOK
      OBVIOUS
  <2>3. queue' \in Seq(Entry) /\ batch' \in Seq(Entry) /\ drain' \in Seq(Entry) /\ Len(queue') = 0
      BY <1>1, <2>1
  <2>4. Len(queue') <= QueueMax
      BY <2>1, <2>3
  <2>5. /\ old' \in 0..Len(table') /\ table' \in Seq(Entry) /\ pruned' \subseteq Entry
        /\ pruning' \in [on : BOOLEAN, seen : 0..Len(table'), aged : 0..old']
      BY <1>1, <2>2 DEF LogTypeOK
  <2> QED BY <1>1, <2>3, <2>4, <2>5 DEF LogTypeOK
<1>4. Apart'
    BY <1>1, <1>2 DEF Apart
<1>5. Kept' \subseteq Kept
    BY <1>1, <1>2 DEF Kept
<1> QED BY <1>1, <1>3, <1>4, <1>5, NothingRecorded

\* What the daemon thread and the exiting thread do.
LEMMA FlushKeeps ==
    ASSUME LogInv, Take \/ Insert \/ Wake \/ DrainTake \/ DrainInsert,
           Recorded' = Recorded, UNCHANGED <<reads, disturbed>>
    PROVE  LogInv'
<1> USE DEF LogInv
<1>0. /\ queue \in Seq(Entry) /\ batch \in Seq(Entry) /\ drain \in Seq(Entry) /\ table \in Seq(Entry)
      /\ Len(queue) <= QueueMax /\ QueueMax \in Nat /\ old \in 0..Len(table)
    BY LogAssumption DEF LogTypeOK, LogAssumption
<1>1. Range(<<>>) = {} /\ IsInjective(<<>>) /\ <<>> \in Seq(Entry)
    BY DEF Range, IsInjective
<1>2. Apart
    OBVIOUS
<1>3. exiting' = exiting /\ dropped' = dropped
    BY DEF Take, Insert, Wake, DrainTake, DrainInsert
<1>4. /\ Batch \in Seq(Entry) /\ Rest \in Seq(Entry)
      /\ Range(queue) = Range(Batch) \cup Range(Rest)
      /\ IsInjective(Batch) /\ IsInjective(Rest) /\ Range(Batch) \cap Range(Rest) = {}
    BY <1>0, <1>2, BatchAndRest DEF Apart
<1>5. Len(Rest) <= QueueMax
    BY <1>0, <1>4, BatchAndRest, LenProperties
<1>6. \A s \in Seq(Entry) : IsInjective(s) /\ Range(s) \cap Range(table) = {} =>
            /\ table \o s \in Seq(Entry) /\ IsInjective(table \o s) /\ old \in 0..Len(table \o s)
            /\ Range(table \o s) = Range(table) \cup Range(s)
            /\ pruning \in [on : BOOLEAN, seen : 0..Len(table \o s), aged : 0..old]
  <2> SUFFICES ASSUME NEW s \in Seq(Entry), IsInjective(s), Range(s) \cap Range(table) = {}
               PROVE  /\ table \o s \in Seq(Entry) /\ IsInjective(table \o s)
                      /\ old \in 0..Len(table \o s)
                      /\ Range(table \o s) = Range(table) \cup Range(s)
                      /\ pruning \in [on : BOOLEAN, seen : 0..Len(table \o s), aged : 0..old]
      OBVIOUS
  <2>1. IsInjective(table) /\ Range(table) \cap Range(s) = {}
      BY <1>2 DEF Apart
  <2>2. /\ table \o s \in Seq(Entry) /\ IsInjective(table \o s)
        /\ Range(table \o s) = Range(table) \cup Range(s)
      BY <1>0, <2>1, ConcatOnce
  <2>3. Len(table \o s) >= Len(table) /\ Len(table) \in Nat /\ Len(table \o s) \in Nat
      BY <1>0, LenProperties, ConcatProperties
  <2>4. /\ old \in 0..Len(table \o s)
        /\ pruning \in [on : BOOLEAN, seen : 0..Len(table \o s), aged : 0..old]
      BY <1>0, <2>3 DEF LogTypeOK
  <2> QED BY <2>2, <2>4
<1>7. CASE Take
  <2>1. /\ worker = "idle" /\ worker' = "inserting" /\ batch' = Batch /\ queue' = Rest
        /\ UNCHANGED <<drain, table, old, pruned, pruning>>
      BY <1>7 DEF Take
  <2>2. LogTypeOK'
      BY <1>3, <1>4, <1>5, <2>1 DEF LogTypeOK
  <2>3. Apart' /\ Kept' = Kept
      BY <1>1, <1>2, <1>4, <2>1 DEF Apart, Kept
  <2> QED BY <1>3, <2>1, <2>2, <2>3, NothingRecorded
<1>8. CASE Insert
  <2>1. /\ worker' = "idle" /\ table' = table \o batch /\ batch' = <<>>
        /\ UNCHANGED <<queue, drain, old, pruned, pruning>>
      BY <1>8 DEF Insert
  <2>2. /\ table' \in Seq(Entry) /\ IsInjective(table') /\ old \in 0..Len(table')
        /\ Range(table') = Range(table) \cup Range(batch)
        /\ pruning \in [on : BOOLEAN, seen : 0..Len(table'), aged : 0..old]
      BY <1>0, <1>2, <1>6, <2>1 DEF Apart
  <2>3. LogTypeOK'
      BY <1>1, <1>3, <2>1, <2>2 DEF LogTypeOK
  <2>4. Apart' /\ Kept' = Kept
      BY <1>1, <1>2, <2>1, <2>2 DEF Apart, Kept
  <2> QED BY <1>3, <2>1, <2>3, <2>4, NothingRecorded
<1>9. CASE Wake
  <2>1. worker' = "idle" /\ worker = "asleep" /\ UNCHANGED <<queue, batch, drain, table, old, pruned, pruning>>
      BY <1>9 DEF Wake
  <2>2. LogTypeOK' /\ Apart' /\ Kept' = Kept
      BY <1>2, <1>3, <2>1 DEF LogTypeOK, Apart, Kept
  <2> QED BY <1>3, <2>1, <2>2, NothingRecorded
<1>10. CASE DrainTake
  <2>1. /\ drain = <<>> /\ drain' = Batch /\ queue' = Rest
        /\ UNCHANGED <<worker, batch, table, old, pruned, pruning>>
      BY <1>10 DEF DrainTake
  <2>2. LogTypeOK'
      BY <1>3, <1>4, <1>5, <2>1 DEF LogTypeOK
  <2>3. Apart' /\ Kept' = Kept
      BY <1>1, <1>2, <1>4, <2>1 DEF Apart, Kept
  <2> QED BY <1>3, <2>1, <2>2, <2>3, NothingRecorded
<1>11. CASE DrainInsert
  <2>1. /\ table' = table \o drain /\ drain' = <<>>
        /\ UNCHANGED <<queue, worker, batch, old, pruned, pruning>>
      BY <1>11 DEF DrainInsert
  <2>2. /\ table' \in Seq(Entry) /\ IsInjective(table') /\ old \in 0..Len(table')
        /\ Range(table') = Range(table) \cup Range(drain)
        /\ pruning \in [on : BOOLEAN, seen : 0..Len(table'), aged : 0..old]
      BY <1>0, <1>2, <1>6, <2>1 DEF Apart
  <2>3. LogTypeOK'
      BY <1>1, <1>3, <2>1, <2>2 DEF LogTypeOK
  <2>4. Apart' /\ Kept' = Kept
      BY <1>1, <1>2, <2>1, <2>2 DEF Apart, Kept
  <2> QED BY <1>3, <2>1, <2>3, <2>4, NothingRecorded
<1> QED BY <1>7, <1>8, <1>9, <1>10, <1>11

\* A prune moves the front of the table to the rows that are gone.
LEMMA RetainKeeps ==
    ASSUME LogInv, GrowOld \/ PruneFind \/ PruneDelete \/ PruneFails,
           Recorded' = Recorded, UNCHANGED <<reads, disturbed>>
    PROVE  LogInv'
<1> USE DEF LogInv
<1>0. /\ table \in Seq(Entry) /\ old \in 0..Len(table) /\ Len(table) \in Nat /\ pruned \subseteq Entry
      /\ pruning \in [on : BOOLEAN, seen : 0..Len(table), aged : 0..old]
    BY LenProperties DEF LogTypeOK
<1>1. UNCHANGED <<queue, worker, batch, exiting, drain, dropped>>
    BY DEF GrowOld, PruneFind, PruneDelete, Cut, PruneFails
<1>2. CASE GrowOld \/ PruneFind \/ PruneFails
  <2>0. NoPrune \in [on : BOOLEAN, seen : 0..Len(table), aged : 0..old]
      BY <1>0 DEF NoPrune
  <2>1. /\ UNCHANGED <<table, pruned>> /\ old' \in 0..Len(table)
        /\ pruning' \in [on : BOOLEAN, seen : 0..Len(table), aged : 0..old']
    <3>1. CASE GrowOld
        BY <1>0, <3>1 DEF GrowOld
    <3>2. CASE PruneFind
        BY <1>0, <3>2 DEF PruneFind
    <3>3. CASE PruneFails
        BY <1>0, <2>0, <3>3 DEF PruneFails
    <3> QED BY <1>2, <3>1, <3>2, <3>3
  <2>2. LogTypeOK' /\ Apart' /\ Kept' = Kept
      BY <1>1, <2>1 DEF LogTypeOK, Apart, Kept
  <2> QED BY <1>1, <2>2, NothingRecorded
<1>3. CASE PruneDelete
  <2>1. PICK gone \in 0..Len(table) :
            /\ table' = SubSeq(table, gone + 1, Len(table))
            /\ pruned' = pruned \cup Range(SubSeq(table, 1, gone))
            /\ old' = IF old <= gone THEN 0 ELSE old - gone
      BY <1>3, PruneCuts
  <2> DEFINE front == SubSeq(table, 1, gone)
  <2>2. front \in Seq(Entry) /\ table' \in Seq(Entry) /\ table = front \o table'
      BY <1>0, <2>1, CutInTwo
  <2>3. /\ pruned' = pruned \cup Range(front) /\ pruning' = NoPrune
        /\ Len(table') = Len(table) - gone
      BY <1>0, <1>3, <2>1, RestLength DEF PruneDelete, Cut
  <2> HIDE DEF front
  <2>4. /\ Range(front \o table') = Range(front) \cup Range(table')
        /\ IsInjective(front \o table')
             => IsInjective(front) /\ IsInjective(table') /\ Range(front) \cap Range(table') = {}
      BY <2>2, ConcatOnce
  <2>5. /\ Range(table) = Range(front) \cup Range(table') /\ IsInjective(table')
        /\ Range(front) \cap Range(table') = {}
      BY <2>2, <2>4 DEF Apart
  <2>6. Range(front) \subseteq Entry
      BY <2>2, ElementOfSeq, RangeEquality
  <2>7. LogTypeOK'
    <3>1. old' \in 0..Len(table')
        BY <1>0, <2>1, <2>3
    <3>2. pruning' \in [on : BOOLEAN, seen : 0..Len(table'), aged : 0..old']
        BY <1>0, <2>3, <3>1 DEF NoPrune
    <3> QED BY <1>0, <1>1, <2>2, <2>3, <2>6, <3>1, <3>2 DEF LogTypeOK
  <2>8. Apart' /\ Kept' = Kept
      BY <1>1, <2>3, <2>5 DEF Apart, Kept
  <2> QED BY <1>1, <2>7, <2>8, NothingRecorded
<1> QED BY <1>2, <1>3

\* What a request does before its reply is there records nothing, and forgets no record.
LEMMA ServeRecordsNothing ==
    ASSUME Typed, AccessStep
    PROVE  Recorded' = {q \in Call : request[q].at = "over"} \cup reads'
<1>1. ASSUME NEW q \in Call, NEW to, request' = [request EXCEPT ![q] = to],
             request[q].at # "over", to.at # "over"
      PROVE  \A p \in Call : request'[p].at = "over" <=> request[p].at = "over"
    BY <1>1 DEF Typed
<1>2. ASSUME NEW q \in Call, NEW place \in {"answered", "found", "write"},
             Goes(q, place), request[q].at # "over"
      PROVE  \A p \in Call : request'[p].at = "over" <=> request[p].at = "over"
  <2>1. CASE place = "answered"
    <3>1. request' = [request EXCEPT ![q] = Quiet("answered")]
        BY <1>2, <2>1 DEF Goes
    <3> QED BY <1>1, <1>2, <3>1, QuietIsRequest
  <2>2. CASE place # "answered"
    <3> DEFINE to == [request[q] EXCEPT !.at = place]
    <3>1. request' = [request EXCEPT ![q] = to]
        BY <1>2, <2>2 DEF Goes
    <3>2. to.at # "over"
        BY <2>2, GoingStaysTyped
    <3> HIDE DEF to
    <3> QED BY <1>1, <1>2, <3>1, <3>2
  <2> QED BY <2>1, <2>2
<1>3. ASSUME NEW q \in Call, NEW kind \in Kinds, NEW me \in User \cup {Nobody}, NEW target \in User,
             Arrive(q, kind, me, target)
      PROVE  \A p \in Call : request'[p].at = "over" <=> request[p].at = "over"
  <2> DEFINE to == IF MayAsk(me, kind)
                   THEN [at |-> "authorised", kind |-> kind, me |-> me, target |-> target]
                   ELSE Quiet("answered")
  <2>1. request' = [request EXCEPT ![q] = to] /\ request[q].at = "new"
      BY <1>3 DEF Arrive
  <2>2. to.at # "over"
      BY QuietIsRequest
  <2> HIDE DEF to
  <2> QED BY <1>1, <2>1, <2>2
<1>4. \A p \in Call : request'[p].at = "over" <=> request[p].at = "over"
    BY <1>2, <1>3 DEF AccessStep, Find, CountAdmins, Write
<1> QED BY <1>4 DEF Recorded

LEMMA LogStep == AdminInv /\ LogInv /\ [Next]_vars => LogInv'
<1> SUFFICES ASSUME AdminInv, LogInv, [Next]_vars PROVE LogInv'
    OBVIOUS
<1>0. Typed /\ reads \subseteq Read /\ Entry = Call \cup Read /\ Call \cap Read = {}
    BY ProcessAssumption DEF ProcessAssumption, AdminInv, LogInv
<1>1. ASSUME UNCHANGED accessVars, UNCHANGED reads PROVE Recorded' = Recorded
    BY <1>1 DEF Recorded, accessVars
<1>2. ASSUME UNCHANGED logVars, Recorded' = Recorded, UNCHANGED <<reads, disturbed>> PROVE LogInv'
  <2>1. LogTypeOK' /\ Apart' /\ Kept' = Kept
      BY <1>2 DEF LogInv, logVars, LogTypeOK, Apart, Kept
  <2> QED BY <1>2, <2>1, NothingRecorded DEF LogInv, logVars
<1>3. CASE Serve
  <2>1. AccessStep /\ UNCHANGED <<logVars, reads, disturbed>>
      BY <1>3 DEF Serve
  <2>2. Recorded' = Recorded
      BY <1>0, <2>1, ServeRecordsNothing DEF Recorded
  <2> QED BY <1>2, <2>1, <2>2
<1>4. CASE \E q \in Call : Answer(q)
  <2>1. PICK q \in Call : Answer(q)
      BY <1>4
  <2>2. /\ request[q].at = "answered" /\ Record(q)
        /\ request' = [request EXCEPT ![q] = Quiet("over")]
        /\ UNCHANGED <<reads, disturbed>>
      BY <2>1 DEF Answer
  <2>3. q \in Entry /\ q \notin Recorded
      BY <1>0, <2>2 DEF Recorded
  <2>4. \A p \in Call : request'[p].at = "over" <=> (request[p].at = "over" \/ p = q)
      BY <1>0, <2>2, QuietIsRequest DEF Typed
  <2>5. Recorded' = Recorded \cup {q}
      BY <2>2, <2>4 DEF Recorded
  <2> QED BY <1>0, <2>2, <2>3, <2>5, RecordKeeps
<1>5. CASE \E r \in Read : AnswerRead(r)
  <2>1. PICK r \in Read : AnswerRead(r)
      BY <1>5
  <2>2. /\ r \notin reads /\ reads' = reads \cup {r} /\ Record(r)
        /\ UNCHANGED <<request, disturbed>>
      BY <2>1 DEF AnswerRead, accessVars
  <2>3. r \in Entry /\ r \notin Recorded /\ Recorded' = Recorded \cup {r}
      BY <1>0, <2>2 DEF Recorded
  <2> QED BY <1>0, <2>2, <2>3, RecordKeeps
<1>6. CASE Flush
  <2>1. /\ Take \/ Insert \/ Wake \/ DrainTake \/ DrainInsert
        /\ UNCHANGED <<accessVars, reads, disturbed>>
      BY <1>6 DEF Flush, Elsewhere
  <2> QED BY <1>1, <2>1, FlushKeeps
<1>7. CASE FlushFails
  <2>1. /\ batch' = <<>> /\ worker' = "asleep"
        /\ UNCHANGED <<queue, exiting, drain, dropped, table, old, pruned, pruning>>
        /\ disturbed' = TRUE /\ UNCHANGED <<accessVars, reads>>
      BY <1>7 DEF FlushFails, InsertFails, Elsewhere
  <2>2. Range(<<>>) = {} /\ IsInjective(<<>>) /\ <<>> \in Seq(Entry)
      BY DEF Range, IsInjective
  <2>3. LogTypeOK' /\ Apart' /\ Kept' \subseteq Kept
      BY <2>1, <2>2 DEF LogInv, LogTypeOK, Apart, Kept
  <2> QED BY <1>1, <2>1, <2>3, NothingRecorded
<1>8. CASE Retain
  <2>1. (GrowOld \/ PruneFind \/ PruneDelete \/ PruneFails) /\ UNCHANGED <<accessVars, reads, disturbed>>
      BY <1>8 DEF Retain, Elsewhere
  <2> QED BY <1>1, <2>1, RetainKeeps
<1>9. CASE Stop
  <2>1. /\ UNCHANGED <<queue, worker, batch, drain, dropped, table, old, pruned, pruning>>
        /\ exiting' = TRUE /\ disturbed' = TRUE /\ UNCHANGED <<accessVars, reads>>
      BY <1>9 DEF Stop, Exit, Elsewhere
  <2>2. LogTypeOK' /\ Apart' /\ Kept' = Kept
      BY <2>1 DEF LogInv, LogTypeOK, Apart, Kept
  <2>3. worker' # "inserting" => batch' = <<>>
      BY <2>1 DEF LogInv
  <2> QED BY <1>1, <2>1, <2>2, <2>3, NothingRecorded
<1>10. CASE Stopped
  <2>1. exiting /\ Vanish /\ UNCHANGED <<accessVars, reads, disturbed>>
      BY <1>10 DEF Stopped, Drained, DrainFails
  <2>2. disturbed'
      BY <2>1 DEF LogInv
  <2> QED BY <1>1, <2>1, <2>2, VanishKeeps
<1>11. CASE Kill
  <2>1. /\ request' = [q \in Call |-> IF request[q].at \in {"new", "over"} THEN request[q]
                                     ELSE Quiet("lost")]
        /\ Vanish /\ disturbed' = TRUE /\ UNCHANGED reads
      BY <1>11 DEF Kill, Abandon
  <2>2. \A q \in Call : request'[q].at = "over" <=> request[q].at = "over"
      BY <2>1, QuietIsRequest
  <2> QED BY <2>1, <2>2, VanishKeeps DEF Recorded
<1>12. CASE Start
  <2>1. UNCHANGED <<request, logVars, reads, disturbed>>
      BY <1>12 DEF Start, EnsureAdmin
  <2> QED BY <1>2, <2>1 DEF Recorded
<1>13. CASE UNCHANGED vars
  <2>1. UNCHANGED <<accessVars, logVars, reads, disturbed>>
      BY <1>13 DEF vars
  <2> QED BY <1>1, <1>2, <2>1
<1> QED BY <1>3, <1>4, <1>5, <1>6, <1>7, <1>8, <1>9, <1>10, <1>11, <1>12, <1>13 DEF Next

\* No call is stored twice, or stored and still on its way: for every length of the queue and
\* of a batch, however the daemon thread and the exiting thread take turns, whichever insert
\* fails and whenever the process dies.
THEOREM CallsAreStoredOnce == Spec => []StoredOnce
<1>1. AdminInv /\ LogInv => StoredOnce
    BY ApartStoresOnce DEF LogInv
<1> QED BY <1>1, AdminInit, AdminStep, LogInitially, LogStep, PTL DEF Spec

\* While no insert has failed and the process has not stopped, the calls that cannot be found
\* are exactly as many as the log says it dropped.
THEOREM DroppedCallsAreCounted == Spec => []DropsAreCounted
<1>1. AdminInv /\ LogInv => DropsAreCounted
    BY DEF LogInv, Counted, DropsAreCounted
<1> QED BY <1>1, AdminInit, AdminStep, LogInitially, LogStep, PTL DEF Spec

\* Retention beside inserts (calls.prune): whatever was inserted and grew old between the
\* query for the threshold and the delete, a row that is not past KEEP_DAYS and has fewer than
\* KEEP_ROWS newer ones stays, and the table is left with KEEP_ROWS rows and the new arrivals
\* at most, for every KEEP_ROWS and every table.
THEOREM PruneLeavesTheNewest == Spec => PruneKeepsNewest
<1> DEFINE Only(i) == table[i] \in pruned' \ pruned => i <= old \/ Len(table) - i >= KeepRows
           Enough  == PruneDelete => /\ Len(table') <= KeepRows + (Len(table) - pruning.seen)
                                     /\ old' <= old - pruning.aged
<1>1. AdminInv /\ LogInv /\ [Next]_vars => (\A i \in DOMAIN table : Only(i)) /\ Enough
  <2> SUFFICES ASSUME LogInv, [Next]_vars PROVE (\A i \in DOMAIN table : Only(i)) /\ Enough
      OBVIOUS
  <2>1. CASE ~PruneDelete
    <3>1. pruned' = pruned
        BY <2>1, Zenon DEF Next, Serve, Answer, AnswerRead, Record, Flush, FlushFails, Retain, Stop,
           Stopped, Kill, Start, Drained, DrainFails, Vanish, Take, Insert, Wake, DrainTake,
           DrainInsert, InsertFails, GrowOld, PruneFind, PruneFails, Exit, logVars, vars
    <3> QED BY <2>1, <3>1
  <2>2. CASE PruneDelete
    <3>1. /\ LogTypeOK /\ IsInjective(table) /\ table \in Seq(Entry) /\ Len(table) \in Nat
          /\ KeepRows \in Nat /\ old \in 0..Len(table)
          /\ pruning.seen \in 0..Len(table) /\ pruning.aged \in 0..old
        BY LogAssumption, LenProperties DEF LogInv, LogTypeOK, Apart, LogAssumption
    <3>2. PICK gone \in 0..Len(table) :
              /\ gone = pruning.aged \/ gone = pruning.seen - KeepRows
              /\ gone >= pruning.aged /\ gone >= pruning.seen - KeepRows
              /\ table' = SubSeq(table, gone + 1, Len(table))
              /\ pruned' = pruned \cup Range(SubSeq(table, 1, gone))
              /\ old' = IF old <= gone THEN 0 ELSE old - gone
        BY <2>2, <3>1, PruneCuts
    <3>3. Len(table') = Len(table) - gone
        BY <3>1, <3>2, RestLength
    <3>4. Enough
        BY <3>1, <3>2, <3>3
    <3>5. ASSUME NEW i \in DOMAIN table, table[i] \in pruned' \ pruned
          PROVE  i <= old \/ Len(table) - i >= KeepRows
      <4>0. Range(SubSeq(table, 1, gone)) = {table[j] : j \in 1..gone}
          BY <3>1, FrontRows
      <4>1. PICK k \in 1..gone : table[k] = table[i]
          BY <3>2, <3>5, <4>0
      <4>2. i = k /\ i \in 1..Len(table)
          BY <3>1, <4>1, LenProperties DEF IsInjective
      <4> QED BY <3>1, <3>2, <4>2
    <3> QED BY <3>4, <3>5
  <2> QED BY <2>1, <2>2
<1>2. AdminInv /\ LogInv /\ [Next]_vars => [(\A i \in DOMAIN table : Only(i)) /\ Enough]_logVars
    BY <1>1
<1> QED BY <1>2, AdminInit, AdminStep, LogInitially, LogStep, PTL DEF Spec, PruneKeepsNewest
=============================================================================
