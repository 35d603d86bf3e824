----------------------------- MODULE MCAuthorPool ------------------------------
(***************************************************************************)
(* Two repositories with commits of the same people.  In walks of two        *)
(* commits, the first of which is committed by its author, everybody uses    *)
(* one name; in walks of one commit the other name or no address.            *)
(***************************************************************************)
EXTENDS AuthorPool

CONSTANTS n1, n2

OneCommit  == [1..2 -> [email : Email \cup {NoEmail}, name : {n2}]]
TwoCommits == {s \in [1..4 -> [email : Email, name : {n1}]] : s[1] = s[2]}
Both == OneCommit \cup TwoCommits
=============================================================================
