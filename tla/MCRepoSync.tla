----------------------------- MODULE MCRepoSync -----------------------------
(***************************************************************************)
(* Small histories for model checking RepoSync.                             *)
(*                                                                          *)
(*   base <- fix <- next        the default branch                          *)
(*   base <- pick               a release line; pick is a cherry-pick of fix *)
(***************************************************************************)
EXTENDS RepoSync, TLC

CONSTANTS base, fix, next, pick

Commits == {base, fix, next, pick}

LineAnc == (base :> {base}) @@ (fix :> {base, fix}) @@ (next :> {base, fix, next})
           @@ (pick :> {base, pick})

\* The same release line, merged back: next is the merge of fix and pick.
MergedAnc == [LineAnc EXCEPT ![next] = Commits]

PickPatch == [c \in Commits |-> IF c = pick THEN fix ELSE c]
=============================================================================
