--------------------------- MODULE MCRepoStatistics ---------------------------
(* Four files; all are under the root (10), the first two in a directory of   *)
(* their own (11).  The branch is 1 <- 2 <- 3; 4 is a cherry-pick of 2 on a    *)
(* line of its own from 1, a replay once a tag names it.  Commit 1 touches one *)
(* file: as a branch it has no pair.  Commit 2 couples three files enough to   *)
(* make a module.  Files 1 and 2 change together on either side of the window, *)
(* since 3 is a day younger.  No commit is over the cap: the theorems hold for *)
(* every cap.                                                                  *)
EXTENDS RepoStatistics

MCAnc       == <<{1}, {1, 2}, {1, 2, 3}, {1, 4}>>
MCPatch     == <<1, 2, 3, 2>>
MCTouched   == <<{4}, {1, 2, 3}, {1, 2}, {1, 2, 3}>>
MCHolds     == <<{10, 11}, {10, 11}, {10}, {10}>>
MCWrittenBy == <<"ann", "bob", "bob", "ann">>
MCWhen      == <<0, 0, 1, 1>>
=============================================================================
