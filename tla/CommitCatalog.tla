--------------------------- MODULE CommitCatalog ----------------------------
(***************************************************************************)
(* What the commit table of one repository promises: a load leaves it as if *)
(* the whole history of the new tips had been read, however little of it    *)
(* was, and a cleanup leaves exactly what the last tips reach.  There are   *)
(* no watermarks, no mirror, no worker and no failures here.                *)
(***************************************************************************)
EXTENDS GitHistory

VARIABLES
    catalog,    \* the commits in the table
    tips        \* the tips of the last load

Init == catalog = {} /\ tips = {}

Load ==
    \E new \in SUBSET Commit :
        /\ tips' = new
        /\ catalog' = catalog \cup Walk(new)

\* Tips may be forgotten, never invented: a next load then reads more than it had to.
Forget ==
    /\ tips' \in SUBSET tips
    /\ UNCHANGED catalog

Cleanup ==
    /\ catalog' = Walk(tips)
    /\ tips' \in SUBSET tips

Spec == Init /\ [][Load \/ Forget \/ Cleanup]_<<catalog, tips>>
=============================================================================
