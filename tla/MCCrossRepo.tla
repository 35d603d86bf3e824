---------------------------- MODULE MCCrossRepo ------------------------------
EXTENDS CrossRepo

\* An application and the library it depends on.
Single == [r \in {"app", "lib"} |-> IF r = "app" THEN "lib" ELSE "none"]
=============================================================================
