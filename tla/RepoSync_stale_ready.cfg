SPECIFICATION Spec
CONSTANTS
    base = base
    fix = fix
    next = next
    pick = pick
    NoCommit = NoCommit
    Commit <- Commits
    Anc <- LineAnc
    Merge = {}
    Patch <- PickPatch
    Branch = {"main", "trunk"}
    ContentionRetries = 3
    Rewriting = FALSE
    Tagging = FALSE
    Renaming = FALSE
    ForceFull = TRUE
    MaxMoves = 1
    MaxFaults = 1
INVARIANT ReadyIsCurrent
