SPECIFICATION FairSpec
CONSTANTS
    base = base
    fix = fix
    next = next
    pick = pick
    NoCommit = NoCommit
    Commit <- Commits
    Anc <- MergedAnc
    Merge = {next}
    Patch <- PickPatch
    Branch = {"main", "trunk"}
    ContentionRetries = 3
    Rewriting = TRUE
    Tagging = TRUE
    Renaming = TRUE
    ForceFull = TRUE
    MaxMoves = 3
    MaxFaults = 1
INVARIANTS Covered ReadyIsLoaded QuietIsCurrent NoChangeLost
PROPERTIES EventuallyIngested DropIsExact IncrementalIsFull
