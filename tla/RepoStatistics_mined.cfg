CONSTANTS
    Commit = {1, 2, 3, 4}
    NoCommit = 0
    Anc <- MCAnc
    Merge = {}
    Patch <- MCPatch
    Branch = {"main"}
    ContentionRetries = 1
    Rewriting = TRUE
    Tagging = TRUE
    Renaming = FALSE
    ForceFull = FALSE
    MaxMoves = 3
    MaxFaults = 1
    File = {1, 2, 3, 4}
    Directory = {10, 11}
    Author = {"ann", "bob"}
    Touched <- MCTouched
    Holds <- MCHolds
    WrittenBy <- MCWrittenBy
    When <- MCWhen
    Cap = 3
    MinSupport = 1
    ClusterSupport = 1
    Rounds = 4
    DriftSupport = 1
    Window = 0
    Warmup = 1
    MaxPrompt = 2
    Day = {1}
SPECIFICATION FairStats
INVARIANTS
    NothingIsAdjusted
    ScoresKeepRegistry
    ReplayEndsInTheTables
    MinedIsCurrent
PROPERTIES
    EventuallyMined
CHECK_DEADLOCK FALSE
