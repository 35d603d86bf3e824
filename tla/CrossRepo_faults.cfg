SPECIFICATION FairLayersSpec
CONSTANTS
    Tracked = {"app", "lib"}
    Upstream <- Single
    NoRepo = "none"
    MaxVersion = 2
    MaxLayerFaults = 2
    Forced = TRUE
INVARIANTS
    FinishedIsCurrent
    CalmIsCurrent
PROPERTY LayersCatchUp
