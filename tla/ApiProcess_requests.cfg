SPECIFICATION FairSpec
CONSTANTS
    ann = ann
    bob = bob
    patch1 = patch1
    patch2 = patch2
    page = page
    User = {ann, bob}
    EnvAdmin = ann
    Nobody = Nobody
    OpenDoor = TRUE
    Call = {patch1, patch2}
    Read = {page}
    Entry = {patch1, patch2, page}
    Unreadable = {page}
    QueueMax = 2
    BatchMax = 2
    KeepRows = 1
    MaxFaults = 1
INVARIANTS  StoredOnce DropsAreCounted
PROPERTIES PruneKeepsNewest EveryCallSettles
CHECK_DEADLOCK FALSE
