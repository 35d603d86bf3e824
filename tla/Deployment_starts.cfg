SPECIFICATION FairSpec
CONSTANTS
    Repo = {r1, r2}
    Corpus = Corpus
    MaxVersion = 2
    api = api
    scheduler = scheduler
    Service = {api, scheduler}
    Runner = scheduler
    Released <- MCReleased
    SCHEMA_RETRIES = 2
    MaxRelease = 2
    MaxSchemaFaults = 2
INVARIANTS
    PoolIsCurrent
    ServesItsTables
PROPERTIES
    RebuiltInOrder
    AllComeUp
CHECK_DEADLOCK FALSE
