SPECIFICATION FairSpec
CONSTANTS
    Worker = {w1, w2}
    Email = {a, b}
    Name = {n1, n2}
    n1 = n1
    n2 = n2
    NoEmail = NoEmail
    Walks <- Both
    DB_CONTENTION_RETRIES = 3
    MaxFaults = 1
INVARIANTS
    AuthorsAreCommitted
    OnlyDeadlocksFail
PROPERTY EveryLoadEnds
