SPECIFICATION Spec
CONSTANTS
    Caller = {cron, discovery, api}
    Scheduler = {cron, discovery}
    Repo = {r1, r2, r3}
    RunId = {n1, n2}
    NoCaller = NoCaller
    NoRun = NoRun
    Workers = 2
    AbortAfter = 2
    Restarts = FALSE
    MaxFaults = 2
SYMMETRY Interchangeable
INVARIANTS
    SingleRun
    RunIsAccounted
    BreakerFollowsNetwork
PROPERTY LedgerIsFinal
