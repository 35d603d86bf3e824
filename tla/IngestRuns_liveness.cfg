SPECIFICATION FairSpec
CONSTANTS
    Caller = {cron, api}
    Scheduler = {cron}
    Repo = {r1, r2}
    RunId = {n1}
    NoCaller = NoCaller
    NoRun = NoRun
    Workers = 1
    AbortAfter = 1
    Restarts = TRUE
    MaxFaults = 2
PROPERTIES
    RowsAreClosed
    RunsEnd
