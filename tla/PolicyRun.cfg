SPECIFICATION FairSpec
CONSTANTS
    e1 = e1
    e2 = e2
    e3 = e3
    Entries <- MCEntries
    Setups <- MCSetups
    NullTime <- MCNullTime
    LastEligible = 2
    Workers = {w1, w2}
    schedulers <- MCSchedulers
    queue_size = 1
    suspend_error_min = 1
    suspend_error_pct = 70
    lru_sort = TRUE
    AfterActions = {"PA_UPDATE"}
    MatchFailures = {"SKIPPED"}
    status_refusals = FALSE
    MaxRuns = 1
    MaxListings = 2
    MaxTimeouts = 0
    CanStop = TRUE
    UIntMod = 64
    max_count = 1
    count_capacity = 1
INVARIANTS
    TypeOK
    InFlightExact
    LimitKept
    ActedOnce
    SummaryExact
    ListComplete
PROPERTIES
    RunEnds
CHECK_DEADLOCK FALSE
