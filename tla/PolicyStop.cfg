SPECIFICATION FairSpec
CONSTANTS
    e1 = e1
    e2 = e2
    e3 = e3
    Entries = {e1, e2}
    Setups <- MCOneList
    NullTime <- MCNullTime
    LastEligible = 2
    Workers = {w1}
    schedulers <- MCNoScheduler
    queue_size = 2
    suspend_error_min = 0
    suspend_error_pct = 0
    lru_sort = FALSE
    AfterActions = {"PA_UPDATE"}
    MatchFailures = {"SKIPPED"}
    status_refusals = FALSE
    MaxRuns = 2
    MaxListings = 2
    MaxTimeouts = 0
    CanStop = TRUE
    UIntMod = 64
    max_count = 0
    count_capacity = 1
PROPERTIES
    StopIsSeen
CHECK_DEADLOCK FALSE
