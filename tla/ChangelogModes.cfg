SPECIFICATION FairSpec
CONSTANTS
    Fids = {"f", "g", "h"}
    Names = {"a", "b", "c"}
    NoFid = "nofid"
    NoName = "noname"
    Root = "root"
    Scenarios <- ModesScenarios
    md_update_when = "on_event"
    queue_max_size = 2
    batch_ack_count = 2
    commit_update_max_delta = 3
    mds_has_lu543 = FALSE
    StackFlag = {FALSE}
    Retained = FALSE
    MaxPending = 2
INVARIANTS
    Converged QueueBounded OneShotComplete
PROPERTIES
    CommitForward EveryRecordHandled
CHECK_DEADLOCK FALSE
