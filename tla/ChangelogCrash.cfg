SPECIFICATION Spec
CONSTANTS
    Fids = {"f", "g", "h"}
    Names = {"a", "b", "c"}
    NoFid = "nofid"
    NoName = "noname"
    Root = "root"
    Scenarios <- CrashScenarios
    md_update_when = "always"
    queue_max_size = 2
    batch_ack_count = 2
    commit_update_max_delta = 3
    mds_has_lu543 = FALSE
    StackFlag = {FALSE}
    Retained = FALSE
    MaxPending = 2
INVARIANTS
    TypeOK NoRecordLost Converged
CHECK_DEADLOCK FALSE
