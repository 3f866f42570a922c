\* Two scan threads, faults of any kind.
CONSTANTS
    nb_threads_scan = 2
    MAX_TASK_DEPTH = 1
    Entries <- MCEntries
    Dirs <- MCDirs
    Root = "root"
    NoDir = "nodir"
    Parent <- MCParent
    PathTo <- MCPathTo
    Ignored <- MCIgnored
    Scenarios <- AllScenarios
SPECIFICATION Spec
CHECK_DEADLOCK FALSE
INVARIANTS TypeOK TreeSound OneOwner StackExact TerminatedAlone StaleDropped
PROPERTIES ScannedKept
