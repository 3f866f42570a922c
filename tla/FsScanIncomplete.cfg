\* A directory that cannot be read to its end.
CONSTANTS
    nb_threads_scan = 2
    MAX_TASK_DEPTH = 1
    Entries <- MCEntries
    Dirs <- MCDirs
    Root = "root"
    NoDir = "nodir"
    Parent <- MCParent
    PathTo <- MCPathTo
    Ignored <- MCIgnored
    Scenarios <- WideScenarios
SPECIFICATION Spec
CHECK_DEADLOCK FALSE
INVARIANT PresentKept
