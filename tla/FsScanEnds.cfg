\* Two scan threads, under fairness.
CONSTANTS
    nb_threads_scan = 2
    MAX_TASK_DEPTH = 1
    Entries <- MCEntries
    Dirs <- MCDirs
    Root = "root"
    NoDir = "nodir"
    Parent <- MCParent
    PathTo <- MCPathTo
    Ignored <- MCIgnored
    Scenarios <- EndScenarios
SPECIFICATION FairSpec
CHECK_DEADLOCK FALSE
PROPERTIES ScanEnds StopReturns
