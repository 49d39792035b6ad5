\* The launcher stops, exits, is reaped, and its ID is used again. Processes end, so the system may stop.
SPECIFICATION FairSpec
CHECK_DEADLOCK FALSE
CONSTANTS
    Daemons = {d1, d2}
    LauncherOf <- OneLauncher
    Adopter = 1
    MaxRuns = 1
    EnabledChecks = {2}
    RequiredParentPath = "parent"
    LauncherPaths = {"parent", "other"}
    AdopterPath = "init"
    ReusedPaths = {"other"}
    MaxStartTime = 2
    RequireRunningParent = TRUE
    Timeout = TRUE
    Faults = {"parentExit", "parentStop", "pidReuse", "fileError"}
    NoLock = NoLock
    NoPath = ""
    d1 = d1
    d2 = d2
    d3 = d3
INVARIANTS StaleActionBound WatchesLauncher ParentEndedIsTrue
PROPERTIES LoopEnds
