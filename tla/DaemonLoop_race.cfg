\* Three daemons race for the lock and its directory, and run twice. Processes end, so the system may stop.
SPECIFICATION Spec
CHECK_DEADLOCK FALSE
CONSTANTS
    Daemons = {d1, d2, d3}
    LauncherOf <- OneLauncher
    Adopter = 1
    MaxRuns = 2
    EnabledChecks = {1, 4}
    RequiredParentPath = "parent"
    LauncherPaths = {"parent"}
    AdopterPath = "init"
    ReusedPaths = {"other"}
    MaxStartTime = 1
    RequireRunningParent = FALSE
    Timeout = TRUE
    Faults = {"kill", "sigterm", "interrupt"}
    NoLock = NoLock
    NoPath = ""
    d1 = d1
    d2 = d2
    d3 = d3
INVARIANTS TypeOK MutualExclusion PipesClosedBeforeNext NotAllRefused
PROPERTIES ImplementsSingleInstance
