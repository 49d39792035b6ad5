\* SIGTERM while the loop runs. Processes end, so the system may stop.
SPECIFICATION Spec
CHECK_DEADLOCK FALSE
CONSTANTS
    Daemons = {d1}
    LauncherOf <- OneLauncher
    Adopter = 1
    MaxRuns = 1
    EnabledChecks = {}
    RequiredParentPath = "parent"
    LauncherPaths = {"parent"}
    AdopterPath = "init"
    ReusedPaths = {"other"}
    MaxStartTime = 1
    RequireRunningParent = FALSE
    Timeout = FALSE
    Faults = {"sigterm"}
    NoLock = NoLock
    NoPath = ""
    d1 = d1
    d2 = d2
    d3 = d3
PROPERTIES SigtermEndsLoopOnly
