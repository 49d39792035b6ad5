SPECIFICATION Spec
CONSTANTS
    Processes = {p1, p2}
    MaxCalls = 1
    Modes = {"r", "w"}
    Paths <- ShortPaths
    Calls <- SamePipe
    Start <- SomeFiles
PROPERTIES FalseMeansAbsent
CHECK_DEADLOCK FALSE
