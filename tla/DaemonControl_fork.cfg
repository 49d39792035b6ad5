\* fork() fails and the daemon is stopped. Nobody has to call anything.
SPECIFICATION Spec
CHECK_DEADLOCK FALSE
CONSTANTS
    Pids = {1, 2}
    Codes = {0, 5}
    WriterEnabled = TRUE
    ReaderEnabled = TRUE
    MaxStarts = 2
    Faults = {"fork"}
INVARIANTS StopsOnlyDaemon
