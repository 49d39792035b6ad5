\* Two process IDs for a daemon, strangers and siblings. Nobody has to call anything.
SPECIFICATION FairSpec
CHECK_DEADLOCK FALSE
CONSTANTS
    Pids = {1, 2}
    Codes = {5}
    WriterEnabled = TRUE
    ReaderEnabled = FALSE
    MaxStarts = 2
    Faults = {"fork", "EINTR", "cleanup", "exec"}
INVARIANTS TypeOK SignalsOnlyDaemon ChildIsKnown ExitCodeOfLast
PROPERTIES StopEndsDaemon WaitReturns
