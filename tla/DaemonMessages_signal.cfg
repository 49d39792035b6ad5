SPECIFICATION Spec
CONSTANTS
    Daemons = {d1}
    NoDaemon = NoDaemon
    Elsewhere = {}
    Size <- ShortAndLong
    BufferSize = 2
    Capacity = 2
    PipeBuf = 1
    Faults = {"signal"}
INVARIANTS AnswerIsTrue
CHECK_DEADLOCK FALSE
