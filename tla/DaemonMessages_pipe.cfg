SPECIFICATION FairSpec
CONSTANTS
    Daemons = {d1, d2}
    NoDaemon = NoDaemon
    Elsewhere = {d2}
    Size <- ShortAndLong
    BufferSize = 2
    Capacity = 2
    PipeBuf = 1
    Faults = {"signal", "openError", "kill"}
INVARIANTS TypeOK NothingLost AnswerUnlessInterrupted
PROPERTIES KilledOnlyWhenAlone ImplementsChannel PipeIsEmptied
CHECK_DEADLOCK FALSE
