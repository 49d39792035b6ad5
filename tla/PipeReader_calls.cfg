\* An owner that opens, closes and destroys, a listener that may close too, two peers. Nobody has to go on calling.
SPECIFICATION FairSpec
CHECK_DEADLOCK FALSE
CONSTANTS
    Callers = {}
    InitFaults = {"createError"}
    Listeners = {TRUE, FALSE}
    ListenerCloses = TRUE
    BufferSize = 1
    Capacity = 2
    MaxMessages = 3
    MaxPeers = 2
    Faults = {"openError", "createReaderError", "readError"}
INVARIANTS TypeOK FileStaysOpen QuietAfterClose
PROPERTIES CloseReturns MessagesAreRead EndOfFileCloses
