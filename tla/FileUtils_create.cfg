SPECIFICATION Spec
CONSTANTS
    Processes = {p1, p2}
    MaxCalls = 2
    Modes = {"r", "w"}
    Paths <- ShortPaths
    Calls <- SomeCalls
    Start <- SomeFiles
INVARIANTS TypeOK ParentIsAbove AnswerHasReason SomeoneSucceeds
CHECK_DEADLOCK FALSE
