SPECIFICATION Spec
CONSTANTS
    MaxWords = 4
    Fields = 24
INVARIANTS TypeOK ReadRight CrashHasReason
CHECK_DEADLOCK FALSE
