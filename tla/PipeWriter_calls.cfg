\* Two senders, a waiter, an owner that opens, closes and destroys. The process may end, and nobody has to go on calling.
SPECIFICATION FairSpec
CHECK_DEADLOCK FALSE
CONSTANTS
    Senders = {s1, s2}
    Waiters = {w1}
    Callers <- MCCallers
    OpenNow = FALSE
    MaxSends = 1
    Capacity = 1
    MaxPeers = 2
    Faults = {"openError"}
    InitFaults = {"createError"}
    s1 = s1
    s2 = s2
    w1 = w1
INVARIANTS TypeOK NoStrayWriteBeforeClose SendNeverWaitsForOpen ClosedStaysClosed
PROPERTIES CallsReturn WaiterWakesUp
