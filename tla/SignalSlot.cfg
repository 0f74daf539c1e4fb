SPECIFICATION FairSpec
CONSTANTS
    s1 = s1
    s2 = s2
    Signals = {s1, s2}
    Threads = {t1, t2}
    NoThread = NoThread
    Nests <- FirstThenSecond
    MaxSlots = 2
    MaxCalls = 3
INVARIANTS NothingAfterDisconnect
PROPERTIES EveryConnectedCalled CallsReturn
CHECK_DEADLOCK FALSE
