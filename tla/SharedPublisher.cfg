SPECIFICATION SharedSpec
CONSTANTS
    Threads = {t1, t2}
    BufferSize = 3
    MaxCalls = 3
INVARIANTS AcceptedIsKept
PROPERTIES WholeAndOnce
CHECK_DEADLOCK FALSE
