SPECIFICATION FairSpec
CONSTANTS
    Callers = {c1, c2}
    Tasks = {a, b}
    NoTask = NoTask
    MaxPosts = 4
INVARIANTS NoLostWakeUp StopDrains
PROPERTIES FifoSpec EveryTaskRuns StopReturns
