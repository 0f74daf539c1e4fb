SPECIFICATION SupervisorFairSpec
CONSTANTS
    Epoch = 4
    MaxTime = 3
    MaxAdjustments = 1
    Peers = {p1}
    Threads = {t1, t2}
    NoPeer = NoPeer
    NoThread = NoThread
    Timeout = 1
    Nodes = {n1}
    Channels = {c1}
    Topics = {s1}
    Timeouts = {1, 2}
    DefaultTimeout = 2
    Latencies = {1, 2}
    Modulus = 64
    MaxSamples = 2
    MaxCalls = 3
INVARIANTS ExpiredIsSilent TimeoutIsSilence StatisticsTellTruth
PROPERTIES MonitorAnswers
CHECK_DEADLOCK FALSE
