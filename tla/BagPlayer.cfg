SPECIFICATION BagFairSpec
CONSTANTS
    Topics = {imu}
    MaxRecords = 2
    MaxStarts = 2
    Players = {t1, t2}
    MaxOpens = 2
    MaxPlays = 2
    MaxSessions = 3
INVARIANTS HeaderTellsTruth PlayedIsRecorded QuietAfterStop
PROPERTIES PlayReturns
CHECK_DEADLOCK FALSE
