SPECIFICATION FairSpec
CONSTANTS
    Processes = {n1, n2}
    ChannelNames = {c1}
    NoChannel = NoChannel
    MaxInbox = 1
    MaxRegisters = 2
    MaxUnregisters = 1
    MaxStarts = 3
    MaxDeaths = 1
INVARIANTS FoundOnce QuietAfterStop
PROPERTIES ListenerServes
CHECK_DEADLOCK FALSE
