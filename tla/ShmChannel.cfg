SPECIFICATION FairSpec
CONSTANTS
    BufferSize = 3
    Payloads = {p1, p2}
    Blank = Blank
    MaxPublished = 4
    MaxDropped = 2
    MaxCrashes = 1
INVARIANTS SlotsMatchIndices
PROPERTIES NeverSkips DropHasReason FifoSpec EventuallyConsumed
