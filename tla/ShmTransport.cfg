SPECIFICATION TransportFairSpec
CONSTANTS
    A = A
    B = B
    a1 = a1
    a2 = a2
    b1 = b1
    Handles = {a1, a2, b1}
    Processes = {A, B}
    Owner <- OwnerOf
    NoHandle = NoHandle
    MaxSegments = 3
    MaxUnread = 1
    MaxUsers = 2
    MaxDeaths = 1
INVARIANT StillFound
PROPERTIES  OpenedGetsReady
CHECK_DEADLOCK FALSE
