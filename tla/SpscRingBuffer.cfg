SPECIFICATION Spec
CONSTANTS
    Capacity = 3
    Values = {v1, v2}
    Blank = Blank
    MaxPushes = 5
INVARIANTS NoDataRace
PROPERTIES NotEmptyStays FifoSpec
