SPECIFICATION Spec
CONSTANTS
    Threads = {t1, t2, t3}
    Capacity = 2
    Values = {v1, v2}
    Blank = Blank
    MaxTickets = 4
SYMMETRY Symmetric
INVARIANTS CellExclusive
PROPERTIES FailureHasReason ObserverNeverUnderestimates FifoSpec
