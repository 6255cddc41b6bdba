\* More calls than threads, and functions enough to take them all for ever.
CONSTANTS
    a = a
    b = b
    c = c
    d = d
    Calls = {a, b, c, d}
    MaxWorkers = 2
    MayHang = {a, b}
SPECIFICATION FairSpec
CHECK_DEADLOCK FALSE
INVARIANT TypeOK
PROPERTIES
    NoLateStart
    CallersAnswered
