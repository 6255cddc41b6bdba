\* A fix that outlives its timeout.
CONSTANTS
    a = a
    b = b
    c = c
    d = d
    Calls = {a, b}
    MaxWorkers = 2
    MayHang = {a, b}
SPECIFICATION Spec
CHECK_DEADLOCK FALSE
INVARIANT TimedOutIsNotApplied
