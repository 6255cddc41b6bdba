\* Each client waits for the answer before it uses a session again.
CONSTANTS
    t1 = t1
    t2 = t2
    f1 = f1
    f2 = f2
    s1 = s1
    s2 = s2
    c1 = c1
    c2 = c2
    Tools = {t1}
    ThoroughTools = {}
    Fixes = {f1, f2}
    NoFix = NoFix
    VerifyTools <- VerifyByT1
    Items = {"problem", "measurements"}
    SessionIds = {s1, s2}
    NoSessionId = NoSessionId
    MaxSteps = 1
    MaxAttempts = 2
    MaxFollowUps = 1
    FollowUpBudget = 1
    QuickLimit = 1
    Clients = {c1, c2}
    MaxChanges = 3
    MaxRepeats = 2
    Environment = {}
SPECIFICATION Spec
CHECK_DEADLOCK FALSE
INVARIANTS
    RecordComplete
    AttemptsBounded
