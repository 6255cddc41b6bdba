\* Two dialogs, failed writes, exceptions, crashes and shortcuts in one session.
CONSTANTS
    t1 = t1
    t2 = t2
    t3 = t3
    t4 = t4
    f1 = f1
    f2 = f2
    s1 = s1
    s2 = s2
    Tools = {t1, t2}
    ThoroughTools = {t2}
    Fixes = {f1, f2}
    NoFix = NoFix
    VerifyTools <- VerifyByT1
    Items = {"problem", "measurements"}
    SessionIds = {s1}
    NoSessionId = NoSessionId
    MaxSteps = 2
    MaxAttempts = 2
    MaxFollowUps = 1
    FollowUpBudget = 1
    QuickLimit = 1
    Providers = {"local"}
    MaxRounds = 1
    MaxDialogs = 2
    Environment = {"save_fails", "worker_raises", "crash", "shortcut"}
SPECIFICATION Spec
INVARIANTS
    AttemptsBounded
    HistoryNeverAhead
PROPERTIES
    ImplementsApproval
