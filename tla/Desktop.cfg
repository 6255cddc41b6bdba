\* One session at a time, every step of the agent, crashes and restarts.
CONSTANTS
    t1 = t1
    t2 = t2
    t3 = t3
    t4 = t4
    f1 = f1
    f2 = f2
    s1 = s1
    s2 = s2
    Tools = {t1, t2, t3, t4}
    ThoroughTools = {t2, t3}
    Fixes = {f1, f2}
    NoFix = NoFix
    VerifyTools <- VerifyTools_def
    Items = {"problem", "measurements"}
    SessionIds = {s1}
    NoSessionId = NoSessionId
    MaxSteps = 3
    MaxAttempts = 2
    MaxFollowUps = 2
    FollowUpBudget = 2
    QuickLimit = 2
    Providers = {"local", "on_this_pc", "cloud"}
    MaxRounds = 3
    MaxDialogs = 1
    Environment = {"crash"}
SPECIFICATION FairSpec
INVARIANTS
    TypeOK
    RestingSessionSettled
    HonestResult
    NoFixAppliedTwice
    BoundsNeverTrip
    HistoryCurrentAtRest
    HistoryMissesAtMostOne
    DiagnosisAccountsForCloud
PROPERTIES
    OneWriter
    DeclineIsFinal
    WaitEnds
