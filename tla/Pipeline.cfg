SPECIFICATION Spec
CONSTANTS
    Depths = {"quick", "standard", "thorough"}
    Faults <- MCFaults
    Answers <- MCAnswers
    MaxTrouble = 2
    MaxSteps = 10
    MaxRounds = 3
    MaxAttempts = 3
INVARIANTS
    TypeOK
    NothingMissed
    FixAddressesAFault
    MissingEvidenceNeverAlarms
    AlarmingCardExplained
    OnlyChecksRun
    OffersAreNotRefused
PROPERTIES
    ImprovedMeansGone
    ContinuedIsCurrent
CHECK_DEADLOCK FALSE
