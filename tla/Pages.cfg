SPECIFICATION Spec
CONSTANTS
    Installations <- MCInstallations
    MaxEdits = 2
    MaxSending = 1
INVARIANTS
    TypeOK
    KeysStayHome
    LocalStaysLocal
    BannerNamesAI
    SentAsNamed
    LiveWhileShown
    NeverPilesUp
PROPERTIES
    LiveNeverStalls
