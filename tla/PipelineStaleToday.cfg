SPECIFICATION Spec
CONSTANTS
    Texts <- MCTexts
    Ratio <- MCRatio
    HighVolume <- MCHighVolume
    NameCritical = 85
    NameWarning = 95
    AddressThreshold = 70
    ConfidenceThreshold = 75
    Docs = {"d1", "d2"}
    Source <- OwnText
    Readings <- TodayReadings
    Packages <- OneIndividual
    Sanctioned = {}
    Peps = {}
    MaxRetries = 0
    RecursionLimit = 25
    EvaluatorEnabled = TRUE
    AuditMayFail = FALSE
    DaysUp = 1
    MaxCrashes = 0
INVARIANTS
    NothingExpiredApproved
