SPECIFICATION Spec
CONSTANTS
    Texts <- MCTexts
    Ratio <- MCRatio
    HighVolume <- MCHighVolume
    NameCritical = 85
    NameWarning = 95
    AddressThreshold = 70
    ConfidenceThreshold = 75
    Docs = {"d1", "d2"}
    Source <- OwnText
    Readings <- CaseReadings
    Packages <- Customers
    Sanctioned = {"mallory", "shell"}
    Peps = {"mallory", "olaf"}
    MaxRetries = 0
    RecursionLimit = 8
    EvaluatorEnabled = TRUE
    AuditMayFail = FALSE
    DaysUp = 0
    MaxCrashes = 0
INVARIANTS
    TypeOK
    AutoApprovalIsEarned
    EscalationRecall
    ApprovalIsGranted
