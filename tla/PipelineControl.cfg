SPECIFICATION ReviewedSpec
CONSTANTS
    Texts <- MCTexts
    Ratio <- MCRatio
    HighVolume <- MCHighVolume
    NameCritical = 85
    NameWarning = 95
    AddressThreshold = 70
    ConfidenceThreshold = 75
    Docs = {"d1", "d2"}
    Source <- SharedText
    Readings <- BadDateReadings
    Packages <- OneIndividual
    Sanctioned = {}
    Peps = {}
    MaxRetries = 1
    RecursionLimit = 9
    EvaluatorEnabled = TRUE
    AuditMayFail = FALSE
    DaysUp = 0
    MaxCrashes = 1
INVARIANTS
    ExhaustedStepDegrades
    PayloadIsCurrent
    FailsOnlyOnBadDate
    TrailExplainsDecision
PROPERTIES
    DecisionDiscipline
    ImplementsLifecycle
    SettledUnlessLost
    ReviewedCaseCompletes
