SPECIFICATION Spec
CONSTANTS
    Texts <- MCTexts
    Ratio <- MCRatio
    HighVolume <- MCHighVolume
    NameCritical = 85
    NameWarning = 95
    AddressThreshold = 70
    ConfidenceThreshold = 75
    Docs = {"doc-id", "doc-poa", "doc-reg", "doc-ubo"}
    Source <- OneSource
    Readings <- NoReadings
    Packages <- MCPackages
    Sanctioned <- MCSanctioned
    Peps <- MCPeps
    IsoDate <- MCIsoDate
    GoldenSets <- MCGoldenSets
    AblationOnly = {TRUE, FALSE}
INVARIANTS
    TypeOK
    ExitZeroMeansNoMiss
    AblationOnlyLoses
    HallucinationNotApproved
    CrashNeedsMarker
    ResultsReproduced
