SPECIFICATION FairSpec
CONSTANTS
    Reviewers = {"anna"}
    Wants <- OneApproves
    Viewers = {}
    Overlap = FALSE
    MaxRestarts = 1
PROPERTIES
    EscalatedCaseSurvives
