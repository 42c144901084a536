SPECIFICATION FairSpec
CONSTANTS
    Plans <- MCPlans
    MaxRetries = 1
INVARIANTS
    TypeOK
    OutageReported
PROPERTIES
    ImplementsSteps
    NodeEnds
