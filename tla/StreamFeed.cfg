SPECIFICATION FairSpec
CONSTANTS
    Plans <- MCPlans
    Emits <- MCEmits
    Backends = {"memory", "postgres"}
    MayFail = TRUE
INVARIANTS
    TypeOK
    ClosedWithLastEvent
PROPERTIES
    ImplementsFeed
    StreamEnds
