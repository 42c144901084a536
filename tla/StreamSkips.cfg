SPECIFICATION Spec
CONSTANTS
    Plans <- MCPlans
    Emits <- MCEmits
    Backends = {"postgres"}
    MayFail = FALSE
INVARIANTS
    EveryEventStreamed
