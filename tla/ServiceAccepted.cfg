SPECIFICATION Spec
CONSTANTS
    Reviewers = {"anna"}
    Wants <- OneApproves
    Viewers = {"vera"}
    Overlap = FALSE
    MaxRestarts = 1
INVARIANTS
    AcceptedCaseIsKnown
