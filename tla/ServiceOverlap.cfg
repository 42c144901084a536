SPECIFICATION Spec
CONSTANTS
    Reviewers = {"anna", "boris"}
    Wants <- OneApproves
    Viewers = {}
    Overlap = TRUE
    MaxRestarts = 0
INVARIANTS
    LateReviewIsRefused
