SPECIFICATION FairSpec
CONSTANTS
    Reviewers = {"anna", "boris"}
    Wants <- OneApproves
    Viewers = {"vera"}
    Overlap = FALSE
    MaxRestarts = 2
INVARIANTS
    TypeOK
    DecisionRecorded
    AcceptedDecides
    
PROPERTIES
    OneVerdict
    ImplementsDesk
    StatusGoesForward
    QuestionIsAnswered
