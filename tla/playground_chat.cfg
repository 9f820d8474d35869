SPECIFICATION FairSpec
CONSTANTS
    MaxRequests = 2
    Careful = TRUE
INVARIANTS
    TypeOK
    OwnAnswer
    StopMatchesSpinner
PROPERTIES
    FailedStaysFailed
    AnswerEnds
