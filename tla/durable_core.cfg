SPECIFICATION LiveSpec
CONSTANTS
    Process = {p1, p2}
    None = None
    Last = 2
    Recoverable = {1}
    MaxCalls = 5
    MaxResumes = 2
INVARIANTS
    ActionsRunOnce
    StoppedMeansCompleted
PROPERTIES
    CompletionIsAuthorized
    ImplementsContract
    CompletionIsCleanedUp
