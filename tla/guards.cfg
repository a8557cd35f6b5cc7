SPECIFICATION GuardsSpec
CONSTANTS
    Call = {c1, c2, c3}
    None = None
    Threshold = 2
    Reset = 2
    MaxRestarts = 2
    LastStage = 3
    Timeout = 3
    MaxContextEdits = 2
    NoReport = NoReport
INVARIANTS
    TooManyFailuresTrip
    VerifiedMeansPassed
PROPERTIES
    BlockedForResetPeriod
    RecoveredToolIsUsed
    RunsEnd
