SPECIFICATION Spec
SYMMETRY SameCalls
CONSTANTS
    Call = {c1, c2, c3}
    Arg = {"raw", "clean"}
    Model = {m1, m2}
    Redacted <- MCRedacted
    Policies <- MCPolicies
    TokenBudget = 1
    MaxTicks = 3
    Nobody = Nobody
    Window = 2
    LoopWindow = 1
    Ttl = 2
    CategoryLimit = 2
    MaxRepeats = 1
    MinAgree = 2
INVARIANTS
    WindowsHold
    AnsweredIsNotRerun
    TokensAreAttributed
CHECK_DEADLOCK FALSE
