SPECIFICATION Spec
CONSTANTS
    Process = {p1, p2}
    None = None
    Last = 1
    Recoverable = {1}
    MaxCalls = 2
    MaxResumes = 1
SYMMETRY AnyProcess
INVARIANT OperatorControlHolds
