SPECIFICATION Spec
CONSTANTS
    LastRecord = 3
    Limit = 2
    Bad = {3}
    FromStart = FALSE
    MaxStarts = 2
INVARIANT UnhandledMayComeBack
CHECK_DEADLOCK FALSE
