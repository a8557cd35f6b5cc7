SPECIFICATION Spec
CONSTANTS
    Manager = {m1, m2}
    Session = {s1}
    Slot = {o1, o2, o3}
    None = None
    MaxResumes = 2
    Budget = 1
    MaxUsed = 2
    MaxFaults = 0
SYMMETRY Interchangeable
INVARIANTS
    OneOwnerPerGeneration
    ChargedWithinBudgetIsDurable
    OwnerSeesAllUsage
CHECK_DEADLOCK FALSE
