SPECIFICATION Spec
CONSTANTS
    Manager = {m1, m2}
    Session = {s1, s2}
    Slot = {o1, o2}
    None = None
    MaxResumes = 1
    Budget = 0
    MaxUsed = 0
    MaxFaults = 1
SYMMETRY SessionsToo
INVARIANTS
    UnpausedIsCurrent
PROPERTY ImplementsLease
CHECK_DEADLOCK FALSE
