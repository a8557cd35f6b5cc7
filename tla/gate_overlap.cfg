SPECIFICATION Spec
CONSTANTS
    v1 = v1
    v2 = v2
    s1 = s1
    s2 = s2
    Supervisor = {v1, v2}
    Session = {s1, s2}
    SessionOf <- TwoSessions
    Tool = {t1}
    Arg = {a1, a2}
    Confirm = {t1}
    Id = {i1, i2}
    Call = {c1, c2}
    None = None
    MaxRequests = 1
    TTL = 1
    MaxTime = 1
SYMMETRY Interchangeable
INVARIANT RemovalIsTemporary
CHECK_DEADLOCK FALSE
