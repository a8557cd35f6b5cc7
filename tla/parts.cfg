SPECIFICATION Spec
CONSTANTS
    LastRecord = 3
    Limit = 2
    Bad = {3}
    FromStart = FALSE
    MaxStarts = 2
    Call = {c1, c2}
    TaskId = {i1}
    Nothing = Nothing
    Post = {p1, p2}
    Tool = {t1}
    MaxServes = 2
    Browser = {b1, b2}
    Callback = {q1, q2}
    Challenge = {h1, h2}
    StateLife = 1
    SessionLife = 2
    MaxTime = 3
    NoChallenge = NoChallenge
    NoBrowser = NoBrowser
    Trigger = {"nightly"}
    JobKind = {"interval", "db_watch"}
    Queried = {"db_watch"}
    HistoryCap = 2
    HistoryKept = 2
    MaxHooks = 2
    MaxFirings = 3
    Thread = {t1, t2, t3}
    Instance = {i1, i2}
    NoThread = NoThread
    MaxEdits = 2
    Usage = {1, 2}
    RecentTurns = {0, 1, 2}
    MaxTurns = 5
    Compression = {z1, z2}
    Run = {r1, r2}
    Context = ctx
    Nodes <- MCNodes
    MaxResumes = 1
    MaxIterations = 4
    Used = {0, 3}
    Operated = {ctx}
    HistoryLimit = 1
    ToolRegistry = {"search", "report"}
    Document <- MCDocument
    Output <- MCOutput
    IndexOf <- MCIndexOf
    MaxCycles = {2, 3}
    MaxThoughts = {2, 5}
    Owner = {w1, w2}
    MaxResumed = 2
    MaxEntries = 3
    Observed = {"search"}
    Agent = {"", "a"}
    Model = {"", "opus"}
    Token = {2}
    Price = {1, 3}
    RecordLimit = {0, 1, 2}
    MaxRecorded = 3
INVARIANTS
    AcknowledgedMeansHandled
    OutcomeIsOwn
    OneSessionPerLogin
    HistoryIsNewest
    NoUpdateIsLost
    TurnsAreKept
    HistoryFollowsRuns
    BranchesAreAsWritten
    CompletedMeansAccepted
    SummariesAddUp
PROPERTIES
    RecordsAreServed
    HeldTasksEnd
    PostsAreAnswered
    RemovedTriggersStayQuiet
    TrailIsKept
CHECK_DEADLOCK FALSE
