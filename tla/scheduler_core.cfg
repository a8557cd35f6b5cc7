SPECIFICATION LiveSpec
CONSTANTS
    Thread = {w1, w2}
    None = None
    Interval = {i}
    Cron = {c, b}
    Watch = {d}
    Day = 2
    Due = {1}
    Bad = {b}
    Period = 1
    Slow = {i}
    Blocking = {i}
    MaxAge = 1
    MaxEdits = 1
INVARIANTS
    StoppedIsQuiet
PROPERTIES
    CronFiresOncePerMinute
    IntervalsAreServed
