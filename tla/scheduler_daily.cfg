SPECIFICATION LiveSpec
CONSTANTS
    Thread = {w1}
    None = None
    Interval = {i}
    Cron = {c}
    Watch = {}
    Day = 2
    Due = {1}
    Bad = {}
    Period = 1
    Slow = {}
    Blocking = {}
    MaxAge = 1
    MaxEdits = 0
PROPERTIES
    CronsAreServed
