SPECIFICATION FairSpec
CONSTANTS
    Sessions = {a, b}
    Ghost = Ghost
    NoLock = NoLock
    MaxStarts = 1
    Tasks = {t1}
    MaxClock = 1
    MaxEdits = 1
    Absent = Absent
CHECK_DEADLOCK FALSE
INVARIANT SoleOwner
INVARIANT FiresOnce
PROPERTY DueIsHandled
