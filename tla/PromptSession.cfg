SPECIFICATION FairSpec
CONSTANTS
    p1 = p1
    p2 = p2
    s1 = s1
    b1 = b1
    n1 = n1
    n2 = n2
    a1 = a1
    u1 = u1
    r1 = r1
    i1 = i1
    NoTurn = NoTurn
    t1 = t1
    t2 = t2
    Prompts = {}
    Slashes = {s1}
    Bashes = {}
    Notices = {n1}
    Alerts = {}
    SubNotices = {u1}
    CronRuns = {r1}
    Incoming = {i1}
    Turns = {t1, t2}
    SameTask <- NoPairs
CHECK_DEADLOCK FALSE
INVARIANT QueryStaysCancellable
INVARIANT RunRecordTrue
INVARIANT NothingForgotten
PROPERTY StaleEndHarmless
PROPERTY QueueDrains
