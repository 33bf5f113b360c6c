SPECIFICATION FairSpec
CONSTANTS
    l1 = l1
    l2 = l2
    f1 = f1
    f2 = f2
    d1 = d1
    d2 = d2
    s1 = s1
    s2 = s2
    t1 = t1
    a = a
    b = b
    r1 = r1
    r2 = r2
    p1 = p1
    p2 = p2
    None = None
    DownloadSessions = {}
    StreamSessions = {s1, s2}
    Clients = {a, b}
    Keys = {t1}
    Links = {}
    Files = {}
    FileOf <- NoLink
    OneTime = {}
    Requests = {}
    Tokens = {t1}
    Players = {p1, p2}
    DownloadConnections = 1
    StreamConnections = 2
    LinkLimit = 1
    SessionLimit = 1
    StreamLimit = 1
    RangeLimit = 0
    ResumeLimit = 0
    MaxLines = 2
    MaxFailures = 1
INVARIANTS
    OneSessionPerToken
    ConnectionsBounded
    CountersCover
PROPERTIES
    KeepsDeliveryContract
    LinesCharged
CHECK_DEADLOCK FALSE
