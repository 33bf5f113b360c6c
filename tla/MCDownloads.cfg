SPECIFICATION Spec
CONSTANTS
    l1 = l1
    l2 = l2
    f1 = f1
    f2 = f2
    d1 = d1
    d2 = d2
    s1 = s1
    s2 = s2
    t1 = t1
    a = a
    b = b
    r1 = r1
    r2 = r2
    p1 = p1
    p2 = p2
    None = None
    DownloadSessions = {d1, d2}
    StreamSessions = {}
    Clients = {a}
    Keys = {l1, l2}
    Links = {l1, l2}
    Files = {f1}
    FileOf <- OneFile
    OneTime = {l1}
    Requests = {r1, r2}
    Tokens = {}
    Players = {}
    DownloadConnections = 1
    StreamConnections = 1
    LinkLimit = 1
    SessionLimit = 1
    StreamLimit = 1
    RangeLimit = 1
    ResumeLimit = 0
    MaxLines = 1
    MaxFailures = 0
SYMMETRY Interchangeable
INVARIANTS
    TypeOK
    OneTimeOpensOnce
    LimitPerFile
    LinksWithinLimit
PROPERTIES
    KeepsDeliveryContract
CHECK_DEADLOCK FALSE
