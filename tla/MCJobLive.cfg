SPECIFICATION FairSpec
CONSTANTS
    d1 = d1
    c1 = c1
    w1 = w1
    w2 = w2
    Downloads = {d1}
    Children = {c1}
    Parent <- OneChild
    JobType <- Types2
    Workers = {w1}
    NoTask = NoTask
    MaxAttempts = 2
    PublishLimit = 1
    MaxGen = 2
    MaxCopies = 1
    MaxCalls = 1
INVARIANTS
    TriggerNeverRefuses
PROPERTIES
    KeepsContract
    EveryJobEnds
    QuotaComesBack
CHECK_DEADLOCK FALSE
