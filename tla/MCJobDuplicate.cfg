SPECIFICATION Spec
CONSTANTS
    d1 = d1
    c1 = c1
    w1 = w1
    w2 = w2
    Downloads = {d1}
    Children = {}
    Parent <- NoChild
    JobType <- Types1
    Workers = {w1, w2}
    NoTask = NoTask
    MaxAttempts = 2
    PublishLimit = 1
    MaxGen = 2
    MaxCopies = 2
    MaxCalls = 2
SYMMETRY WorkerSymmetry
INVARIANTS
    NoDuplicateExecution
CHECK_DEADLOCK FALSE
