SPECIFICATION Spec
CONSTANTS
    j1 = j1
    j2 = j2
    normal = normal
    small = small
    Jobs = {j1, j2}
    Plans = {normal, small}
    Limit <- PlanLimit
    NoLimit = NoLimit
    MaxFile <- PlanFile
    Concurrent <- PlanJobs
    Length <- Lengths
    MaxTime = 1
SYMMETRY JobSymmetry
INVARIANTS
    TypeOK
    LedgerBalances
    WithinLimit
    SettlingNeverRaises
    ChargesMatchOutcome
PROPERTY
    KeepsQuotaContract
CHECK_DEADLOCK FALSE
