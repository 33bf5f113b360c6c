SPECIFICATION Spec
CONSTANTS
    lower = lower
    upper = upper
    other = other
    a1 = a1
    a2 = a2
    a3 = a3
    r1 = r1
    r2 = r2
    Advisory = Advisory
    None = None
    Admins = {a1, a2}
    Settings = {lower, upper, other}
    Requests = {r1, r2}
    Granted = {}
    Denied = {}
    RoleAllows = {a2}
    ReadOnly = {}
    MaxUses <- Uses
    Updates = {"suspended", "later"}
    Lower = lower
    Upper = upper
    Values <- Asked
    Supers = {a1, a2}
    First <- Catalog
    Profile <- OtherProfile
    ProfileKeys <- OtherKeys
    MaxVersion <- Versions
SYMMETRY RequestSymmetry
INVARIANTS
    TypeOK
    HistoryChains
    UsesCounted
    DeadlocksMixChanges
PROPERTIES
    SuperAdminRemains
    OutOfOrderIsFinal
    KeepsSettingsContract
CHECK_DEADLOCK FALSE
