SPECIFICATION Spec
CONSTANTS
    c1 = c1
    c2 = c2
    c3 = c3
    i1 = i1
    i2 = i2
    x = x
    y = y
    p = p
    q = q
    Clients = {c1, c2, c3}
    Ids = {i1, i2}
    Texts = {x, y}
    Profiles = {p, q}
    NoProfile = NoProfile
    NoRecord = NoRecord
    Nobody = Nobody
    Keep = Keep
    Jobs <- MCJobs
    Stores <- MCStores
    MaxAttempts = 2
    MaxFaults = 1
CHECK_DEADLOCK FALSE
INVARIANTS
    RecordsMatchProfile
PROPERTIES
    IsLedger
    ConflictIsForeign
    EveryCommandEnds
