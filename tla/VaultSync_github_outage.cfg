SPECIFICATION Spec
CONSTANTS
    d1 = d1
    d2 = d2
    s1 = s1
    s2 = s2
    r1 = r1
    r2 = r2
    Devices = {d1}
    Sessions = {s1}
    Records = {r1}
    DeviceOf <- Alone
    Transport = "github"
    Strategies = {"smart_merge"}
    Budget <- OneOutage
    MaxAttempts = 3
    MaxEdits = 1
    MaxSnapshots = 4
    SyncWhenClean = TRUE
INVARIANTS
    RollbackRefusalIsTrue
