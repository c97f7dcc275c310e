SPECIFICATION Spec
CONSTANTS
    d1 = d1
    d2 = d2
    s1 = s1
    s2 = s2
    r1 = r1
    r2 = r2
    Devices = {d1}
    Sessions = {s1}
    Records = {r1}
    DeviceOf <- Alone
    Transport = "object"
    Strategies = {"smart_merge", "local_wins", "remote_wins"}
    Budget <- TwoRestores
    MaxAttempts = 3
    MaxEdits = 2
    MaxSnapshots = 6
    SyncWhenClean = TRUE
INVARIANTS
    RestoredAsNewRevision
    NextSyncAccepted
