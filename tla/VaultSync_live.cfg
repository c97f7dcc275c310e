SPECIFICATION FairSpec
CONSTANTS
    d1 = d1
    d2 = d2
    s1 = s1
    s2 = s2
    r1 = r1
    r2 = r2
    Devices = {d1, d2}
    Sessions = {s1, s2}
    Records = {r1}
    DeviceOf <- OneEach
    Transport = "object"
    Strategies = {"smart_merge"}
    Budget <- OneOutage
    MaxAttempts = 3
    MaxEdits = 3
    MaxSnapshots = 9
    SyncWhenClean = FALSE
PROPERTIES
    EditsReachEveryDevice
CHECK_DEADLOCK FALSE
