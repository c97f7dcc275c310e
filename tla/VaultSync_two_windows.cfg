SPECIFICATION Spec
CONSTANTS
    d1 = d1
    d2 = d2
    s1 = s1
    s2 = s2
    r1 = r1
    r2 = r2
    Devices = {d1}
    Sessions = {s1, s2}
    Records = {r1}
    DeviceOf <- BothOnOne
    Transport = "github"
    Strategies = {"smart_merge"}
    Budget <- OneOfEach
    MaxAttempts = 3
    MaxEdits = 2
    MaxSnapshots = 3
    SyncWhenClean = TRUE
PROPERTIES
    RevisionAdvances
