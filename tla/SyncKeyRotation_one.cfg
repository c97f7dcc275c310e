SPECIFICATION Spec
CONSTANTS
    Devices = {d1}
    Providers <- AllKinds
    Restoring = {"s3"}
    Unconditional = {"gist"}
    Keys = {k1, k2, k3}
    FirstKey = k1
    Nothing = Nothing
    MaxRevision = 5
    MaxFailures = 1
INVARIANTS
    KeyInHand
PROPERTIES
    ResumeIsNotRefused
