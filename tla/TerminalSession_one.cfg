SPECIFICATION FairSpec
CONSTANTS
    Sessions = {s1}
    Workers = {w1, w2}
    Sizes = {1, 2}
    StartKind = "local"
    StartSize = 1
    MaxChunks = 2
    MaxCommands = 1
    MaxPollChunks = 2
    None = None
INVARIANTS
    NoLostWakeup
    CallbackHasOwner
    RemoteSizeCurrent
PROPERTIES
    EndsComplete
    CallsReturn
    EndIsNoticed
CHECK_DEADLOCK FALSE
