SPECIFICATION FairSpec
CONSTANTS
    h1 = h1
    a = a
    b = b
    Devices = {1, 2}
    Hosts = {h1}
    Tags = {1, 2}
    Names = {a, b}
    None = None
    HostCreator <- OfTheFirst
    TagCreator <- OneTagEach
    Offset <- FirstAhead
    Skew = 1
    MaxTime = 3
    MaxEdits = 3
INVARIANTS
    StampNamesEdit
    TagsAsSaved
PROPERTIES
    LaterEditWins
    DevicesAgree
CHECK_DEADLOCK FALSE
