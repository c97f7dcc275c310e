SPECIFICATION FairSpec
CONSTANTS
    Scheduler = "scheduler"
    SyncPage = "sync_page"
    Loaders = {"scheduler"}
    Savers = {"sync_page", "runtime_page"}
    SectionOf <- PageSections
    SyncSettings = {0, 2}
    r0 = r0
    r1 = r1
    Runtime = {r0, r1}
    Missing = Missing
    Empty = Empty
    Garbled = Garbled
    Default <- BundledConfig
    MaxInterval = 2
INVARIANTS
    SavedUnlessDefaulted
    OneActivity
PROPERTIES
    SyncsUnderCurrentSettings
    AutomaticUnlessUnwoken
CHECK_DEADLOCK FALSE
