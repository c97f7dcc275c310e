SPECIFICATION Spec
CONSTANTS
  x = x
  y = y
  Names = {x, y}
  Tasks = {1, 2}
  Parts = {1, 2}
  Plans <- MCPlans
  MaxFaults = 1
  NoItem = NoItem
  Attempts = {1, 2}
  HostKeys = {"k1", "k2"}
  AttemptPlans <- MCAttemptPlans
  MaxIdentities = 1
  MaxKnown = 2
  SftpTaskIds = {1, 2}
  TaskPlans <- MCTaskPlans
  NoSession = 0
  Forwards = {1}
  ForwardWorkers = {1, 2}
  Streams = {1, 2}
  NoWorker = 0
  TelnetOptions = {"naws", "echo", "status"}
  WindowSizes = {1, 2}
  MaxInitiatives = 2
  MaxResizes = 1
  StreamItems = 3
INVARIANTS
  ConnectionsTypeOK
  UploadKeepsTarget
  TrustBeforeCredentials
  EarlyCancelWins
  PortHeldOnce
  SettledAgrees
  StreamUnderstood
PROPERTIES
  SudoSessionKept
CHECK_DEADLOCK FALSE
