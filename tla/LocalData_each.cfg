SPECIFICATION Spec
CONSTANTS
  MaxOutput = 4
  MaxKept = 1
  MaxFaults = 3
  NoFile = NoFile
  Rows = {1, 2, 3}
  Windows = {1}
  Panes = {1, 2}
  NoRow = 0
  Catalogs <- MCCatalogs
  Bytes <- MCBytes
  OutputStreams <- MCStreams
  Marker <- MCMarker
  MaxOsc = 5
  MaxBlocks = 2
INVARIANTS
  LocalTypeOK
  OutputInOrder
  CaptureSurvives
  DeletedIsLetGo
  FavoritesAsShown
  PiecesDoNotMatter
PROPERTIES
  ChangesAreStamped
CHECK_DEADLOCK FALSE
