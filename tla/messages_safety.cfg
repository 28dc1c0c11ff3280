CONSTANTS
  c1 = c1
  c2 = c2
  Convs = {c1, c2}
  Recipient <- OneTeacher
  Suffixed <- Numbered
  Day <- TwoDays
  MinGap = 1
  MaxTime = 4
  MaxHistory = 3
  MaxSuffix = 4
  MaxInterrupts = 2
  MaxDeletions = 0
  CanForce = TRUE
  None = None
SPECIFICATION Spec
INVARIANTS
  HistoriesArePrefixes
  RowsAreBacked
  StampCoversHistory
  EveryPhaseIsSound
  OneDirectoryEach
  RefusedOnlyIfInterrupted
PROPERTIES
  NothingStoredIsLost
  ImplementsLedger
SYMMETRY Exchanges
