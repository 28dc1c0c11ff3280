CONSTANTS
  Months = {jan, feb}
  Bills = {b1, b2}
  MaxChanges = 3
  MaxInterrupts = 1
  MaxDeletions = 1
  CanForce = TRUE
  None = None
SPECIFICATION FairSpec
INVARIANTS
  StampsAreBacked
PROPERTIES
  HistoryIsNotErased
  ArchiveCompletes
  ForcedRunsRefresh
