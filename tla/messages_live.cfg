CONSTANTS
  c1 = c1
  c2 = c2
  Convs = {c1, c2}
  Recipient <- OneTeacher
  Suffixed <- Numbered
  Day <- OneDay
  MinGap = 1
  MaxTime = 3
  MaxHistory = 2
  MaxSuffix = 4
  MaxInterrupts = 1
  MaxDeletions = 1
  CanForce = TRUE
  None = None
SPECIFICATION FairSpec
PROPERTIES
  ArchiveCompletes
  ForcedRunsRepair
