CONSTANTS
  c1 = c1
  c2 = c2
  Convs = {c1}
  Recipient <- OneTeacher
  Suffixed <- Numbered
  Day <- OneDay
  MinGap = 1
  MaxTime = 3
  MaxHistory = 3
  MaxSuffix = 3
  MaxInterrupts = 1
  MaxDeletions = 0
  CanForce = FALSE
  None = None
SPECIFICATION Spec
INVARIANTS
  NoRunIsRefused
