CONSTANTS
  Writers = {w1, w2, w3}
  Chunks = 2
  MaxPowerCuts = 2
  None = None
SPECIFICATION RSpec
CHECK_DEADLOCK FALSE
INVARIANTS
  FileIsWhole
  SavedIsThere
  ClaimSurvives
