CONSTANTS
  x = x
  Items <- MCItems
  MaxMishaps = 3
  None = None
SPECIFICATION FairSpec
INVARIANTS
  OnlyHarmIsSeen
  RecordedIsWhole
  CleanIsSound
PROPERTY
  DumpHeals
