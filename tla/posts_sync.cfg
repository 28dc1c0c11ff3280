CONSTANTS
  p1 = p1
  p2 = p2
  p3 = p3
  b1 = b1
  b2 = b2
  Posts = {p1, p2, p3}
  Slug <- MCSlug
  Suffixed <- MCSuffixed
  Media <- MCMedia
  MaxSuffix = 4
  MaxMishaps = 2
  CanForce = TRUE
  None = None
SPECIFICATION FairSpec
INVARIANTS
  RecordedIsComplete
  NoOrphanedNames
PROPERTIES
  SkippedIsComplete
  ImplementsLedger
  ArchiveCompletes
