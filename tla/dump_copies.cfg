CONSTANTS
  x = x
  Items <- MCItems
  MaxMishaps = 1
  None = None
SPECIFICATION Spec
INVARIANT
  CleanIsWholeTruth
