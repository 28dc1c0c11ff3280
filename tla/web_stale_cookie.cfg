CONSTANT MaxRedirects = 5
SPECIFICATION Spec
INVARIANT
  LatestCookieWins
