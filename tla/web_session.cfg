CONSTANT MaxRedirects = 5
SPECIFICATION Spec
INVARIANTS
  NoCookieIsLost
  FreshSessionIsAccepted
  LoginRedirectIsExpiry
PROPERTY
  EverythingEnds
