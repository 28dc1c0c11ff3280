CONSTANTS
  Posts = {p1, p2, p3, p4}
  PageSize = 2
  WaitRetries = 3
  MaxConvs = 6
  MaxMoved = 4
  ListPageSize = 2
  MessagePageSize = 2
  MaxHistory = 7
  MaxCards = 2
  Children = {x, y}
  MaxAnchors = 3
  MaxDrifts = 2
  None = None
  Callers = {a, b}
  Gap = 3
  MaxTime = 14
  Nobody = Nobody
SPECIFICATION LayerSpec
CHECK_DEADLOCK FALSE
INVARIANTS
  WalkCoversItsStart
  QuietAreListed
  HistoryHasNoGap
  MonthsAreAsShown
  MenuIsRead
  AtMostTwoPerGap
PROPERTY
  WalksEnd
