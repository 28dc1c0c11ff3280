CONSTANTS
  Categories = {"announcements", "galleries", "messages", "documents", "settlements", "all"}
  MaxSessions = 3
  MaxFaults = 2
SPECIFICATION FairSpec
INVARIANTS
  SuccessIsComplete
  LoginIsNeeded
PROPERTY
  FollowingAdviceSuffices
