CONSTANTS
  s1 = s1
  s2 = s2
  None = None
  Rank <- MCRank2
  Second = 2
  DefaultCooldown = 5
  Replies <- MCReplies
  MaxNow = 4
  MaxInFlight = 0
SPECIFICATION Spec
INVARIANTS EligibleAfterCooldown
CHECK_DEADLOCK FALSE
