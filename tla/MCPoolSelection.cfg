CONSTANTS
  s1 = s1
  s2 = s2
  None = None
  Rank <- MCRank2
  Second = 2
  DefaultCooldown = 5
  Replies <- MCReplies
  MaxNow = 4
  MaxInFlight = 20
SPECIFICATION Spec
INVARIANTS FencedNeverPicked PicksLeastLoaded RetryAfterSound SpreadsLoad
CHECK_DEADLOCK FALSE
