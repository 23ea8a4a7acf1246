CONSTANTS
  s1 = s1
  s2 = s2
  None = None
  Rank <- MCRank
  Second = 1
  DefaultCooldown = 1
  Sweeps = {w1, w2}
  Healthy = {s1}
  Replies <- MCReplies
  Good <- MCGood
  IdleThreshold = 1
  MaxSweep = 1
  AgeCap = 3
SPECIFICATION FairSpec
INVARIANTS AtMostOneSweep
PROPERTIES ProbesOnlyIdle FenceLifted
CHECK_DEADLOCK FALSE
