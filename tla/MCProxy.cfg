CONSTANTS
  s1 = s1
  s2 = s2
  s3 = s3
  own = own
  donor = donor
  None = None
  Rank <- TwoRank
  PoolOf <- TwoPool
  ProviderOf <- TwoProvider
  Second = 1
  DefaultCooldown = 1
  Replies <- MCReplies
  MaxNow = 1
  Requests = {r1, r2}
  MaxAttempts = 2
SPECIFICATION Spec
INVARIANTS InFlightAccurate BoundedWork RefusedOnlyWhenFenced
SYMMETRY RequestsAlike
CHECK_DEADLOCK FALSE
