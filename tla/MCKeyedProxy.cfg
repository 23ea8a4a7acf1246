CONSTANTS
  s1 = s1
  s2 = s2
  s3 = s3
  own = own
  donor = donor
  None = None
  Rank <- ThreeRank
  PoolOf <- ThreePool
  ProviderOf <- ThreeProvider
  Second = 1
  DefaultCooldown = 1
  Replies <- MCReplies
  MaxNow = 1
  Requests = {r1}
  MaxAttempts = 2
  Keys = {k1}
  Users = {own, u2}
  Donor = donor
SPECIFICATION KeyedFairSpec
INVARIANTS KeyOpensItsPool
PROPERTIES KeepsLease GetsAnswer RevokedKeyDrains
CHECK_DEADLOCK FALSE
