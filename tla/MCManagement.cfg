\* Two calls at a time, three states (two logins and a link, or two links), two
\* identities: first logins that race, a state brought back by two calls, by
\* another user or to the other endpoint, a crash or a storage error at any await.
SPECIFICATION FairSpec
CONSTANTS
  Calls = {c1, c2}
  None = None
  Serialised = TRUE
  MaxStates = 3
  MaxFaults = 1
  Externals = {e1, e2}
  e1 = e1
  e2 = e2
  k1 = k1
  k2 = k2
  n1 = n1
  n2 = n2
  IssuerKeys = {k1, k2}
  Kids = {n1, n2}
  Authenticated <- MCAuthenticated
  Served <- MCServed
  MaxUsers = 2
  MaxSessions = 2
  VerifyAttempts = 2
  MaxSubs = 2
INVARIANTS TypeOK RedeemedOnce OneUserPerIdentity SessionIsTheirs LandsInItsPool OnlyVerifiedJoin
PROPERTIES OwnersOnly CallAnswered KeepsStates
\* The tables are full and everybody is served: at rest.
CHECK_DEADLOCK FALSE
