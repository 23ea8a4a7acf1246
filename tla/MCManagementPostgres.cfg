\* Two callbacks with one state, each in a Postgres transaction of its own.
SPECIFICATION Spec
CONSTANTS
  Calls = {c1, c2}
  None = None
  Serialised = FALSE
  MaxStates = 1
  MaxFaults = 0
  Externals = {e1}
  e1 = e1
  e2 = e2
  k1 = k1
  k2 = k2
  n1 = n1
  n2 = n2
  IssuerKeys = {k1, k2}
  Kids = {n1, n2}
  Authenticated <- OneLogin
  Served <- MCServed
  MaxUsers = 2
  MaxSessions = 2
  VerifyAttempts = 1
  MaxSubs = 1
INVARIANT RedeemedOnce
\* The tables are full and everybody is served: at rest.
CHECK_DEADLOCK FALSE
