\* No fault at all: two requests and a row.
SPECIFICATION Spec
CONSTANTS
  Subs = {s1}
  Requests = {r1, r2}
  Probers = {}
  None = None
  MaxGen = 2
  MaxFaults = 0
INVARIANT EndpointHitOnce
CHECK_DEADLOCK FALSE
