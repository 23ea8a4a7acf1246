CONSTANTS
  Procs = {p1, p2}
  Script = 3
  Atomic = FALSE
  k1 = k1
  k2 = k2
  Keys = {k1, k2}
  Rings <- MCRings
  Workers = {w1}
  Subs = {s1}
  None = None
  Close = Close
SPECIFICATION FairSpec
INVARIANTS TypeOK SchemaWhole StopIsOrderly NewestReadsAll
PROPERTIES StopEnds
CHECK_DEADLOCK FALSE
