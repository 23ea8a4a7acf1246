\* Two requests and one sweep over one row pair: joins, stale snapshots and
\* crashes between every two awaits; two faults, so that a second one can hit
\* the handling of the first.
SPECIFICATION FairSpec
CONSTANTS
  Subs = {s1}
  Requests = {r1, r2}
  Probers = {p1}
  None = None
  MaxGen = 2
  MaxFaults = 2
INVARIANTS TypeOK SingleFlight NoWedgedEntry PersistedBeforeUse DeadGrantFenced
PROPERTIES NeverRevived RefresherAnswered KeepsCustody
\* Rows never come back into service: with all of them out and nobody working,
\* the system is at rest.
CHECK_DEADLOCK FALSE
