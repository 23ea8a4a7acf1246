CONSTANT MaxChunks = 6
SPECIFICATION FairSpec
INVARIANTS OneHead CleanEndIsWhole
PROPERTIES AbortStopsReading RelayEnds
CHECK_DEADLOCK FALSE
