CONSTANT MaxChunks = 3
SPECIFICATION FairSpec
PROPERTIES SlotReturned
CHECK_DEADLOCK FALSE
