CONSTANTS
    Length <- MCLength
    Hex <- MCHex
    Atol <- MCAtol
    Scripts <- Lists
    Broadcasts <- MCBroadcasts
    NodeIds = {254, 255}
    MaxRegisters = 1
    MaxConflicts = 1
    ConflictsEnd = TRUE
    MAX_BROADCAST_CACHE_SIZE = 2
    ASCII_BUFFER_SIZE = 64
    REGISTER_ARRAY_SIZE = 57
SPECIFICATION FairSpec
INVARIANT EveryIdListed
CHECK_DEADLOCK FALSE
