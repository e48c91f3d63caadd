CONSTANTS
    Length <- MCLength
    Hex <- MCHex
    Atol <- MCAtol
    Scripts <- Nonsense
    Broadcasts <- MCBroadcasts
    NodeIds = {3, 4}
    MaxRegisters = 1
    MaxConflicts = 1
    ConflictsEnd = FALSE
    MAX_BROADCAST_CACHE_SIZE = 2
    ASCII_BUFFER_SIZE = 64
    REGISTER_ARRAY_SIZE = 57
SPECIFICATION FairSpec
PROPERTY AlwaysBack
CHECK_DEADLOCK FALSE
