CONSTANTS
    Length <- MCLength
    Hex <- MCHex
    Atol <- MCAtol
    Scripts <- MCScripts
    Broadcasts <- MCBroadcasts
    NodeIds = {3, 4}
    MaxRegisters = 1
    MaxConflicts = 1
    ConflictsEnd = TRUE
    MAX_BROADCAST_CACHE_SIZE = 2
    ASCII_BUFFER_SIZE = 64
    REGISTER_ARRAY_SIZE = 57
SPECIFICATION FairSpec
INVARIANT AcksWhatItNames
CHECK_DEADLOCK FALSE
