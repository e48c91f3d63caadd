SPECIFICATION Spec
CONSTANTS
    CACHE_LENGTH = 3
    SEQ_RANGE = 6
    SEQ_EXPIRE = 2
    Sender = {1, 2}
    Lag = 1
    MaxNumber = 8
INVARIANT HandledOnce
