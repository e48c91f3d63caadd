SPECIFICATION Spec
CONSTANTS
    CACHE_LENGTH = 2
    SEQ_RANGE = 16
    SEQ_EXPIRE = 3
    Node <- TwoNodes
    Text <- Texts
    Served <- BothServe
    Values = {1}
    Measured = {1}
    Found <- Bytes
    Listeners = {1}
    Plans <- CrossingOnly
    MAX_REPEAT_CACHE_SIZE = 2
    RESPONSE_MAX_REPEAT = 2
INVARIANT SetOkStored
