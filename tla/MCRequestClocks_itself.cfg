\* A unit of time is some 400 ms; at 125 kbps the longest random delay is shorter than one.
CONSTANTS
    JOIN_ACCEPT_DELAY = 4
    JOIN_RETRANSMIT_DELAY = 1
    PING_TIMEOUT = 6
    REQUEST_TIMEOUT = 5
    REQUEST_MAX_REPEAT = 2
    MaxDelay = 1
    MaxAge = 7
    MaxConflicts = 2
    ConflictsEnd = TRUE
SPECIFICATION FairSpec
INVARIANT RepeatsItself
