\* A unit of time is some 400 ms; at 50 kbps the longest random delay is two.
CONSTANTS
    JOIN_ACCEPT_DELAY = 4
    JOIN_RETRANSMIT_DELAY = 1
    PING_TIMEOUT = 6
    REQUEST_TIMEOUT = 5
    REQUEST_MAX_REPEAT = 4
    MaxDelay = 2
    MaxAge = 13
    MaxConflicts = 2
    ConflictsEnd = TRUE
SPECIFICATION FairSpec
INVARIANT RepeatedBeforeTimeout
