SPECIFICATION TimedSpec
CONSTANTS
    Node = {n1, n2}
    UniqueIds = {1, 2}
    ID_RANGE = 4
    JOIN_ACCEPT_DELAY = 8
    RetransmitDelays = {2}
    MaxLosses = 1
CHECK_DEADLOCK FALSE
INVARIANT UniqueNames
