SPECIFICATION TimedFairSpec
CONSTANTS
    Node = {n1, n2}
    UniqueIds = {1, 2}
    ID_RANGE = 4
    JOIN_ACCEPT_DELAY = 9
    RetransmitDelays = {1, 2}
    MaxLosses = 1
CHECK_DEADLOCK FALSE
INVARIANTS TimedTypeOK UniqueNames
PROPERTY JoinCompletes
