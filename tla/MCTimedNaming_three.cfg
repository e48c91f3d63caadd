SPECIFICATION TimedSpec
CONSTANTS
    Node = {n1, n2, n3}
    UniqueIds = {1, 2, 3}
    ID_RANGE = 5
    JOIN_ACCEPT_DELAY = 4
    RetransmitDelays = {1}
    MaxLosses = 1
SYMMETRY NodeSymmetry
CHECK_DEADLOCK FALSE
INVARIANT UniqueNames
