SPECIFICATION Spec
CONSTANTS
    Node = {n1, n2, n3}
    UniqueIds = {1, 2}
    ID_RANGE = 3
CHECK_DEADLOCK FALSE
INVARIANT NobodyIsBroadcast
