SPECIFICATION FairSpec
CONSTANTS
    Node = {n1, n2}
    UniqueIds = {1, 2}
    ID_RANGE = 4
CHECK_DEADLOCK FALSE
PROPERTY DuplicatesHeal
