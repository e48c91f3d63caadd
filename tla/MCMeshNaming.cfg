SPECIFICATION Spec
CONSTANTS
    Node = {n1, n2, n3}
    UniqueIds = {1, 2, 3}
    ID_RANGE = 4
SYMMETRY BootSymmetry
CHECK_DEADLOCK FALSE
INVARIANTS TypeOK NoGaps IdsBounded JoinsBacked ConflictsBacked
PROPERTIES JoinedIdPermanent ImplementsClaims
