\* A row of four needs a hop count of 2; 3 lets a repeat come back to who repeated it.
CONSTANTS
    Node <- MCNode
    Hears <- MCHears
    Joined <- MCJoined
    Serves <- MCServes
    Plans <- MCPlans
    CACHE_SIZE = 2
    MAX_HOP_COUNT = 3
    MaxLosses = 1
SPECIFICATION FairSpec
INVARIANTS TypeOK HopsBounded OneSlotEach RepeatedOnce
PROPERTIES StormEnds EverybodyHears
CHECK_DEADLOCK FALSE
