CONSTANTS
    ARRAY_SIZE = 5
    Strings <- MCStrings
    Numbers <- MCNumbers
    Indexes = {1}
    MaxSets = 5
SPECIFICATION Spec
INVARIANT RepeatKnown
