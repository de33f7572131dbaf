CONSTANTS
    Counts <- MCCounts
SPECIFICATION Spec
INVARIANT AllCubesAddressable
CHECK_DEADLOCK FALSE
