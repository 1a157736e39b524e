CONSTANTS
    Names = {1, 2, 3, 4}
SPECIFICATION Spec
INVARIANTS
    NullOnlyForCycles
    StartsInOrder
CHECK_DEADLOCK FALSE
