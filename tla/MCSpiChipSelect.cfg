SPECIFICATION Spec
CONSTANTS
    Lists <- MCLists
    Absent = Absent
    MaxLen = 3
INVARIANT ChipSelectHeld
CHECK_DEADLOCK FALSE
