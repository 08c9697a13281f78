\* A buffer too small for the properties: the closing snprintf at idx-2.
CONSTANTS
    Sizes = {1, 2, 8, 13, 14, 15, 16, 20}
    EntryLens = {12, 13}
    MinEntries = 1
    MaxEntries = 2
SPECIFICATION Spec
INVARIANT WritesInBounds
CHECK_DEADLOCK FALSE
