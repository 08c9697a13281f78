\* Config::c_str over every buffer size up to one past the longest text,
\* for one to three properties: the JSON object when the text fits.
CONSTANTS
    Sizes = {1, 2, 3, 4, 5, 6, 7, 8, 9, 10, 11, 12, 13, 14, 15, 16, 17, 18, 19, 20, 21, 22, 23, 24, 25, 26, 27, 28, 29, 30, 31, 32, 33, 34, 35, 36, 37, 38, 39, 40, 41, 42}
    EntryLens = {12, 13}
    MinEntries = 1
    MaxEntries = 3
SPECIFICATION Spec
INVARIANT CStrIsObject
\* c_str returns after the closing snprintf: the final state has no successor.
CHECK_DEADLOCK FALSE
