\* c_str of a configuration without properties, in a large buffer.
CONSTANTS
    Sizes = {16}
    EntryLens = {12}
    MinEntries = 0
    MaxEntries = 1
SPECIFICATION Spec
INVARIANT CStrIsObject
CHECK_DEADLOCK FALSE
