\* A reload, or a set_value of the key, while a thread holds the reference get_str returned; the file never changes.
CONSTANTS
    Keys = {k1, k2}
    Vals = {"int", "pair"}
    Threads = {t1}
    FileOk = {TRUE}
    MaxEdits = 0
    MaxSets = 1
    NoProp = NoProp
    DataDirKey = k1
    HomeKey = k2
    LogFileKey = k1
SPECIFICATION Spec
INVARIANT NoDanglingRead
\* the process may end on a failed reload, and nothing runs after that
CHECK_DEADLOCK FALSE
