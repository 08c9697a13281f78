\* A value of the form "a," in the file: the read with which = 1 hands stoi the empty half.
CONSTANTS
    Keys = {k1, k2}
    Vals = {"int", "half"}
    Threads = {t1}
    FileOk = {TRUE}
    MaxEdits = 0
    MaxSets = 0
    NoProp = NoProp
    DataDirKey = k1
    HomeKey = k2
    LogFileKey = k1
SPECIFICATION Spec
INVARIANT CountReadNeverThrows
\* the process may end on a failed reload, and nothing runs after that
CHECK_DEADLOCK FALSE
