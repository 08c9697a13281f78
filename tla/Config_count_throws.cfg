\* A key removed from the config file and reloads, one between the exists() and get_int() of one count read.
CONSTANTS
    Keys = {k1, k2}
    Vals = {"int", "pair"}
    Threads = {t1}
    FileOk = {TRUE}
    MaxEdits = 1
    MaxSets = 0
    NoProp = NoProp
    DataDirKey = k1
    HomeKey = k2
    LogFileKey = k1
SPECIFICATION Spec
INVARIANT CountReadNeverThrows
\* the process may end on a failed reload, and nothing runs after that
CHECK_DEADLOCK FALSE
