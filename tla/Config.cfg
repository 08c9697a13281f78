\* Two keys, one thread reading listener counts, the timer reloading while the
\* file is edited and may become unreadable, and set_value.
CONSTANTS
    Keys = {k1, k2}
    Vals = {"int", "half"}
    Threads = {t1}
    FileOk = {TRUE, FALSE}
    MaxEdits = 1
    MaxSets = 1
    NoProp = NoProp
    DataDirKey = k1
    HomeKey = k2
    LogFileKey = k1
SPECIFICATION FairSpec
INVARIANT PathLostOnlyOnReload
PROPERTY FileEventuallyInForce
\* the process may end on a failed reload, and nothing runs after that
CHECK_DEADLOCK FALSE
