\* The config file becomes unreadable before a timer reload; no set_value calls.
CONSTANTS
    Keys = {k1, k2}
    Vals = {"int", "pair"}
    Threads = {t1}
    FileOk = {TRUE, FALSE}
    MaxEdits = 1
    MaxSets = 0
    NoProp = NoProp
    DataDirKey = k1
    HomeKey = k2
    LogFileKey = k1
SPECIFICATION Spec
INVARIANT OverridesSurviveReload
\* the process may end on a failed reload, and nothing runs after that
CHECK_DEADLOCK FALSE
