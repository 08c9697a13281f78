\* The file loses tsdb.data.dir, and the timer's reload lands between the
\* exists() and the get_str() of get_data_dir; no set_value calls.
CONSTANTS
    Keys = {k1, k2}
    Vals = {"int", "pair"}
    Threads = {t1}
    FileOk = {TRUE}
    MaxEdits = 1
    MaxSets = 0
    NoProp = NoProp
    DataDirKey = k1
    HomeKey = k2
    LogFileKey = k1
SPECIFICATION Spec
INVARIANT PathNeverLost
\* the process may end on a failed reload, and nothing runs after that
CHECK_DEADLOCK FALSE
