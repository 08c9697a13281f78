\* query(RU_MAX) after several datapoints in one bucket.
CONSTANTS
    Interval = 2
    FileLen = 4
    NumFiles = 3
    Values = {1, 2}
    MaxPoints = 3
    MaxEmitted = 9
    INVALID = INVALID
    NoTsdb = NoTsdb

SPECIFICATION Spec
INVARIANT QueryMaxIsMax
\* a series may go cold: the aggregator then receives nothing more
CHECK_DEADLOCK FALSE
