\* Tsdb files whose length (5) is not a multiple of the rollup interval (2):
\* the second gap loop starts at the file's first second, not at a bucket.
CONSTANTS
    Interval = 2
    FileLen = 5
    NumFiles = 3
    Values = {1, 2}
    MaxPoints = 3
    MaxEmitted = 9
    INVALID = INVALID
    NoTsdb = NoTsdb

SPECIFICATION Spec
INVARIANT AggregatesMatchBuckets
\* a series may go cold: the aggregator then receives nothing more
CHECK_DEADLOCK FALSE
