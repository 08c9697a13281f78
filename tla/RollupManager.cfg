\* In-order ingest over three consecutive Tsdb files, interval dividing the
\* file length, with explicit flushes.
CONSTANTS
    Interval = 2
    FileLen = 4
    NumFiles = 3
    Values = {1, 2}
    MaxPoints = 3
    MaxEmitted = 9
    INVALID = INVALID
    NoTsdb = NoTsdb

SPECIFICATION Spec
INVARIANT TypeOK
INVARIANT AggregatesMatchBuckets
INVARIANT RollupInOwnTsdb
\* a series may go cold: the aggregator then receives nothing more
CHECK_DEADLOCK FALSE
