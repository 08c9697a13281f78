---------------------------- MODULE RollupManager ----------------------------
(***************************************************************************)
(* The per-series streaming rollup aggregator, RollupManager in            *)
(* src/src/agg/rollup.cpp.  One instance accumulates (cnt, min, max, sum)  *)
(* for the bucket that starts at m_tstamp and hands each finished bucket   *)
(* to Tsdb::add_rollup_point of the Tsdb it is bound to (m_tsdb).          *)
(*                                                                         *)
(* Time is in seconds (to_sec is applied by the code before anything       *)
(* else).  The Tsdbs are NumFiles consecutive files, file f covering       *)
(* [f*FileLen, (f+1)*FileLen).  The ghost variables input, accum record    *)
(* what the caller gave the aggregator, so properties can compare the      *)
(* emitted aggregates with the datapoints.                                 *)
(***************************************************************************)
EXTENDS Integers, Sequences, SequencesExt

CONSTANTS
    Interval,    \* Tsdb::get_rollup_interval(), seconds
    FileLen,     \* length of one Tsdb time range, seconds
    NumFiles,    \* number of consecutive Tsdb files
    Values,      \* datapoint values (small integers stand for doubles)
    MaxPoints,   \* bound: datapoints given to add_data_point
    MaxEmitted,  \* bound: add_rollup_point calls made by explicit flush()
    INVALID,     \* TT_INVALID_TIMESTAMP
    NoTsdb       \* nullptr

ASSUME Interval > 0 /\ FileLen > 0 /\ NumFiles > 0

VARIABLES
    m_cnt, m_min, m_max, m_sum,   \* the accumulators
    m_tsdb,                       \* Tsdb the aggregator is bound to
    m_tstamp,                     \* lower bound of the current bucket
    emitted,                      \* add_rollup_point calls, in order
    input,                        \* ghost: datapoints received, in order
    accum                         \* ghost: values accumulated since the last flush

vars == <<m_cnt, m_min, m_max, m_sum, m_tsdb, m_tstamp, emitted, input, accum>>

Files == 0 .. NumFiles - 1
Timestamps == 0 .. NumFiles * FileLen - 1

\* Tsdb::get_time_range().get_from_sec() / get_to_sec() of file f
FromSec(f) == f * FileLen
ToSec(f) == (f + 1) * FileLen

\* The Tsdb whose time range holds t: the one the caller passes in.
TsdbOf(t) == t \div FileLen

\* fault: rounding up to the next bucket instead of down
StepDownRoundUp(t) == t + ((Interval - (t % Interval)) % Interval)

\* step-down of a timestamp to the lower bound of its bucket
StepDown(t) == t - (t % Interval)

MinOf(a, b) == IF a <= b THEN a ELSE b
MaxOf(a, b) == IF a >= b THEN a ELSE b

(***************************************************************************)
(* flush(): one add_rollup_point call with the accumulators, made while    *)
(* m_tstamp = ts and m_tsdb = tsdb.  The call carries no timestamp; the    *)
(* record keeps m_tstamp so that properties can say which bucket it is.    *)
(***************************************************************************)
Rollup(tsdb, ts, cnt, mn, mx, sum) ==
    [tsdb |-> tsdb, tstamp |-> ts, cnt |-> cnt, min |-> mn, max |-> mx, sum |-> sum]

\* flush() after the reset: an empty aggregate
EmptyRollup(tsdb, ts) == Rollup(tsdb, ts, 0, 0, 0, 0)

(***************************************************************************)
(* The m_tstamp values at which the loop                                   *)
(*     for (m_tstamp = ts; m_tstamp < limit; m_tstamp += interval) flush() *)
(* calls flush(); the loop leaves m_tstamp at LoopExit(ts, limit).         *)
(***************************************************************************)
RECURSIVE GapFill(_, _)
GapFill(ts, limit) ==
    IF ts < limit THEN <<ts>> \o GapFill(ts + Interval, limit) ELSE <<>>

LoopExit(ts, limit) == ts + Len(GapFill(ts, limit)) * Interval

EmptyRollups(tsdb, stamps) == [i \in 1 .. Len(stamps) |-> EmptyRollup(tsdb, stamps[i])]

\* fault: keep writing to the old Tsdb after the file was left
NextTsdbStale(tsdb, f, crossed) == tsdb

\* After the first gap loop: rebind to the caller's Tsdb if the file was left.
NextTsdb(tsdb, f, crossed) == IF crossed THEN f ELSE tsdb

\* The accumulation at the end of add_data_point.  m_max is computed from
\* the already updated m_min, exactly as the code does.
Accumulate(acc, value) ==
    LET mn == MinOf(acc.min, value)
    IN  [cnt |-> acc.cnt + 1, min |-> mn, max |-> MaxOf(mn, value), sum |-> acc.sum + value]

\* fault: no reset of the accumulators when a new bucket starts
KeepAccumulators == [cnt |-> m_cnt, min |-> m_min, max |-> m_max, sum |-> m_sum]

Reset == [cnt |-> 0, min |-> 0, max |-> 0, sum |-> 0]

Init ==
    /\ m_cnt = 0 /\ m_min = 0 /\ m_max = 0 /\ m_sum = 0
    /\ m_tsdb = NoTsdb
    /\ m_tstamp = INVALID
    /\ emitted = <<>>
    /\ input = <<>>
    /\ accum = <<>>

(***************************************************************************)
(* add_data_point(tsdb, mid, tid, dp).  The caller only passes in-order    *)
(* datapoints (the comment "Here we only handle in-order dps!") together   *)
(* with the Tsdb that holds the timestamp.                                 *)
(***************************************************************************)
AddDataPoint(f, t, v) ==
    LET tsdb    == IF m_tsdb = NoTsdb THEN f ELSE m_tsdb
        tstamp  == StepDown(t)
        cur     == IF m_tstamp = INVALID THEN tstamp ELSE m_tstamp
        end     == ToSec(tsdb)
        gap1    == GapFill(cur + Interval, MinOf(end, tstamp))
        exit1   == LoopExit(cur + Interval, MinOf(end, tstamp))
        crossed == exit1 >= end
        tsdb2   == NextTsdb(tsdb, f, crossed)
        gap2    == IF crossed THEN GapFill(FromSec(f), tstamp) ELSE <<>>
        exit2   == IF crossed THEN LoopExit(FromSec(f), tstamp) ELSE exit1
        acc     == [cnt |-> m_cnt, min |-> m_min, max |-> m_max, sum |-> m_sum]
        new     == Accumulate(IF tstamp # cur THEN Reset ELSE acc, v)
    IN
    /\ Len(input) < MaxPoints
    /\ f = TsdbOf(t)
    /\ input # <<>> => Last(input).t <= t
    /\ IF tstamp # cur
         THEN /\ emitted' = emitted
                            \o << Rollup(tsdb, cur, m_cnt, m_min, m_max, m_sum) >>
                            \o EmptyRollups(tsdb, gap1)
                            \o EmptyRollups(tsdb2, gap2)
              /\ m_tsdb' = tsdb2
              /\ m_tstamp' = exit2
              /\ accum' = <<v>>
         ELSE /\ emitted' = emitted
              /\ m_tsdb' = tsdb
              /\ m_tstamp' = cur
              /\ accum' = Append(accum, v)
    /\ m_cnt' = new.cnt /\ m_min' = new.min /\ m_max' = new.max /\ m_sum' = new.sum
    /\ input' = Append(input, [t |-> t, v |-> v])

(***************************************************************************)
(* flush(mid, tid) called from outside: nothing before the first           *)
(* datapoint, else one aggregate and a reset of the accumulators (m_tstamp *)
(* is kept).                                                               *)
(***************************************************************************)
Flush ==
    /\ m_tstamp # INVALID
    /\ Len(emitted) < MaxEmitted
    /\ emitted' = Append(emitted, Rollup(m_tsdb, m_tstamp, m_cnt, m_min, m_max, m_sum))
    /\ m_cnt' = 0 /\ m_min' = 0 /\ m_max' = 0 /\ m_sum' = 0
    /\ accum' = <<>>
    /\ UNCHANGED <<m_tsdb, m_tstamp, input>>

(***************************************************************************)
(* query(type, dp): the aggregate of the current bucket, or none (FALSE)   *)
(* when nothing was accumulated.  Used by the properties below.            *)
(***************************************************************************)
Query(type) ==
    IF m_cnt = 0 THEN "none"
    ELSE CASE type = "CNT" -> m_cnt
           [] type = "MIN" -> m_min
           [] type = "MAX" -> m_max
           [] type = "SUM" -> m_sum

Next ==
    \/ \E t \in Timestamps, v \in Values : AddDataPoint(TsdbOf(t), t, v)
    \/ Flush

Spec == Init /\ [][Next]_vars

-----------------------------------------------------------------------------
(* Properties *)

\* the bucket lower bounds inside the files
Buckets == {b \in Timestamps : b % Interval = 0}

TypeOK ==
    /\ m_cnt \in 0 .. MaxPoints
    /\ m_tsdb \in Files \cup {NoTsdb}
    /\ m_tstamp \in Buckets \cup {INVALID}
    /\ emitted \in Seq([tsdb : Files, tstamp : Buckets, cnt : Nat,
                        min : Int, max : Int, sum : Int])
    /\ input \in Seq([t : Timestamps, v : Values])

\* the datapoints the caller gave whose bucket is b
PointsIn(b) == {i \in 1 .. Len(input) : StepDown(input[i].t) = b}
EmittedAt(b) == {i \in 1 .. Len(emitted) : emitted[i].tstamp = b}

(***************************************************************************)
(* Every datapoint is counted, and summed, in the aggregate of its own     *)
(* bucket: for each bucket b the counts (sums) of the aggregates handed to *)
(* add_rollup_point at b, plus the accumulators if b is the current        *)
(* bucket, equal the number (sum) of datapoints whose step-down is b.      *)
(* Broken by a gap-filling loop that stops one bucket early or late, or a  *)
(* missing reset in flush().                                               *)
(***************************************************************************)
AggregatesMatchBuckets ==
    \A b \in Buckets :
        /\ MapThenSumSet(LAMBDA i : emitted[i].cnt, EmittedAt(b))
             + (IF m_tstamp = b THEN m_cnt ELSE 0)
           = Cardinality(PointsIn(b))
        /\ MapThenSumSet(LAMBDA i : emitted[i].sum, EmittedAt(b))
             + (IF m_tstamp = b THEN m_sum ELSE 0)
           = MapThenSumSet(LAMBDA i : input[i].v, PointsIn(b))

(***************************************************************************)
(* Every aggregate, the empty gap-fill ones included, is written to the    *)
(* Tsdb whose time range holds its bucket: the gap-filling loop of the old *)
(* file stops at the file's end and the aggregator rebinds to the new Tsdb *)
(* before filling the new file.                                            *)
(***************************************************************************)
RollupInOwnTsdb ==
    \A i \in 1 .. Len(emitted) :
        FromSec(emitted[i].tsdb) <= emitted[i].tstamp
        /\ emitted[i].tstamp < ToSec(emitted[i].tsdb)

(***************************************************************************)
(* Spec 8.5: the aggregates cover the time line without holes: each        *)
(* aggregate is at the bucket of the one before or the next bucket.        *)
(***************************************************************************)
NoMissingBuckets ==
    \A i \in 1 .. Len(emitted) - 1 :
        emitted[i + 1].tstamp \in {emitted[i].tstamp, emitted[i].tstamp + Interval}

(***************************************************************************)
(* query(RU_MAX) returns the largest value accumulated in the bucket.      *)
(***************************************************************************)
QueryMaxIsMax ==
    m_cnt > 0 => Query("MAX") = Max(ToSet(accum))

(***************************************************************************)
(* query(RU_MIN) returns the smallest value accumulated in the bucket.     *)
(***************************************************************************)
QueryMinIsMin ==
    m_cnt > 0 => Query("MIN") = Min(ToSet(accum))

=============================================================================
