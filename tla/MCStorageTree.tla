--------------------------- MODULE MCStorageTree ---------------------------
(* Instances of StorageTree, alone and under PromQL queries, for TLC. *)
EXTENDS PromQL

Log(ts)     == [timestamp |-> ts, type |-> "log", names |-> {}, tags |-> {}]
Counter(ts) == [timestamp |-> ts, type |-> "counter", names |-> {"a"}, tags |-> {"x"}]
Gauge(ts)   == [timestamp |-> ts, type |-> "gauge", names |-> {"a", "b"}, tags |-> {"x"}]

\* A series of three metrics for as many pages of one, a log that may fudge one of
\* them, and a metric that is too new for a walk.
MixedEnvelopes == {Counter(1), Log(3), Gauge(3), Counter(5), Counter(6)}

\* Logs only, with timestamps on both sides of a run of fudged keys.
LogEnvelopes == {Log(1), Log(2), Log(5), Log(6)}

RequestsOver(starts, ends, limits, filters) ==
  {[startTime |-> start, endTime |-> end, limit |-> limit, types |-> by.types, filter |-> by.filter,
    descending |-> descending] :
     start \in starts, end \in ends, limit \in limits, by \in filters, descending \in BOOLEAN}
By(types, filter) == [types |-> types, filter |-> filter]

\* 0 is the default end and the default limit; 9 exceeds MaxLimit.
MixedRequests ==
  RequestsOver({0, 3, 6}, {0, 3, 5}, {-1, 0, 2, 9},
               {By({}, NoFilter), By({"any", "log"}, NoFilter), By({}, {"b"}), By({}, InvalidFilter)})

\* A selection from 1 on, in seconds of 2.
MixedSelections == [start : {3}, end : {7}, metric : {"a"}, tags : {{"x"}}]

LogTimes == {0, 1, 2, 3, 5, 6}
LogRequests == RequestsOver(LogTimes, LogTimes, {0}, {By({}, NoFilter)})
=============================================================================
