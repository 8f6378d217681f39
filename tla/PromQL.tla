------------------------------- MODULE PromQL -------------------------------
(***************************************************************************)
(* A PromQL selector over one source: LogCacheQuerier.Select, the walking    *)
(* data reader that fetches the source's envelopes page by page, and the     *)
(* series the engine then seeks in.  Each page is a read of its own, so      *)
(* insertions, evictions and expirations of StorageTree happen between two   *)
(* pages.  Of several source ids Select reads one after the other; one is    *)
(* modelled.  No state outlives a query, so a behaviour ends with one.       *)
(***************************************************************************)
EXTENDS StorageTree

CONSTANTS
  Selections,    \* [start, end, metric, tags]: a selector and its time range
  Second,        \* one second, in units of the timestamps
  WalkDelay,     \* 2 ns in the code
  MaxErrors,     \* consecutive errors after which a walk gives up, 5 in the code
  MaxQueryPuts   \* bound: insertions before the end of a query

ASSUME WalkAssumption ==
  /\ \A sel \in Selections : sel.start \in Int /\ sel.end \in Int
  /\ Second \in Nat \ {0}
  /\ WalkDelay \in Nat \ {0}
  /\ MaxErrors \in Nat \ {0}
  /\ MaxQueryPuts \in Nat

VARIABLE query

NoQuery == [pc |-> "idle"]

Held(n) == {m.env : m \in NodesOf(n)}

QueryInit == Init /\ query = NoQuery

\* Select asks for a second more than the range, and for metrics only.
Select(sel) ==
  /\ query.pc = "idle" /\ puts <= MaxQueryPuts
  /\ query' = [pc |-> "reading", sel |-> sel, from |-> sel.start - Second, errors |-> 0,
               result |-> <<>>, gaveUp |-> FALSE, stayed |-> Held(root), fudged |-> Fudged(root)]
  /\ UNCHANGED vars

MetricTypes == {"counter", "gauge", "timer"}
PageRequest(from, end) ==
  [startTime |-> from, endTime |-> end, limit |-> 0, types |-> MetricTypes, filter |-> NoFilter,
   descending |-> FALSE]

\* es without what follows its last envelope at or before a time.
UpTo(es, latest) ==
  SubSeq(es, 1, CHOOSE i \in 0..Len(es) :
                  /\ i = 0 \/ es[i].timestamp <= latest
                  /\ \A j \in (i + 1)..Len(es) : es[j].timestamp > latest)

\* Too new, or not before the end.
Trimmed(es, end) == UpTo(UpTo(es, Now - WalkDelay), end - 1)

BugSameStart(es) == es[Len(es)].timestamp
NextStart(es) == es[Len(es)].timestamp + 1

\* An empty page ends the walk, and so does one that reaches the end.  A page that
\* the store refuses is a failed read.
ReadPage ==
  /\ query.pc = "reading"
  /\ ~Refused(PageRequest(query.from, query.sel.end))
  /\ LET end == query.sel.end
         es  == Trimmed(Read(PageRequest(query.from, end)), end)
     IN  query' = IF es = <<>> THEN [query EXCEPT !.pc = "answered"]
                  ELSE [query EXCEPT !.pc = IF NextStart(es) >= end THEN "answered" ELSE "reading",
                                     !.result = @ \o es, !.from = NextStart(es), !.errors = 0]
  /\ UNCHANGED vars

\* A failed read is tried again.  The last failure ends the walk as if it were
\* complete: the reader returns what it has, without an error.
ReadFails ==
  /\ query.pc = "reading"
  /\ query' = IF query.errors + 1 >= MaxErrors
                THEN [query EXCEPT !.pc = "answered", !.gaveUp = TRUE]
                ELSE [query EXCEPT !.errors = @ + 1]
  /\ UNCHANGED vars

\* The five seconds of the context are over: the only error Read returns.
Deadline ==
  /\ query.pc = "reading"
  /\ query' = [pc |-> "failed"]
  /\ UNCHANGED vars

\* What the tree does before and meanwhile.
TreeStep ==
  /\ query.pc \in {"idle", "reading"}
  /\ Next
  /\ query.pc = "reading" => puts' <= MaxQueryPuts
  /\ query' = IF query.pc # "reading" THEN query
              ELSE [query EXCEPT !.stayed = @ \cap Held(root'), !.fudged = @ \/ Fudged(root')]

QueryNext == (\E sel \in Selections : Select(sel)) \/ ReadPage \/ ReadFails \/ Deadline \/ TreeStep

QuerySpec == QueryInit /\ [][QueryNext]_<<vars, query>>

-----------------------------------------------------------------------------
(* The series of the answer. *)

\* hasLabels, and the name of the metric in its sanitized form.
Selected(env, sel) == sel.tags \subseteq env.tags /\ sel.metric \in env.names

\* seriesSetBuilder: the points of a set of tags, as they came, in seconds.
Points(tags) ==
  LET Added[i \in 0..Len(query.result)] ==
        IF i = 0 THEN <<>>
        ELSE LET e == query.result[i] IN
             IF Selected(e, query.sel) /\ e.tags = tags
               THEN Append(Added[i - 1], e.timestamp \div Second)
               ELSE Added[i - 1]
  IN  Added[Len(query.result)]

\* sort.Search, for the first point at or after t: the bounds after k of the
\* rounds of its loop, each of which halves what is between them.
BugAfter(p, t) == p > t
AtOrAfter(p, t) == p >= t

Seek(points, t) ==
  LET Bounds[k \in 0..Len(points)] ==
        IF k = 0 THEN [lo |-> 1, hi |-> Len(points) + 1]
        ELSE LET b == Bounds[k - 1]
                 mid == (b.lo + b.hi) \div 2
             IN  IF b.lo >= b.hi THEN b
                 ELSE IF AtOrAfter(points[mid], t) THEN [lo |-> b.lo, hi |-> mid]
                 ELSE [lo |-> mid + 1, hi |-> b.hi]
  IN  Bounds[Len(points)].lo

-----------------------------------------------------------------------------
(* Properties. *)

\* What a walk looks for.
InWalk(e) ==
  e.type \in MetricTypes /\ query.sel.start - Second <= e.timestamp /\ e.timestamp < query.sel.end

\* As long as no two envelopes share a key, a walk finds each envelope of the
\* range once and in order, whatever is written, evicted and expired between its
\* pages; and if it was not given up, it has found every metric that was there
\* all the time and is not too new.
WalkExact ==
  query.pc \in {"reading", "answered"} /\ ~query.fudged =>
    LET found == query.result IN
    /\ \A i \in 1..Len(found) : InWalk(found[i])
    /\ \A i, j \in 1..Len(found) : i < j => found[i].timestamp < found[j].timestamp
    /\ query.pc = "answered" /\ ~query.gaveUp =>
         \A e \in query.stayed :
           InWalk(e) /\ e.timestamp <= Now - WalkDelay => \E i \in 1..Len(found) : found[i] = e

\* The engine looks for points by binary search in the order in which the walk
\* found them: as long as no two envelopes share a key, it finds the first point
\* at or after any time.
SeekExact ==
  query.pc = "answered" /\ ~query.fudged =>
    \A i \in 1..Len(query.result), t \in 0..(Now \div Second) :
      LET points == Points(query.result[i].tags)
          first == Seek(points, t)
      IN  /\ \A j \in 1..(first - 1) : points[j] < t
          /\ first <= Len(points) => points[first] >= t
=============================================================================
