---------------------------- MODULE EnvelopeStore ----------------------------
(***************************************************************************)
(* What log-cache's store promises to its readers, without locks, goroutines *)
(* or storages: every source has a bounded set of nodes, ordered by key.  A  *)
(* node is an envelope filed under a key, its timestamp plus a fudge that    *)
(* separates envelopes with equal timestamps.  A node only ever disappears   *)
(* because it is the oldest of its source, or because a newer envelope of    *)
(* the same timestamp run found no free key.                                 *)
(*                                                                           *)
(* Store.tla is shown to implement this specification.                       *)
(***************************************************************************)
EXTENDS Integers, FiniteSets

CONSTANTS Sources, Timestamps, MaxPerSource, MaxTimestampFudge

VARIABLE contents

Filings(ts) == {[key |-> ts + fudge, timestamp |-> ts] : fudge \in 0..MaxTimestampFudge}
Nodes == UNION {Filings(ts) : ts \in Timestamps}

Keys(nodes) == {n.key : n \in nodes}

IsOldest(n, nodes) == n \in nodes /\ \A m \in nodes : n.key <= m.key

Full(s) == Cardinality(contents[s]) >= MaxPerSource

Init == contents = [s \in Sources |-> {}]

\* A new envelope joins a source that has room for it.
Accept(s) ==
  /\ ~Full(s)
  /\ \E n \in Nodes :
       /\ n.key \notin Keys(contents[s])
       /\ contents' = [contents EXCEPT ![s] = @ \cup {n}]

\* A new envelope takes the place of the oldest one of a full source.
AcceptEvicting(s) ==
  /\ Full(s)
  /\ \E old \in contents[s], n \in Nodes :
       /\ IsOldest(old, contents[s])
       /\ n.key \notin Keys(contents[s] \ {old})
       /\ contents' = [contents EXCEPT ![s] = (@ \ {old}) \cup {n}]

\* The keys a timestamp may be filed under are all taken: the last one is
\* overwritten (after the eviction, when the source is full).
Kept(s) ==
  IF Full(s) THEN {contents[s] \ {old} : old \in {m \in contents[s] : IsOldest(m, contents[s])}}
             ELSE {contents[s]}
AcceptOverwriting(s) ==
  \E n \in Nodes :
    /\ n.key = n.timestamp + MaxTimestampFudge
    /\ \E kept \in Kept(s) :
         /\ n.timestamp .. n.key \subseteq Keys(kept)
         /\ contents' = [contents EXCEPT ![s] = {m \in kept : m.key # n.key} \cup {n}]

\* Memory pressure removes the oldest envelope of a source.
Expire(s) ==
  \E old \in contents[s] :
    /\ IsOldest(old, contents[s])
    /\ contents' = [contents EXCEPT ![s] = @ \ {old}]

Next == \E s \in Sources :
          Accept(s) \/ AcceptEvicting(s) \/ AcceptOverwriting(s) \/ Expire(s)

Spec == Init /\ [][Next]_contents
=============================================================================
