----------------------------- MODULE StorageTree -----------------------------
(***************************************************************************)
(* One storage of log-cache's store as the AVL tree it is (gods' avltree,    *)
(* with store.go's insertOrSwap and removeOldestEnvelope), and the reads it  *)
(* answers: LocalStoreReader.Read and Store.Get with its two traversals,     *)
(* which prune by envelope timestamp a tree that is ordered by fudged key.   *)
(* The storage's lock makes each operation one step.                         *)
(*                                                                           *)
(* The tree is shown to implement the set of nodes of EnvelopeStore.         *)
(*                                                                           *)
(* Definitions named Bug... are not part of the specification: each is a     *)
(* plausible wrong version of the definition that follows it.                *)
(***************************************************************************)
EXTENDS Integers, FiniteSets, Sequences

CONSTANTS
  Envelopes,          \* [timestamp, type, names]: names are the metrics it holds
  MaxPerSource,
  MaxTimestampFudge,  \* 4000 in the code
  Now,                \* the time of a read
  DefaultLimit,       \* 100 in the code
  MaxLimit,           \* 1000 in the code
  Requests,           \* [startTime, endTime, limit, types, filter, descending]
  MaxPuts             \* bound: insertions

ASSUME TreeAssumption ==
  /\ \A env \in Envelopes : env.timestamp \in Int
  /\ MaxPerSource \in Nat \ {0}
  /\ MaxTimestampFudge \in Nat
  /\ MaxPuts \in Nat

ASSUME RequestAssumption ==
  /\ Now \in Int
  /\ DefaultLimit \in Nat \ {0}
  /\ MaxLimit \in Nat
  /\ \A req \in Requests :
       req.startTime \in Int /\ req.endTime \in Int /\ req.limit \in Int /\ req.descending \in BOOLEAN

VARIABLES root, puts

vars == <<root, puts>>

-----------------------------------------------------------------------------
(* The AVL tree.  gods keeps a balance factor in each node; the heights of   *)
(* its subtrees say the same.                                                *)

Nil == [height |-> 0]
IsNil(n) == n.height = 0

Higher(a, b) == IF a > b THEN a ELSE b

MkNode(key, env, left, right) ==
  [key |-> key, env |-> env, left |-> left, right |-> right,
   height |-> 1 + Higher(left.height, right.height)]

\* The trees of height h or less.
TreesTo[h \in Nat] ==
  IF h = 0 THEN {Nil}
  ELSE LET below == TreesTo[h - 1]
       IN  {Nil} \cup
           {n \in [key : Int, env : Envelopes, left : below, right : below, height : 1..h] :
              n.height = 1 + Higher(n.left.height, n.right.height)}

\* No tree is higher than the insertions that made it.
Trees == TreesTo[MaxPuts]

BugLoseInner(n) ==
  MkNode(n.right.key, n.right.env, MkNode(n.key, n.env, n.left, Nil), n.right.right)
RotateLeft(n) ==
  MkNode(n.right.key, n.right.env, MkNode(n.key, n.env, n.left, n.right.left), n.right.right)
RotateRight(n) ==
  MkNode(n.left.key, n.left.env, n.left.left, MkNode(n.key, n.env, n.left.right, n.right))

\* putFix and removeFix: a rotation, or two, where heights differ by 2.
BugNeverRotate(n) == n

Fix(n) ==
  IF n.right.height > n.left.height + 1
    THEN IF n.right.left.height > n.right.right.height
           THEN RotateLeft(MkNode(n.key, n.env, n.left, RotateRight(n.right)))
           ELSE RotateLeft(n)
    ELSE IF n.left.height > n.right.height + 1
           THEN IF n.left.right.height > n.left.left.height
                  THEN RotateRight(MkNode(n.key, n.env, RotateLeft(n.left), n.right))
                  ELSE RotateRight(n)
           ELSE n

Put(tree, key, env) ==
  LET Into[n \in Trees] ==
        IF IsNil(n) THEN MkNode(key, env, Nil, Nil)
        ELSE IF key = n.key THEN MkNode(key, env, n.left, n.right)
        ELSE IF key < n.key THEN Fix(MkNode(n.key, n.env, Into[n.left], n.right))
        ELSE Fix(MkNode(n.key, n.env, n.left, Into[n.right]))
  IN  Into[tree]

\* The code only ever removes Left(), the node with the least key.
RemoveLeft(tree) ==
  LET From[n \in Trees] ==
        IF IsNil(n) THEN Nil
        ELSE IF IsNil(n.left) THEN n.right
        ELSE Fix(MkNode(n.key, n.env, From[n.left], n.right))
  IN  From[tree]

\* A tree and all the trees below it that are not empty.
Subtrees[n \in Trees] ==
  IF IsNil(n) THEN {} ELSE {n} \cup Subtrees[n.left] \cup Subtrees[n.right]

NodesOf(n) == {[key |-> m.key, env |-> m.env] : m \in Subtrees[n]}
TreeKeys(n) == {m.key : m \in Subtrees[n]}
Size(n) == Cardinality(TreeKeys(n))

-----------------------------------------------------------------------------
(* The operations that change the tree. *)

\* The key insertOrSwap files an envelope under.
FudgedKey(n, ts) ==
  ts + CHOOSE f \in 0..MaxTimestampFudge :
         /\ \A g \in 0..(f - 1) : ts + g \in TreeKeys(n)
         /\ f = MaxTimestampFudge \/ ts + f \notin TreeKeys(n)

Init == root = Nil /\ puts = 0

InsertOrSwap(env) ==
  /\ puts < MaxPuts
  /\ puts' = puts + 1
  /\ LET room == IF Size(root) >= MaxPerSource THEN RemoveLeft(root) ELSE root
     IN  root' = Put(room, FudgedKey(room, env.timestamp), env)

RemoveOldestEnvelope ==
  /\ ~IsNil(root)
  /\ root' = RemoveLeft(root)
  /\ UNCHANGED puts

Next == (\E env \in Envelopes : InsertOrSwap(env)) \/ RemoveOldestEnvelope

Spec == Init /\ [][Next]_vars

-----------------------------------------------------------------------------
(* Reads. *)

\* A name filter is the set of names its expression matches, if it is a valid one.
NoFilter == {"no filter"}
InvalidFilter == {"invalid filter"}

\* filterByName: what is left of an envelope, and whether anything is.  Only
\* counters, gauges and timers have names; a gauge keeps the matching ones.
Filtered(env, filter) ==
  IF filter = NoFilter THEN env ELSE [env EXCEPT !.names = @ \cap filter]
PassesFilter(env, filter) == filter = NoFilter \/ env.names \cap filter # {}

\* validEnvelopeType, with no types for nil.
ValidType(env, types) == types = {} \/ env.type \in types

\* The function Get hands to the traversal: the nodes whose envelopes are in the
\* result so far, and whether to stop.  An envelope that the name filter refuses
\* never stops the traversal.
Collected(n, q, found) ==
  IF ValidType(n.env, q.types) THEN Append(found, [key |-> n.key, env |-> n.env]) ELSE found

BugFilteredStops(n, q, found) ==
  IF ~PassesFilter(n.env, q.filter) THEN [found |-> found, stop |-> TRUE]
  ELSE [found |-> Collected(n, q, found), stop |-> Len(Collected(n, q, found)) >= q.limit]

BugLimitOffByOne(n, q, found) ==
  IF ~PassesFilter(n.env, q.filter) THEN [found |-> found, stop |-> FALSE]
  ELSE [found |-> Collected(n, q, found), stop |-> Len(Collected(n, q, found)) > q.limit]

Visit(n, q, found) ==
  IF ~PassesFilter(n.env, q.filter) THEN [found |-> found, stop |-> FALSE]
  ELSE [found |-> Collected(n, q, found), stop |-> Len(Collected(n, q, found)) >= q.limit]

\* isNodeAFudgeSequenceMember, given the child the traversal goes to next.
IsFudged(n) == ~IsNil(n) /\ n.key # n.env.timestamp
IsFudgeSequenceMember(n, next) == IsFudged(n) \/ IsFudged(next)

\* treeAscTraverse and treeDescTraverse: the subtree that comes first, the one
\* that comes last, whether the first can hold envelopes of the range, and
\* whether the range is over.
Before(n, q) == IF q.descending THEN n.right ELSE n.left
Beyond(n, q) == IF q.descending THEN n.left ELSE n.right

Reaches(ts, q) == IF q.descending THEN ts < q.end ELSE ts >= q.start

BugEndInclusive(ts, q) == IF q.descending THEN ts < q.start ELSE ts > q.end
Passed(ts, q) == IF q.descending THEN ts < q.start ELSE ts >= q.end

Stored == [key : Int, env : Envelopes]

Traverse(tree, q) ==
  LET At[n \in Trees] == [found \in Seq(Stored) |->
        IF IsNil(n) THEN [found |-> found, stop |-> FALSE]
        ELSE IF ~Reaches(n.env.timestamp, q) THEN At[Beyond(n, q)][found]
        ELSE LET before == At[Before(n, q)][found] IN
             IF before.stop THEN before
             ELSE LET here == IF Passed(n.env.timestamp, q)
                                THEN [found |-> before.found, stop |-> TRUE]
                                ELSE Visit(n, q, before.found)
                  IN IF here.stop /\ ~IsFudgeSequenceMember(n, Beyond(n, q)) THEN here
                     ELSE At[Beyond(n, q)][here.found]]
  IN  At[tree][<<>>].found

\* The nodes whose envelopes Get returns, as the filter leaves them.
Get(q) ==
  LET found == Traverse(root, q) IN [i \in 1..Len(found) |-> Filtered(found[i].env, q.filter)]

\* LocalStoreReader.Read: the requests it refuses, the defaults it fills in.
Refused(req) ==
  \/ req.endTime # 0 /\ req.startTime > req.endTime
  \/ req.limit > MaxLimit
  \/ req.limit < 0
  \/ req.filter = InvalidFilter

Query(req) ==
  [start |-> req.startTime,
   end   |-> IF req.endTime = 0 THEN Now ELSE req.endTime,
   limit |-> IF req.limit = 0 THEN DefaultLimit ELSE req.limit,
   types |-> req.types \ {"any"},
   filter |-> req.filter,
   descending |-> req.descending]

Read(req) == Get(Query(req))

Answered == {req \in Requests : ~Refused(req)}

-----------------------------------------------------------------------------
(* Properties. *)

\* The tree stays a balanced search tree with at most maxPerSource nodes, and
\* each envelope is filed within the fudge of its timestamp.
Balanced(n) == \A m \in Subtrees[n] : m.left.height - m.right.height \in -1..1
Ordered(n) ==
  \A m \in Subtrees[n] :
    (\A k \in TreeKeys(m.left) : k < m.key) /\ (\A k \in TreeKeys(m.right) : m.key < k)

TypeOK ==
  /\ puts \in 0..MaxPuts
  /\ root \in Trees
  /\ Balanced(root)
  /\ Ordered(root)
  /\ Size(root) <= MaxPerSource
  /\ \A m \in NodesOf(root) : m.key - m.env.timestamp \in 0..MaxTimestampFudge

\* The insertions and removals on the tree are those of EnvelopeStore on the
\* set of its nodes: rotations lose nothing, and the oldest goes first.
TreeNodes == {[key |-> m.key, timestamp |-> m.env.timestamp] : m \in NodesOf(root)}
Promise == INSTANCE EnvelopeStore WITH
             Sources <- {"source"},
             Timestamps <- {env.timestamp : env \in Envelopes},
             contents <- [s \in {"source"} |-> TreeNodes]
ImplementsPromise == Promise!Spec

\* What a read asks for, and in which order.
Wanted(m, q) ==
  /\ q.start <= m.env.timestamp /\ m.env.timestamp < q.end
  /\ PassesFilter(m.env, q.filter) /\ ValidType(m.env, q.types)

Precedes(m, o, q) == IF q.descending THEN o.key < m.key ELSE m.key < o.key

InOrder(found, q) == \A i, j \in 1..Len(found) : i < j => Precedes(found[i], found[j], q)

\* Whatever the fudges in the tree, a read returns envelopes of the range that
\* pass both filters, each at most once, ordered by key in the direction asked.
ReadsOnlyWanted ==
  \A req \in Answered :
    LET q == Query(req)
        found == Traverse(root, q)
    IN  /\ \A i \in 1..Len(found) : found[i] \in NodesOf(root) /\ Wanted(found[i], q)
        /\ InOrder(found, q)

\* While no envelope of the source is fudged, a read returns exactly the first
\* envelopes wanted, up to the limit.
Fudged(n) == \E m \in NodesOf(n) : m.key # m.env.timestamp

FirstWanted(found, q) ==
  /\ InOrder(found, q)
  /\ Len(found) <= q.limit
  /\ \A i \in 1..Len(found) : found[i] \in NodesOf(root) /\ Wanted(found[i], q)
  /\ \A m \in NodesOf(root) : Wanted(m, q) =>
       \/ \E i \in 1..Len(found) : found[i] = m
       \/ Len(found) = q.limit /\ \A i \in 1..Len(found) : Precedes(found[i], m, q)

ReadsExactWithoutFudge ==
  ~Fudged(root) => \A req \in Answered : FirstWanted(Traverse(root, Query(req)), Query(req))

\* Whatever the fudges, a read of all time that ends below its limit leaves
\* nothing out.
Complete(found, q) ==
  Len(found) < q.limit =>
    \A m \in NodesOf(root) : Wanted(m, q) => \E i \in 1..Len(found) : found[i] = m

FullReadsComplete ==
  \A req \in Answered :
    LET q == Query(req) IN
    (\A env \in Envelopes : q.start <= env.timestamp /\ env.timestamp < q.end)
      => Complete(Traverse(root, q), q)

\* "Get fetches envelopes from the store based on the source ID, start and end
\* time": a read that ends below its limit returns everything in its range.
ReadsComplete ==
  \A req \in Answered : Complete(Traverse(root, Query(req)), Query(req))
=============================================================================
