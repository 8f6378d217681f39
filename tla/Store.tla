-------------------------------- MODULE Store --------------------------------
(***************************************************************************)
(* The in-memory envelope store of log-cache (internal/cache/store/store.go  *)
(* and prune_consultant.go): concurrent Puts, the truncation goroutine and   *)
(* concurrent Meta calls.                                                    *)
(*                                                                           *)
(* A storage is an AVL tree with a lock and a meta record, abstracted to the *)
(* set of its nodes.  A step is a critical section, or the part of one up to *)
(* the next access to state that other goroutines reach without the lock     *)
(* (storageIndex, count, oldestTimestamp).  A storage keeps existing after   *)
(* it leaves the index, as long as some goroutine holds a pointer to it.     *)
(*                                                                           *)
(* Definitions named Bug... are not part of the specification: each is a     *)
(* plausible wrong version of the definition that follows it.                *)
(***************************************************************************)
EXTENDS Integers, FiniteSets

CONSTANTS
  Sources,            \* source ids
  Writers,            \* goroutines that call Put
  MetaReaders,        \* goroutines that call Meta
  Timestamps,         \* envelope timestamps
  MaxInt64,           \* the initial oldestTimestamp (called MIN_INT64 in the code)
  MaxPerSource,
  MaxTimestampFudge,  \* 4000 in the code
  Memories,           \* [heap, total] readings of the memory analyzer
  PercentToFill,
  PrunesPerGC,
  MaxPuts             \* bound: calls of Put

ASSUME StoreAssumption ==
  /\ IsFiniteSet(Writers)
  /\ Timestamps \subseteq Int
  /\ MaxInt64 \in Int
  /\ MaxPerSource \in Nat \ {0}
  /\ MaxTimestampFudge \in Nat
  /\ \A m \in Memories : m.heap \in Nat /\ m.total \in Nat
  /\ PercentToFill \in Nat
  /\ PrunesPerGC \in Nat \ {0}
  /\ MaxPuts \in Nat

VARIABLES
  storageIndex,           \* sync.Map: source -> storage, or NoStorage
  tree,                   \* storage -> set of nodes [key, timestamp]
  meta,                   \* storage -> MetaInfo
  created,                \* storages 1..created have been allocated
  count,
  oldestTimestamp,
  consecutiveTruncation,
  ingress, expired,       \* metrics.ingress, metrics.expired
  writer,                 \* where each Put is, and what it holds
  truncator,              \* where the truncation goroutine is, and what it holds
  reader,                 \* where each Meta call is, and what it holds
  panicked,               \* what crashed the process, if anything
  overwritten,            \* history: envelopes replaced under their key
  disturbed               \* history: a Put ran since the truncation began

storeVars   == <<storageIndex, tree, meta, created, count, oldestTimestamp>>
metricVars  == <<consecutiveTruncation, ingress, expired>>
threadVars  == <<writer, truncator, reader, panicked>>
historyVars == <<overwritten, disturbed>>
vars == <<storeVars, metricVars, threadVars, historyVars>>

\* Every storage is allocated by a Put, so MaxPuts bounds them too.
Storages == 1..MaxPuts
NoStorage == 0

Panics == {"none", "BuildExpirationHeap", "heap.Pop", "Meta"}
Running == panicked = "none"

-----------------------------------------------------------------------------
(* Trees. *)

Keys(nodes) == {n.key : n \in nodes}

\* avltree Left(): the node with the least key, if there is one.
Left(nodes) == {n \in nodes : \A m \in nodes : n.key <= m.key}

\* insertOrSwap makes room: what remains of a tree before the insertion.
BugRoomOffByOne(nodes) ==
  IF Cardinality(nodes) > MaxPerSource THEN {nodes \ {n} : n \in Left(nodes)} ELSE {nodes}

BugEvictAny(nodes) ==
  IF Cardinality(nodes) >= MaxPerSource THEN {nodes \ {n} : n \in nodes} ELSE {nodes}

RoomIn(nodes) ==
  IF Cardinality(nodes) >= MaxPerSource THEN {nodes \ {n} : n \in Left(nodes)} ELSE {nodes}

\* The timestampFudge loop: the first free key, or the last one tried.
FudgedKey(nodes, ts) ==
  {ts + fudge : fudge \in
     {f \in 0..MaxTimestampFudge :
        /\ \A g \in 0..(f - 1) : ts + g \in Keys(nodes)
        /\ f = MaxTimestampFudge \/ ts + f \notin Keys(nodes)}}

\* avltree Put: a node with an equal key is replaced.
TreePut(nodes, n) == {m \in nodes : m.key # n.key} \cup {n}

Larger(a, b) == IF a > b THEN a ELSE b

-----------------------------------------------------------------------------
(* Goroutines. *)

IdleWriter == [pc |-> "idle", tree |-> NoStorage, timestamp |-> 0, oldest |-> 0]
IdleTruncator == [pc |-> "idle", todo |-> {}, heap |-> {}, remaining |-> 0]
IdleReader == [pc |-> "idle", todo |-> {}, report |-> {}]

\* A storage's lock is only held across a step by a Put that has inserted and is yet
\* to look at oldestTimestamp, or to replace it; every other critical section is one
\* step.
Unlocked(t) ==
  \A w \in Writers : ~(writer[w].pc \in {"inserted", "publish"} /\ writer[w].tree = t)

Indexed(s) == storageIndex[s] # NoStorage
IndexedSources == {s \in Sources : Indexed(s)}

Init ==
  /\ storageIndex = [s \in Sources |-> NoStorage]
  /\ tree = [t \in Storages |-> {}]
  /\ meta = [t \in Storages |-> [expired |-> 0, oldest |-> 0, newest |-> 0]]
  /\ created = 0
  /\ count = 0
  /\ oldestTimestamp = MaxInt64
  /\ consecutiveTruncation = 0
  /\ ingress = 0
  /\ expired = 0
  /\ writer = [w \in Writers |-> IdleWriter]
  /\ truncator = IdleTruncator
  /\ reader = [r \in MetaReaders |-> IdleReader]
  /\ panicked = "none"
  /\ overwritten = 0
  /\ disturbed = FALSE

-----------------------------------------------------------------------------
(* Put. *)

\* Put counts the envelope and runs getOrInitializeStorage: the storage of the
\* source is found, or an empty one is created and indexed.
BugAlwaysInitialize(w, s, ts) ==
  /\ Running
  /\ writer[w].pc = "idle"
  /\ ingress < MaxPuts
  /\ ingress' = ingress + 1
  /\ storageIndex' = [storageIndex EXCEPT ![s] = created + 1]
  /\ created' = created + 1
  /\ writer' = [writer EXCEPT ![w] = [pc |-> "located", tree |-> created + 1,
                                      timestamp |-> ts, oldest |-> 0]]
  /\ UNCHANGED <<tree, meta, count, oldestTimestamp, consecutiveTruncation, expired,
                 truncator, reader, panicked, historyVars>>

PutLocate(w, s, ts) ==
  /\ Running
  /\ writer[w].pc = "idle"
  /\ ingress < MaxPuts
  /\ ingress' = ingress + 1
  /\ IF Indexed(s)
       THEN UNCHANGED <<storageIndex, created>>
       ELSE /\ storageIndex' = [storageIndex EXCEPT ![s] = created + 1]
            /\ created' = created + 1
  /\ writer' = [writer EXCEPT ![w] = [pc |-> "located", tree |-> storageIndex'[s],
                                      timestamp |-> ts, oldest |-> 0]]
  /\ UNCHANGED <<tree, meta, count, oldestTimestamp, consecutiveTruncation, expired,
                 truncator, reader, panicked, historyVars>>

\* What an insertion does to the meta record of its storage.
MetaAfterInsert(info, evicted, ts, oldest) ==
  [expired |-> info.expired + evicted,
   oldest  |-> oldest,
   newest  |-> Larger(info.newest, ts)]

\* count is incremented unless the insertion evicted an envelope.
BugCountEveryPut(evicted) == 1
CountOfInsert(evicted) == 1 - evicted

Evictions(t) == IF Cardinality(tree[t]) >= MaxPerSource THEN 1 ELSE 0

\* The insertion itself, in what remains of the tree.
InsertUnder(w, room, key) ==
  LET t == writer[w].tree
      ts == writer[w].timestamp
      nodes == TreePut(room, [key |-> key, timestamp |-> ts])
  IN
  /\ tree' = [tree EXCEPT ![t] = nodes]
  /\ overwritten' = IF key \in Keys(room) THEN overwritten + 1 ELSE overwritten
  /\ \E oldest \in Left(nodes) :
       /\ meta' = [meta EXCEPT ![t] = MetaAfterInsert(@, Evictions(t), ts, oldest.key)]
       /\ writer' = [writer EXCEPT ![w] =
            [pc |-> "inserted", tree |-> t, timestamp |-> ts, oldest |-> oldest.key]]

\* insertOrSwap up to its load of store.oldestTimestamp.  The tree is nobody else's
\* to see before the unlock, so its changes come with that of count.
InsertOrSwap(w) ==
  LET t == writer[w].tree IN
  /\ Running
  /\ writer[w].pc = "located"
  /\ Unlocked(t)
  /\ \E room \in RoomIn(tree[t]) : \E key \in FudgedKey(room, writer[w].timestamp) :
       InsertUnder(w, room, key)
  /\ count' = count + CountOfInsert(Evictions(t))
  /\ expired' = expired + Evictions(t)
  /\ disturbed' = TRUE
  /\ UNCHANGED <<storageIndex, created, oldestTimestamp, consecutiveTruncation, ingress,
                 truncator, reader, panicked>>

\* The load of oldestTimestamp and the comparison; there may be nothing to store.
LoadOldest(w) ==
  /\ Running
  /\ writer[w].pc = "inserted"
  /\ writer' = [writer EXCEPT ![w] =
       IF writer[w].oldest < oldestTimestamp THEN [@ EXCEPT !.pc = "publish"] ELSE IdleWriter]
  /\ UNCHANGED <<storeVars, metricVars, truncator, reader, panicked, historyVars>>

BugKeepLock(w) ==
  /\ Running
  /\ writer[w].pc = "publish"
  /\ oldestTimestamp' = writer[w].oldest
  /\ UNCHANGED <<storageIndex, tree, meta, created, count, metricVars, writer, truncator,
                 reader, panicked, historyVars>>

\* The store of oldestTimestamp that follows the comparison, and the unlock.
PublishOldest(w) ==
  /\ Running
  /\ writer[w].pc = "publish"
  /\ oldestTimestamp' = writer[w].oldest
  /\ writer' = [writer EXCEPT ![w] = IdleWriter]
  /\ disturbed' = TRUE
  /\ UNCHANGED <<storageIndex, tree, meta, created, count, metricVars, truncator, reader,
                 panicked, overwritten>>

-----------------------------------------------------------------------------
(* Truncation. *)

\* PruneConsultant.GetQuantityToPrune.  The percentages are floating point
\* numbers in the code; a total of 0 (the memory reading failed) makes the
\* quantity int(NaN), which is the least int64 on amd64 and 0 on arm64.
QuantityToPrune(m, n) ==
  IF m.total = 0
    THEN IF m.heap = 0 THEN {0} ELSE {0, -1}
    ELSE IF m.heap * 100 > PercentToFill * m.total
           THEN {(n * (m.heap * 100 - PercentToFill * m.total)) \div (m.heap * 100)}
           ELSE {0}

\* A quantity of 0 ends a truncation, another one is cut to the count.
BeginPruning(quantity) ==
  IF quantity = 0
    THEN /\ consecutiveTruncation' = 0
         /\ UNCHANGED truncator
    ELSE /\ truncator' = [pc |-> "build", todo |-> IndexedSources, heap |-> {},
                          remaining |-> IF quantity > count THEN count ELSE quantity]
         /\ UNCHANGED consecutiveTruncation

\* truncate loads count and asks the consultant.
TruncateBegin ==
  /\ Running
  /\ truncator.pc = "idle"
  /\ \E m \in Memories : \E quantity \in QuantityToPrune(m, count) : BeginPruning(quantity)
  /\ disturbed' = FALSE
  /\ UNCHANGED <<storeVars, ingress, expired, writer, reader, panicked, overwritten>>

\* BuildExpirationHeap's Range visits an indexed source, once, under its
\* storage's read lock.  Left() of an empty tree is nil, and is dereferenced.
BuildHeapVisit(s) ==
  /\ Running
  /\ truncator.pc = "build"
  /\ Indexed(s)
  /\ s \notin {e.source : e \in truncator.heap}
  /\ Unlocked(storageIndex[s])
  /\ LET t == storageIndex[s] IN
     \/ /\ tree[t] = {}
        /\ panicked' = "BuildExpirationHeap"
        /\ UNCHANGED truncator
     \/ /\ \E oldest \in Left(tree[t]) :
             truncator' =
               [pc |-> "build", todo |-> truncator.todo \ {s},
                heap |-> truncator.heap \cup
                           {[timestamp |-> oldest.key, source |-> s, tree |-> t]},
                remaining |-> truncator.remaining]
        /\ UNCHANGED panicked
  /\ UNCHANGED <<storeVars, metricVars, writer, reader, historyVars>>

\* The truncator in its removal loop.
Removing(heap, n) == [pc |-> "remove", todo |-> {}, heap |-> heap, remaining |-> n]

\* Range returns when it has visited every source that was there when it began;
\* it may or may not visit those that were stored since.
BuildHeapDone ==
  /\ Running
  /\ truncator.pc = "build"
  /\ truncator.todo = {}
  /\ truncator' = Removing(truncator.heap, truncator.remaining)
  /\ UNCHANGED <<storeVars, metricVars, writer, reader, panicked, historyVars>>

\* heap.Pop: an entry with the least timestamp.
HeapMin(heap) == {e \in heap : \A d \in heap : e.timestamp <= d.timestamp}

\* removeOldestEnvelope takes an emptied storage out of the index.
BugKeepEmpty(s, nodes) == storageIndex
BugDeindexAlways(s, nodes) == [storageIndex EXCEPT ![s] = NoStorage]
IndexAfterRemove(s, nodes) ==
  IF nodes = {} THEN [storageIndex EXCEPT ![s] = NoStorage] ELSE storageIndex

\* What is pushed back on the heap for a storage that is not empty yet.
BugPushStale(entry, oldest) == {entry}
BugPushNothing(entry, oldest) == {}
PushBack(entry, oldest) ==
  {[timestamp |-> oldest, source |-> entry.source, tree |-> entry.tree]}

BugStaleMetaOldest(info, oldest) == [info EXCEPT !.expired = @ + 1]
MetaAfterRemove(info, oldest) ==
  [expired |-> info.expired + 1, oldest |-> oldest, newest |-> info.newest]

\* removeOldestEnvelope's effect on a tree that has a left-most node, and
\* heap.Push of what remains.
RemoveNode(entry, oldest) ==
  LET t == entry.tree
      nodes == tree[t] \ {oldest}
      rest == truncator.heap \ {entry}
  IN
  /\ tree' = [tree EXCEPT ![t] = nodes]
  /\ count' = count - 1
  /\ expired' = expired + 1
  /\ storageIndex' = IndexAfterRemove(entry.source, nodes)
  /\ \/ /\ nodes = {}
        /\ truncator' = Removing(rest, truncator.remaining - 1)
        /\ UNCHANGED meta
     \/ \E left \in Left(nodes) :
        /\ meta' = [meta EXCEPT ![t] = MetaAfterRemove(@, left.key)]
        /\ truncator' = Removing(rest \cup PushBack(entry, left.key), truncator.remaining - 1)

RemoveOldestEnvelope(entry) ==
  IF tree[entry.tree] = {}
    THEN /\ truncator' = Removing(truncator.heap \ {entry}, truncator.remaining - 1)
         /\ UNCHANGED <<storageIndex, tree, meta, count, expired>>
    ELSE \E oldest \in Left(tree[entry.tree]) : RemoveNode(entry, oldest)

\* One iteration of truncate's removal loop: heap.Pop, then
\* removeOldestEnvelope under the storage's lock.
TruncateRemove ==
  /\ Running
  /\ truncator.pc = "remove"
  /\ truncator.remaining > 0
  /\ \E entry \in HeapMin(truncator.heap) :
       Unlocked(entry.tree) /\ RemoveOldestEnvelope(entry)
  /\ UNCHANGED <<created, oldestTimestamp, consecutiveTruncation, ingress, writer, reader,
                 panicked, historyVars>>

BugStopWhenEmpty ==
  /\ Running
  /\ truncator.pc = "remove"
  /\ truncator.remaining > 0
  /\ truncator.heap = {}
  /\ truncator' = Removing({}, 0)
  /\ UNCHANGED <<storeVars, metricVars, writer, reader, panicked, historyVars>>

\* heap.Pop of an empty heap indexes the slice at -1.
TruncatePanic ==
  /\ Running
  /\ truncator.pc = "remove"
  /\ truncator.remaining > 0
  /\ truncator.heap = {}
  /\ panicked' = "heap.Pop"
  /\ UNCHANGED <<storeVars, metricVars, writer, truncator, reader, historyVars>>

\* ExpirationHeap.Pop, called without package heap, takes the last element of
\* the slice: the root when it is alone, and otherwise a leaf, that is an entry
\* with some other entry no later than it.  The shape of the slice is left out.
HeapLast(heap) ==
  {e \in heap : heap = {e} \/ \E d \in heap \ {e} : d.timestamp <= e.timestamp}

\* Every PrunesPerGC truncations run the garbage collector, and count anew.
BugGCTooLate(n) == IF n + 1 > PrunesPerGC THEN 0 ELSE n + 1
CountTruncation(n) == IF n + 1 >= PrunesPerGC THEN 0 ELSE n + 1

\* The end of truncate: nothing left, or a new oldestTimestamp.
TruncateEnd ==
  /\ Running
  /\ truncator.pc = "remove"
  /\ truncator.remaining <= 0
  /\ IF truncator.heap = {}
       THEN /\ oldestTimestamp' = MaxInt64
            /\ UNCHANGED consecutiveTruncation
       ELSE /\ \E last \in HeapLast(truncator.heap) : oldestTimestamp' = last.timestamp
            /\ consecutiveTruncation' = CountTruncation(consecutiveTruncation)
  /\ truncator' = IdleTruncator
  /\ UNCHANGED <<storageIndex, tree, meta, created, count, ingress, expired, writer, reader,
                 panicked, historyVars>>

-----------------------------------------------------------------------------
(* Meta. *)

Reading(r, pc, todo, report) ==
  [reader EXCEPT ![r] = [pc |-> pc, todo |-> todo, report |-> report]]

MetaBegin(r) ==
  /\ Running
  /\ reader[r].pc = "idle"
  /\ reader' = Reading(r, "range", IndexedSources, {})
  /\ UNCHANGED <<storeVars, metricVars, writer, truncator, panicked, historyVars>>

\* The first loop: Range copies the meta record of a source it finds indexed,
\* and passes over one that has been deleted meanwhile.
MetaRange(r, s) ==
  /\ Running
  /\ reader[r].pc = "range"
  /\ \/ /\ Indexed(s) /\ s \notin reader[r].report
        /\ Unlocked(storageIndex[s])
        /\ reader' = Reading(r, "range", reader[r].todo \ {s}, reader[r].report \cup {s})
     \/ /\ ~Indexed(s) /\ s \in reader[r].todo
        /\ reader' = Reading(r, "range", reader[r].todo \ {s}, reader[r].report)
  /\ UNCHANGED <<storeVars, metricVars, writer, truncator, panicked, historyVars>>

MetaRangeDone(r) ==
  /\ Running
  /\ reader[r].pc = "range"
  /\ reader[r].todo = {}
  /\ reader' = Reading(r, "load", reader[r].report, reader[r].report)
  /\ UNCHANGED <<storeVars, metricVars, writer, truncator, panicked, historyVars>>

\* The second loop: every source of the report is loaded from the index again;
\* the type assertion on a missing one panics.
MetaLoad(r, s) ==
  /\ Running
  /\ reader[r].pc = "load"
  /\ s \in reader[r].todo
  /\ \/ /\ Indexed(s)
        /\ Unlocked(storageIndex[s])
        /\ reader' = Reading(r, "load", reader[r].todo \ {s}, reader[r].report)
        /\ UNCHANGED panicked
     \/ /\ ~Indexed(s)
        /\ panicked' = "Meta"
        /\ UNCHANGED reader
  /\ UNCHANGED <<storeVars, metricVars, writer, truncator, historyVars>>

MetaReturn(r) ==
  /\ Running
  /\ reader[r].pc = "load"
  /\ reader[r].todo = {}
  /\ reader' = [reader EXCEPT ![r] = IdleReader]
  /\ UNCHANGED <<storeVars, metricVars, writer, truncator, panicked, historyVars>>

-----------------------------------------------------------------------------
PutStep(w) == InsertOrSwap(w) \/ LoadOldest(w) \/ PublishOldest(w)

TruncateStep ==
  \/ \E s \in Sources : BuildHeapVisit(s)
  \/ BuildHeapDone
  \/ TruncateRemove
  \/ TruncatePanic
  \/ TruncateEnd

MetaStep(r) ==
  \/ \E s \in Sources : MetaRange(r, s) \/ MetaLoad(r, s)
  \/ MetaRangeDone(r)
  \/ MetaReturn(r)

Next ==
  \/ \E w \in Writers, s \in Sources, ts \in Timestamps : PutLocate(w, s, ts)
  \/ \E w \in Writers : PutStep(w)
  \/ TruncateBegin
  \/ TruncateStep
  \/ \E r \in MetaReaders : MetaBegin(r) \/ MetaStep(r)

\* The Go scheduler runs every goroutine that can run, and the truncation timer
\* is set again after each truncation; nothing forces a client to call Put or
\* Meta.
Fairness ==
  /\ \A w \in Writers : WF_vars(PutStep(w))
  /\ WF_vars(TruncateBegin)
  /\ WF_vars(TruncateStep)
  /\ \A r \in MetaReaders : WF_vars(MetaStep(r))

Spec == Init /\ [][Next]_vars
FairSpec == Spec /\ Fairness

-----------------------------------------------------------------------------
(* Properties. *)

WriterStates == [pc : {"idle", "located", "inserted", "publish"}, tree : Storages \cup {NoStorage},
                 timestamp : Int, oldest : Int]
HeapEntries == [timestamp : Int, source : Sources, tree : Storages]
TruncatorStates == [pc : {"idle", "build", "remove"}, todo : SUBSET Sources,
                    heap : SUBSET HeapEntries, remaining : Int]
ReaderStates == [pc : {"idle", "range", "load"}, todo : SUBSET Sources,
                 report : SUBSET Sources]
MetaInfos == [expired : Nat, oldest : Int, newest : Int]
Nodes == [key : Int, timestamp : Int]

\* Every variable has the shape the code's declarations give it.
TypeOK ==
  /\ storageIndex \in [Sources -> Storages \cup {NoStorage}]
  /\ tree \in [Storages -> SUBSET Nodes]
  /\ meta \in [Storages -> MetaInfos]
  /\ created \in Nat
  /\ count \in Int
  /\ oldestTimestamp \in Int
  /\ consecutiveTruncation \in 0..(PrunesPerGC - 1)
  /\ ingress \in 0..MaxPuts
  /\ expired \in Nat
  /\ writer \in [Writers -> WriterStates]
  /\ truncator \in TruncatorStates
  /\ reader \in [MetaReaders -> ReaderStates]
  /\ panicked \in Panics
  /\ overwritten \in Nat
  /\ disturbed \in BOOLEAN

HeldIn(trees) == UNION {{t} \X trees[t] : t \in Storages}
Held == HeldIn(tree)
Locating == {w \in Writers : writer[w].pc = "located"}

\* Every envelope that Put was given is in a tree, was expired (by an eviction
\* or by the truncation), was overwritten, or is still on its way in: the
\* metrics log_cache_ingress and log_cache_expired leave nothing else out.
EnvelopesConserved ==
  ingress = Cardinality(Held) + expired + overwritten + Cardinality(Locating)

\* store.count, which every truncation quantity is computed from, is the number
\* of nodes in all trees, too large by the envelopes that were overwritten.
CountAccounts == count = Cardinality(Held) + overwritten

\* No storage ever holds more than maxPerSource envelopes, indexed or not.
PerSourceBound == \A t \in Storages : Cardinality(tree[t]) <= MaxPerSource

\* The expiration heap has one entry per source, and its storage is still the
\* one indexed for that source: truncation never deletes the index entry of a
\* storage it has not just emptied, however long the heap is kept.
HeapEntriesIndexed ==
  \A e \in truncator.heap :
    /\ storageIndex[e.source] = e.tree
    /\ tree[e.tree] # {}
    /\ \A d \in truncator.heap : d.source = e.source => d = e

\* An indexed storage is empty only while a Put that located it has not
\* inserted yet: no source without envelopes stays in the index.
EmptyIsAwaited ==
  \A s \in Sources :
    Indexed(s) /\ tree[storageIndex[s]] = {} =>
      \E w \in Locating : writer[w].tree = storageIndex[s]

\* The meta record of a storage brackets its nodes: oldest is the key that Left
\* returns, newest is no earlier than any timestamp held.
MetaTracksTree ==
  \A t \in Storages : tree[t] # {} =>
    /\ meta[t].oldest \in Keys(tree[t])
    /\ \A n \in tree[t] : meta[t].oldest <= n.key /\ n.timestamp <= meta[t].newest

Orphan(t) == t \in 1..created /\ \A s \in Sources : storageIndex[s] # t

\* A storage that left the index is never found again: what it holds or will
\* hold comes from the Puts that were between lookup and insertion when it was
\* emptied, one envelope for each.
OrphanLossBounded ==
  \A t \in Storages : Orphan(t) =>
    Cardinality(tree[t]) + Cardinality({w \in Locating : writer[w].tree = t})
      <= Cardinality(Writers)

\* Truncation runs out of heap entries only if count was too large: envelopes
\* are stranded in an orphan storage, or one was overwritten.
HeapPopNeedsLeak ==
  panicked = "heap.Pop" =>
    overwritten > 0 \/ \E t \in Storages : Orphan(t) /\ tree[t] # {}

\* A truncation that no Put disturbs removes the oldest envelope of the whole
\* store each time ("truncate removes the n oldest envelopes across all trees").
OldestRemovedFirst ==
  [][\A t \in Storages : truncator.pc = "remove" /\ ~disturbed /\ ~disturbed' =>
       \A n \in tree[t] \ tree'[t] : \A s \in IndexedSources :
         \A m \in tree[storageIndex[s]] : n.key <= m.key]_vars

\* What the index reaches implements the promise of EnvelopeStore: a step of any
\* goroutine changes the contents of one source by one legal operation or not
\* at all.
Contents == [s \in Sources |-> IF Indexed(s) THEN tree[storageIndex[s]] ELSE {}]
Promise == INSTANCE EnvelopeStore WITH contents <- Contents
ImplementsPromise == Promise!Spec

\* A Put and a Meta call that began return, unless the process crashes: neither
\* waits for ever on a storage's lock.
CallsReturn ==
  /\ \A w \in Writers : writer[w].pc # "idle" ~> (writer[w].pc = "idle" \/ ~Running)
  /\ \A r \in MetaReaders : reader[r].pc # "idle" ~> (reader[r].pc = "idle" \/ ~Running)

\* While memory stays above the threshold, truncation keeps removing envelopes
\* until the consultant asks for none, or the process crashes: count cannot get
\* into a state where truncate runs for ever without effect.
PressureRelieved == <>[](~Running \/ truncator.pc = "idle")

-----------------------------------------------------------------------------
(* What comments of store.go say and the code does not do. *)

\* "All functions are thread safe": what concurrent Puts stored can be reached.
NothingStranded == \A t \in Storages : Orphan(t) => tree[t] = {}

\* "All functions are thread safe": no interleaving crashes the process.
NoPanic == Running

\* "Otherwise, grab the next oldest timestamp": after a truncation that no Put
\* disturbed, oldestTimestamp is no later than any envelope in the store.
NextOldestIsOldest ==
  [][truncator.pc = "remove" /\ truncator'.pc = "idle" /\ ~disturbed =>
       \A s \in IndexedSources : \A n \in tree[storageIndex[s]] :
         oldestTimestamp' <= n.key]_vars
=============================================================================
