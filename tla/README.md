# A TLA+ verification project for log-cache

log-cache (`cloudfoundry/log-cache-release`) keeps the most recent log and
metric envelopes of every application of a Cloud Foundry deployment in memory
and answers reads of them. This directory holds TLA+ modules for it, TLC
configurations that check them on small instances, and TLAPS proofs.

Paths below are relative to `src/src/` of the repository.

## 1. The system

| Component | State | Operations | Talks to |
|---|---|---|---|
| **Envelope store** `internal/cache/store/store.go` | `storageIndex` (source id → storage), per storage an AVL tree, a lock and a meta record; `count`, `oldestTimestamp`, `consecutiveTruncation` | `Put`, `Get`, `Meta`, the truncation goroutine (`truncate`, `BuildExpirationHeap`, `removeOldestEnvelope`) | prune consultant, gRPC handlers |
| **Prune consultant, memory analyzer** `store/prune_consultant.go`, `cache/memory_analyzer.go` | last readings | `GetQuantityToPrune`, `Memory` | operating system, Go runtime |
| **Local store reader** `internal/routing/local_store_reader.go` | none | `Read` (defaults, refusals, filters), `Meta` | store |
| **Batched ingress client** `internal/routing/batched_ingress_client.go` with `go-diodes`, `go-batching` | ring buffer, write and read index, batch | `Send`, the forwarding goroutine | a peer node |
| **Cluster routing** `internal/routing/{routing_table,ingress_reverse_proxy,egress_reverse_proxy}.go`, `cache/log_cache.go` | client lists, local and remote meta cache | `Send`, `Read`, `Meta`, node set-up | peers, store |
| **Nozzle** `internal/nozzle/nozzle.go` | diode, batch, channel of batches | reader, batcher, writers | syslog server, log-cache node |
| **Syslog server** `internal/syslog/server.go` | connections, a channel of 100 envelopes | accept, `parseListener`, `Stream` | nozzle |
| **UAA client** `internal/auth/uaa_client.go` | public keys, last query time | `RefreshTokenKeys`, `Read` | UAA |
| **CAPI client** `internal/auth/capi_client.go` | token cache | `IsAuthorized`, `AvailableSourceIDs`, `GetRelatedSourceIds`, `pruneTokens` | CAPI |
| **CF auth proxy** `internal/cfauthproxy`, `auth/cf_auth_middleware.go` | none | one handler per route | UAA and CAPI client, gateway |
| **PromQL** `internal/promql`, `go-log-cache/v3/walk.go` | per query | `InstantQuery`, `RangeQuery`, `Select`, `Walk` | `Read` of a node |
| **Gateway, marshaler, access log, commands** | none | HTTP to gRPC, JSON, start-up | everything |

An envelope enters through a node's `Ingress.Send`, which routes it by its
source id to the local store or, through a batched ingress client, to a peer.
Reads go the same way. HTTP users come through the auth proxy and the gateway;
syslog drains come through the syslog server and the nozzle.

What is hard: gRPC handlers call `Put`, `Get`, `Meta` and `Send` concurrently
with each other and with the truncation goroutine, and the store shares three
kinds of state with three disciplines (a `sync.Map`, one lock per storage,
atomics). Storages come and go while goroutines hold pointers to them. Equal
timestamps are separated by "fudged" keys. Buffers drop when they are full.
Calls to peers, UAA and CAPI fail, time out and are answered late.
`PROJECT.json` lists each of these hazards at its line, with the properties
that cover it or the reason why none does.

What makes each component correct:

* store: every envelope is accounted for, per-source and total counts are what
  the trees hold, oldest goes first, no storage is lost or resurrected, calls
  return, memory pressure is relieved;
* reads: exactly the envelopes of the range, filters and limit, in order;
* ingress client: an envelope arrives once and in order or is counted as lost,
  and nothing stays in a buffer;
* cluster: what one node sends, a read on any node finds; meta caches age out;
* nozzle and syslog server: bounded buffers, losses are counted, no deadlock;
* authorization: the cached keys are those of UAA's last answer, a query is
  rewritten to exactly what was authorized, and revocation takes effect in
  bounded time;
* PromQL: a walk visits every envelope of its range once, in order.

## 2. Modules

| Module | Models | Used with |
|---|---|---|
| `EnvelopeStore` | the abstract promise to readers: per source a bounded set of nodes from which only the oldest, or one of an exhausted run of keys, is ever lost | refinement target of `Store` and `StorageTree` |
| `Store` | the concurrent store: Put, truncation, Meta, consultant | `MCStore` |
| `StorageTree` | one storage as the AVL tree it is, `Get` with its traversals, `LocalStoreReader.Read` | `MCStorageTree` |
| `BatchedIngressClient` | diode, batcher and forwarding goroutine | its own cfg files |
| `PromQL` | `Select`, its walk over a `StorageTree` that changes between two pages, series and `Seek` | extends `StorageTree`; `MCStorageTree` |
| `Cluster` | nodes that route envelopes, reads and Meta requests to each other, crash and start again | `MCCluster` |
| `Ingestion` | syslog server and nozzle, from a connection to the call of log-cache | `MCIngestion` |
| `UAAClient` | the cached token keys and `RefreshTokenKeys` | extended by `AuthProxy` |
| `CAPIClient` | the cached grants, `IsAuthorized` and `pruneTokens` | extended by `AuthProxy` |
| `AuthProxy` | start-up, the routes of the middleware, `UAAClient.Read`, the rewriting of queries; composes the two clients | `MCAuthProxy` |

Theorems are in modules of their own:

| Module | About |
|---|---|
| `InductionFacts` | induction on the natural numbers, with the property given as a set, and the loops and chains of calls that it defines |
| `StoreProofs` | `Store`: types, index and heap, refinement, counts, what a truncation removes |
| `StorageTreeProofs` | `StorageTree`: the AVL tree, its refinement, its traversals (extends `InductionFacts`) |
| `PromQLProofs` | `PromQL`: the walk, the series and the binary search (extends `StorageTreeProofs`) |
| `IngressClientProofs` | `BatchedIngressClient` |
| `ClusterProofs` | `Cluster` (extends `InductionFacts`) |
| `IngestionProofs` | `Ingestion` |
| `AuthProxyProofs` | `AuthProxy`, with `UAAClient` and `CAPIClient` |

Definitions named `Bug...` are plausible wrong versions of the definition after
them; `PROJECT.json` pairs each property with the one that breaks it. They are
no part of any specification.

### Store

A storage is a number (`1..MaxPuts`, in order of allocation) whose tree is the
set of its nodes `[key, timestamp]`. It outlives its index entry, because
goroutines keep pointers to it. A step is a critical section, or the part of
one up to the next access to state that others reach without its lock:

| Action | Code |
|---|---|
| `PutLocate` | `Put`'s counter and `getOrInitializeStorage` (one step: its mutex excludes other initialisations) |
| `InsertOrSwap`, `LoadOldest`, `PublishOldest` | `insertOrSwap`: the eviction, `count`, the tree and the meta record; the load of `oldestTimestamp`; the store that may follow. The storage's lock is held throughout, and the tree, which nobody sees before the unlock, changes together with `count` |
| `TruncateBegin` | `truncate`'s load of `count`, `GetQuantityToPrune`, the early return and the clamp |
| `BuildHeapVisit`, `BuildHeapDone` | `BuildExpirationHeap`: `Range` visits every source that was there when it began, and any subset of those stored since |
| `TruncateRemove`, `TruncatePanic` | one turn of the removal loop: `heap.Pop` (which panics when the heap is empty), `removeOldestEnvelope`, `heap.Push` |
| `TruncateEnd` | what follows the loop: `oldestTimestamp`, the garbage collection counter |
| `MetaBegin` … `MetaReturn` | `Meta`'s two loops, each source visited in a step of its own |

`panicked` records a crash of the process; nothing happens after one. Two
history variables serve properties only: `overwritten` counts envelopes replaced
under their key, `disturbed` says that a Put ran since the truncation began.

Approximations: the percentages of the prune consultant are exact rationals
instead of floating point numbers, and int(NaN), its answer when the total
memory reading failed, is 0 or negative. Any entry with another one no later
than it may be the last of the heap's slice.

### StorageTree

The tree is the nested record that gods' avltree builds, with the height in
place of the balance factor. The lock of the storage makes each insertion,
removal and read one step, so reads are operators over the state and their
properties are invariants that quantify over all requests of the instance. A
name filter is the set of names its expression matches; the removal is only ever
that of the left-most node. An expression that does not compile
(`InvalidFilter`) refuses the request, as the other refusals do. An envelope type
that is none of the protocol's is no input of the model: `checkEnvelopeType`
panics over it ("This should never happen"). Insertion, removal and traversal are recursive
functions on `Trees`, the trees no higher than the insertions that can have made
them (`TreesTo`); a traversal is a function of the tree and of what was found
before it, as the code's closure is.

### BatchedIngressClient

`Set` of the diode is cut at each access to `writeIndex`, a plain field that
concurrent senders race for: the index of the slot (`SetBegin`), the sequence
number (`SetBucket`), and the load and the store of the increment (`SetLoad`,
`SetAdvance`). What the compiled code may keep from an earlier load or load again
is a choice. An envelope is the number of the Set that brought it. A
call of the peer delivers the batch, fails, or does both (a timeout that the
answer missed).

### PromQL

A query is `Select` (which asks for a second more than its range), then one
action per page: `ReadPage` is the body of `Walk`'s loop around a `Read` of
`StorageTree` that is not refused, `ReadFails` an error and the backoff that follows, `Deadline` the
end of the five seconds. Between two pages `TreeStep` lets the tree take any
step. The values of points play no part; their times do, rounded down to
seconds, and `Seek` is the binary search `sort.Search` does, by the bounds after
each round of its loop. A query changes nothing (`QueriesLeaveTree`), so the
read properties of `StorageTree` hold for every page.

A walk that meets `MaxErrors` errors in a row returns what it has and no error
(five in the code, four seconds of sleep, within the five seconds of the
context): `WalkExact` promises completeness only for walks that did not give up.

### Cluster

A node is its place in `nodeAddrs`. `clients[n]` is what `setupRouting` builds:
the peers it could dial and itself, in order; a peer it could not dial has no
place, while `localIdx` and the routing table still count it. Every index into
the list that the code makes is `Peer(n, idx)`, guarded by `InRange`: outside
the range the process panics (`Crash`).

| Action | Code |
|---|---|
| `Start`, `Stop` | `Start` with `setupRouting`, any of the refusable peers refused; the end of a process |
| `Send` | `IngressReverseProxy.Send` without `LocalOnly`: split by home, to the store or into batched clients |
| `Forward` | a call of a batched client: `Arrive` is `Send` with `LocalOnly` at the peer, `Lose` a failed call |
| `Evict` | the store loses an envelope (see `Store`) |
| `LocalMeta` | `localMeta` begins for a caller that is not modelled: the cache is loaded and has expired |
| `AskLocal`, `LookFails`, `StoreMeta` | the rest of `localMeta`: the client at the local index is asked, or its call fails; the answer is stored in the cache and returned |
| `RemoteMeta`, `AskClient`, `ClientFails`, `AnswerMeta` | `remoteMeta`: cache test; one client after the other, each the store, a peer's good cache (`FromCache`) or a new `localMeta` there, or a failure; the new cache |

`AnsweredBy` is `Read`, which changes nothing: it follows a request from node to
node. Clocks are ages that grow with `Tick`; `quiet` records how long a source
has neither come to nor gone from its home.

A `localMeta` in progress is an entry of `look`: where it runs, what it has read,
and the `remoteMeta` or the `localMeta` of another node that waits for it. Between
its load of the cache, its read and its store other calls may run, be slow, and
store what they read before, stamped with the time of the store; a caller that
gives up leaves it running. The bound that `MetaCatchesUp` states therefore has
four parts, the durations of the two caches and the times that a `localMeta` and
a `remoteMeta` take, and that, not one second, is what a user of `Meta` sees.

Properties about where things end hold `~misdialled`, while every start found
all its clients; `Accounted` holds regardless.

### Ingestion

A message is reduced to what decides its fate: whether it parses, which header
fields it has, whether the numbers in its structured data parse. `Converts` is
`convertToEnvelope`; structured data is visited in any order and an error of one
element is one of the message, whatever the order. An RFC 5424 message need not
have a timestamp: `convertToEnvelope` dereferences a nil pointer then (`Panics`),
nothing recovers, and the process is over (`Panicked`, `Ended`) with all that its
buffers hold. An envelope is its number in the order of entering the channel.
`Receive`, `SendEnvelope` and `CountIngress` are `parseListener` up to the
channel, its send and the counter after it; `ReadStream`, `SetDiode` and
`CountRead` are the nozzle's reader, `Batch` is an iteration of its batcher and
`TakeBatch`/`SendBatch` are its writers. `Batch` reads the
timer between the poll and the test of the size, as the code's `select` does.

### UAAClient, CAPIClient, AuthProxy

`RefreshTokenKeys` is cut at each access to shared state: load of
`lastQueryTime`, compare-and-swap (whose result the code ignores), UAA's answer,
the `Range`, each `Store` and `Delete`. It runs in requests with an unknown key,
in background goroutines of tokens that do not verify (bound: one at a time) and
in the start-up loop. UAA is external: it makes new keys under old ids and drops
ids. A key is its generation; a signature verifies if the generations agree.

`IsAuthorized` is cut at the cache, at the two requests to the Cloud Controller
and at the `Store`; `pruneTokens` at each visit and `Delete`, between which a
new grant may be stored. The Cloud Controller is external and withdraws access.
Time is `Tick`; it waits for a due pruning and for calls that have taken
`MaxTook`.

`AuthProxy` adds the middleware. A query is its set of selectors, a selector its
set of `source_id` matchers; `ExtractSourceIds` and `ReplaceInSelector` are the
two visitors of `promql.go`. The value of a matcher is the set of ids that are
joined in it. An id may hold `|` itself, in an equality, and `Parts` says what
splitting makes of it: put back with the apps of that name it becomes a regular
expression, and the engine reads its parts. An administrator may name such an id;
no source that the Cloud Controller grants is one (`PartsAssumption`), so
`QueriesRewritten` is exact for users.

## 3. Runs

| Run | Shows | Bounds |
|---|---|---|
| `store` | nine invariants, `OldestRemovedFirst`, `ImplementsPromise` | 2 sources, 2 writers, timestamps {1, 2, 4}, 4 Puts, maxPerSource 3, fudge 1, all memory readings |
| `store_liveness` | `CallsReturn`, `PressureRelieved` | the same with 1 Meta call, one timestamp, constant pressure |
| `store_stranded`, `store_panic`, `store_oldest` | disagreements of `store.go` with its comments | 3 Puts |
| `ingress_client` | four invariants, `BatchLeaves`, `CatchesUp` | 2 senders, diode and batch of 2, 4 envelopes |
| `ingress_client_drops` | a loss that `ingress_dropped` misses | the same |
| `storage_tree` | balance, refinement, three read properties, `WalkExact`, `SeekExact` | 6 insertions (4 with a query), 5 envelopes of 3 types, 4 of them of one series, 5 nodes, 288 requests; queries with pages of 1 |
| `storage_tree_range` | reads that leave out envelopes of their range | 6 nodes, logs only |
| `cluster` | `AtHome`, `Accounted`, `ReadsReachHome`, `MetaCatchesUp` | 3 nodes, 2 sources with an envelope each, 2 `remoteMeta` and 2 `localMeta` at a time, 1 restart, the first node not dialled or dialled |
| `ingestion` | `Reconciles`, `ArrivesOnceInOrder`, `SendersServed`, `Drains` | 2 connections, 3 results, 10 kinds of message, channel of 1, diode and batches of 2, 2 writers |
| `auth` | `RefreshReplaces`, `GrantsExpire`, `QueriesRewritten` | 1 request and 1 background refresh at a time, 2 key ids, 1 rotation, an app, a service, a name, and a name that holds the separator of ids, intervals of 1 tick |

Why the bounds are enough: four Puts fill a source and evict, run out of fudged
keys (the third with one timestamp does), fudge into the key of the next
timestamp, fill one storage while the other
is truncated, and re-create a storage whose predecessor a Put still holds; two
writers give every pairwise order of the critical sections. A diode of two is
lapped by four envelopes. Five nodes give an AVL tree of height three with all
four rotations. A page of one makes every walk take several pages. Counters at 1 and 5 and a
gauge at 3 make a series of three points without a fudged key, which a walk brings
in three pages and the binary search divides; the log at 3 fudges the gauge, or is
fudged by it, and the counter at 6 is too new to be asked for. A query
takes place within the first four insertions (`MaxQueryPuts`); the tree goes on
to six without one.

Three nodes are the least in which a missing client shifts an index both to
another node (an envelope is then forwarded once more and stored there) and out
of range (a panic); two envelopes split a batch. Meta calls of either
kind and envelopes, which count twice, share a bound of four (`MaxBusy`): two
calls go with an envelope that comes and goes, so that a slow `localMeta` is
overtaken by another of the same node and two callers overwrite each other's
cache. The bound of `MetaCatchesUp` is tight in this instance: with one `MaxTook`
less TLC finds an answer that is wrong. Only node 1 gets
LocalOnly calls from elsewhere (`LocalCallsAt`); the homes are nodes 1 and 2, and
the local cache of node 0 is read by nobody who asks in this instance. In
`ingestion` two messages contend for the channel, three envelopes lap a slow
batcher in the diode of two, a third batch meets a full channel when the writers
lag, and a message without a timestamp may come at any time. In `auth` two goroutines race
through the throttle, refreshes overlap or stop between two keys, and access is
withdrawn before, while and after it is asked for. With one request at a time no
grant is stored twice, so that a `Store` between `pruneTokens`' visit and its
delete concerns other keys only; what it could do to the same key is to lose a
grant, which is then asked for again.

Writers and sources are symmetric in `store`, the two callers and the two `localMeta` calls in `cluster`; runs
with liveness properties use no symmetry. The store runs do not check for
deadlock: when the Puts are used up and memory is low, or after a crash, the
model rightly stops; `storage_tree` ends with its query. `cluster`, `ingestion`
and `auth` check it; after a panic the process of `ingestion` has `Ended`, which is
no deadlock.

Fairness: `Store` assumes weak fairness of each Put and Meta call that has
begun and of the truncation goroutine, which the Go scheduler gives to runnable
goroutines, and of the timer that `truncationLoop` sets again after each
truncation. Weak fairness is enough for the locks, since a lock is held by a Put
for one more step only. `BatchedIngressClient` assumes it of the forwarding
goroutine, of the senders inside Set, and of the clock; calls of the peer end
because their context has a timeout. Nobody is obliged to call Put, Meta or Send.
`Ingestion` assumes weak fairness of the nozzle's goroutines, of its timer and of
the calls of log-cache (3 seconds at most), and strong fairness of a connection's
send on the channel, since a Go channel serves blocked senders in the order they
came. No peer is obliged to send a message, and log-cache may fail every call.
Nothing is fair once the process has panicked: `SendersServed` and `Drains` say
what happens unless it does.

### What the failing runs show

* `store_stranded`: a Put finds a storage, the truncation empties and unindexes
  it, the Put inserts. The envelope is unreachable and `count` stays one too
  large. `OrphanLossBounded` bounds the loss: one envelope per Put in flight.
* `store_panic`: a truncation meets a storage that was indexed and not filled
  yet. With the leak above, or an overwritten key, `heap.Pop` on an empty heap is
  a second way to crash (`HeapPopNeedsLeak` shows there is no third cause), and
  `Meta`'s second loop is another.
* `store_oldest`: `expirationHeap.Pop()` is not `heap.Pop`; the cache period
  metric is computed from a leaf of the heap.
* `ingress_client_drops`: two concurrent Sends use one slot of the diode.
  `DropsAreCountedUnlessOverlapped` shows the count exact otherwise.
* `storage_tree_range`: after insertions with timestamps 1, 2, 1 the third
  envelope has key 3; a descending read of [1, 2) skips the subtree it is in.
  `ReadsExactWithoutFudge` and `FullReadsComplete` say what does hold.

## 4. Proofs

Every invariant that a passing run checks is proved for every value of the
constants, as are the action property of `Store` and the two refinements of
`EnvelopeStore`. What is left to TLC alone is liveness.

| Module | Theorem | Property |
|---|---|---|
| `StoreProofs` | `TypeCorrect` | `TypeOK` |
| | `HeapSafe` | `HeapEntriesIndexed` |
| | `NoEmptySourceLingers` | `EmptyIsAwaited` |
| | `Refinement` | `ImplementsPromise` (`EnvelopeStore!Spec` under `Contents`) |
| | `SourcesAreBounded` | `PerSourceBound` |
| | `MetaIsTrueToTree` | `MetaTracksTree` |
| | `CountIsExact` | `CountAccounts` |
| | `EnvelopesAreConserved` | `EnvelopesConserved` |
| | `OrphanLossIsBounded` | `OrphanLossBounded` |
| | `PopNeedsLeak` | `HeapPopNeedsLeak` |
| | `TruncationIsOldestFirst` | `OldestRemovedFirst` (action property) |
| `StorageTreeProofs` | `TypeCorrect` | `TypeOK` (balance, order, size, fudge) |
| | `Refinement` | `ImplementsPromise` (`EnvelopeStore!Spec` under `TreeNodes`) |
| | `ReadsAreWanted` | `ReadsOnlyWanted` |
| | `FullReadsAreComplete` | `FullReadsComplete` |
| | `ReadsAreExact` | `ReadsExactWithoutFudge` |
| `PromQLProofs` | `QueriesLeaveTree` | `StorageTree!Spec` |
| | `WalksAreExact` | `WalkExact` |
| | `SeeksAreExact` | `SeekExact` |
| `IngressClientProofs` | `TypeCorrect` | `TypeOK` |
| | `NoDuplicates` | `ArrivesOnce` |
| | `DropsAreExact` | `DropsAreCountedUnlessOverlapped` |
| | `OrderIsKept` | `ArrivesInOrder` |
| `ClusterProofs` | `TypeCorrect` | `TypeOK` |
| | `ClusterConserves` | `Accounted` |
| | `StoredAtHome` | `AtHome` |
| | `ReadsFindTheirSource` | `ReadsReachHome` |
| | `MetaIsBoundedStale` | `MetaCatchesUp` |
| `IngestionProofs` | `TypeCorrect` | `TypeOK` |
| | `CountersReconcile` | `Reconciles` |
| | `ArrivalsAreOrdered` | `ArrivesOnceInOrder` |
| `AuthProxyProofs` | `TypeCorrect` | `TypeOK` |
| | `KeysAreReplaced` | `RefreshReplaces` |
| | `GrantsAreShortLived` | `GrantsExpire` |
| | `QueriesAreRewritten` | `QueriesRewritten` |

### Assumptions

Each module that declares constants names what it assumes of them, and TLC
evaluates that on every run. They are types, sizes that are at least one
(buffers, batches, `MaxPerSource`, the node list, the expiration interval), and
finiteness of the sets of goroutines that are counted (`Writers` of the store;
`Conns` and `Writers` of the ingestion): no process has infinitely many.
`RequestAssumption` asks for a default limit of at least one, and
`WalkAssumption` for a walk delay of at least one nanosecond (two in the code):
with none, an envelope of this very nanosecond would be asked for by a read that
ends before it. `MaxPuts` bounds the height of trees and is arbitrary.
`PartsAssumption` says that splitting gives ids without `|`, one at least, and that
apps and services, whose ids the Cloud Controller makes, are such.
`RouteAssumption` says that a request names known ids and that the value of a
`source_id` matcher holds one id at least, as splitting any string at `|` does;
`Ids` is finite because a query is a finite text. `ProxyAssumption` says who
refreshes keys and who asks for authorization. The theorems hold for all values
of the bounds, the large ones included.

### The store

`TypeOK` is not inductive: that `created + 1` is a storage rests on `created`
never exceeding the number of Puts, and that a Put inserts into a storage rests
on what its lookup returned. `TypeInv` adds both. The two index invariants need
one another and three more facts, collected in `IndexInv`: storages are indexed
for one source at most, only allocated storages are indexed, and unallocated
ones are empty. The case that matters is `TruncateRemove`: the storage of a
popped heap entry is the indexed one, so the entry that `Delete` removes is that
of the storage just emptied, and the entry pushed back has nodes. Puts keep this
true because they never empty a storage and never re-index an indexed source.

The refinement maps a source to the nodes of its indexed storage. An insertion
into an indexed storage is one of the abstract insertions
(`InsertionIsPromised`, by whether the source is full and whether the fudge ran
out); one into an orphan, and a lookup that indexes an empty storage, are
stuttering steps; a removal is `Expire`.

The counting proofs rest on one description of each step that changes a tree
(`InsertEffect`: at most one node evicted, at most one overwritten, one added
under a key that no other has) and on `TreeInv`: trees are finite and hold one
node per key. `CountInv` then follows the set of all held nodes through the
steps. The bound on orphans needs that a storage which leaves the index does so
empty, so that what it comes to hold are the Puts that had found it.

For `HeapPopNeedsLeak` the invariant is that, unless there is a leak already,
the sources in the heap or still to be visited hold at least as many envelopes
as remain to be removed (`LeakInv`). It holds when the truncation begins because
`count` then is exact, and it survives Puts because nothing but the removal
loop takes a source out of the index (`TodoInv`). `OldestRemovedFirst` needs
that an undisturbed heap is current and complete.

### The storage tree

The library's induction theorems take an operator and cannot be used, so the
trees are their own induction: `TreesTo[h]` is built from `TreesTo[h - 1]`, and a
set that has `Nil` and every tree whose two subtrees it has is all of `Trees`
(`TreeInduction`, from `SetInduction`). With it a function that calls itself on
the subtrees exists (`TreeRecursion`), and each recursive definition is shown to
satisfy its equation once (`PutDef`, `RemoveLeftDef`, `SubtreesDef`,
`TraverseDef`).

`Fix` restores balance and order and keeps the nodes when the heights differ by
two at most (`FixFacts`, a case per rotation). An insertion or removal changes
the height by one at most (`Inserted`, `Removed`), which is why `Fix` is only met
with such differences all the way up. `TypeOK` is inductive with one addition
(`TreeInv`): the tree is no higher than the insertions so far, without which a
result could leave `Trees`. The refinement follows from what `Inserted` and
`Removed` say of the nodes.

The traversal is described three times, each by induction on the tree with what
was found before as a parameter. `TraverseGrows`: it only appends, nodes of this
tree that are wanted, in order; so what came before, which precedes all of this
tree, stays in order. `TraverseAll`: if all time is asked for and the limit is
not reached, all of the tree is visited. `TraverseExact`: without fudged keys it
stops at the limit or behind the range only (`Exact`), since then timestamps are
ordered as the keys are and the subtree it leaves out holds nothing of the range.

### The walk

`WalkInv` has two parts that need each other. What stayed all the time is in the
tree; and while no key was fudged, everything found is before the time the walk
goes on from, in order, and whatever stayed and is not yet found is at that time
or later (`Walked`). A page is exact for the tree as it is when it is read
(`PageExact`, from `ReadsAreExact`'s lemma `ExactRead` and what `Trimmed` cuts),
so what it leaves out comes after its last envelope, or it is empty and nothing
is left. Insertions behind the walk do not disturb it, since they are not among
what stayed. The sequence found is strictly increasing, so the points of a series
are in order (`PointsInOrder`; seconds are rounded down monotonically), and the
binary search keeps the first point sought between its bounds, which meet after
at most as many rounds as there are points (`Between`).

### The ingress client

`PlacesInv` says that an envelope is in one place at most, among the senders in
Set, the slots, the batch and what arrived; it holds although the Sets race.
`SerialInv` describes the diode while no two Sets have overlapped: Set `n` gives
envelope `n` the sequence number `n - 1`, and the last one that ended is passed
or can be read. That is why the difference of sequence numbers in `TryNext` is
the number of lost envelopes, for any diode size and however often it is lapped.

### The cluster

`ClientsComplete` says what `setupRouting` returns when no peer is refused: then
the index into the client list and the one into the routing table agree.
`ClientsOrdered` holds always: an entry never stands behind its own position, so
that a Meta request with `LocalOnly`, even one that a missing client leads
astray, passes on upwards and ends.
`AccountedEach` is `Accounted` envelope by envelope. What the loop of
`setupRouting` and a chain of calls compute is shown by induction on the number
of nodes (`SetInduction`, with the property given as a set of numbers, since the
library's theorems take an operator). `MetaSettled` gives every cache and every call in
progress the age beyond which it is right: what a `localMeta` has read its own
age, a local cache its age and `MaxTook`, since the call that stored it may have
been that slow; a `remoteMeta` its age and `Lag`, the most that a local answer can
be behind when it is used; a remote cache what its call had and its own age. The
step that matters is `StoreMeta`: it replaces a cache, newer or not, by what it
read at most `MaxTook` ago, which is all that the bound of a local cache asks.
`Linked` keeps answers and questions together: a `localMeta` that somebody waits
for is the only one, and is that of the client that was asked.

### The ingestion

The size of a family of batches is the cardinality of its places, so that a
batch that moves from the channel to a writer, or from a writer to log-cache,
moves its length (`PlacesAppend`, `PlacesTail`, `PlacesExcept`). `StreamInv` ties
an envelope's number to its place in the stream. That the counters are within
what the parsers gave is not inductive by itself: it follows from `Reconciles`,
of which every term is a natural number. Its parts are `Counted` (results against
the connections that are not done with theirs, a panicked one included),
`Carried` (envelopes from the channel to the calls) and `FailedCounted`, which
ties `failed` to the counter `nozzle_err` within the size of a batch. `dropped` is
tied to no counter, because the code has none. No envelope arrives twice because what
the batcher takes is newer than anything it took before (`TookOrder`), and the
batches in all places have no envelope in common (`ApartInv`).

### The auth proxy

`RefreshInv` says how far an undisturbed refresh has got: an id it has dealt with
is as the list says, one it has left to delete is not in the list. `AgesInv`
bounds the age of a grant by the last tick of `pruneTokens`, two intervals at
most; `LapsedInv` bounds the time since access was withdrawn by the age of the
grant and the time of the call that stored it. `RequestInv` follows a request:
while its ids are authorized, each has a candidate left, is being asked about or
has something authorized (`Authorizing`), and once it is forwarded all of them
do (`Rewritable`), so that the second parse can replace every id. A matcher that is
put back is read as the ids it means or, when it has become a regular expression,
as the parts of those (`ReplacedMatcher`), which are the ids themselves for a user.

### Only model-checked

* Liveness (`CallsReturn`, `PressureRelieved`, `BatchLeaves`, `CatchesUp`,
  `SendersServed`, `Drains`): fairness is out of the prover's reach.
* `ReadsComplete`, `NothingStranded`, `NoPanic` and the other properties of the
  failing runs do not hold.

## 5. Plan

What remains is on the model's side: replication factors other than 1, should
the cluster come to use them.

## 6. Not modelled

The generated gRPC gateway handlers, the JSON marshaler, access log lines, TLS and
configuration have no state of their own, and what they compute is text. The
PromQL language is Prometheus' engine; the parsing of times and the formatting
of its results in `promql.go` and `parsing.go` are conversions without state.
Where memory readings come from is outside the program. Replication factors
other than 1, and `StaticLookup`, are in the code and used by no part of it. The
ids that `getSeriesID` joins with `-` can collide for tags that contain `-`;
series are identified by their tags here.
