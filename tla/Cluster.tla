------------------------------- MODULE Cluster -------------------------------
(***************************************************************************)
(* Log-cache nodes that route envelopes, reads and meta requests to each     *)
(* other: the routing table, the ingress and egress reverse proxies and the  *)
(* wiring of LogCache.setupRouting.  Nodes crash and start again; a start    *)
(* may fail to create the client of some peer.                               *)
(*                                                                           *)
(* What a node does with its envelopes is Store.tla, what happens inside the *)
(* client that forwards to a peer is BatchedIngressClient.tla; here a store  *)
(* is the set of envelopes it holds and a client the set it has not sent.    *)
(* A Meta request that its cache does not answer takes several steps: the    *)
(* cache is loaded, the clients are asked, the cache is stored.              *)
(***************************************************************************)
EXTENDS Integers, Sequences, FiniteSets

CONSTANTS
  N,             \* nodes, 0..N-1: the positions in nodeAddrs
  SourceIds,
  SourceOf,      \* envelope -> its source id
  Home,          \* SourceIds -> 0..N-1, the jump hash of a source id
  Refusable,     \* addresses that grpc.NewClient may refuse
  CallsAt,       \* Meta calls that may be in flight at the same time -> node
  Lookers,       \* calls of localMeta that may be under way at the same time
  LocalCallsAt,  \* bound: nodes that get Meta calls with LocalOnly from other callers
  CacheDuration, \* metaCacheDuration
  MaxStarts,     \* bound: nodes started again
  MaxTook,       \* bound: how long a Meta call may take
  MaxBusy        \* bound: Meta calls in flight or under way, and twice the envelopes sent

Nodes == 0..(N - 1)
Envelopes == DOMAIN SourceOf
Callers == DOMAIN CallsAt
None == [age |-> -1]

ASSUME ClusterAssumption ==
  /\ N \in Nat \ {0}
  /\ \A e \in DOMAIN SourceOf : SourceOf[e] \in SourceIds
  /\ Home \in [SourceIds -> Nodes]
  /\ Refusable \subseteq Nodes
  /\ \A c \in DOMAIN CallsAt : CallsAt[c] \in Nodes
  /\ LocalCallsAt \subseteq Nodes
  /\ Callers \cap Lookers = {} /\ None \notin Callers \cup Lookers
  /\ CacheDuration \in Nat
  /\ MaxStarts \in Nat /\ MaxTook \in Nat /\ MaxBusy \in Nat

\* Times are kept as the time passed since; longer ones are all the same.
LongAgo == 2 * CacheDuration + 2 * MaxTook + 1

VARIABLES
  up,          \* nodes whose process runs
  clients,     \* node -> its clients in order, each the node it leads to
  store,       \* node -> envelopes
  transit,     \* <<node, peer>> -> envelopes in the batched client
  localCache, remoteCache,  \* node -> cached meta
  call,        \* caller -> remoteMeta in progress
  look,        \* looker -> localMeta in progress, and the caller or looker it is for
  starts,      \* history: starts after the first
  sent,        \* history: envelopes given to Send
  gone,        \* history: envelopes evicted, lost on the way or in a crash
  quiet,       \* history: source id -> time since its home gained or lost it
  misdialled   \* history: some node started without one of its clients

vars == <<up, clients, store, transit, localCache, remoteCache, call, look, starts,
          sent, gone, quiet, misdialled>>
setupVars == <<up, clients, starts, misdialled>>
dataVars == <<store, transit, sent, gone, quiet>>
metaVars == <<localCache, remoteCache, call, look>>

InFlight == {c \in Callers : call[c] # None} \cup {k \in Lookers : look[k] # None}
WithinBusy(envelopes, calls) == 2 * Cardinality(envelopes) + Cardinality(calls) <= MaxBusy
Sources(envelopes) == {SourceOf[e] : e \in envelopes}
Present(s) == s \in Sources(store[Home[s]])
TrackChanges ==
  quiet' = [s \in SourceIds |-> IF Present(s)' # Present(s) THEN 0 ELSE quiet[s]]

-----------------------------------------------------------------------------
(* Set-up.  A peer that cannot be dialled gets no place in the list. *)

SetupRouting(n, refused) ==
  LET appended[k \in 0..N] ==  \* after the first k addresses
        IF k = 0 THEN <<>>
        ELSE IF k - 1 = n \/ k - 1 \notin refused THEN Append(appended[k - 1], k - 1)
        ELSE appended[k - 1]
  IN appended[N]

\* The position the node takes for its own.
BugLocalIdx(n) == 0
LocalIdx(n) == n

\* RoutingTable.Lookup for the replication factor 1 of setupRouting.
Lookup(s) == Home[s]

InRange(n, idx) == idx < Len(clients[n])
Peer(n, idx) == clients[n][idx + 1]

Init ==
  /\ up = Nodes
  /\ clients = [n \in Nodes |-> SetupRouting(n, {})]
  /\ store = [n \in Nodes |-> {}]
  /\ transit = [l \in Nodes \X Nodes |-> {}]
  /\ localCache = [n \in Nodes |-> None]
  /\ remoteCache = [n \in Nodes |-> None]
  /\ call = [c \in Callers |-> None]
  /\ look = [k \in Lookers |-> None]
  /\ starts = 0
  /\ sent = {}
  /\ gone = {}
  /\ quiet = [s \in SourceIds |-> LongAgo]
  /\ misdialled = FALSE

-----------------------------------------------------------------------------
(* A process ends, by a fault or by an index out of range in a handler, and  *)
(* loses all it holds, the envelopes being handed to it included.            *)

Held(n) == store[n] \cup UNION {transit[<<n, m>>] : m \in Nodes}

\* The node where a call is in progress.
NodeOf(waiter) == IF waiter \in Callers THEN CallsAt[waiter] ELSE look[waiter].node
WaitsAt(l, n) == l.for # None /\ NodeOf(l.for) = n

Crash(n, handedOver) ==
  /\ up' = up \ {n}
  /\ store' = [store EXCEPT ![n] = {}]
  /\ transit' = [l \in Nodes \X Nodes |-> IF l[1] = n THEN {} ELSE transit[l] \ handedOver]
  /\ gone' = gone \cup Held(n) \cup handedOver
  /\ localCache' = [localCache EXCEPT ![n] = None]
  /\ remoteCache' = [remoteCache EXCEPT ![n] = None]
  /\ call' = [c \in Callers |-> IF CallsAt[c] = n THEN None ELSE call[c]]
  /\ look' = [k \in Lookers |->
       IF look[k] = None \/ look[k].node = n THEN None
       ELSE IF WaitsAt(look[k], n) THEN [look[k] EXCEPT !.for = None] ELSE look[k]]
  /\ TrackChanges
  /\ UNCHANGED <<clients, starts, misdialled>>

Stop(n) == n \in up /\ starts < MaxStarts /\ Crash(n, {}) /\ UNCHANGED sent

Start(n) ==
  /\ n \notin up /\ starts < MaxStarts
  /\ \E refused \in SUBSET Refusable :
       /\ clients' = [clients EXCEPT ![n] = SetupRouting(n, refused)]
       /\ misdialled' = (misdialled \/ refused \ {n} # {})
  /\ up' = up \cup {n}
  /\ starts' = starts + 1
  /\ UNCHANGED <<dataVars, metaVars>>

-----------------------------------------------------------------------------
(* IngressReverseProxy. *)

\* Send without LocalOnly: every envelope goes to the client at the index of its
\* source id, the local one being the store.  No client returns an error.
Send(n, batch) ==
  LET For(m) == {e \in batch : Peer(n, Lookup(SourceOf[e])) = m} IN
  /\ n \in up /\ WithinBusy(sent \cup batch, InFlight)
  /\ sent' = sent \cup batch
  /\ IF \A e \in batch : InRange(n, Lookup(SourceOf[e]))
     THEN /\ store' = [store EXCEPT ![n] = @ \cup For(n)]
          /\ transit' = [l \in Nodes \X Nodes |->
               IF l[1] = n /\ l[2] # n THEN transit[l] \cup For(l[2]) ELSE transit[l]]
          /\ TrackChanges
          /\ UNCHANGED <<setupVars, metaVars, gone>>
     ELSE Crash(n, batch)

\* What a client still has to send after a call: it never sends a batch again.
BugRetry(l, batch) == transit[l]
Unsent(l, batch) == transit[l] \ batch

\* The batched client of some node sends to node m with LocalOnly set, and m
\* hands the batch to the client at its local index; or the call fails.
Arrive(m, batch) ==
  /\ m \in up
  /\ IF InRange(m, LocalIdx(m))
     THEN LET p == Peer(m, LocalIdx(m)) IN
          /\ store' = IF p = m THEN [store EXCEPT ![m] = @ \cup batch] ELSE store
          /\ transit' = [l \in Nodes \X Nodes |->
               IF p # m /\ l = <<m, p>> THEN transit[l] \cup batch ELSE Unsent(l, batch)]
          /\ TrackChanges
          /\ UNCHANGED <<setupVars, metaVars, gone>>
     ELSE Crash(m, batch)

Lose(n, m, batch) ==
  /\ transit' = [transit EXCEPT ![<<n, m>>] = Unsent(<<n, m>>, batch)]
  /\ gone' = gone \cup batch
  /\ UNCHANGED <<setupVars, store, metaVars, quiet>>

Forward(n, m) ==
  \E batch \in (SUBSET transit[<<n, m>>]) \ {{}} :
    (Arrive(m, batch) \/ Lose(n, m, batch)) /\ UNCHANGED sent

\* The store evicts or expires an envelope.
Evict(n) ==
  \E e \in store[n] :
    /\ store' = [store EXCEPT ![n] = @ \ {e}]
    /\ gone' = gone \cup {e}
    /\ TrackChanges
    /\ UNCHANGED <<setupVars, transit, metaVars, sent>>

-----------------------------------------------------------------------------
(* EgressReverseProxy. *)

\* Read: whose store answers a read of s that reaches a node.  A forwarded read
\* carries no LocalOnly: the peer routes it again.
BugReadIdx(n, s) == LocalIdx(n)
ReadIdx(n, s) == Lookup(s)

AnsweredBy(node, s) ==
  LET Follow[hops \in 0..N] == [n \in Nodes |->
        IF n \notin up THEN "unavailable"
        ELSE IF ~InRange(n, ReadIdx(n, s)) THEN "panic"
        ELSE IF Peer(n, ReadIdx(n, s)) = n THEN n
        ELSE IF hops = 0 THEN "loop"
        ELSE Follow[hops - 1][Peer(n, ReadIdx(n, s))]]
  IN Follow[N][node]

\* metaCache.expired
BugNeverExpired(cache, age) == cache = None
ExpiredAt(cache, age) == cache = None \/ age > CacheDuration
Expired(cache) == ExpiredAt(cache, cache.age)

\* localMeta of node n, called for a caller, for another localMeta or for somebody
\* who is not modelled (None).  A cache that is good is the answer; else a client has
\* to be asked.
FromCache(n, meta) == n \in up /\ ~Expired(localCache[n]) /\ meta = localCache[n].meta
NewLook(n, waiter) == [age |-> 0, node |-> n, pc |-> "ask", meta |-> {}, for |-> waiter]
MustLook(n, k) ==
  /\ n \in up /\ Expired(localCache[n])
  /\ look[k] = None /\ WithinBusy(sent, InFlight \cup {k})

LocalMeta(n) ==
  \E k \in Lookers :
    /\ MustLook(n, k)
    /\ look' = [look EXCEPT ![k] = NewLook(n, None)]
    /\ UNCHANGED <<setupVars, dataVars, localCache, remoteCache, call>>

\* It asks the client at its local index: the store, or, when an earlier client is
\* missing, a peer, whose localMeta answers from its cache or has to look in turn.
Answered(k, meta) == [look[k] EXCEPT !.pc = "store", !.meta = meta]

AskLocal(k) ==
  LET n == look[k].node
      p == Peer(n, LocalIdx(n))
  IN
  /\ look[k] # None /\ look[k].pc = "ask"
  /\ IF ~InRange(n, LocalIdx(n)) THEN Crash(n, {}) /\ UNCHANGED sent
     ELSE /\ \/ p = n /\ look' = [look EXCEPT ![k] = Answered(k, Sources(store[n]))]
             \/ p # n /\ \E meta \in SUBSET SourceIds :
                  FromCache(p, meta) /\ look' = [look EXCEPT ![k] = Answered(k, meta)]
             \/ p # n /\ \E j \in Lookers :
                  /\ MustLook(p, j)
                  /\ look' = [look EXCEPT ![j] = NewLook(p, k), ![k].pc = "wait"]
          /\ UNCHANGED <<setupVars, dataVars, localCache, remoteCache, call>>

\* The call to that peer fails, and with it localMeta.  Whoever waits finds out as
\* for any call that fails.
NoLongerFor(waiter, l) == IF l # None /\ l.for = waiter THEN [l EXCEPT !.for = None] ELSE l

LookFails(k) ==
  LET n == look[k].node IN
  /\ look[k] # None /\ look[k].pc # "store"
  /\ InRange(n, LocalIdx(n)) /\ Peer(n, LocalIdx(n)) # n
  /\ look' = [j \in Lookers |-> IF j = k THEN None ELSE NoLongerFor(k, look[j])]
  /\ UNCHANGED <<setupVars, dataVars, localCache, remoteCache, call>>

\* A caller gets what the next client has: some meta, or a failure, passed over.
With(c, meta, failed) ==
  [call[c] EXCEPT !.next = @ + 1, !.asked = FALSE, !.meta = @ \cup meta, !.failed = @ + failed]

\* localMeta keeps the answer, however long ago it was read, as one of this moment,
\* whatever the cache holds by now, and returns it.
StoreMeta(k) ==
  LET l == look[k] IN
  /\ l # None /\ l.pc = "store"
  /\ localCache' = [localCache EXCEPT ![l.node] = [age |-> 0, meta |-> l.meta]]
  /\ look' = [j \in Lookers |->
       IF j = k THEN None ELSE IF j = l.for THEN Answered(j, l.meta) ELSE look[j]]
  /\ call' = [c \in Callers |-> IF c = l.for THEN With(c, l.meta, 0) ELSE call[c]]
  /\ UNCHANGED <<setupVars, dataVars, remoteCache>>

\* remoteMeta: while the cache is good it is the answer; else every client is
\* asked in turn.
RemoteMeta(c) ==
  /\ CallsAt[c] \in up /\ call[c] = None /\ WithinBusy(sent, InFlight \cup {c})
  /\ Expired(remoteCache[CallsAt[c]])
  /\ call' = [call EXCEPT ![c] =
       [age |-> 0, next |-> 0, asked |-> FALSE, meta |-> {}, failed |-> 0]]
  /\ UNCHANGED <<setupVars, dataVars, localCache, remoteCache, look>>

\* The next client is asked: the store itself at the node's own place, localMeta of
\* a peer at the others.
AskClient(c) ==
  LET n == CallsAt[c]
      m == Peer(n, call[c].next)
  IN
  /\ call[c] # None /\ InRange(n, call[c].next) /\ ~call[c].asked
  /\ \/ /\ m = n
        /\ call' = [call EXCEPT ![c] = With(c, Sources(store[n]), 0)] /\ UNCHANGED look
     \/ /\ m # n
        /\ \E meta \in SUBSET SourceIds :
             FromCache(m, meta) /\ call' = [call EXCEPT ![c] = With(c, meta, 0)]
        /\ UNCHANGED look
     \/ /\ m # n
        /\ \E k \in Lookers : MustLook(m, k) /\ look' = [look EXCEPT ![k] = NewLook(m, c)]
        /\ call' = [call EXCEPT ![c].asked = TRUE]
  /\ UNCHANGED <<setupVars, dataVars, localCache, remoteCache>>

\* The call to a peer fails; what it has started there goes on.
ClientFails(c) ==
  /\ call[c] # None /\ InRange(CallsAt[c], call[c].next)
  /\ Peer(CallsAt[c], call[c].next) # CallsAt[c]
  /\ call' = [call EXCEPT ![c] = With(c, {}, 1)]
  /\ look' = [k \in Lookers |-> NoLongerFor(c, look[k])]
  /\ UNCHANGED <<setupVars, dataVars, localCache, remoteCache>>

\* Every client was asked: an error if all failed, else the answer, which is kept.
AnswerMeta(c) ==
  LET n == CallsAt[c]
      result == [age |-> 0, took |-> call[c].age, meta |-> call[c].meta,
                 complete |-> call[c].failed = 0]
  IN
  /\ call[c] # None /\ ~InRange(n, call[c].next)
  /\ call' = [call EXCEPT ![c] = None]
  /\ remoteCache' = IF call[c].failed = Len(clients[n]) THEN remoteCache
                    ELSE [remoteCache EXCEPT ![n] = result]
  /\ UNCHANGED <<setupVars, dataVars, localCache, look>>

\* Time passes.  A cache that has expired by then is as good as none.
Kept(cache) == IF ExpiredAt(cache, cache.age + 1) THEN None ELSE [cache EXCEPT !.age = @ + 1]

Older(progress) == IF progress = None THEN None ELSE [progress EXCEPT !.age = @ + 1]

Tick ==
  /\ \A c \in Callers : call[c].age < MaxTook
  /\ \A k \in Lookers : look[k].age < MaxTook
  /\ call' = [c \in Callers |-> Older(call[c])]
  /\ look' = [k \in Lookers |-> Older(look[k])]
  /\ localCache' = [n \in Nodes |-> Kept(localCache[n])]
  /\ remoteCache' = [n \in Nodes |-> Kept(remoteCache[n])]
  /\ quiet' = [s \in SourceIds |-> IF quiet[s] = LongAgo THEN LongAgo ELSE quiet[s] + 1]
  /\ UNCHANGED <<setupVars, store, transit, sent, gone>>

-----------------------------------------------------------------------------
Next ==
  \/ \E n \in Nodes : Stop(n) \/ Start(n) \/ Evict(n)
  \/ \E n \in LocalCallsAt : LocalMeta(n)
  \/ \E n \in Nodes, batch \in (SUBSET (Envelopes \ sent)) \ {{}} : Send(n, batch)
  \/ \E n, m \in Nodes : Forward(n, m)
  \/ \E k \in Lookers : AskLocal(k) \/ LookFails(k) \/ StoreMeta(k)
  \/ \E c \in Callers : RemoteMeta(c) \/ AskClient(c) \/ ClientFails(c) \/ AnswerMeta(c)
  \/ Tick

Spec == Init /\ [][Next]_vars

-----------------------------------------------------------------------------
(* Properties. *)

Metas == SUBSET SourceIds

\* Every variable has the shape the code's declarations give it; a crashed
\* process holds nothing.
TypeOK ==
  /\ up \subseteq Nodes
  /\ clients \in [Nodes -> Seq(Nodes)]
  /\ store \in [Nodes -> SUBSET Envelopes]
  /\ transit \in [Nodes \X Nodes -> SUBSET Envelopes]
  /\ localCache \in [Nodes -> [age : 0..CacheDuration, meta : Metas] \cup {None}]
  /\ remoteCache \in [Nodes -> [age : 0..CacheDuration, took : 0..MaxTook, meta : Metas,
                                complete : BOOLEAN] \cup {None}]
  /\ call \in [Callers -> [age : 0..MaxTook, next : 0..N, asked : BOOLEAN, meta : Metas,
                           failed : 0..N] \cup {None}]
  /\ look \in [Lookers -> [age : 0..MaxTook, node : Nodes, pc : {"ask", "wait", "store"},
                           meta : Metas, for : Callers \cup Lookers \cup {None}] \cup {None}]
  /\ starts \in 0..MaxStarts
  /\ sent \subseteq Envelopes
  /\ gone \subseteq Envelopes
  /\ quiet \in [SourceIds -> 0..LongAgo]
  /\ misdialled \in BOOLEAN
  /\ \A n \in Nodes \ up : 
       /\ Held(n) = {} /\ localCache[n] = None /\ remoteCache[n] = None
       /\ \A c \in Callers : CallsAt[c] = n => call[c] = None
       /\ \A k \in Lookers : look[k] # None => look[k].node # n

\* Where an envelope can be: in a store, on its way from one node to another.
Places == {store[n] : n \in Nodes} \cup {transit[l] : l \in Nodes \X Nodes}

\* Send "will send to either the local node or the correct remote node according
\* to its source ID", whatever node received it: as long as every node has all its
\* clients, an envelope is stored by the home of its source, or on its way there
\* from another node, and nowhere twice.
AtHome ==
  ~misdialled =>
    /\ \A n \in Nodes : \A e \in store[n] : Home[SourceOf[e]] = n
    /\ \A n, m \in Nodes : \A e \in transit[<<n, m>>] : Home[SourceOf[e]] = m /\ n # m

\* Whatever clients are missing, every envelope given to Send is in one place, or
\* was evicted or lost in a call or a crash: splitting, forwarding and forwarding
\* again neither duplicate nor forget one.
Accounted ==
  /\ (UNION Places) \cup gone = sent
  /\ gone \cap UNION Places = {}
  /\ \A l, k \in Nodes \X Nodes : l # k => transit[l] \cap transit[k] = {}
  /\ \A n, m \in Nodes : n # m => store[n] \cap store[m] = {}
  /\ \A n \in Nodes, l \in Nodes \X Nodes : store[n] \cap transit[l] = {}

\* A read sent to any node is answered by the home of its source, or comes back
\* as unavailable (an empty answer) when the home is down: it does not circle
\* between nodes and does not end in a panic.
ReadsReachHome ==
  ~misdialled => \A n \in up, s \in SourceIds :
    AnsweredBy(n, s) = IF Home[s] \in up THEN Home[s] ELSE "unavailable"

\* Two caches lie between a store and a Meta answer, each good for CacheDuration from
\* the moment it is stored, and what is stored was read up to a call's time before: a
\* source whose home has neither gained nor lost it for longer than that is in the
\* answer exactly if it is in the store, unless a node failed to answer; then it may
\* be missing.  A slow call that overwrites a newer cache with what it read earlier,
\* as of now, stretches the bound by the time it took and no more.
MetaCatchesUp ==
  ~misdialled => \A n \in up : ~Expired(remoteCache[n]) =>
    LET result == remoteCache[n]
        oldest == CacheDuration + MaxTook + result.took + result.age
    IN \A s \in SourceIds : quiet[s] > oldest =>
         /\ s \in result.meta => Present(s)
         /\ Present(s) /\ result.complete => s \in result.meta
=============================================================================
