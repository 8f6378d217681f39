---------------------------- MODULE ClusterProofs ----------------------------
(***************************************************************************)
(* Proofs about Cluster, for every value of its constants.                   *)
(***************************************************************************)
EXTENDS Cluster, InductionFacts

-----------------------------------------------------------------------------
(* The inductive invariant, beside TypeOK. *)

\* A client list is never longer than nodeAddrs, its entries keep their order (so
\* that none stands behind its own position), and it is all of nodeAddrs as long
\* as no client is missing anywhere.
ClientsOrdered ==
  \A n \in Nodes :
    /\ Len(clients[n]) <= N
    /\ \A i \in 1..Len(clients[n]) : clients[n][i] >= i - 1
ClientsComplete ==
  ~misdialled => \A n \in Nodes : Len(clients[n]) = N /\ \A i \in Nodes : clients[n][i + 1] = i

\* No more clients fail than are asked.
FailuresAsked == \A c \in Callers : call[c] # None => call[c].failed <= call[c].next

\* Accounted, envelope by envelope.
Stored(e) == \E n \in Nodes : e \in store[n]
Moving(e) == \E l \in Nodes \X Nodes : e \in transit[l]
AccountedEach ==
  /\ \A e \in Envelopes : e \in sent <=> e \in gone \/ Stored(e) \/ Moving(e)
  /\ \A e \in Envelopes : e \in gone => ~Stored(e) /\ ~Moving(e)
  /\ \A e \in Envelopes : Stored(e) => ~Moving(e)
  /\ \A n, m \in Nodes : \A e \in store[n] : e \in store[m] => n = m
  /\ \A l, k \in Nodes \X Nodes : \A e \in transit[l] : e \in transit[k] => l = k

\* What is known of a source whose home has not changed for longer than time: an
\* answer that covers the home names it if and only if it is there.
Settled(s, time, meta, complete) ==
  quiet[s] > time =>
    /\ s \in meta => Present(s)
    /\ Present(s) /\ complete => s \in meta

\* How much older than the cache that keeps it a local answer can be when it is used.
Lag == CacheDuration + MaxTook

\* A local answer covers the node itself, also before it is kept; the answer of a
\* call in progress covers the nodes it has asked; nothing else is in it.
LocalSettledAt(n) ==
  localCache[n] # None => \A s \in SourceIds :
    /\ s \in localCache[n].meta => Home[s] = n
    /\ Home[s] = n => Settled(s, MaxTook + localCache[n].age, localCache[n].meta, TRUE)
LookSettledAt(k) ==
  look[k] # None /\ look[k].pc = "store" => \A s \in SourceIds :
    /\ s \in look[k].meta => Home[s] = look[k].node
    /\ Home[s] = look[k].node => Settled(s, look[k].age, look[k].meta, TRUE)
CallSettledAt(c) ==
  call[c] # None => \A s \in SourceIds :
    /\ s \in call[c].meta => Home[s] < call[c].next
    /\ Home[s] < call[c].next =>
         Settled(s, Lag + call[c].age, call[c].meta, call[c].failed = 0)
RemoteSettledAt(n) ==
  remoteCache[n] # None => \A s \in SourceIds :
    Settled(s, Lag + remoteCache[n].took + remoteCache[n].age,
            remoteCache[n].meta, remoteCache[n].complete)

\* No localMeta waits for that of another node as long as every client is there.
LookDirect(k) == look[k] # None => look[k].for \notin Lookers

MetaSettled ==
  ~misdialled => /\ \A n \in Nodes : LocalSettledAt(n) /\ RemoteSettledAt(n)
                 /\ \A c \in Callers : CallSettledAt(c)
                 /\ \A k \in Lookers : LookSettledAt(k) /\ LookDirect(k)

\* A localMeta that a caller or another localMeta waits for is the only one, and is
\* the one that was asked.
Serves(k, waiter) == look[k] # None /\ look[k].for = waiter
Awaits(c, m) ==
  /\ call[c] # None /\ call[c].asked
  /\ InRange(CallsAt[c], call[c].next) /\ Peer(CallsAt[c], call[c].next) = m
Linked ==
  /\ \A k \in Lookers, c \in Callers : Serves(k, c) => Awaits(c, look[k].node)
  /\ \A k, j \in Lookers : Serves(k, j) => look[j] # None /\ look[j].pc = "wait"
  /\ \A k, j \in Lookers, w \in Callers \cup Lookers : Serves(k, w) /\ Serves(j, w) => k = j

RoutingInv == TypeOK /\ ClientsOrdered /\ ClientsComplete /\ FailuresAsked /\ Linked

\* The same, by the groups of variables that actions leave alone together.
LocalCaches == [age : 0..CacheDuration, meta : Metas]
RemoteCaches == [age : 0..CacheDuration, took : 0..MaxTook, meta : Metas, complete : BOOLEAN]
Calls == [age : 0..MaxTook, next : 0..N, asked : BOOLEAN, meta : Metas, failed : 0..N]
Looks == [age : 0..MaxTook, node : Nodes, pc : {"ask", "wait", "store"}, meta : Metas,
          for : Callers \cup Lookers \cup {None}]
SetupOK ==
  /\ up \subseteq Nodes
  /\ clients \in [Nodes -> Seq(Nodes)]
  /\ starts \in 0..MaxStarts
  /\ misdialled \in BOOLEAN
  /\ ClientsOrdered /\ ClientsComplete
DataOK ==
  /\ store \in [Nodes -> SUBSET Envelopes]
  /\ transit \in [Nodes \X Nodes -> SUBSET Envelopes]
  /\ sent \subseteq Envelopes
  /\ gone \subseteq Envelopes
  /\ quiet \in [SourceIds -> 0..LongAgo]
MetaOK ==
  /\ localCache \in [Nodes -> LocalCaches \cup {None}]
  /\ remoteCache \in [Nodes -> RemoteCaches \cup {None}]
  /\ call \in [Callers -> Calls \cup {None}]
  /\ look \in [Lookers -> Looks \cup {None}]
  /\ FailuresAsked
DownMeta ==
  \A n \in Nodes \ up :
    /\ localCache[n] = None /\ remoteCache[n] = None
    /\ \A c \in Callers : CallsAt[c] = n => call[c] = None
    /\ \A k \in Lookers : look[k] # None => look[k].node # n
DownOK ==
  /\ \A n \in Nodes \ up : store[n] = {} /\ \A m \in Nodes : transit[<<n, m>>] = {}
  /\ DownMeta

-----------------------------------------------------------------------------
(* The operators of the model. *)

\* setupRouting's list after the first k addresses, for any function that follows
\* its loop.
FollowsLoop(a, n, refused, m) ==
  a = [k \in 0..m |-> IF k = 0 THEN <<>>
                      ELSE IF k - 1 = n \/ k - 1 \notin refused THEN Append(a[k - 1], k - 1)
                      ELSE a[k - 1]]
InOrder(list, k) ==
  /\ list \in Seq(Nodes)
  /\ Len(list) <= k
  /\ \A i \in 1..Len(list) : list[i] >= i - 1
Whole(list, k) == Len(list) = k /\ \A i \in 1..k : list[i] = i - 1

\* LogCache.setupRouting makes a list of nodes in their order, and the whole of
\* nodeAddrs if no peer was refused.
LEMMA SetupRoutingLists ==
  ASSUME NEW n \in Nodes, NEW refused
  PROVE  /\ SetupRouting(n, refused) \in Seq(Nodes)
         /\ Len(SetupRouting(n, refused)) <= N
         /\ \A i \in 1..Len(SetupRouting(n, refused)) : SetupRouting(n, refused)[i] >= i - 1
         /\ refused \ {n} = {} =>
              /\ Len(SetupRouting(n, refused)) = N
              /\ \A i \in Nodes : SetupRouting(n, refused)[i + 1] = i
<1> DEFINE S == {m \in Nat : \E a : FollowsLoop(a, n, refused, m)}
           Good(list, k) == InOrder(list, k) /\ (refused \ {n} = {} => Whole(list, k))
<1>0. N \in Nat
  BY ClusterAssumption
<1>1. 0 \in S
  <2>1. FollowsLoop([k \in 0..0 |-> <<>>], n, refused, 0)
    BY DEF FollowsLoop
  <2> QED BY <2>1
<1>2. ASSUME NEW m \in S PROVE m + 1 \in S
  <2>1. PICK a : FollowsLoop(a, n, refused, m)
    OBVIOUS
  <2> DEFINE last == IF m = n \/ m \notin refused THEN Append(a[m], m) ELSE a[m]
             b == [k \in 0..(m + 1) |-> IF k = m + 1 THEN last ELSE a[k]]
  <2>2. FollowsLoop(b, n, refused, m + 1)
    <3> SUFFICES ASSUME NEW k \in 0..(m + 1)
                 PROVE  b[k] = IF k = 0 THEN <<>>
                               ELSE IF k - 1 = n \/ k - 1 \notin refused THEN Append(b[k - 1], k - 1)
                               ELSE b[k - 1]
      BY DEF FollowsLoop
    <3>1. CASE k = m + 1
      BY <3>1
    <3>2. CASE k # m + 1
      <4>1. k \in 0..m /\ (k # 0 => k - 1 \in 0..m /\ k - 1 # m + 1)
        BY <3>2
      <4>2. a[k] = IF k = 0 THEN <<>>
                   ELSE IF k - 1 = n \/ k - 1 \notin refused THEN Append(a[k - 1], k - 1)
                   ELSE a[k - 1]
        BY <4>1, <2>1 DEF FollowsLoop
      <4>3. b[k] = a[k] /\ (k # 0 => b[k - 1] = a[k - 1])
        BY <4>1
      <4> QED BY <4>2, <4>3
    <3> QED BY <3>1, <3>2
  <2> QED BY <2>2
<1>3. N \in S
  <2> HIDE DEF S
  <2>1. S \subseteq Nat
    BY DEF S
  <2> QED BY <1>0, <1>1, <1>2, <2>1, SetInduction
<1> DEFINE c == CHOOSE c : FollowsLoop(c, n, refused, N)
           G == {k \in Nat : k <= N => Good(c[k], k)}
<1>4. FollowsLoop(c, n, refused, N)
  BY <1>3
<1>5. SetupRouting(n, refused) = c[N]
  BY DEF SetupRouting, FollowsLoop
<1> HIDE DEF c, S
<1>6. 0 \in G
  <2>1. c[0] = <<>>
    BY <1>0, <1>4 DEF FollowsLoop
  <2>2. InOrder(<<>>, 0) /\ Whole(<<>>, 0)
    BY DEF InOrder, Whole
  <2> QED BY <2>1, <2>2
<1>7. ASSUME NEW k \in G PROVE k + 1 \in G
  <2> SUFFICES ASSUME k + 1 <= N PROVE Good(c[k + 1], k + 1)
    OBVIOUS
  <2>1. k \in Nodes /\ Good(c[k], k)
    BY <1>0 DEF Nodes
  <2>2. c[k + 1] = IF k = n \/ k \notin refused THEN Append(c[k], k) ELSE c[k]
    <3>1. \A j \in 0..N : c[j] = IF j = 0 THEN <<>>
                                 ELSE IF j - 1 = n \/ j - 1 \notin refused
                                   THEN Append(c[j - 1], j - 1) ELSE c[j - 1]
      BY <1>4 DEF FollowsLoop
    <3>2. k + 1 \in 0..N /\ k + 1 # 0 /\ (k + 1) - 1 = k
      BY <1>0
    <3> HIDE DEF G
    <3> QED BY <3>1, <3>2
  <2>3. InOrder(c[k + 1], k + 1)
    BY <2>1, <2>2 DEF InOrder
  <2>4. ASSUME refused \ {n} = {} PROVE Whole(c[k + 1], k + 1)
    <3>1. c[k + 1] = Append(c[k], k)
      BY <2>2, <2>4
    <3> QED BY <3>1, <2>1, <2>4 DEF Whole, InOrder
  <2> QED BY <2>3, <2>4
<1>8. Good(c[N], N)
  <2>1. G = Nat
    <3> HIDE DEF G
    <3>1. G \subseteq Nat
      BY DEF G
    <3> QED BY <1>6, <1>7, <3>1, SetInduction
  <2> QED BY <2>1, <1>0
<1> QED BY <1>0, <1>5, <1>8 DEF InOrder, Whole, Nodes

-----------------------------------------------------------------------------
(* Type correctness. *)

LEMMA RoutingParts == RoutingInv <=> SetupOK /\ DataOK /\ MetaOK /\ DownOK /\ Linked
<1>1. DownOK <=> \A n \in Nodes \ up :
        /\ Held(n) = {} /\ localCache[n] = None /\ remoteCache[n] = None
        /\ \A c \in Callers : CallsAt[c] = n => call[c] = None
        /\ \A k \in Lookers : look[k] # None => look[k].node # n
  <2>1. ASSUME NEW n \in Nodes
        PROVE  Held(n) = {} <=> store[n] = {} /\ \A m \in Nodes : transit[<<n, m>>] = {}
    BY DEF Held
  <2> QED BY <2>1 DEF DownOK, DownMeta
<1> QED
  BY <1>1 DEF RoutingInv, TypeOK, SetupOK, DataOK, MetaOK, LocalCaches, RemoteCaches, Calls, Looks

LEMMA RoutingParts_ == RoutingInv' <=> SetupOK' /\ DataOK' /\ MetaOK' /\ DownOK' /\ Linked'
<1>1. DownOK' <=> \A n \in Nodes \ up' :
        /\ Held(n)' = {} /\ localCache'[n] = None /\ remoteCache'[n] = None
        /\ \A c \in Callers : CallsAt[c] = n => call'[c] = None
        /\ \A k \in Lookers : look'[k] # None => look'[k].node # n
  <2>1. ASSUME NEW n \in Nodes
        PROVE  Held(n)' = {} <=> store'[n] = {} /\ \A m \in Nodes : transit'[<<n, m>>] = {}
    BY DEF Held
  <2> QED BY <2>1 DEF DownOK, DownMeta
<1> QED
  BY <1>1 DEF RoutingInv, TypeOK, SetupOK, DataOK, MetaOK, LocalCaches, RemoteCaches, Calls, Looks

LEMMA LongAgoType == LongAgo \in Nat /\ LongAgo > 2 * CacheDuration + 2 * MaxTook
  BY ClusterAssumption DEF LongAgo

LEMMA LagType == Lag \in Nat /\ CacheDuration \in Nat /\ MaxTook \in Nat
  BY ClusterAssumption DEF Lag

LEMMA RoutingInit == Init => RoutingInv
<1> SUFFICES ASSUME Init PROVE SetupOK /\ DataOK /\ MetaOK /\ DownOK /\ Linked
  BY RoutingParts
<1>1. SetupOK
  <2>1. \A n \in Nodes : /\ clients[n] \in Seq(Nodes) /\ Len(clients[n]) <= N
                         /\ \A i \in 1..Len(clients[n]) : clients[n][i] >= i - 1
                         /\ Len(clients[n]) = N /\ \A i \in Nodes : clients[n][i + 1] = i
    <3> SUFFICES ASSUME NEW n \in Nodes
                 PROVE /\ clients[n] \in Seq(Nodes) /\ Len(clients[n]) <= N
                       /\ \A i \in 1..Len(clients[n]) : clients[n][i] >= i - 1
                       /\ Len(clients[n]) = N /\ \A i \in Nodes : clients[n][i + 1] = i
      OBVIOUS
    <3>1. clients[n] = SetupRouting(n, {})
      BY DEF Init
    <3> QED BY <3>1, SetupRoutingLists
  <2>2. ClientsOrdered /\ ClientsComplete
    BY <2>1 DEF ClientsOrdered, ClientsComplete
  <2>3. clients \in [Nodes -> Seq(Nodes)]
    BY <2>1 DEF Init
  <2>4. up \subseteq Nodes /\ misdialled \in BOOLEAN
    BY Zenon DEF Init
  <2>5. starts \in 0..MaxStarts
    <3>1. starts = 0 /\ MaxStarts \in Nat
      BY ClusterAssumption DEF Init
    <3> QED BY <3>1
  <2> QED BY <2>2, <2>3, <2>4, <2>5 DEF SetupOK
<1>2. DataOK
  BY LongAgoType DEF DataOK, Init
<1>3. MetaOK /\ DownOK
  BY DEF MetaOK, DownOK, DownMeta, FailuresAsked, Init
<1>4. Linked
  BY DEF Linked, Serves, Init
<1> QED BY <1>1, <1>2, <1>3, <1>4

LEMMA TrackChangesType ==
  ASSUME DataOK, TrackChanges
  PROVE  quiet' \in [SourceIds -> 0..LongAgo]
  BY LongAgoType DEF TrackChanges, DataOK

\* A call as it was, at a node whose clients are as they were.
CallStays(c) ==
  /\ call'[c] # None /\ call'[c].asked = call[c].asked /\ call'[c].next = call[c].next
  /\ clients'[CallsAt[c]] = clients[CallsAt[c]]

\* The links hold when those that are left are old ones, and what they lead to is
\* as it was.
LEMMA LinkedKept ==
  ASSUME Linked,
         \A k \in Lookers : look'[k] # None /\ look'[k].for # None =>
           look[k] # None /\ look'[k].for = look[k].for /\ look'[k].node = look[k].node,
         \A k \in Lookers, c \in Callers : Serves(k, c)' => CallStays(c),
         \A k, j \in Lookers : Serves(k, j)' => look'[j] # None /\ look'[j].pc = look[j].pc
  PROVE  Linked'
<1>0. \A w \in Callers \cup Lookers : w # None
  BY ClusterAssumption
<1>1. \A k \in Lookers, w \in Callers \cup Lookers :
        Serves(k, w)' => Serves(k, w) /\ look'[k].node = look[k].node
  BY <1>0 DEF Serves
<1>2. ASSUME NEW k \in Lookers, NEW c \in Callers, Serves(k, c)' PROVE Awaits(c, look[k].node)'
  <2>1. Serves(k, c) /\ look'[k].node = look[k].node /\ CallStays(c)
    BY <1>1, <1>2
  <2>2. Awaits(c, look[k].node)
    BY <2>1 DEF Linked
  <2> QED BY <2>1, <2>2 DEF Awaits, CallStays, InRange, Peer
<1>3. ASSUME NEW k \in Lookers, NEW j \in Lookers, Serves(k, j)'
      PROVE  look'[j] # None /\ look'[j].pc = "wait"
  <2>1. Serves(k, j) /\ look'[j] # None /\ look'[j].pc = look[j].pc
    BY <1>1, <1>3
  <2> QED BY <2>1 DEF Linked
<1>4. \A k, j \in Lookers, w \in Callers \cup Lookers : Serves(k, w)' /\ Serves(j, w)' => k = j
  BY <1>1 DEF Linked
<1> QED BY <1>2, <1>3, <1>4 DEF Linked

\* A call that a localMeta serves is in progress and waits for its next client.
LEMMA ServedCall ==
  ASSUME Linked, NEW k \in Lookers, NEW c \in Callers, Serves(k, c)
  PROVE  call[c] # None /\ call[c].asked /\ InRange(CallsAt[c], call[c].next)
  BY DEF Linked, Awaits

LEMMA LinkedSame ==
  ASSUME Linked, UNCHANGED <<clients, call, look>>
  PROVE  Linked'
  BY DEF Linked, Serves, Awaits, InRange, Peer

\* A process that ends leaves everything well-formed and holds nothing.
LEMMA RoutingCrash ==
  ASSUME RoutingInv, NEW n \in Nodes, NEW handedOver \in SUBSET Envelopes,
         Crash(n, handedOver), sent' \subseteq Envelopes
  PROVE  RoutingInv'
<1>0. SetupOK /\ DataOK /\ MetaOK /\ DownOK /\ Linked
  BY RoutingParts
<1>1. SetupOK'
  BY <1>0 DEF Crash, SetupOK, ClientsOrdered, ClientsComplete
<1>2. DataOK'
  <2>1. Held(n) \subseteq Envelopes
    BY <1>0 DEF Held, DataOK
  <2>2. transit' \in [Nodes \X Nodes -> SUBSET Envelopes]
    BY <1>0 DEF DataOK, Crash
  <2> QED BY <1>0, <2>1, <2>2, TrackChangesType DEF DataOK, Crash
<1>3. look' = [k \in Lookers |->
         IF look[k] = None \/ look[k].node = n THEN None
         ELSE IF WaitsAt(look[k], n) THEN [look[k] EXCEPT !.for = None] ELSE look[k]]
  BY DEF Crash
<1>4. ASSUME NEW k \in Lookers, look'[k] # None
      PROVE  /\ look[k] # None /\ look[k].node # n /\ look'[k] \in Looks
             /\ look'[k].node = look[k].node /\ look'[k].pc = look[k].pc
             /\ look'[k].for # None => look'[k].for = look[k].for /\ ~WaitsAt(look[k], n)
  <2>1. look[k] # None /\ look[k].node # n /\ look[k] \in Looks
    BY <1>0, <1>3, <1>4 DEF MetaOK
  <2>2. CASE WaitsAt(look[k], n)
    <3>1. look'[k] = [look[k] EXCEPT !.for = None]
      BY <1>3, <2>1, <2>2
    <3> QED BY <2>1, <3>1 DEF Looks
  <2>3. CASE ~WaitsAt(look[k], n)
    <3>1. look'[k] = look[k]
      BY <1>3, <2>1, <2>3
    <3> QED BY <2>1, <2>3, <3>1
  <2> QED BY <2>2, <2>3
<1>5. MetaOK'
  <2>1. /\ localCache' \in [Nodes -> LocalCaches \cup {None}]
        /\ remoteCache' \in [Nodes -> RemoteCaches \cup {None}]
        /\ call' \in [Callers -> Calls \cup {None}]
        /\ FailuresAsked'
    BY <1>0 DEF Crash, MetaOK, FailuresAsked
  <2>2. look' \in [Lookers -> Looks \cup {None}]
    BY <1>3, <1>4
  <2> QED BY <2>1, <2>2 DEF MetaOK
<1>6. DownOK'
  <2> SUFFICES ASSUME NEW m \in Nodes \ up'
               PROVE  /\ store'[m] = {} /\ \A k \in Nodes : transit'[<<m, k>>] = {}
                      /\ localCache'[m] = None /\ remoteCache'[m] = None
                      /\ \A c \in Callers : CallsAt[c] = m => call'[c] = None
                      /\ \A k \in Lookers : look'[k] # None => look'[k].node # m
    BY DEF DownOK, DownMeta
  <2>1. m = n \/ m \in Nodes \ up
    BY DEF Crash
  <2>2. \A k \in Nodes : transit'[<<m, k>>] = {}
    BY <1>0, <2>1 DEF DownOK, DataOK, Crash
  <2>3. \A k \in Lookers : look'[k] # None => look'[k].node # m
    BY <1>0, <1>4, <2>1 DEF DownOK, DownMeta
  <2>4. /\ store'[m] = {} /\ localCache'[m] = None /\ remoteCache'[m] = None
        /\ \A c \in Callers : CallsAt[c] = m => call'[c] = None
    BY <1>0, <2>1 DEF DownOK, DownMeta, DataOK, MetaOK, Crash
  <2> QED BY <2>2, <2>3, <2>4
<1>7. Linked'
  <2>1. \A k \in Lookers, w \in Callers \cup Lookers :
          Serves(k, w)' => look[k] # None /\ look[k].for = w /\ ~WaitsAt(look[k], n) /\ w # None
    BY <1>4, ClusterAssumption DEF Serves
  <2>2. ASSUME NEW k \in Lookers, NEW c \in Callers, Serves(k, c)' PROVE CallStays(c)
    <3>1. Serves(k, c) /\ CallsAt[c] # n
      BY <2>1, <2>2 DEF Serves, WaitsAt, NodeOf
    <3>2. call[c] # None
      BY <3>1, <1>0, ServedCall
    <3> QED BY <3>1, <3>2 DEF CallStays, Crash
  <2>3. ASSUME NEW k \in Lookers, NEW j \in Lookers, Serves(k, j)'
        PROVE  look'[j] # None /\ look'[j].pc = look[j].pc
    <3>1. j \notin Callers
      BY ClusterAssumption
    <3>2. Serves(k, j) /\ look[j].node # n
      BY <2>1, <2>3, <3>1 DEF Serves, WaitsAt, NodeOf
    <3>3. look[j] # None /\ look[j] \in Looks
      BY <3>2, <1>0 DEF Linked, MetaOK
    <3>4. look'[j] \in {look[j], [look[j] EXCEPT !.for = None]}
      BY <1>3, <3>2, <3>3
    <3>5. look'[j] \in Looks /\ look'[j].pc = look[j].pc
      BY <3>3, <3>4 DEF Looks
    <3> QED BY <3>5, LagType DEF Looks, None
  <2> QED BY <1>0, <1>4, <2>2, <2>3, LinkedKept
<1> QED BY <1>1, <1>2, <1>5, <1>6, <1>7, RoutingParts_

LEMMA RoutingSend ==
  ASSUME RoutingInv, NEW n \in Nodes, NEW batch \in SUBSET Envelopes, Send(n, batch)
  PROVE  RoutingInv'
<1>0. SetupOK /\ DataOK /\ MetaOK /\ DownOK /\ Linked
  BY RoutingParts
<1>1. sent' \subseteq Envelopes /\ n \in up
  BY <1>0 DEF Send, DataOK
<1>2. CASE \A e \in batch : InRange(n, Lookup(SourceOf[e]))
  <2> DEFINE For(m) == {e \in batch : Peer(n, Lookup(SourceOf[e])) = m}
  <2>1. /\ store' = [store EXCEPT ![n] = @ \cup For(n)]
        /\ transit' = [l \in Nodes \X Nodes |->
             IF l[1] = n /\ l[2] # n THEN transit[l] \cup For(l[2]) ELSE transit[l]]
        /\ TrackChanges
        /\ UNCHANGED <<setupVars, metaVars, gone>>
    BY <1>2 DEF Send
  <2>2. \A m : For(m) \subseteq Envelopes
    OBVIOUS
  <2> HIDE DEF For
  <2>3. SetupOK'
    BY <2>1, <1>0 DEF SetupOK, setupVars, ClientsOrdered, ClientsComplete
  <2>4. MetaOK'
    BY <2>1, <1>0 DEF MetaOK, metaVars, FailuresAsked
  <2>5. store' \in [Nodes -> SUBSET Envelopes] /\ transit' \in [Nodes \X Nodes -> SUBSET Envelopes]
    BY <2>1, <2>2, <1>0 DEF DataOK
  <2>6. DataOK'
    BY <2>1, <2>5, <1>0, <1>1, TrackChangesType DEF DataOK
  <2>7. DownOK'
    BY <2>1, <1>0, <1>1 DEF DownOK, DownMeta, DataOK, setupVars, metaVars
  <2>8. Linked'
    BY <2>1, <1>0, LinkedSame DEF setupVars, metaVars
  <2> QED BY <2>3, <2>4, <2>6, <2>7, <2>8, RoutingParts_
<1>3. CASE ~ \A e \in batch : InRange(n, Lookup(SourceOf[e]))
  <2>1. Crash(n, batch)
    BY <1>3 DEF Send
  <2> QED BY <2>1, <1>1, RoutingCrash
<1> QED BY <1>2, <1>3

LEMMA RoutingForward ==
  ASSUME RoutingInv, NEW n \in Nodes, NEW m \in Nodes, Forward(n, m)
  PROVE  RoutingInv'
<1>0. SetupOK /\ DataOK /\ MetaOK /\ DownOK /\ Linked
  BY RoutingParts
<1>1. PICK batch \in SUBSET transit[<<n, m>>] : (Arrive(m, batch) \/ Lose(n, m, batch)) /\ sent' = sent
  BY DEF Forward
<1>2. batch \subseteq Envelopes /\ sent' \subseteq Envelopes
  BY <1>0, <1>1 DEF DataOK
<1>3. CASE Lose(n, m, batch)
  <2>1. transit' \in [Nodes \X Nodes -> SUBSET Envelopes]
    BY <1>0, <1>3 DEF DataOK, Lose, Unsent
  <2>2. DataOK'
    BY <2>1, <1>0, <1>2, <1>3 DEF DataOK, Lose
  <2>3. SetupOK' /\ MetaOK'
    BY <1>0, <1>3 DEF SetupOK, setupVars, ClientsOrdered, ClientsComplete, MetaOK, metaVars,
                      FailuresAsked, Lose
  <2>4. \A k, j \in Nodes : transit'[<<k, j>>] \subseteq transit[<<k, j>>]
    BY <1>0, <1>3 DEF DataOK, Lose, Unsent
  <2>5. DownOK'
    BY <2>4, <1>0, <1>3 DEF DownOK, DownMeta, DataOK, Lose, setupVars, metaVars
  <2>6. Linked'
    BY <1>0, <1>3, LinkedSame DEF Lose, setupVars, metaVars
  <2> QED BY <2>2, <2>3, <2>5, <2>6, RoutingParts_
<1>4. CASE Arrive(m, batch) /\ InRange(m, LocalIdx(m))
  <2> DEFINE p == Peer(m, LocalIdx(m))
  <2>1. /\ m \in up
        /\ store' = IF p = m THEN [store EXCEPT ![m] = @ \cup batch] ELSE store
        /\ transit' = [l \in Nodes \X Nodes |->
             IF p # m /\ l = <<m, p>> THEN transit[l] \cup batch ELSE Unsent(l, batch)]
        /\ TrackChanges
        /\ UNCHANGED <<setupVars, metaVars, gone>>
    BY <1>4 DEF Arrive
  <2> HIDE DEF p
  <2>2. SetupOK' /\ MetaOK'
    BY <2>1, <1>0 DEF SetupOK, setupVars, ClientsOrdered, ClientsComplete, MetaOK, metaVars,
                      FailuresAsked
  <2>3. store' \in [Nodes -> SUBSET Envelopes] /\ transit' \in [Nodes \X Nodes -> SUBSET Envelopes]
    BY <2>1, <1>2, <1>0 DEF DataOK, Unsent
  <2>4. DataOK'
    BY <2>1, <2>3, <1>0, <1>2, TrackChangesType DEF DataOK
  <2>5. DownOK'
    <3>1. DownMeta'
      BY <2>1, <1>0 DEF DownOK, DownMeta, setupVars, metaVars
    <3> SUFFICES ASSUME NEW k \in Nodes \ up'
                 PROVE  store'[k] = {} /\ \A j \in Nodes : transit'[<<k, j>>] = {}
      BY <3>1 DEF DownOK
    <3>2. k \in Nodes \ up /\ k # m
      BY <2>1 DEF setupVars
    <3>3. \A j \in Nodes : transit'[<<k, j>>] = {}
      BY <3>2, <2>1, <1>0 DEF DownOK, DataOK, Unsent
    <3>4. store'[k] = {}
      BY <3>2, <2>1, <1>0 DEF DownOK, DataOK
    <3> QED BY <3>3, <3>4
  <2>6. Linked'
    BY <2>1, <1>0, LinkedSame DEF setupVars, metaVars
  <2> QED BY <2>2, <2>4, <2>5, <2>6, RoutingParts_
<1>5. CASE Arrive(m, batch) /\ ~InRange(m, LocalIdx(m))
  <2>1. Crash(m, batch)
    BY <1>5 DEF Arrive
  <2> QED BY <2>1, <1>2, RoutingCrash
<1> QED BY <1>1, <1>3, <1>4, <1>5

\* A step of a Meta call.
LEMMA RoutingMeta ==
  ASSUME RoutingInv, UNCHANGED <<setupVars, dataVars>>, MetaOK', DownMeta', Linked'
  PROVE  RoutingInv'
<1>0. SetupOK /\ DataOK /\ DownOK
  BY RoutingParts
<1>1. SetupOK' /\ DataOK'
  BY <1>0 DEF SetupOK, setupVars, ClientsOrdered, ClientsComplete, DataOK, dataVars
<1>2. DownOK'
  BY <1>0 DEF DownOK, setupVars, dataVars
<1> QED BY <1>1, <1>2, RoutingParts_

\* The types of what is in progress.
LEMMA CallAt ==
  ASSUME RoutingInv, NEW c \in Callers, call[c] # None
  PROVE  /\ call[c] \in Calls /\ call[c].failed <= call[c].next
         /\ CallsAt[c] \in Nodes /\ CallsAt[c] \in up
         /\ InRange(CallsAt[c], call[c].next) => Peer(CallsAt[c], call[c].next) \in Nodes
<1>0. SetupOK /\ MetaOK /\ DownOK
  BY RoutingParts
<1>1. call[c] \in Calls /\ call[c].failed <= call[c].next /\ CallsAt[c] \in Nodes
  BY <1>0, ClusterAssumption DEF MetaOK, FailuresAsked, Callers
<1>2. CallsAt[c] \in up
  BY <1>0, <1>1 DEF DownOK, DownMeta
<1>3. clients[CallsAt[c]] \in Seq(Nodes) /\ call[c].next \in Nat
  BY <1>0, <1>1, ClusterAssumption DEF SetupOK, Calls
<1>4. InRange(CallsAt[c], call[c].next) => Peer(CallsAt[c], call[c].next) \in Nodes
  BY <1>3 DEF InRange, Peer
<1> QED BY <1>1, <1>2, <1>4

LEMMA LookAt ==
  ASSUME RoutingInv, NEW k \in Lookers, look[k] # None
  PROVE  look[k] \in Looks /\ look[k].node \in Nodes /\ look[k].node \in up
<1>0. MetaOK /\ DownOK
  BY RoutingParts
<1>1. look[k] \in Looks
  BY <1>0 DEF MetaOK
<1>2. look[k].node \in Nodes
  BY <1>1 DEF Looks
<1> QED BY <1>0, <1>1, <1>2 DEF DownOK, DownMeta

LEMMA NewLookType ==
  ASSUME NEW n \in Nodes, NEW w \in Callers \cup Lookers \cup {None}
  PROVE  /\ NewLook(n, w) \in Looks /\ NewLook(n, w) # None
         /\ NewLook(n, w).node = n /\ NewLook(n, w).pc = "ask" /\ NewLook(n, w).for = w
  BY LagType DEF NewLook, Looks, Metas, None

LEMMA AnsweredType ==
  ASSUME RoutingInv, NEW k \in Lookers, look[k] # None, NEW meta \in SUBSET SourceIds
  PROVE  /\ Answered(k, meta) \in Looks /\ Answered(k, meta) # None
         /\ Answered(k, meta).node = look[k].node /\ Answered(k, meta).for = look[k].for
         /\ Answered(k, meta).pc = "store" /\ Answered(k, meta).meta = meta
         /\ Answered(k, meta).age = look[k].age
<1>1. look[k] \in Looks
  BY LookAt
<1>2. /\ Answered(k, meta) \in Looks
      /\ Answered(k, meta).node = look[k].node /\ Answered(k, meta).for = look[k].for
      /\ Answered(k, meta).pc = "store" /\ Answered(k, meta).meta = meta
      /\ Answered(k, meta).age = look[k].age
  BY <1>1 DEF Answered, Looks, Metas
<1>3. Answered(k, meta) # None
  BY <1>2, LagType DEF Looks, None
<1> QED BY <1>2, <1>3

LEMMA WithType ==
  ASSUME RoutingInv, NEW c \in Callers, call[c] # None, InRange(CallsAt[c], call[c].next),
         NEW meta \in SUBSET SourceIds, NEW failed \in {0, 1}
  PROVE  /\ With(c, meta, failed) \in Calls /\ With(c, meta, failed) # None
         /\ With(c, meta, failed).failed <= With(c, meta, failed).next
         /\ With(c, meta, failed).age = call[c].age
         /\ With(c, meta, failed).next = call[c].next + 1
         /\ With(c, meta, failed).meta = call[c].meta \cup meta
         /\ With(c, meta, failed).failed = call[c].failed + failed
<1>0. SetupOK
  BY RoutingParts
<1>1. call[c] \in Calls /\ call[c].failed <= call[c].next /\ CallsAt[c] \in Nodes
  BY CallAt
<1>2. call[c].next + 1 \in 0..N /\ N \in Nat
  <2>1. clients[CallsAt[c]] \in Seq(Nodes) /\ Len(clients[CallsAt[c]]) <= N /\ N \in Nat
    BY <1>0, <1>1, ClusterAssumption DEF SetupOK, ClientsOrdered
  <2>2. call[c].next \in Nat /\ call[c].next < Len(clients[CallsAt[c]])
    BY <1>1 DEF Calls, InRange
  <2> QED BY <2>1, <2>2
<1> DEFINE w == With(c, meta, failed)
<1>3. /\ w.age = call[c].age /\ w.next = call[c].next + 1
      /\ w.meta = call[c].meta \cup meta /\ w.failed = call[c].failed + failed
  BY <1>1 DEF With, Calls
<1>4. w \in Calls
  <2>1. call[c].failed \in Nat /\ call[c].next \in Nat /\ call[c].meta \in SUBSET SourceIds
    BY <1>1 DEF Calls, Metas
  <2>2. call[c].failed + failed \in 0..N /\ call[c].meta \cup meta \in SUBSET SourceIds
    BY <1>1, <1>2, <2>1
  <2>3. PICK next \in 0..N, all \in SUBSET SourceIds, failures \in 0..N :
           next = call[c].next + 1 /\ all = call[c].meta \cup meta /\ failures = call[c].failed + failed
    BY <1>2, <2>2
  <2>4. w = [call[c] EXCEPT !.next = next, !.asked = FALSE, !.meta = all, !.failed = failures]
    BY <2>3 DEF With
  <2> HIDE DEF w
  <2> QED BY <1>1, <2>4 DEF Calls, Metas
<1>5. w.failed <= w.next
  <2>1. call[c].failed \in Nat /\ call[c].next \in Nat
    BY <1>1 DEF Calls
  <2> HIDE DEF w
  <2> QED BY <1>1, <1>3, <2>1
<1> HIDE DEF w
<1>6. w # None
  BY <1>4, LagType DEF Calls, None
<1> QED BY <1>3, <1>4, <1>5, <1>6 DEF w

\* A new localMeta, for somebody who is not modelled.
LEMMA RoutingLocalMeta ==
  ASSUME RoutingInv, NEW n \in Nodes, LocalMeta(n)
  PROVE  RoutingInv'
<1>0. MetaOK /\ DownOK /\ Linked
  BY RoutingParts
<1>1. PICK k \in Lookers :
         /\ n \in up /\ look[k] = None /\ look' = [look EXCEPT ![k] = NewLook(n, None)]
         /\ UNCHANGED <<setupVars, dataVars, localCache, remoteCache, call>>
  BY DEF LocalMeta, MustLook
<1>2. /\ NewLook(n, None) \in Looks /\ NewLook(n, None).node = n /\ NewLook(n, None).for = None
  BY NewLookType
<1>3. \A j \in Lookers : look'[j] = IF j = k THEN NewLook(n, None) ELSE look[j]
  BY <1>0, <1>1 DEF MetaOK
<1>4. MetaOK'
  BY <1>0, <1>1, <1>2 DEF MetaOK, FailuresAsked
<1>5. DownMeta'
  BY <1>0, <1>1, <1>2, <1>3 DEF DownOK, DownMeta, setupVars
<1>6. Linked'
  <2>1. \A j \in Lookers : look'[j] # None /\ look'[j].for # None =>
           look[j] # None /\ look'[j].for = look[j].for /\ look'[j].node = look[j].node
    BY <1>2, <1>3
  <2>2. ASSUME NEW j \in Lookers, NEW w \in Callers \cup Lookers, Serves(j, w)'
        PROVE  Serves(j, w)
    BY <2>1, <2>2, ClusterAssumption DEF Serves
  <2>3. \A j \in Lookers, c \in Callers : Serves(j, c)' => CallStays(c)
    BY <1>0, <1>1, <2>2, ServedCall DEF CallStays, setupVars
  <2>4. \A j, i \in Lookers : Serves(j, i)' => look'[i] # None /\ look'[i].pc = look[i].pc
    BY <1>0, <1>1, <1>3, <2>2 DEF Linked
  <2> QED BY <1>0, <2>1, <2>3, <2>4, LinkedKept
<1> QED BY <1>1, <1>4, <1>5, <1>6, RoutingMeta

\* One localMeta gets its answer; nobody serves it any more.
LEMMA RoutingAnswered ==
  ASSUME RoutingInv, NEW k \in Lookers, look[k] # None, look[k].pc = "ask",
         NEW meta \in SUBSET SourceIds, look' = [look EXCEPT ![k] = Answered(k, meta)],
         UNCHANGED <<setupVars, dataVars, localCache, remoteCache, call>>
  PROVE  RoutingInv'
<1>0. MetaOK /\ DownOK /\ Linked
  BY RoutingParts
<1>1. /\ Answered(k, meta) \in Looks
      /\ Answered(k, meta).node = look[k].node /\ Answered(k, meta).for = look[k].for
  BY AnsweredType
<1>2. \A j \in Lookers : look'[j] = IF j = k THEN Answered(k, meta) ELSE look[j]
  BY <1>0 DEF MetaOK
<1>3. MetaOK'
  BY <1>0, <1>1 DEF MetaOK, FailuresAsked
<1>4. \A j \in Lookers : look'[j] # None =>
        look[j] # None /\ look'[j].for = look[j].for /\ look'[j].node = look[j].node
  BY <1>1, <1>2
<1>5. DownMeta'
  BY <1>0, <1>4 DEF DownOK, DownMeta, setupVars
<1>6. Linked'
  <2>2. ASSUME NEW j \in Lookers, NEW w \in Callers \cup Lookers, Serves(j, w)'
        PROVE  Serves(j, w)
    BY <1>4, <2>2 DEF Serves
  <2>3. \A j \in Lookers, c \in Callers : Serves(j, c)' => CallStays(c)
    BY <1>0, <2>2, ServedCall DEF CallStays, setupVars
  <2>4. \A j, i \in Lookers : Serves(j, i)' => look'[i] # None /\ look'[i].pc = look[i].pc
    BY <1>0, <1>2, <2>2 DEF Linked
  <2> QED BY <1>0, <1>4, <2>3, <2>4, LinkedKept
<1> QED BY <1>3, <1>5, <1>6, RoutingMeta

\* One localMeta starts another one, at another node, and waits for it.
LEMMA RoutingWaits ==
  ASSUME RoutingInv, NEW k \in Lookers, look[k] # None, look[k].pc = "ask",
         NEW j \in Lookers, look[j] = None, NEW p \in Nodes, p \in up,
         look' = [look EXCEPT ![j] = NewLook(p, k), ![k].pc = "wait"],
         UNCHANGED <<setupVars, dataVars, localCache, remoteCache, call>>
  PROVE  RoutingInv'
<1>0. MetaOK /\ DownOK /\ Linked
  BY RoutingParts
<1>1. look[k] \in Looks /\ j # k
  BY LookAt
<1> DEFINE waiting == [look[k] EXCEPT !.pc = "wait"]
<1>2. /\ waiting \in Looks /\ waiting.node = look[k].node /\ waiting.for = look[k].for
      /\ waiting.pc = "wait"
  BY <1>1 DEF Looks
<1>3. waiting # None
  BY <1>2, LagType DEF Looks, None
<1>4. \A i \in Lookers : look'[i] = IF i = k THEN waiting ELSE IF i = j THEN NewLook(p, k) ELSE look[i]
  BY <1>0, <1>1 DEF MetaOK
<1> HIDE DEF waiting
<1>5. /\ NewLook(p, k) \in Looks /\ NewLook(p, k).node = p /\ NewLook(p, k).for = k
      /\ NewLook(p, k) # None
  BY NewLookType
<1>6. MetaOK'
  <2>1. look' \in [Lookers -> Looks \cup {None}]
    <3>1. look' = [i \in Lookers |-> look'[i]]
      BY <1>0 DEF MetaOK
    <3> QED BY <1>0, <1>2, <1>4, <1>5, <3>1 DEF MetaOK
  <2> QED BY <1>0, <2>1 DEF MetaOK, FailuresAsked
<1>7. DownMeta'
  <2>1. \A i \in Lookers : look'[i] # None =>
          look'[i].node = p \/ (look[i] # None /\ look'[i].node = look[i].node)
    BY <1>2, <1>4, <1>5
  <2>2. up' = up /\ UNCHANGED <<localCache, remoteCache, call>> /\ DownMeta
    BY <1>0 DEF DownOK, setupVars
  <2> SUFFICES ASSUME NEW n \in Nodes \ up
               PROVE  /\ localCache'[n] = None /\ remoteCache'[n] = None
                      /\ \A c \in Callers : CallsAt[c] = n => call'[c] = None
                      /\ \A i \in Lookers : look'[i] # None => look'[i].node # n
    BY <2>2 DEF DownMeta
  <2>3. n # p /\ \A i \in Lookers : look[i] # None => look[i].node # n
    BY <2>2 DEF DownMeta
  <2>4. \A i \in Lookers : look'[i] # None => look'[i].node # n
    BY <2>1, <2>3
  <2> QED BY <2>2, <2>4 DEF DownMeta
<1>8. ASSUME NEW i \in Lookers, NEW w \in Callers \cup Lookers, Serves(i, w)'
      PROVE  (i = j /\ w = k) \/ (i # j /\ w # k /\ Serves(i, w) /\ look'[i].node = look[i].node)
  <2>1. CASE i = j
    BY <1>1, <1>4, <1>5, <1>8, <2>1 DEF Serves
  <2>2. CASE i # j
    <3>1. Serves(i, w) /\ look'[i].node = look[i].node
      BY <1>2, <1>4, <1>8, <2>2 DEF Serves
    <3>2. w # k
      BY <3>1, <1>0 DEF Linked
    <3> QED BY <2>2, <3>1, <3>2
  <2> QED BY <2>1, <2>2
<1>9. Linked'
  <2>1. ASSUME NEW i \in Lookers, NEW c \in Callers, Serves(i, c)' PROVE Awaits(c, look[i].node)'
    <3>1. c # k
      BY ClusterAssumption
    <3>2. Awaits(c, look[i].node) /\ look'[i].node = look[i].node
      BY <1>0, <1>8, <2>1, <3>1 DEF Linked
    <3> QED BY <3>2 DEF Awaits, InRange, Peer, setupVars
  <2>2. ASSUME NEW i \in Lookers, NEW w \in Lookers, Serves(i, w)'
        PROVE  look'[w] # None /\ look'[w].pc = "wait"
    <3>1. CASE w = k
      BY <3>1, <1>2, <1>3, <1>4
    <3>2. CASE w # k
      <4>1. look[w] # None /\ look[w].pc = "wait"
        BY <1>0, <1>8, <2>2, <3>2 DEF Linked
      <4> QED BY <4>1, <3>2, <1>4
    <3> QED BY <3>1, <3>2
  <2>3. \A i, h \in Lookers, w \in Callers \cup Lookers : Serves(i, w)' /\ Serves(h, w)' => i = h
    BY <1>0, <1>8 DEF Linked
  <2> QED BY <2>1, <2>2, <2>3 DEF Linked
<1> QED BY <1>6, <1>7, <1>9, RoutingMeta

LEMMA RoutingAskLocal ==
  ASSUME RoutingInv, NEW k \in Lookers, AskLocal(k)
  PROVE  RoutingInv'
<1>0. SetupOK /\ DataOK /\ MetaOK
  BY RoutingParts
<1> DEFINE n == look[k].node
           p == Peer(n, LocalIdx(n))
<1>1. look[k] # None /\ look[k].pc = "ask" /\ n \in Nodes
  BY LookAt DEF AskLocal
<1>2. CASE ~InRange(n, LocalIdx(n))
  <2>1. Crash(n, {}) /\ sent' = sent
    BY <1>2 DEF AskLocal
  <2> QED BY <1>0, <1>1, <2>1, RoutingCrash DEF DataOK
<1>3. CASE InRange(n, LocalIdx(n))
  <2>1. UNCHANGED <<setupVars, dataVars, localCache, remoteCache, call>>
    BY <1>3 DEF AskLocal
  <2>2. p \in Nodes
    <3>1. clients[n] \in Seq(Nodes) /\ LocalIdx(n) \in Nat /\ LocalIdx(n) < Len(clients[n])
      BY <1>0, <1>1, <1>3, ClusterAssumption DEF SetupOK, LocalIdx, InRange, Nodes
    <3> QED BY <3>1 DEF Peer
  <2>3. CASE look' = [look EXCEPT ![k] = Answered(k, Sources(store[n]))]
    <3>1. Sources(store[n]) \subseteq SourceIds
      BY <1>0, <1>1, ClusterAssumption DEF DataOK, Sources, Envelopes
    <3> HIDE DEF n, p
    <3> QED BY <1>1, <2>1, <2>3, <3>1, RoutingAnswered
  <2>4. ASSUME NEW meta \in SUBSET SourceIds, look' = [look EXCEPT ![k] = Answered(k, meta)]
        PROVE  RoutingInv'
    BY <1>1, <2>1, <2>4, RoutingAnswered
  <2>5. ASSUME NEW j \in Lookers, MustLook(p, j),
               look' = [look EXCEPT ![j] = NewLook(p, k), ![k].pc = "wait"]
        PROVE  RoutingInv'
    <3>1. look[j] = None /\ p \in up
      BY <2>5 DEF MustLook
    <3> HIDE DEF n, p
    <3> QED BY <1>1, <2>1, <2>2, <2>5, <3>1, RoutingWaits
  <2> QED BY <1>3, <2>3, <2>4, <2>5 DEF AskLocal
<1> QED BY <1>2, <1>3

\* What a waiter gives up goes on, for nobody.
LEMMA Released ==
  ASSUME RoutingInv, NEW w, NEW k \in Lookers
  PROVE  /\ NoLongerFor(w, look[k]) \in Looks \cup {None}
         /\ NoLongerFor(w, look[k]) = None <=> look[k] = None
         /\ look[k] # None =>
              /\ NoLongerFor(w, look[k]).node = look[k].node /\ NoLongerFor(w, look[k]).pc = look[k].pc
              /\ NoLongerFor(w, look[k]).age = look[k].age /\ NoLongerFor(w, look[k]).meta = look[k].meta
              /\ NoLongerFor(w, look[k]).for = IF look[k].for = w THEN None ELSE look[k].for
<1>1. look[k] \in Looks \cup {None}
  BY RoutingParts DEF MetaOK
<1>2. CASE look[k] = None \/ look[k].for # w
  BY <1>1, <1>2 DEF NoLongerFor
<1>3. CASE look[k] # None /\ look[k].for = w
  <2> DEFINE new == [look[k] EXCEPT !.for = None]
  <2>1. NoLongerFor(w, look[k]) = new
    BY <1>3 DEF NoLongerFor
  <2>2. /\ new \in Looks /\ new.node = look[k].node /\ new.pc = look[k].pc
        /\ new.age = look[k].age /\ new.meta = look[k].meta /\ new.for = None
    BY <1>1, <1>3 DEF Looks
  <2>3. new # None
    BY <2>2, LagType DEF Looks, None
  <2> HIDE DEF new
  <2> QED BY <1>3, <2>1, <2>2, <2>3
<1> QED BY <1>2, <1>3

LEMMA RoutingLookFails ==
  ASSUME RoutingInv, NEW k \in Lookers, LookFails(k)
  PROVE  RoutingInv'
<1>0. MetaOK /\ DownOK /\ Linked
  BY RoutingParts
<1>1. /\ look' = [j \in Lookers |-> IF j = k THEN None ELSE NoLongerFor(k, look[j])]
      /\ UNCHANGED <<setupVars, dataVars, localCache, remoteCache, call>>
  BY DEF LookFails
<1>2. ASSUME NEW j \in Lookers, look'[j] # None
      PROVE  /\ look[j] # None /\ j # k
             /\ look'[j].node = look[j].node /\ look'[j].pc = look[j].pc
             /\ look'[j].for # None => look'[j].for = look[j].for /\ look[j].for # k
  <2>1. j # k /\ look'[j] = NoLongerFor(k, look[j])
    BY <1>1, <1>2
  <2>2. look[j] # None
    BY <1>2, <2>1, Released
  <2> QED BY <2>1, <2>2, Released
<1>3. look' \in [Lookers -> Looks \cup {None}]
  BY <1>1, Released
<1>4. MetaOK'
  BY <1>0, <1>1, <1>3 DEF MetaOK, FailuresAsked
<1>5. DownMeta'
  BY <1>0, <1>1, <1>2 DEF DownOK, DownMeta, setupVars
<1>6. Linked'
  <2>1. ASSUME NEW j \in Lookers, NEW w \in Callers \cup Lookers, Serves(j, w)'
        PROVE  Serves(j, w) /\ w # k
    BY <1>2, <2>1, ClusterAssumption DEF Serves
  <2>2. \A j \in Lookers, c \in Callers : Serves(j, c)' => CallStays(c)
    BY <1>0, <1>1, <2>1, ServedCall DEF CallStays, setupVars
  <2>3. ASSUME NEW j \in Lookers, NEW i \in Lookers, Serves(j, i)'
        PROVE  look'[i] # None /\ look'[i].pc = look[i].pc
    <3>1. i # k /\ look[i] # None
      BY <1>0, <2>1, <2>3 DEF Linked
    <3>2. look'[i] = NoLongerFor(k, look[i])
      BY <1>1, <3>1
    <3> QED BY <3>1, <3>2, Released
  <2> QED BY <1>0, <1>2, <2>2, <2>3, LinkedKept
<1> QED BY <1>1, <1>4, <1>5, <1>6, RoutingMeta

\* The answer is kept, and goes to the only one who waits for it.
LEMMA RoutingStoreMeta ==
  ASSUME RoutingInv, NEW k \in Lookers, StoreMeta(k)
  PROVE  RoutingInv'
<1>0. MetaOK /\ DownOK /\ Linked
  BY RoutingParts
<1> DEFINE l == look[k]
<1>1. /\ l # None /\ l.pc = "store"
      /\ localCache' = [localCache EXCEPT ![l.node] = [age |-> 0, meta |-> l.meta]]
      /\ look' = [j \in Lookers |->
           IF j = k THEN None ELSE IF j = l.for THEN Answered(j, l.meta) ELSE look[j]]
      /\ call' = [c \in Callers |-> IF c = l.for THEN With(c, l.meta, 0) ELSE call[c]]
      /\ UNCHANGED <<setupVars, dataVars, remoteCache>>
  BY DEF StoreMeta
<1>2. l \in Looks /\ l.node \in Nodes /\ l.node \in up /\ l.meta \in SUBSET SourceIds
  <2>1. l \in Looks /\ l.node \in Nodes /\ l.node \in up
    BY <1>1, LookAt
  <2> QED BY <2>1 DEF Looks, Metas
<1>3. \A w \in Callers \cup Lookers : w = l.for <=> Serves(k, w)
  BY <1>1 DEF Serves
<1>4. PICK meta \in SUBSET SourceIds, node \in Nodes : meta = l.meta /\ node = l.node
  BY <1>2
<1>5. ASSUME NEW j \in Lookers, j # k
      PROVE  \/ look'[j] = look[j] /\ ~Serves(k, j)
             \/ look[j] # None /\ Serves(k, j) /\ look'[j] = Answered(j, meta)
  <2>1. CASE j = l.for
    <3>1. Serves(k, j) /\ look[j] # None
      BY <1>0, <1>3, <2>1 DEF Linked
    <3> QED BY <1>1, <1>4, <1>5, <2>1, <3>1
  <2>2. CASE j # l.for
    BY <1>1, <1>3, <1>5, <2>2
  <2> QED BY <2>1, <2>2
<1>6. ASSUME NEW c \in Callers
      PROVE  \/ call'[c] = call[c] /\ ~Serves(k, c)
             \/ /\ call[c] # None /\ Serves(k, c) /\ InRange(CallsAt[c], call[c].next)
                /\ call'[c] = With(c, meta, 0)
  <2>1. CASE c = l.for
    <3>1. Serves(k, c) /\ call[c] # None /\ InRange(CallsAt[c], call[c].next)
      BY <1>0, <1>3, <2>1, ServedCall
    <3> QED BY <1>1, <1>4, <2>1, <3>1
  <2>2. CASE c # l.for
    BY <1>1, <1>3, <2>2
  <2> QED BY <2>1, <2>2
<1>7. look'[k] = None
  BY <1>1
<1>8. ASSUME NEW j \in Lookers, look'[j] # None
      PROVE  /\ j # k /\ look[j] # None /\ look'[j] \in Looks
             /\ look'[j].node = look[j].node /\ look'[j].for = look[j].for
  <2>1. j # k
    BY <1>7, <1>8
  <2>2. CASE look'[j] = look[j]
    BY <1>8, <2>1, <2>2, LookAt
  <2>3. CASE look[j] # None /\ look'[j] = Answered(j, meta)
    BY <2>1, <2>3, AnsweredType
  <2> QED BY <1>5, <2>1, <2>2, <2>3
<1>9. ASSUME NEW c \in Callers, call'[c] # None
      PROVE  call[c] # None /\ call'[c] \in Calls /\ call'[c].failed <= call'[c].next
  <2>1. CASE call'[c] = call[c]
    BY <1>9, <2>1, CallAt
  <2>2. CASE /\ call[c] # None /\ InRange(CallsAt[c], call[c].next)
             /\ call'[c] = With(c, meta, 0)
    BY <2>2, WithType
  <2> QED BY <1>6, <2>1, <2>2
<1>10. localCache' = [localCache EXCEPT ![node] = [age |-> 0, meta |-> meta]] /\ node \in up
  BY <1>1, <1>2, <1>4
<1>11. look' = [j \in Lookers |-> look'[j]] /\ call' = [c \in Callers |-> call'[c]]
  BY <1>1
<1>12. UNCHANGED <<setupVars, dataVars, remoteCache>>
  BY <1>1
<1> HIDE DEF l
<1>13. MetaOK'
  <2>1. [age |-> 0, meta |-> meta] \in LocalCaches
    BY LagType DEF LocalCaches, Metas
  <2>2. localCache' \in [Nodes -> LocalCaches \cup {None}]
    BY <1>0, <1>10, <2>1 DEF MetaOK
  <2>3. look' \in [Lookers -> Looks \cup {None}] /\ call' \in [Callers -> Calls \cup {None}]
    BY <1>8, <1>9, <1>11
  <2>4. FailuresAsked'
    BY <1>9 DEF FailuresAsked
  <2> QED BY <1>0, <1>12, <2>2, <2>3, <2>4 DEF MetaOK
<1>14. DownMeta'
  <2> SUFFICES ASSUME NEW n \in Nodes \ up'
               PROVE  /\ localCache'[n] = None /\ remoteCache'[n] = None
                      /\ \A c \in Callers : CallsAt[c] = n => call'[c] = None
                      /\ \A j \in Lookers : look'[j] # None => look'[j].node # n
    BY DEF DownMeta
  <2>1. n \in Nodes \ up
    BY <1>12 DEF setupVars
  <2>2. /\ localCache[n] = None /\ remoteCache[n] = None
        /\ \A c \in Callers : CallsAt[c] = n => call[c] = None
        /\ \A j \in Lookers : look[j] # None => look[j].node # n
    BY <1>0, <2>1 DEF DownOK, DownMeta
  <2>3. localCache'[n] = None /\ remoteCache'[n] = None
    BY <1>0, <1>10, <1>12, <2>1, <2>2 DEF MetaOK
  <2> QED BY <1>8, <1>9, <2>2, <2>3
<1>15. Linked'
  <2>1. ASSUME NEW j \in Lookers, NEW w \in Callers \cup Lookers, Serves(j, w)'
        PROVE  Serves(j, w) /\ ~Serves(k, w)
    <3>1. Serves(j, w) /\ j # k
      BY <1>8, <2>1 DEF Serves
    <3> QED BY <1>0, <3>1 DEF Linked
  <2>2. ASSUME NEW j \in Lookers, NEW c \in Callers, Serves(j, c)' PROVE CallStays(c)
    <3>1. call[c] # None /\ call'[c] = call[c]
      BY <1>0, <1>6, <2>1, <2>2, ServedCall
    <3> QED BY <3>1, <1>12 DEF CallStays, setupVars
  <2>3. ASSUME NEW j \in Lookers, NEW i \in Lookers, Serves(j, i)'
        PROVE  look'[i] # None /\ look'[i].pc = look[i].pc
    <3>1. Serves(j, i) /\ ~Serves(k, i)
      BY <2>1, <2>3
    <3>2. look[i] # None /\ look[i].pc = "wait"
      BY <1>0, <3>1 DEF Linked
    <3>3. i # k
      BY <1>1, <3>2 DEF l
    <3>4. look'[i] = look[i]
      BY <1>5, <3>1, <3>3
    <3> QED BY <3>2, <3>4
  <2> QED BY <1>0, <1>8, <2>2, <2>3, LinkedKept
<1> QED BY <1>12, <1>13, <1>14, <1>15, RoutingMeta

\* A call that nobody serves takes a step of its own, or ends.
LEMMA RoutingCallStep ==
  ASSUME RoutingInv, NEW c \in Callers, CallsAt[c] \in up, NEW r \in Calls \cup {None},
         r # None => r.failed <= r.next,
         call' = [call EXCEPT ![c] = r],
         \A k \in Lookers : ~Serves(k, c),
         remoteCache' \in [Nodes -> RemoteCaches \cup {None}],
         \A n \in Nodes \ up : remoteCache'[n] = remoteCache[n],
         UNCHANGED <<setupVars, dataVars, localCache, look>>
  PROVE  RoutingInv'
<1>0. MetaOK /\ DownOK /\ Linked
  BY RoutingParts
<1>1. \A d \in Callers : call'[d] = IF d = c THEN r ELSE call[d]
  BY <1>0 DEF MetaOK
<1>2. MetaOK'
  BY <1>0, <1>1 DEF MetaOK, FailuresAsked
<1>3. DownMeta'
  BY <1>0, <1>1 DEF DownOK, DownMeta, setupVars
<1>4. Linked'
  <2>1. \A k \in Lookers, w \in Callers \cup Lookers : Serves(k, w)' <=> Serves(k, w)
    BY DEF Serves
  <2>2. ASSUME NEW k \in Lookers, NEW d \in Callers, Serves(k, d)' PROVE CallStays(d)
    <3>1. d # c /\ call[d] # None
      BY <1>0, <2>1, <2>2, ServedCall
    <3> QED BY <1>1, <3>1 DEF CallStays, setupVars
  <2>3. \A k, j \in Lookers : Serves(k, j)' => look'[j] # None /\ look'[j].pc = look[j].pc
    BY <1>0, <2>1 DEF Linked
  <2> QED BY <1>0, <2>2, <2>3, LinkedKept
<1> QED BY <1>2, <1>3, <1>4, RoutingMeta

LEMMA RoutingRemoteMeta ==
  ASSUME RoutingInv, NEW c \in Callers, RemoteMeta(c)
  PROVE  RoutingInv'
<1>0. MetaOK /\ Linked
  BY RoutingParts
<1> DEFINE r == [age |-> 0, next |-> 0, asked |-> FALSE, meta |-> {}, failed |-> 0]
<1>1. /\ CallsAt[c] \in up /\ call[c] = None /\ call' = [call EXCEPT ![c] = r]
      /\ UNCHANGED <<setupVars, dataVars, localCache, remoteCache, look>>
  BY DEF RemoteMeta
<1>2. r \in Calls /\ r.failed <= r.next
  BY ClusterAssumption DEF Calls, Metas
<1>3. \A k \in Lookers : ~Serves(k, c)
  BY <1>0, <1>1, ServedCall
<1> HIDE DEF r
<1>4. remoteCache' \in [Nodes -> RemoteCaches \cup {None}]
  BY <1>0, <1>1 DEF MetaOK
<1> QED BY <1>1, <1>2, <1>3, <1>4, RoutingCallStep

\* A caller starts localMeta at a peer, and waits for it.
LEMMA RoutingAsks ==
  ASSUME RoutingInv, NEW c \in Callers, call[c] # None, ~call[c].asked,
         InRange(CallsAt[c], call[c].next), NEW m \in Nodes, m = Peer(CallsAt[c], call[c].next),
         m \in up, NEW k \in Lookers, look[k] = None,
         look' = [look EXCEPT ![k] = NewLook(m, c)],
         call' = [call EXCEPT ![c].asked = TRUE],
         UNCHANGED <<setupVars, dataVars, localCache, remoteCache>>
  PROVE  RoutingInv'
<1>0. MetaOK /\ DownOK /\ Linked
  BY RoutingParts
<1>1. call[c] \in Calls /\ call[c].failed <= call[c].next
  BY CallAt
<1> DEFINE r == [call[c] EXCEPT !.asked = TRUE]
<1>2. r \in Calls /\ r.failed = call[c].failed /\ r.next = call[c].next /\ r.asked
  BY <1>1 DEF Calls
<1>3. r # None
  BY <1>2, LagType DEF Calls, None
<1>4. \A d \in Callers : call'[d] = IF d = c THEN r ELSE call[d]
  BY <1>0 DEF MetaOK
<1>5. call' = [d \in Callers |-> call'[d]]
  BY <1>0 DEF MetaOK
<1> HIDE DEF r
<1>6. /\ NewLook(m, c) \in Looks /\ NewLook(m, c).node = m /\ NewLook(m, c).for = c
      /\ NewLook(m, c) # None
  BY NewLookType
<1>7. \A j \in Lookers : look'[j] = IF j = k THEN NewLook(m, c) ELSE look[j]
  BY <1>0 DEF MetaOK
<1>8. MetaOK'
  <2>1. look' \in [Lookers -> Looks \cup {None}] /\ call' \in [Callers -> Calls \cup {None}]
    BY <1>0, <1>2, <1>4, <1>5, <1>6 DEF MetaOK
  <2>2. FailuresAsked'
    BY <1>0, <1>1, <1>2, <1>4 DEF MetaOK, FailuresAsked
  <2> QED BY <1>0, <2>1, <2>2 DEF MetaOK
<1>9. DownMeta'
  BY <1>0, <1>4, <1>6, <1>7, CallAt DEF DownOK, DownMeta, setupVars
<1>10. ASSUME NEW j \in Lookers, NEW w \in Callers \cup Lookers, Serves(j, w)'
       PROVE  (j = k /\ w = c) \/ (j # k /\ w # c /\ Serves(j, w) /\ look'[j].node = look[j].node)
  <2>1. CASE j = k
    BY <1>6, <1>7, <1>10, <2>1 DEF Serves
  <2>2. CASE j # k
    <3>1. Serves(j, w) /\ look'[j].node = look[j].node
      BY <1>7, <1>10, <2>2 DEF Serves
    <3>2. w # c
      BY <3>1, <1>0, ServedCall
    <3> QED BY <2>2, <3>1, <3>2
  <2> QED BY <2>1, <2>2
<1>11. Linked'
  <2>1. ASSUME NEW j \in Lookers, NEW d \in Callers, Serves(j, d)' PROVE Awaits(d, look[j].node)'
    <3>1. CASE d = c
      <4>1. look'[j].node = m
        BY <1>6, <1>7, <1>10, <2>1, <3>1
      <4> QED BY <4>1, <3>1, <1>2, <1>3, <1>4 DEF Awaits, InRange, Peer, setupVars
    <3>2. CASE d # c
      <4>1. Awaits(d, look[j].node) /\ look'[j].node = look[j].node
        BY <1>0, <1>10, <2>1, <3>2 DEF Linked
      <4> QED BY <4>1, <3>2, <1>4 DEF Awaits, InRange, Peer, setupVars
    <3> QED BY <3>1, <3>2
  <2>2. ASSUME NEW j \in Lookers, NEW i \in Lookers, Serves(j, i)'
        PROVE  look'[i] # None /\ look'[i].pc = "wait"
    <3>1. i # c
      BY ClusterAssumption
    <3>2. look[i] # None /\ look[i].pc = "wait"
      BY <1>0, <1>10, <2>2, <3>1 DEF Linked
    <3> QED BY <3>2, <1>7
  <2>3. \A i, h \in Lookers, w \in Callers \cup Lookers : Serves(i, w)' /\ Serves(h, w)' => i = h
    BY <1>0, <1>10 DEF Linked
  <2> QED BY <2>1, <2>2, <2>3 DEF Linked
<1> QED BY <1>8, <1>9, <1>11, RoutingMeta

LEMMA RoutingAskClient ==
  ASSUME RoutingInv, NEW c \in Callers, AskClient(c)
  PROVE  RoutingInv'
<1> DEFINE n == CallsAt[c]
           m == Peer(n, call[c].next)
<1>0. DataOK /\ MetaOK /\ Linked
  BY RoutingParts
<1>1. /\ call[c] # None /\ InRange(n, call[c].next) /\ ~call[c].asked
      /\ UNCHANGED <<setupVars, dataVars, localCache, remoteCache>>
  BY DEF AskClient
<1>2. n \in Nodes /\ n \in up /\ m \in Nodes
  BY <1>1, CallAt
<1>3. \A k \in Lookers : ~Serves(k, c)
  BY <1>0, <1>1, ServedCall
<1>4. ASSUME NEW meta \in SUBSET SourceIds, call' = [call EXCEPT ![c] = With(c, meta, 0)],
             UNCHANGED look
      PROVE  RoutingInv'
  <2>1. With(c, meta, 0) \in Calls /\ With(c, meta, 0).failed <= With(c, meta, 0).next
    BY <1>1, WithType
  <2>2. remoteCache' \in [Nodes -> RemoteCaches \cup {None}]
    BY <1>0, <1>1 DEF MetaOK
  <2> QED BY <1>1, <1>2, <1>3, <1>4, <2>1, <2>2, RoutingCallStep
<1>5. CASE call' = [call EXCEPT ![c] = With(c, Sources(store[n]), 0)] /\ UNCHANGED look
  <2>1. Sources(store[n]) \subseteq SourceIds
    BY <1>0, <1>2, ClusterAssumption DEF DataOK, Sources, Envelopes
  <2> QED BY <2>1, <1>4, <1>5
<1>6. ASSUME NEW k \in Lookers, MustLook(m, k), look' = [look EXCEPT ![k] = NewLook(m, c)],
             call' = [call EXCEPT ![c].asked = TRUE]
      PROVE  RoutingInv'
  <2>1. look[k] = None /\ m \in up
    BY <1>6 DEF MustLook
  <2> HIDE DEF m
  <2>2. m = Peer(CallsAt[c], call[c].next)
    BY DEF m
  <2> QED BY <1>1, <1>2, <1>6, <2>1, <2>2, RoutingAsks
<1> QED BY <1>4, <1>5, <1>6 DEF AskClient

LEMMA RoutingClientFails ==
  ASSUME RoutingInv, NEW c \in Callers, ClientFails(c)
  PROVE  RoutingInv'
<1>0. MetaOK /\ DownOK /\ Linked
  BY RoutingParts
<1>1. /\ call[c] # None /\ InRange(CallsAt[c], call[c].next)
      /\ call' = [call EXCEPT ![c] = With(c, {}, 1)]
      /\ look' = [k \in Lookers |-> NoLongerFor(c, look[k])]
      /\ UNCHANGED <<setupVars, dataVars, localCache, remoteCache>>
  BY DEF ClientFails
<1>2. With(c, {}, 1) \in Calls /\ With(c, {}, 1).failed <= With(c, {}, 1).next
  BY <1>1, WithType
<1>3. \A d \in Callers : call'[d] = IF d = c THEN With(c, {}, 1) ELSE call[d]
  BY <1>0, <1>1 DEF MetaOK
<1>4. ASSUME NEW k \in Lookers, look'[k] # None
      PROVE  /\ look[k] # None /\ look'[k].node = look[k].node /\ look'[k].pc = look[k].pc
             /\ look'[k].for # None => look'[k].for = look[k].for /\ look[k].for # c
  <2>1. look'[k] = NoLongerFor(c, look[k])
    BY <1>1
  <2>2. look[k] # None
    BY <1>4, <2>1, Released
  <2> QED BY <2>1, <2>2, Released
<1>5. look' \in [Lookers -> Looks \cup {None}]
  BY <1>1, Released
<1>6. MetaOK'
  BY <1>0, <1>1, <1>2, <1>3, <1>5 DEF MetaOK, FailuresAsked
<1>7. DownMeta'
  BY <1>0, <1>1, <1>3, <1>4, CallAt DEF DownOK, DownMeta, setupVars
<1>8. Linked'
  <2>1. ASSUME NEW j \in Lookers, NEW w \in Callers \cup Lookers, Serves(j, w)'
        PROVE  Serves(j, w) /\ w # c
    BY <1>4, <2>1, ClusterAssumption DEF Serves
  <2>2. ASSUME NEW j \in Lookers, NEW d \in Callers, Serves(j, d)' PROVE CallStays(d)
    <3>1. d # c /\ call[d] # None
      BY <1>0, <2>1, <2>2, ServedCall
    <3> QED BY <1>1, <1>3, <3>1 DEF CallStays, setupVars
  <2>3. ASSUME NEW j \in Lookers, NEW i \in Lookers, Serves(j, i)'
        PROVE  look'[i] # None /\ look'[i].pc = look[i].pc
    <3>1. look[i] # None
      BY <1>0, <2>1, <2>3 DEF Linked
    <3>2. look'[i] = NoLongerFor(c, look[i])
      BY <1>1
    <3> QED BY <3>1, <3>2, Released
  <2> QED BY <1>0, <1>4, <2>2, <2>3, LinkedKept
<1> QED BY <1>1, <1>6, <1>7, <1>8, RoutingMeta

LEMMA RoutingAnswerMeta ==
  ASSUME RoutingInv, NEW c \in Callers, AnswerMeta(c)
  PROVE  RoutingInv'
<1> DEFINE n == CallsAt[c]
           result == [age |-> 0, took |-> call[c].age, meta |-> call[c].meta,
                      complete |-> call[c].failed = 0]
<1>0. MetaOK /\ Linked
  BY RoutingParts
<1>1. /\ call[c] # None /\ ~InRange(n, call[c].next)
      /\ call' = [call EXCEPT ![c] = None]
      /\ remoteCache' \in {remoteCache, [remoteCache EXCEPT ![n] = result]}
      /\ UNCHANGED <<setupVars, dataVars, localCache, look>>
  BY DEF AnswerMeta
<1>2. n \in up /\ n \in Nodes /\ call[c] \in Calls
  BY <1>1, CallAt
<1>3. result \in RemoteCaches
  BY <1>2, ClusterAssumption DEF RemoteCaches, Calls
<1> HIDE DEF result
<1>4. /\ remoteCache' \in [Nodes -> RemoteCaches \cup {None}]
      /\ \A k \in Nodes \ up : remoteCache'[k] = remoteCache[k]
  BY <1>0, <1>1, <1>2, <1>3 DEF MetaOK
<1>5. \A k \in Lookers : ~Serves(k, c)
  BY <1>0, <1>1, ServedCall
<1> QED BY <1>1, <1>2, <1>4, <1>5, RoutingCallStep

\* A cache that is one tick older, or was dropped because it is then expired.
LEMMA KeptLocal ==
  ASSUME NEW cache \in LocalCaches \cup {None}
  PROVE  /\ Kept(cache) \in LocalCaches \cup {None}
         /\ Kept(cache) # None => /\ cache # None /\ Kept(cache).age = cache.age + 1
                                  /\ Kept(cache).meta = cache.meta
  BY ClusterAssumption DEF Kept, ExpiredAt, LocalCaches, None

LEMMA KeptRemote ==
  ASSUME NEW cache \in RemoteCaches \cup {None}
  PROVE  /\ Kept(cache) \in RemoteCaches \cup {None}
         /\ Kept(cache) # None => /\ cache # None /\ Kept(cache).age = cache.age + 1
                                  /\ Kept(cache).meta = cache.meta /\ Kept(cache).took = cache.took
                                  /\ Kept(cache).complete = cache.complete
  BY ClusterAssumption DEF Kept, ExpiredAt, RemoteCaches, None

LEMMA KeptNone == Kept(None) = None
  BY DEF Kept, ExpiredAt

\* What is in progress is one tick older.
LEMMA OlderCall ==
  ASSUME RoutingInv, Tick, NEW c \in Callers
  PROVE  /\ call'[c] = None <=> call[c] = None
         /\ call[c] # None =>
              /\ call'[c] \in Calls /\ call'[c].age = call[c].age + 1
              /\ call'[c].meta = call[c].meta /\ call'[c].failed = call[c].failed
              /\ call'[c].next = call[c].next /\ call'[c].asked = call[c].asked
<1>1. CASE call[c] = None
  BY <1>1 DEF Tick, Older
<1>2. CASE call[c] # None
  <2>1. /\ call[c] \in Calls /\ call[c].age < MaxTook
        /\ call'[c] = [call[c] EXCEPT !.age = @ + 1]
    BY <1>2, CallAt DEF Tick, Older
  <2>2. /\ call'[c] \in Calls /\ call'[c].age = call[c].age + 1
        /\ call'[c].meta = call[c].meta /\ call'[c].failed = call[c].failed
        /\ call'[c].next = call[c].next /\ call'[c].asked = call[c].asked
    BY <2>1, LagType DEF Calls
  <2>3. call'[c] # None
    BY <2>2, LagType DEF Calls, None
  <2> QED BY <1>2, <2>2, <2>3
<1> QED BY <1>1, <1>2

LEMMA OlderLook ==
  ASSUME RoutingInv, Tick, NEW k \in Lookers
  PROVE  /\ look'[k] = None <=> look[k] = None
         /\ look[k] # None =>
              /\ look'[k] \in Looks /\ look'[k].age = look[k].age + 1 /\ look[k].age < MaxTook
              /\ look'[k].meta = look[k].meta /\ look'[k].node = look[k].node
              /\ look'[k].pc = look[k].pc /\ look'[k].for = look[k].for
<1>1. CASE look[k] = None
  BY <1>1 DEF Tick, Older
<1>2. CASE look[k] # None
  <2>1. /\ look[k] \in Looks /\ look[k].age < MaxTook
        /\ look'[k] = [look[k] EXCEPT !.age = @ + 1]
    BY <1>2, LookAt DEF Tick, Older
  <2>2. /\ look'[k] \in Looks /\ look'[k].age = look[k].age + 1
        /\ look'[k].meta = look[k].meta /\ look'[k].node = look[k].node
        /\ look'[k].pc = look[k].pc /\ look'[k].for = look[k].for
    BY <2>1, LagType DEF Looks
  <2>3. look'[k] # None
    BY <2>2, LagType DEF Looks, None
  <2> QED BY <1>2, <2>1, <2>2, <2>3
<1> QED BY <1>1, <1>2

LEMMA RoutingTick ==
  ASSUME RoutingInv, Tick
  PROVE  RoutingInv'
<1>0. SetupOK /\ DataOK /\ MetaOK /\ DownOK /\ Linked
  BY RoutingParts
<1>1. SetupOK'
  BY <1>0 DEF Tick, SetupOK, setupVars, ClientsOrdered, ClientsComplete
<1>2. DataOK'
  <2>1. quiet' = [s \in SourceIds |-> IF quiet[s] = LongAgo THEN LongAgo ELSE quiet[s] + 1]
    BY DEF Tick
  <2>2. \A s \in SourceIds : quiet[s] \in 0..LongAgo
    BY <1>0 DEF DataOK
  <2>3. quiet' \in [SourceIds -> 0..LongAgo]
    BY <2>1, <2>2, LongAgoType
  <2> QED BY <2>3, <1>0 DEF Tick, DataOK
<1>3. /\ localCache' \in [Nodes -> LocalCaches \cup {None}]
      /\ remoteCache' \in [Nodes -> RemoteCaches \cup {None}]
  BY <1>0, KeptLocal, KeptRemote DEF Tick, MetaOK
<1>4. call' = [c \in Callers |-> call'[c]] /\ look' = [k \in Lookers |-> look'[k]]
  BY DEF Tick
<1>5. call' \in [Callers -> Calls \cup {None}] /\ look' \in [Lookers -> Looks \cup {None}]
  BY <1>4, OlderCall, OlderLook
<1>6. FailuresAsked'
  BY <1>0, OlderCall DEF MetaOK, FailuresAsked
<1>7. DownMeta'
  BY <1>0, OlderCall, OlderLook, KeptNone DEF Tick, DownOK, DownMeta, setupVars
<1>8. DownOK'
  BY <1>0, <1>7 DEF Tick, DownOK, setupVars
<1>9. Linked'
  <2>1. \A k \in Lookers : look'[k] # None /\ look'[k].for # None =>
          look[k] # None /\ look'[k].for = look[k].for /\ look'[k].node = look[k].node
    BY OlderLook
  <2>2. \A k \in Lookers, w \in Callers \cup Lookers : Serves(k, w)' => Serves(k, w)
    BY OlderLook DEF Serves
  <2>3. \A k \in Lookers, c \in Callers : Serves(k, c)' => CallStays(c)
    <3>1. clients' = clients
      BY DEF Tick, setupVars
    <3> QED BY <1>0, <2>2, <3>1, OlderCall, ServedCall DEF CallStays
  <2>4. \A k, j \in Lookers : Serves(k, j)' => look'[j] # None /\ look'[j].pc = look[j].pc
    BY <1>0, <2>2, OlderLook DEF Linked
  <2> QED BY <1>0, <2>1, <2>3, <2>4, LinkedKept
<1>10. MetaOK'
  BY <1>3, <1>5, <1>6 DEF MetaOK
<1> QED BY <1>1, <1>2, <1>8, <1>9, <1>10, RoutingParts_

LEMMA RoutingStep == RoutingInv /\ [Next]_vars => RoutingInv'
<1> SUFFICES ASSUME RoutingInv, [Next]_vars PROVE RoutingInv'
  OBVIOUS
<1>0. SetupOK /\ DataOK /\ MetaOK /\ DownOK /\ Linked
  BY RoutingParts
<1>1. ASSUME NEW n \in Nodes, Stop(n) PROVE RoutingInv'
  BY <1>0, <1>1, RoutingCrash DEF Stop, DataOK
<1>2. ASSUME NEW n \in Nodes, Start(n) PROVE RoutingInv'
  <2>1. PICK refused \in SUBSET Refusable :
           /\ clients' = [clients EXCEPT ![n] = SetupRouting(n, refused)]
           /\ misdialled' = (misdialled \/ refused \ {n} # {})
    BY <1>2 DEF Start
  <2> DEFINE list == SetupRouting(n, refused)
  <2>2. /\ list \in Seq(Nodes) /\ Len(list) <= N /\ \A i \in 1..Len(list) : list[i] >= i - 1
        /\ refused \ {n} = {} => Len(list) = N /\ \A i \in Nodes : list[i + 1] = i
    BY SetupRoutingLists
  <2> HIDE DEF list
  <2>3. clients' \in [Nodes -> Seq(Nodes)] /\ ClientsOrdered'
    BY <2>1, <2>2, <1>0 DEF SetupOK, ClientsOrdered, list
  <2>4. ClientsComplete'
    BY <2>1, <2>2, <1>0 DEF SetupOK, ClientsComplete, list
  <2>5. up' \subseteq Nodes /\ starts' \in 0..MaxStarts
    BY <1>0, <1>2, ClusterAssumption DEF Start, SetupOK
  <2>6. misdialled' \in BOOLEAN
    BY <2>1, Zenon
  <2>7. SetupOK'
    BY <2>3, <2>4, <2>5, <2>6 DEF SetupOK
  <2>8. DataOK' /\ MetaOK' /\ DownOK'
    BY <1>0, <1>2 DEF Start, DataOK, MetaOK, DownOK, DownMeta, FailuresAsked, dataVars, metaVars
  <2>9. Linked'
    <3>1. n \notin up /\ UNCHANGED <<call, look>>
      BY <1>2 DEF Start, metaVars
    <3>2. \A k \in Lookers, w \in Callers \cup Lookers : Serves(k, w)' <=> Serves(k, w)
      BY <3>1 DEF Serves
    <3>3. ASSUME NEW k \in Lookers, NEW c \in Callers, Serves(k, c)' PROVE CallStays(c)
      <4>1. call[c] # None
        BY <1>0, <3>2, <3>3, ServedCall
      <4>2. CallsAt[c] \in up /\ CallsAt[c] \in Nodes
        BY <4>1, CallAt
      <4>3. clients'[CallsAt[c]] = clients[CallsAt[c]]
        BY <1>0, <2>1, <3>1, <4>2 DEF SetupOK
      <4> QED BY <3>1, <4>1, <4>3 DEF CallStays
    <3>4. \A k, j \in Lookers : Serves(k, j)' => look'[j] # None /\ look'[j].pc = look[j].pc
      BY <1>0, <3>1, <3>2 DEF Linked
    <3> QED BY <1>0, <3>1, <3>3, <3>4, LinkedKept
  <2> QED BY <2>7, <2>8, <2>9, RoutingParts_
<1>3. ASSUME NEW n \in Nodes, Evict(n) PROVE RoutingInv'
  <2>1. PICK e \in store[n] :
           /\ store' = [store EXCEPT ![n] = @ \ {e}]
           /\ gone' = gone \cup {e}
           /\ TrackChanges
           /\ UNCHANGED <<setupVars, transit, metaVars, sent>>
    BY <1>3 DEF Evict
  <2>2. SetupOK' /\ MetaOK'
    BY <2>1, <1>0 DEF SetupOK, setupVars, ClientsOrdered, ClientsComplete, MetaOK, metaVars,
                      FailuresAsked
  <2>3. DataOK'
    BY <2>1, <1>0, TrackChangesType DEF DataOK
  <2>4. DownOK'
    BY <2>1, <1>0 DEF DownOK, DownMeta, DataOK, setupVars, metaVars
  <2>5. Linked'
    BY <2>1, <1>0, LinkedSame DEF setupVars, metaVars
  <2> QED BY <2>2, <2>3, <2>4, <2>5, RoutingParts_
<1>4. ASSUME NEW n \in LocalCallsAt, LocalMeta(n) PROVE RoutingInv'
  <2>1. n \in Nodes
    BY ClusterAssumption
  <2> QED BY <1>4, <2>1, RoutingLocalMeta
<1>5. ASSUME NEW n \in Nodes, NEW batch \in SUBSET (Envelopes \ sent), Send(n, batch)
      PROVE  RoutingInv'
  BY <1>5, RoutingSend
<1>6. ASSUME NEW n \in Nodes, NEW m \in Nodes, Forward(n, m) PROVE RoutingInv'
  BY <1>6, RoutingForward
<1>7. ASSUME NEW k \in Lookers, AskLocal(k) \/ LookFails(k) \/ StoreMeta(k) PROVE RoutingInv'
  BY <1>7, RoutingAskLocal, RoutingLookFails, RoutingStoreMeta
<1>8. ASSUME NEW c \in Callers, RemoteMeta(c) \/ AskClient(c) \/ ClientFails(c) \/ AnswerMeta(c)
      PROVE  RoutingInv'
  BY <1>8, RoutingRemoteMeta, RoutingAskClient, RoutingClientFails, RoutingAnswerMeta
<1>9. CASE Tick
  BY <1>9, RoutingTick
<1>10. CASE UNCHANGED vars
  <2>1. SetupOK' /\ DataOK'
    BY <1>0, <1>10 DEF vars, SetupOK, ClientsOrdered, ClientsComplete, DataOK
  <2>2. MetaOK' /\ DownOK'
    BY <1>0, <1>10 DEF vars, MetaOK, DownOK, DownMeta, FailuresAsked
  <2>3. Linked'
    BY <1>0, <1>10, LinkedSame DEF vars
  <2> QED BY <2>1, <2>2, <2>3, RoutingParts_
<1> QED
  BY <1>1, <1>2, <1>3, <1>4, <1>5, <1>6, <1>7, <1>8, <1>9, <1>10 DEF Next

\* Every variable keeps its shape, a process that is down holds nothing, and a
\* client list is a part of nodeAddrs in its order, for any number of nodes,
\* sources, envelopes and callers (LogCache.setupRouting, EgressReverseProxy).
THEOREM TypeCorrect == Spec => []TypeOK
<1>1. RoutingInv => TypeOK
  BY DEF RoutingInv
<1> QED BY RoutingInit, RoutingStep, <1>1, PTL DEF Spec

-----------------------------------------------------------------------------
(* Accounted. *)

LEMMA AccountedInit == Init => AccountedEach
  BY DEF Init, AccountedEach, Stored, Moving

LEMMA AccountedSame ==
  ASSUME AccountedEach, UNCHANGED <<store, transit, sent, gone>>
  PROVE  AccountedEach'
  BY DEF AccountedEach, Stored, Moving

\* A crash moves what the process held to gone, with what was handed to it: new
\* envelopes, or a batch on its way.
LEMMA AccountedCrash ==
  ASSUME DataOK, AccountedEach, NEW n \in Nodes, NEW handedOver \in SUBSET Envelopes,
         Crash(n, handedOver), sent' = sent \cup handedOver,
         \A e \in handedOver : e \notin gone /\ ~Stored(e)
  PROVE  AccountedEach'
<1>1. /\ store \in [Nodes -> SUBSET Envelopes] /\ transit \in [Nodes \X Nodes -> SUBSET Envelopes]
      /\ store' = [store EXCEPT ![n] = {}]
      /\ transit' = [l \in Nodes \X Nodes |-> IF l[1] = n THEN {} ELSE transit[l] \ handedOver]
      /\ gone' = gone \cup Held(n) \cup handedOver
  BY DEF Crash, DataOK
<1>2. \A e : e \in Held(n) <=> e \in store[n] \/ \E m \in Nodes : e \in transit[<<n, m>>]
  BY DEF Held
<1>3. ASSUME NEW e \in Envelopes
      PROVE  /\ Stored(e)' <=> \E m \in Nodes : m # n /\ e \in store[m]
             /\ Moving(e)' <=> e \notin handedOver /\ \E l \in Nodes \X Nodes : l[1] # n /\ e \in transit[l]
  BY <1>1 DEF Stored, Moving
<1>4. ASSUME NEW e \in Envelopes
      PROVE  /\ e \in sent' <=> e \in gone' \/ Stored(e)' \/ Moving(e)'
             /\ e \in gone' => ~Stored(e)' /\ ~Moving(e)'
             /\ Stored(e)' => ~Moving(e)'
  <2>1. /\ e \in sent <=> e \in gone \/ Stored(e) \/ Moving(e)
        /\ e \in gone => ~Stored(e) /\ ~Moving(e)
        /\ Stored(e) => ~Moving(e)
        /\ \A j, m \in Nodes : e \in store[j] /\ e \in store[m] => j = m
        /\ \A l, k \in Nodes \X Nodes : e \in transit[l] /\ e \in transit[k] => l = k
    BY DEF AccountedEach
  <2>2. Moving(e) <=> \/ \E m \in Nodes : e \in transit[<<n, m>>]
                      \/ \E l \in Nodes \X Nodes : l[1] # n /\ e \in transit[l]
    <3>1. \A l \in Nodes \X Nodes : l = <<l[1], l[2]>> /\ l[1] \in Nodes /\ l[2] \in Nodes
      OBVIOUS
    <3>2. \A m \in Nodes : <<n, m>> \in Nodes \X Nodes
      OBVIOUS
    <3> QED BY <3>1, <3>2 DEF Moving
  <2>3. (\E m \in Nodes : e \in transit[<<n, m>>])
          => ~ \E l \in Nodes \X Nodes : l[1] # n /\ e \in transit[l]
    BY <2>1
  <2>4. Stored(e) <=> e \in store[n] \/ \E m \in Nodes : m # n /\ e \in store[m]
    BY DEF Stored
  <2>5. e \in store[n] => ~ \E m \in Nodes : m # n /\ e \in store[m]
    BY <2>1
  <2>6. e \in gone' <=> \/ e \in gone \/ e \in handedOver \/ e \in store[n]
                        \/ \E m \in Nodes : e \in transit[<<n, m>>]
    BY <1>1, <1>2
  <2>7. e \in handedOver => e \notin gone /\ ~Stored(e)
    OBVIOUS
  <2>8. e \in sent' <=> e \in sent \/ e \in handedOver
    OBVIOUS
  <2> QED BY <1>3, <2>1, <2>2, <2>3, <2>4, <2>5, <2>6, <2>7, <2>8
<1>5. /\ \A j, m \in Nodes : \A e \in store'[j] : e \in store'[m] => j = m
      /\ \A l, k \in Nodes \X Nodes : \A e \in transit'[l] : e \in transit'[k] => l = k
  <2>1. \A j \in Nodes : store'[j] \subseteq store[j]
    BY <1>1
  <2>2. \A l \in Nodes \X Nodes : transit'[l] \subseteq transit[l]
    BY <1>1
  <2> QED BY <2>1, <2>2 DEF AccountedEach
<1> QED BY <1>4, <1>5 DEF AccountedEach

\* Send puts every envelope of a batch in one place, the one its client leads to.
LEMMA AccountedSend ==
  ASSUME RoutingInv, AccountedEach, NEW n \in Nodes, NEW batch \in SUBSET (Envelopes \ sent),
         Send(n, batch)
  PROVE  AccountedEach'
<1>0. SetupOK /\ DataOK
  BY RoutingParts
<1>1. sent' = sent \cup batch /\ \A e \in batch : e \notin sent /\ e \notin gone /\ ~Stored(e) /\ ~Moving(e)
  BY DEF AccountedEach, Send
<1>2. CASE ~ \A e \in batch : InRange(n, Lookup(SourceOf[e]))
  <2>1. Crash(n, batch)
    BY <1>2 DEF Send
  <2> QED BY <2>1, <1>0, <1>1, AccountedCrash
<1>3. CASE \A e \in batch : InRange(n, Lookup(SourceOf[e]))
  <2> DEFINE p(e) == Peer(n, Lookup(SourceOf[e]))
  <2>1. \A e \in batch : p(e) \in Nodes
    <3> SUFFICES ASSUME NEW e \in batch PROVE p(e) \in Nodes
      OBVIOUS
    <3>1. Lookup(SourceOf[e]) \in Nat
      BY ClusterAssumption DEF Lookup, Envelopes, Nodes
    <3>2. clients[n] \in Seq(Nodes) /\ Lookup(SourceOf[e]) < Len(clients[n])
      BY <1>0, <1>3 DEF SetupOK, InRange
    <3> QED BY <3>1, <3>2 DEF Peer
  <2>2. /\ store \in [Nodes -> SUBSET Envelopes] /\ transit \in [Nodes \X Nodes -> SUBSET Envelopes]
        /\ store' = [store EXCEPT ![n] = @ \cup {e \in batch : p(e) = n}]
        /\ transit' = [l \in Nodes \X Nodes |->
             IF l[1] = n /\ l[2] # n THEN transit[l] \cup {e \in batch : p(e) = l[2]} ELSE transit[l]]
        /\ gone' = gone
    BY <1>0, <1>3 DEF Send, DataOK
  <2> HIDE DEF p
  <2>3. ASSUME NEW e, NEW j \in Nodes
        PROVE  e \in store'[j] <=> e \in store[j] \/ (j = n /\ e \in batch /\ p(e) = n)
    BY <2>2
  <2>4. ASSUME NEW e, NEW l \in Nodes \X Nodes
        PROVE  e \in transit'[l] <=>
                 e \in transit[l] \/ (l[1] = n /\ l[2] # n /\ e \in batch /\ p(e) = l[2])
    BY <2>2
  <2>5. ASSUME NEW e \in Envelopes
        PROVE  /\ Stored(e)' <=> Stored(e) \/ (e \in batch /\ p(e) = n)
               /\ Moving(e)' <=> Moving(e) \/ (e \in batch /\ p(e) # n)
    <3>1. Stored(e)' <=> Stored(e) \/ (e \in batch /\ p(e) = n)
      BY <2>3 DEF Stored
    <3>2. ASSUME e \in batch, p(e) # n PROVE Moving(e)'
      <4>1. <<n, p(e)>> \in Nodes \X Nodes
        BY <2>1, <3>2
      <4>2. e \in transit'[<<n, p(e)>>]
        BY <2>4, <4>1, <3>2
      <4> QED BY <4>1, <4>2 DEF Moving
    <3>3. Moving(e)' <=> Moving(e) \/ (e \in batch /\ p(e) # n)
      BY <2>4, <3>2 DEF Moving
    <3> QED BY <3>1, <3>3
  <2>6. ASSUME NEW e \in Envelopes
        PROVE  /\ e \in sent' <=> e \in gone' \/ Stored(e)' \/ Moving(e)'
               /\ e \in gone' => ~Stored(e)' /\ ~Moving(e)'
               /\ Stored(e)' => ~Moving(e)'
    <3>1. /\ e \in sent <=> e \in gone \/ Stored(e) \/ Moving(e)
          /\ e \in gone => ~Stored(e) /\ ~Moving(e)
          /\ Stored(e) => ~Moving(e)
      BY DEF AccountedEach
    <3>2. gone' = gone
      BY <2>2
    <3> QED BY <3>1, <3>2, <2>5, <1>1
  <2>7. ASSUME NEW j \in Nodes, NEW m \in Nodes, NEW e \in store'[j], e \in store'[m]
        PROVE  j = m
    BY <2>3, <2>7, <1>1 DEF AccountedEach, Stored
  <2>8. ASSUME NEW l \in Nodes \X Nodes, NEW k \in Nodes \X Nodes,
               NEW e \in transit'[l], e \in transit'[k]
        PROVE  l = k
    <3>1. CASE e \in batch
      <4>1. l[1] = n /\ l[2] = p(e) /\ k[1] = n /\ k[2] = p(e)
        BY <3>1, <2>4, <2>8, <1>1 DEF Moving
      <4> QED BY <4>1
    <3>2. CASE e \notin batch
      BY <3>2, <2>4, <2>8 DEF AccountedEach
    <3> QED BY <3>1, <3>2
  <2> QED BY <2>6, <2>7, <2>8 DEF AccountedEach
<1> QED BY <1>2, <1>3

\* A batch that leaves a client arrives in one place, or is lost as a whole.
LEMMA AccountedForward ==
  ASSUME RoutingInv, AccountedEach, NEW n \in Nodes, NEW m \in Nodes, Forward(n, m)
  PROVE  AccountedEach'
<1>0. SetupOK /\ DataOK
  BY RoutingParts
<1> DEFINE from == <<n, m>>
<1>1. PICK batch \in SUBSET transit[from] : (Arrive(m, batch) \/ Lose(n, m, batch)) /\ sent' = sent
  BY DEF Forward
<1>2. from \in Nodes \X Nodes /\ batch \subseteq Envelopes
  BY <1>0, <1>1 DEF DataOK
<1>3. /\ \A e \in batch : Moving(e) /\ e \in sent /\ e \notin gone /\ ~Stored(e)
      /\ \A e \in batch : \A l \in Nodes \X Nodes : e \in transit[l] => l = from
  <2>1. \A e \in batch : Moving(e)
    BY <1>2 DEF Moving
  <2> HIDE DEF from
  <2> QED BY <2>1, <1>2 DEF AccountedEach
<1>4. /\ \A j, k \in Nodes : \A e \in store[j] : e \in store[k] => j = k
      /\ \A l, k \in Nodes \X Nodes : \A e \in transit[l] : e \in transit[k] => l = k
  BY DEF AccountedEach
<1>5. CASE Lose(n, m, batch)
  <2>1. /\ store' = store /\ gone' = gone \cup batch
        /\ \A l \in Nodes \X Nodes : transit'[l] = IF l = from THEN transit[l] \ batch ELSE transit[l]
    BY <1>0, <1>5 DEF Lose, Unsent, DataOK
  <2> HIDE DEF from
  <2>2. ASSUME NEW e \in Envelopes
        PROVE  /\ Stored(e)' <=> Stored(e)
               /\ Moving(e)' <=> Moving(e) /\ e \notin batch
    BY <2>1, <1>2, <1>3 DEF Stored, Moving
  <2>3. ASSUME NEW e \in Envelopes
        PROVE  /\ e \in sent' <=> e \in gone' \/ Stored(e)' \/ Moving(e)'
               /\ e \in gone' => ~Stored(e)' /\ ~Moving(e)'
               /\ Stored(e)' => ~Moving(e)'
    <3>1. /\ e \in sent <=> e \in gone \/ Stored(e) \/ Moving(e)
          /\ e \in gone => ~Stored(e) /\ ~Moving(e)
          /\ Stored(e) => ~Moving(e)
      BY DEF AccountedEach
    <3> QED BY <3>1, <2>1, <2>2, <1>1, <1>3
  <2>4. /\ \A j, k \in Nodes : \A e \in store'[j] : e \in store'[k] => j = k
        /\ \A l, k \in Nodes \X Nodes : \A e \in transit'[l] : e \in transit'[k] => l = k
    <3>1. \A l \in Nodes \X Nodes : \A e \in transit'[l] : e \in transit[l]
      BY <2>1
    <3>2. store' = store
      BY <2>1
    <3> QED BY <3>1, <3>2, <1>4
  <2> QED BY <2>3, <2>4 DEF AccountedEach
<1>6. CASE Arrive(m, batch) /\ ~InRange(m, LocalIdx(m))
  <2>1. Crash(m, batch) /\ sent' = sent \cup batch
    BY <1>1, <1>3, <1>6 DEF Arrive
  <2> QED BY <2>1, <1>0, <1>2, <1>3, AccountedCrash
<1>7. CASE Arrive(m, batch) /\ InRange(m, LocalIdx(m))
  <2> DEFINE p == Peer(m, LocalIdx(m))
             to == <<m, p>>
  <2>1. p \in Nodes
    <3>1. LocalIdx(m) \in Nat /\ clients[m] \in Seq(Nodes) /\ LocalIdx(m) < Len(clients[m])
      BY <1>0, <1>7, ClusterAssumption DEF LocalIdx, Nodes, SetupOK, InRange
    <3> QED BY <3>1 DEF Peer
  <2>2. to \in Nodes \X Nodes
    BY <2>1
  <2>3. /\ gone' = gone
        /\ \A j \in Nodes : store'[j] = IF p = m /\ j = m THEN store[j] \cup batch ELSE store[j]
        /\ \A l \in Nodes \X Nodes :
             transit'[l] = IF p # m /\ l = to THEN transit[l] \cup batch ELSE transit[l] \ batch
    BY <1>0, <1>7 DEF Arrive, Unsent, DataOK
  <2> HIDE DEF from, p, to
  <2>4. ASSUME NEW e \in Envelopes
        PROVE  /\ Stored(e)' <=> Stored(e) \/ (p = m /\ e \in batch)
               /\ Moving(e)' <=> (Moving(e) /\ e \notin batch) \/ (p # m /\ e \in batch)
    <3>1. Stored(e)' <=> Stored(e) \/ (p = m /\ e \in batch)
      BY <2>3 DEF Stored
    <3>2. Moving(e)' <=> (Moving(e) /\ e \notin batch) \/ (p # m /\ e \in batch)
      BY <2>2, <2>3 DEF Moving
    <3> QED BY <3>1, <3>2
  <2>5. ASSUME NEW e \in Envelopes
        PROVE  /\ e \in sent' <=> e \in gone' \/ Stored(e)' \/ Moving(e)'
               /\ e \in gone' => ~Stored(e)' /\ ~Moving(e)'
               /\ Stored(e)' => ~Moving(e)'
    <3>1. /\ e \in sent <=> e \in gone \/ Stored(e) \/ Moving(e)
          /\ e \in gone => ~Stored(e) /\ ~Moving(e)
          /\ Stored(e) => ~Moving(e)
      BY DEF AccountedEach
    <3>2. gone' = gone
      BY <2>3
    <3> QED BY <3>1, <3>2, <2>4, <1>1, <1>3
  <2>6. ASSUME NEW j \in Nodes, NEW k \in Nodes, NEW e \in store'[j], e \in store'[k]
        PROVE  j = k
    <3>1. CASE e \in batch
      <4>1. e \notin store[j] /\ e \notin store[k]
        BY <3>1, <1>3 DEF Stored
      <4> QED BY <4>1, <2>3, <2>6
    <3>2. CASE e \notin batch
      <4>1. e \in store[j] /\ e \in store[k]
        BY <3>2, <2>3, <2>6
      <4> QED BY <4>1, <1>4
    <3> QED BY <3>1, <3>2
  <2>7. ASSUME NEW l \in Nodes \X Nodes, NEW k \in Nodes \X Nodes,
               NEW e \in transit'[l], e \in transit'[k]
        PROVE  l = k
    <3>1. CASE e \in batch
      BY <3>1, <2>3, <2>7
    <3>2. CASE e \notin batch
      <4>1. e \in transit[l] /\ e \in transit[k]
        BY <3>2, <2>3, <2>7
      <4> QED BY <4>1, <1>4
    <3> QED BY <3>1, <3>2
  <2> QED BY <2>5, <2>6, <2>7 DEF AccountedEach
<1> QED BY <1>1, <1>5, <1>6, <1>7

LEMMA AccountedStep == RoutingInv /\ AccountedEach /\ [Next]_vars => AccountedEach'
<1> SUFFICES ASSUME RoutingInv, AccountedEach, [Next]_vars PROVE AccountedEach'
  OBVIOUS
<1>0. SetupOK /\ DataOK
  BY RoutingParts
<1>1. ASSUME NEW n \in Nodes, Crash(n, {}), UNCHANGED sent PROVE AccountedEach'
  BY <1>0, <1>1, AccountedCrash
<1>3. ASSUME NEW n \in Nodes, Evict(n) PROVE AccountedEach'
  <2>1. PICK e \in store[n] : store' = [store EXCEPT ![n] = @ \ {e}] /\ gone' = gone \cup {e}
                              /\ transit' = transit /\ sent' = sent
    BY <1>3 DEF Evict
  <2>2. \A j \in Nodes : store'[j] = IF j = n THEN store[j] \ {e} ELSE store[j]
    BY <2>1, <1>0 DEF DataOK
  <2>3. /\ \A f \in Envelopes : f \in sent <=> f \in gone \/ Stored(f) \/ Moving(f)
        /\ \A f \in Envelopes : f \in gone => ~Stored(f) /\ ~Moving(f)
        /\ \A f \in Envelopes : Stored(f) => ~Moving(f)
        /\ \A j, k \in Nodes : \A f \in store[j] : f \in store[k] => j = k
        /\ \A l, k \in Nodes \X Nodes : \A f \in transit[l] : f \in transit[k] => l = k
    BY DEF AccountedEach
  <2>4. e \in Envelopes /\ Stored(e)
    BY <1>0 DEF DataOK, Stored
  <2>5. \A f : (Stored(f)' <=> Stored(f) /\ f # e) /\ (Moving(f)' <=> Moving(f))
    BY <2>1, <2>2, <2>3 DEF Stored, Moving
  <2>6. \A f \in Envelopes : /\ f \in sent' <=> f \in gone' \/ Stored(f)' \/ Moving(f)'
                             /\ f \in gone' => ~Stored(f)' /\ ~Moving(f)'
                             /\ Stored(f)' => ~Moving(f)'
    BY <2>1, <2>3, <2>4, <2>5
  <2>7. /\ \A j, k \in Nodes : \A f \in store'[j] : f \in store'[k] => j = k
        /\ \A l, k \in Nodes \X Nodes : \A f \in transit'[l] : f \in transit'[k] => l = k
    BY <2>1, <2>2, <2>3
  <2> QED BY <2>6, <2>7 DEF AccountedEach
<1>4. ASSUME NEW k \in Lookers, AskLocal(k) PROVE AccountedEach'
  <2>1. look[k].node \in Nodes
    BY <1>4, LookAt DEF AskLocal
  <2>2. CASE UNCHANGED dataVars
    BY <2>2, AccountedSame DEF dataVars
  <2>3. CASE Crash(look[k].node, {}) /\ UNCHANGED sent
    BY <1>1, <2>1, <2>3
  <2> QED BY <1>4, <2>2, <2>3 DEF AskLocal
<1>5. ASSUME NEW k \in Lookers, LookFails(k) \/ StoreMeta(k) PROVE AccountedEach'
  BY <1>5, AccountedSame DEF LookFails, StoreMeta, dataVars
<1>6. CASE \/ \E n \in Nodes : Start(n) \/ LocalMeta(n)
           \/ \E c \in Callers : RemoteMeta(c) \/ AskClient(c) \/ ClientFails(c) \/ AnswerMeta(c)
           \/ Tick
           \/ UNCHANGED vars
  BY <1>6, AccountedSame DEF Start, LocalMeta, RemoteMeta, AskClient, ClientFails, AnswerMeta, Tick,
                             vars, dataVars
<1>7. ASSUME NEW n \in Nodes, NEW batch \in SUBSET (Envelopes \ sent), Send(n, batch)
      PROVE  AccountedEach'
  BY <1>7, AccountedSend
<1>8. ASSUME NEW n \in Nodes, NEW m \in Nodes, Forward(n, m) PROVE AccountedEach'
  BY <1>8, AccountedForward
<1>9. ASSUME NEW n \in Nodes, Stop(n) PROVE AccountedEach'
  BY <1>1, <1>9 DEF Stop
<1> QED BY <1>3, <1>4, <1>5, <1>6, <1>7, <1>8, <1>9, ClusterAssumption DEF Next

\* The whole cluster accounts for every envelope given to Send, whatever clients
\* are missing and whenever processes end: it is in exactly one store or batched
\* client, or was evicted or lost (IngressReverseProxy.Send, BatchedIngressClient).
THEOREM ClusterConserves == Spec => []Accounted
<1>1. RoutingInv /\ AccountedEach => Accounted
  <2> SUFFICES ASSUME RoutingInv, AccountedEach PROVE Accounted
    OBVIOUS
  <2>0. DataOK
    BY RoutingParts
  <2>1. \A e : e \in UNION Places <=> Stored(e) \/ Moving(e)
    BY DEF Places, Stored, Moving
  <2>2. \A e : Stored(e) \/ Moving(e) => e \in Envelopes
    BY <2>0 DEF DataOK, Stored, Moving
  <2>3. (UNION Places) \cup gone = sent /\ gone \cap (UNION Places) = {}
    <3>1. sent \subseteq Envelopes /\ gone \subseteq Envelopes
      BY <2>0 DEF DataOK
    <3>2. \A e : /\ e \in sent <=> e \in gone \/ Stored(e) \/ Moving(e)
                 /\ e \in gone => ~Stored(e) /\ ~Moving(e)
      BY <3>1, <2>2 DEF AccountedEach
    <3> DEFINE everywhere == UNION Places
    <3>3. \A e : e \in everywhere <=> Stored(e) \/ Moving(e)
      BY <2>1
    <3> HIDE DEF everywhere
    <3>4. everywhere \cup gone = sent /\ gone \cap everywhere = {}
      BY <3>2, <3>3
    <3> QED BY <3>4 DEF everywhere
  <2>4. /\ \A l, k \in Nodes \X Nodes : l # k => transit[l] \cap transit[k] = {}
        /\ \A n, m \in Nodes : n # m => store[n] \cap store[m] = {}
    BY DEF AccountedEach
  <2>5. \A n \in Nodes, l \in Nodes \X Nodes : store[n] \cap transit[l] = {}
    <3>1. \A e : Stored(e) => ~Moving(e)
      BY <2>2 DEF AccountedEach
    <3> QED BY <3>1 DEF Stored, Moving
  <2> QED BY <2>3, <2>4, <2>5 DEF Accounted
<1> QED BY RoutingInit, RoutingStep, AccountedInit, AccountedStep, <1>1, PTL DEF Spec

-----------------------------------------------------------------------------
(* AtHome and ReadsReachHome. *)

\* With every client in place a position and the node it leads to are the same.
LEMMA CompleteLookup ==
  ASSUME RoutingInv, ~misdialled, NEW n \in Nodes, NEW m \in Nodes
  PROVE  InRange(n, m) /\ Peer(n, m) = m
  BY ClusterAssumption DEF RoutingInv, ClientsComplete, InRange, Peer, Nodes

LEMMA AtHomeSame ==
  ASSUME AtHome, misdialled => misdialled',
         \A n \in Nodes : store'[n] \subseteq store[n],
         \A n, m \in Nodes : transit'[<<n, m>>] \subseteq transit[<<n, m>>]
  PROVE  AtHome'
  BY DEF AtHome

LEMMA CrashShrinks ==
  ASSUME DataOK, NEW n \in Nodes, NEW handedOver, Crash(n, handedOver)
  PROVE  /\ misdialled' = misdialled
         /\ \A k \in Nodes : store'[k] \subseteq store[k]
         /\ \A k, m \in Nodes : transit'[<<k, m>>] \subseteq transit[<<k, m>>]
  BY DEF DataOK, Crash

LEMMA AtHomeStep == RoutingInv /\ AtHome /\ [Next]_vars => AtHome'
<1> SUFFICES ASSUME RoutingInv, AtHome, [Next]_vars PROVE AtHome'
  OBVIOUS
<1>0. SetupOK /\ DataOK
  BY RoutingParts
<1>1. ASSUME NEW n \in Nodes, NEW handedOver, Crash(n, handedOver) PROVE AtHome'
  BY <1>0, <1>1, AtHomeSame, CrashShrinks
<1>2. ASSUME UNCHANGED <<store, transit>>, misdialled => misdialled' PROVE AtHome'
  BY <1>2, AtHomeSame
<1>3. ASSUME NEW n \in Nodes, Evict(n) PROVE AtHome'
  <2>1. /\ misdialled' = misdialled
        /\ \A k \in Nodes : store'[k] \subseteq store[k]
        /\ \A k, m \in Nodes : transit'[<<k, m>>] \subseteq transit[<<k, m>>]
    BY <1>0, <1>3 DEF Evict, DataOK, setupVars
  <2> QED BY <2>1, AtHomeSame
<1>4. ASSUME NEW k \in Lookers, AskLocal(k) PROVE AtHome'
  <2>1. look[k].node \in Nodes
    BY <1>4, LookAt DEF AskLocal
  <2>2. CASE UNCHANGED <<setupVars, dataVars>>
    BY <2>2, <1>2 DEF dataVars, setupVars
  <2>3. CASE Crash(look[k].node, {})
    BY <1>1, <2>1, <2>3
  <2> QED BY <1>4, <2>2, <2>3 DEF AskLocal
<1>5. ASSUME NEW k \in Lookers, LookFails(k) \/ StoreMeta(k) PROVE AtHome'
  BY <1>2, <1>5 DEF LookFails, StoreMeta, dataVars, setupVars
<1>6. ASSUME NEW n \in LocalCallsAt, LocalMeta(n) PROVE AtHome'
  BY <1>2, <1>6 DEF LocalMeta, dataVars, setupVars
<1>7. ASSUME NEW n \in Nodes, NEW batch \in SUBSET (Envelopes \ sent), Send(n, batch)
      PROVE  AtHome'
  <2>1. CASE ~ \A e \in batch : InRange(n, Lookup(SourceOf[e]))
    BY <2>1, <1>1, <1>7 DEF Send
  <2>2. CASE \A e \in batch : InRange(n, Lookup(SourceOf[e]))
    <3>1. CASE misdialled
      BY <3>1, <2>2, <1>7 DEF Send, setupVars, AtHome
    <3>2. CASE ~misdialled
      <4>1. \A e \in batch : Home[SourceOf[e]] \in Nodes /\ Peer(n, Lookup(SourceOf[e])) = Home[SourceOf[e]]
        BY <3>2, CompleteLookup, ClusterAssumption DEF Lookup, Envelopes
      <4>2. /\ \A k \in Nodes : store'[k] \subseteq
                 store[k] \cup {e \in batch : k = n /\ Peer(n, Lookup(SourceOf[e])) = k}
            /\ \A k, m \in Nodes : transit'[<<k, m>>] \subseteq
                 transit[<<k, m>>] \cup {e \in batch : k # m /\ Peer(n, Lookup(SourceOf[e])) = m}
        BY <2>2, <1>0, <1>7 DEF Send, DataOK
      <4> QED BY <3>2, <4>1, <4>2 DEF AtHome
    <3> QED BY <3>1, <3>2
  <2> QED BY <2>1, <2>2
<1>8. ASSUME NEW n \in Nodes, NEW m \in Nodes, Forward(n, m) PROVE AtHome'
  <2>1. PICK batch \in SUBSET transit[<<n, m>>] : Arrive(m, batch) \/ Lose(n, m, batch)
    BY <1>8 DEF Forward
  <2>2. CASE Lose(n, m, batch)
    <3>1. /\ misdialled' = misdialled
          /\ \A k \in Nodes : store'[k] \subseteq store[k]
          /\ \A k, j \in Nodes : transit'[<<k, j>>] \subseteq transit[<<k, j>>]
      BY <1>0, <2>2 DEF Lose, Unsent, DataOK, setupVars
    <3> QED BY <3>1, AtHomeSame
  <2>3. CASE Arrive(m, batch) /\ ~InRange(m, LocalIdx(m))
    BY <2>3, <1>1 DEF Arrive
  <2>4. CASE Arrive(m, batch) /\ InRange(m, LocalIdx(m))
    <3>1. CASE misdialled
      BY <3>1, <2>4 DEF Arrive, setupVars, AtHome
    <3>2. CASE ~misdialled
      <4>1. Peer(m, LocalIdx(m)) = m
        BY <3>2, CompleteLookup DEF LocalIdx
      <4>2. /\ \A k \in Nodes : store'[k] \subseteq store[k] \cup {e \in batch : k = m}
            /\ \A k, j \in Nodes : transit'[<<k, j>>] \subseteq transit[<<k, j>>]
        BY <4>1, <2>4, <1>0 DEF Arrive, DataOK, Unsent
      <4>3. \A e \in batch : Home[SourceOf[e]] = m
        BY <3>2 DEF AtHome
      <4> QED BY <3>2, <4>2, <4>3 DEF AtHome
    <3> QED BY <3>1, <3>2
  <2> QED BY <2>1, <2>2, <2>3, <2>4
<1>9. ASSUME NEW n \in Nodes, Stop(n) PROVE AtHome'
  BY <1>1, <1>9 DEF Stop
<1>10. ASSUME NEW n \in Nodes, Start(n) PROVE AtHome'
  <2>1. misdialled => misdialled'
    BY <1>10 DEF Start
  <2> QED BY <2>1, <1>2, <1>10 DEF Start, dataVars
<1>11. ASSUME NEW c \in Callers, RemoteMeta(c) \/ AskClient(c) \/ ClientFails(c) \/ AnswerMeta(c)
       PROVE  AtHome'
  BY <1>2, <1>11 DEF RemoteMeta, AskClient, ClientFails, AnswerMeta, dataVars, setupVars
<1>12. CASE Tick \/ UNCHANGED vars
  BY <1>2, <1>12 DEF Tick, vars, setupVars
<1> QED BY <1>3, <1>4, <1>5, <1>6, <1>7, <1>8, <1>9, <1>10, <1>11, <1>12 DEF Next

\* As long as every node has all its clients, envelopes are stored by the home of
\* their source and nowhere else (IngressReverseProxy.Send, RoutingTable.Lookup).
THEOREM StoredAtHome == Spec => []AtHome
<1>1. Init => AtHome
  BY DEF Init, AtHome
<1> QED BY RoutingInit, RoutingStep, <1>1, AtHomeStep, PTL DEF Spec

\* EgressReverseProxy.Read, from any node to the home of the source in one hop.
LEMMA ReadReachesHome ==
  ASSUME RoutingInv, ~misdialled, NEW node \in up, NEW s \in SourceIds
  PROVE  AnsweredBy(node, s) = IF Home[s] \in up THEN Home[s] ELSE "unavailable"
<1> DEFINE home == Home[s]
           Body(f, hops, n) ==
             IF n \notin up THEN "unavailable"
             ELSE IF ~InRange(n, ReadIdx(n, s)) THEN "panic"
             ELSE IF Peer(n, ReadIdx(n, s)) = n THEN n
             ELSE IF hops = 0 THEN "loop"
             ELSE f[hops - 1][Peer(n, ReadIdx(n, s))]
           Follows(f) == f = [hops \in 0..N |-> [n \in Nodes |-> Body(f, hops, n)]]
           Direct(hops, n) ==
             IF n \notin up THEN "unavailable"
             ELSE IF n = home THEN n
             ELSE IF hops = 0 THEN "loop"
             ELSE IF home \in up THEN home ELSE "unavailable"
           d == [hops \in 0..N |-> [n \in Nodes |-> Direct(hops, n)]]
<1>1. home \in Nodes /\ N \in Nat \ {0} /\ node \in Nodes
  BY ClusterAssumption DEF RoutingInv, TypeOK
<1>2. \A n \in Nodes : InRange(n, ReadIdx(n, s)) /\ Peer(n, ReadIdx(n, s)) = home
  BY <1>1, CompleteLookup DEF ReadIdx, Lookup
<1>3. Follows(d)
  <2> SUFFICES ASSUME NEW hops \in 0..N, NEW n \in Nodes PROVE Direct(hops, n) = Body(d, hops, n)
    BY Zenon
  <2>1. hops # 0 => d[hops - 1][home] = Direct(hops - 1, home)
    BY <1>1
  <2> HIDE DEF d
  <2> QED BY <2>1, <1>1, <1>2
<1> DEFINE f == CHOOSE f : Follows(f)
<1>4. Follows(f)
  <2> HIDE DEF d, Follows
  <2> QED BY <1>3
<1>5. AnsweredBy(node, s) = f[N][node]
  BY DEF AnsweredBy
<1> HIDE DEF f
<1>6. ASSUME NEW hops \in 0..N, NEW n \in Nodes PROVE f[hops][n] = Body(f, hops, n)
  <2> HIDE DEF Body
  <2>1. f[hops] = [k \in Nodes |-> Body(f, hops, k)]
    BY <1>4, Zenon
  <2> QED BY <2>1, Zenon
<1>7. f[N][node] = Body(f, N, node) /\ f[N - 1][home] = Body(f, N - 1, home)
  BY <1>1, <1>6
<1> HIDE DEF Follows
<1> QED BY <1>1, <1>2, <1>5, <1>7

\* No read circles between nodes or ends in a panic as long as every node has all
\* its clients: the home of the source answers it, if it is up
\* (EgressReverseProxy.Read).
THEOREM ReadsFindTheirSource == Spec => []ReadsReachHome
<1>1. RoutingInv => ReadsReachHome
  BY ReadReachesHome DEF ReadsReachHome
<1> QED BY RoutingInit, RoutingStep, <1>1, PTL DEF Spec

-----------------------------------------------------------------------------
(* MetaCatchesUp. *)

\* Time stands still, and a source that is still quiet did not change.
QuietKept ==
  \A s \in SourceIds : quiet'[s] # 0 => quiet'[s] = quiet[s] /\ (Present(s)' <=> Present(s))

LEMMA TrackedQuiet ==
  ASSUME DataOK, TrackChanges \/ UNCHANGED <<store, quiet>>
  PROVE  QuietKept
<1>1. CASE TrackChanges
  BY <1>1 DEF TrackChanges, QuietKept
<1>2. CASE UNCHANGED <<store, quiet>>
  BY <1>2 DEF QuietKept, Present
<1> QED BY <1>1, <1>2

\* What was settled stays so as long as no time passes.
LEMMA StaysSettled ==
  ASSUME DataOK', QuietKept, NEW s \in SourceIds, NEW time \in Nat, NEW meta, NEW complete,
         Settled(s, time, meta, complete)
  PROVE  Settled(s, time, meta, complete)'
<1>1. quiet'[s] \in Nat
  BY LongAgoType DEF DataOK
<1>2. quiet'[s] > time => quiet'[s] # 0
  BY <1>1
<1> QED BY <1>2 DEF QuietKept, Settled

\* What is settled for a time is settled for longer ones.
LEMMA SettledLater ==
  ASSUME DataOK, NEW s \in SourceIds, NEW time \in Nat, NEW later \in Nat, time <= later,
         NEW meta, NEW complete, Settled(s, time, meta, complete)
  PROVE  Settled(s, later, meta, complete)
<1>1. quiet[s] \in Nat
  BY LongAgoType DEF DataOK
<1>2. quiet[s] > later => quiet[s] > time
  BY <1>1
<1> QED BY <1>2 DEF Settled

\* A cache that is kept, or dropped, stays settled as long as no time passes; so does
\* what is in progress, whoever it is for.
LEMMA LocalKept ==
  ASSUME DataOK', MetaOK, QuietKept, NEW n \in Nodes, LocalSettledAt(n),
         localCache'[n] \in {None, localCache[n]}
  PROVE  LocalSettledAt(n)'
<1> SUFFICES ASSUME localCache'[n] # None, NEW s \in SourceIds
             PROVE  /\ s \in localCache'[n].meta => Home[s] = n
                    /\ Home[s] = n => Settled(s, MaxTook + localCache[n].age, localCache[n].meta, TRUE)'
  BY DEF LocalSettledAt
<1>1. localCache[n] # None /\ localCache'[n] = localCache[n] /\ MaxTook + localCache[n].age \in Nat
  BY LagType DEF MetaOK, LocalCaches
<1>2. PICK time \in Nat : time = MaxTook + localCache[n].age
  BY <1>1
<1>3. Home[s] = n => Settled(s, time, localCache[n].meta, TRUE)
  BY <1>1, <1>2 DEF LocalSettledAt
<1>4. PICK meta : meta = localCache[n].meta
  OBVIOUS
<1>5. Home[s] = n => Settled(s, time, meta, TRUE)'
  BY <1>3, <1>4, StaysSettled
<1>6. MaxTook + localCache'[n].age = time /\ localCache'[n].meta = meta
  BY <1>1, <1>2, <1>4
<1> QED BY <1>1, <1>5, <1>6 DEF LocalSettledAt, Settled

LookStays(k) ==
  look'[k] # None =>
    /\ look[k] # None /\ look'[k].age = look[k].age /\ look'[k].node = look[k].node
    /\ look'[k].pc = look[k].pc /\ look'[k].meta = look[k].meta
    /\ look'[k].for \in {None, look[k].for}

LEMMA LookKept ==
  ASSUME DataOK', MetaOK, QuietKept, NEW k \in Lookers, LookSettledAt(k), LookDirect(k),
         LookStays(k)
  PROVE  LookSettledAt(k)' /\ LookDirect(k)'
<1>1. LookDirect(k)'
  BY ClusterAssumption DEF LookDirect, LookStays
<1> SUFFICES ASSUME look'[k] # None, look'[k].pc = "store", NEW s \in SourceIds
             PROVE  /\ s \in look'[k].meta => Home[s] = look'[k].node
                    /\ Home[s] = look'[k].node => Settled(s, look[k].age, look[k].meta, TRUE)'
  BY <1>1 DEF LookSettledAt
<1>2. /\ look[k] # None /\ look'[k].age = look[k].age /\ look'[k].node = look[k].node
      /\ look[k].pc = "store" /\ look'[k].meta = look[k].meta
  BY DEF LookStays
<1>3. look[k].age \in Nat
  BY <1>2, LagType DEF MetaOK, Looks
<1>4. PICK time \in Nat, meta \in {look[k].meta} : time = look[k].age /\ meta = look[k].meta
  BY <1>3
<1>5. /\ s \in meta => Home[s] = look[k].node
      /\ Home[s] = look[k].node => Settled(s, time, meta, TRUE)
  BY <1>2, <1>4 DEF LookSettledAt
<1>6. Home[s] = look[k].node => Settled(s, time, meta, TRUE)'
  BY <1>5, StaysSettled
<1> QED BY <1>2, <1>4, <1>5, <1>6 DEF Settled

LEMMA CallKept ==
  ASSUME DataOK', MetaOK, QuietKept, NEW c \in Callers, CallSettledAt(c),
         call'[c] # None => /\ call[c] # None /\ call'[c].age = call[c].age
                            /\ call'[c].next = call[c].next /\ call'[c].meta = call[c].meta
                            /\ call'[c].failed = call[c].failed
  PROVE  CallSettledAt(c)'
<1> SUFFICES ASSUME call'[c] # None, NEW s \in SourceIds
             PROVE  /\ s \in call'[c].meta => Home[s] < call'[c].next
                    /\ Home[s] < call'[c].next =>
                         Settled(s, Lag + call[c].age, call[c].meta, call[c].failed = 0)'
  BY DEF CallSettledAt
<1>1. /\ call[c] # None /\ Lag + call[c].age \in Nat
  BY LagType DEF MetaOK, Calls
<1>2. quiet'[s] \in Nat
  BY LongAgoType DEF DataOK
<1> QED BY <1>1, <1>2 DEF CallSettledAt, QuietKept, Settled

LEMMA RemoteKept ==
  ASSUME DataOK', MetaOK, QuietKept, NEW n \in Nodes, RemoteSettledAt(n),
         remoteCache'[n] \in {None, remoteCache[n]}
  PROVE  RemoteSettledAt(n)'
<1> SUFFICES ASSUME remoteCache'[n] # None, NEW s \in SourceIds
             PROVE  Settled(s, Lag + remoteCache[n].took + remoteCache[n].age,
                            remoteCache[n].meta, remoteCache[n].complete)'
  BY DEF RemoteSettledAt
<1>1. /\ remoteCache[n] # None /\ remoteCache'[n] = remoteCache[n]
      /\ Lag + remoteCache[n].took + remoteCache[n].age \in Nat
  BY LagType DEF MetaOK, RemoteCaches
<1>2. quiet'[s] \in Nat
  BY LongAgoType DEF DataOK
<1> QED BY <1>1, <1>2 DEF RemoteSettledAt, QuietKept, Settled

\* A step that fills no cache, collects nothing and learns nothing.
LEMMA SettledKept ==
  ASSUME DataOK', MetaOK, MetaSettled, misdialled => misdialled', QuietKept,
         \A n \in Nodes : /\ localCache'[n] \in {None, localCache[n]}
                          /\ remoteCache'[n] \in {None, remoteCache[n]},
         \A c \in Callers : call'[c] \in {None, call[c]},
         \A k \in Lookers : LookStays(k)
  PROVE  MetaSettled'
<1> SUFFICES ASSUME ~misdialled'
             PROVE  /\ \A n \in Nodes : LocalSettledAt(n)' /\ RemoteSettledAt(n)'
                    /\ \A c \in Callers : CallSettledAt(c)'
                    /\ \A k \in Lookers : LookSettledAt(k)' /\ LookDirect(k)'
  BY DEF MetaSettled
<1>1. /\ \A n \in Nodes : LocalSettledAt(n) /\ RemoteSettledAt(n)
      /\ \A c \in Callers : CallSettledAt(c)
      /\ \A k \in Lookers : LookSettledAt(k) /\ LookDirect(k)
  BY DEF MetaSettled
<1>2. \A c \in Callers : CallSettledAt(c)'
  BY <1>1, CallKept
<1>3. \A k \in Lookers : LookSettledAt(k)' /\ LookDirect(k)'
  BY <1>1, LookKept
<1> QED BY <1>1, <1>2, <1>3, LocalKept, RemoteKept

\* The parts of MetaSettled that a step of a Meta call leaves alone.
LEMMA RestSettled ==
  ASSUME RoutingInv, RoutingInv', MetaSettled, ~misdialled, UNCHANGED <<setupVars, dataVars>>
  PROVE  /\ DataOK /\ MetaOK /\ DataOK' /\ QuietKept /\ ~misdialled'
         /\ \A n \in Nodes : LocalSettledAt(n) /\ RemoteSettledAt(n)
         /\ \A c \in Callers : CallSettledAt(c)
         /\ \A k \in Lookers : LookSettledAt(k) /\ LookDirect(k)
         /\ UNCHANGED localCache => \A n \in Nodes : LocalSettledAt(n)'
         /\ UNCHANGED remoteCache => \A n \in Nodes : RemoteSettledAt(n)'
         /\ \A c \in Callers : call'[c] = call[c] => CallSettledAt(c)'
         /\ \A k \in Lookers : LookStays(k) => LookSettledAt(k)' /\ LookDirect(k)'
<1>1. DataOK /\ MetaOK /\ DataOK'
  BY RoutingParts, RoutingParts_
<1>2. QuietKept /\ ~misdialled'
  BY <1>1, TrackedQuiet DEF setupVars, dataVars
<1>3. /\ \A n \in Nodes : LocalSettledAt(n) /\ RemoteSettledAt(n)
      /\ \A c \in Callers : CallSettledAt(c)
      /\ \A k \in Lookers : LookSettledAt(k) /\ LookDirect(k)
  BY DEF MetaSettled
<1>4. UNCHANGED localCache => \A n \in Nodes : LocalSettledAt(n)'
  BY <1>1, <1>2, <1>3, LocalKept
<1>5. UNCHANGED remoteCache => \A n \in Nodes : RemoteSettledAt(n)'
  BY <1>1, <1>2, <1>3, RemoteKept
<1>6. \A c \in Callers : call'[c] = call[c] => CallSettledAt(c)'
  BY <1>1, <1>2, <1>3, CallKept
<1>7. \A k \in Lookers : LookStays(k) => LookSettledAt(k)' /\ LookDirect(k)'
  BY <1>1, <1>2, <1>3, LookKept
<1> QED BY <1>1, <1>2, <1>3, <1>4, <1>5, <1>6, <1>7

LEMMA SameLookStays ==
  ASSUME NEW k \in Lookers, look'[k] = look[k]
  PROVE  LookStays(k)
  BY DEF LookStays

\* Under AtHome a store names the sources whose home it is, and no others.
LEMMA StoreSources ==
  ASSUME DataOK, AtHome, ~misdialled, NEW m \in Nodes, NEW s \in SourceIds
  PROVE  s \in Sources(store[m]) <=> Home[s] = m /\ Present(s)
  BY DEF AtHome, Sources, Present

LEMMA LocalMetaSettled ==
  ASSUME RoutingInv, RoutingInv', MetaSettled, ~misdialled, NEW n \in Nodes, LocalMeta(n)
  PROVE  MetaSettled'
<1>1. PICK k \in Lookers :
         /\ look' = [look EXCEPT ![k] = NewLook(n, None)]
         /\ UNCHANGED <<setupVars, dataVars, localCache, remoteCache, call>>
  BY DEF LocalMeta
<1>2. \A j \in Lookers : look'[j] = IF j = k THEN NewLook(n, None) ELSE look[j]
  BY <1>1, RestSettled DEF MetaOK
<1>3. LookSettledAt(k)' /\ LookDirect(k)'
  <2>1. NewLook(n, None).pc = "ask" /\ NewLook(n, None).for = None
    BY NewLookType
  <2>2. look'[k].pc = "ask" /\ look'[k].for = None /\ None \notin Lookers
    BY <1>2, <2>1, ClusterAssumption
  <2> QED BY <2>2 DEF LookSettledAt, LookDirect
<1>4. \A j \in Lookers : LookSettledAt(j)' /\ LookDirect(j)'
  BY <1>1, <1>2, <1>3, RestSettled, SameLookStays
<1> QED BY <1>1, <1>4, RestSettled DEF MetaSettled

\* With every client in place it is the node's own store that is asked.
LEMMA AskLocalSettled ==
  ASSUME RoutingInv, RoutingInv', AtHome, MetaSettled, ~misdialled, NEW k \in Lookers, AskLocal(k)
  PROVE  MetaSettled'
<1> DEFINE n == look[k].node
<1>1. look[k] # None /\ n \in Nodes
  BY LookAt DEF AskLocal
<1>2. InRange(n, LocalIdx(n)) /\ Peer(n, LocalIdx(n)) = n
  BY <1>1, CompleteLookup DEF LocalIdx
<1>3. /\ look' = [look EXCEPT ![k] = Answered(k, Sources(store[n]))]
      /\ UNCHANGED <<setupVars, dataVars, localCache, remoteCache, call>>
  BY <1>2 DEF AskLocal
<1>4. DataOK /\ MetaOK /\ UNCHANGED <<store, quiet>>
  BY <1>3, RestSettled DEF dataVars
<1>5. Sources(store[n]) \subseteq SourceIds
  BY <1>1, <1>4, ClusterAssumption DEF DataOK, Sources, Envelopes
<1>6. PICK meta \in SUBSET SourceIds, node \in Nodes : meta = Sources(store[n]) /\ node = n
  BY <1>1, <1>5
<1>7. \A s \in SourceIds : s \in meta <=> Home[s] = node /\ Present(s)'
  BY <1>4, <1>6, StoreSources DEF Present
<1>8. \A j \in Lookers : look'[j] = IF j = k THEN Answered(k, meta) ELSE look[j]
  BY <1>3, <1>4, <1>6 DEF MetaOK
<1>9. /\ look'[k] # None /\ look'[k].node = node /\ look'[k].for = look[k].for /\ look'[k].meta = meta
  BY <1>1, <1>6, <1>8, AnsweredType
<1> HIDE DEF n
<1>10. LookSettledAt(k)'
  BY <1>7, <1>9 DEF LookSettledAt, Settled
<1>11. LookDirect(k)'
  BY <1>1, <1>3, <1>9, RestSettled DEF LookDirect
<1>12. \A j \in Lookers : LookSettledAt(j)' /\ LookDirect(j)'
  BY <1>3, <1>8, <1>10, <1>11, RestSettled, SameLookStays
<1> QED BY <1>3, <1>12, RestSettled DEF MetaSettled

\* What the client at a place has is settled, or is nothing because it failed.
FromClient(c, meta, failed) ==
  \A s \in SourceIds : /\ s \in meta => Home[s] = call[c].next
                       /\ Home[s] = call[c].next => Settled(s, Lag, meta, failed = 0)

\* One more client was asked: its node's sources are settled in the answer, or the
\* answer is marked as failed.
LEMMA CollectedSettled ==
  ASSUME RoutingInv, RoutingInv', MetaSettled, ~misdialled, UNCHANGED <<setupVars, dataVars>>,
         NEW c \in Callers, call[c] # None, InRange(CallsAt[c], call[c].next),
         NEW meta \in SUBSET SourceIds, NEW failed \in {0, 1},
         call'[c] = With(c, meta, failed), FromClient(c, meta, failed)
  PROVE  CallSettledAt(c)'
<1>0. DataOK /\ CallSettledAt(c) /\ UNCHANGED <<store, quiet>>
  BY RestSettled DEF dataVars
<1> SUFFICES ASSUME NEW s \in SourceIds
             PROVE  /\ s \in call'[c].meta => Home[s] < call'[c].next
                    /\ Home[s] < call'[c].next =>
                         Settled(s, Lag + call[c].age, call[c].meta, call[c].failed = 0)'
  BY DEF CallSettledAt
<1> DEFINE old == call[c]
           new == call'[c]
<1>1. /\ old.age \in Nat /\ old.next \in Nat /\ old.failed \in Nat
      /\ Lag \in Nat /\ Home[s] \in Nat /\ quiet[s] \in Nat
  <2>1. old \in Calls
    BY CallAt
  <2> QED BY <1>0, <2>1, LongAgoType, LagType, ClusterAssumption DEF Calls, DataOK, Nodes
<1>2. /\ new.age = old.age /\ new.next = old.next + 1
      /\ new.meta = old.meta \cup meta /\ new.failed = old.failed + failed
  BY WithType
<1>3. /\ quiet'[s] = quiet[s] /\ (Present(s)' <=> Present(s))
      /\ new.failed = 0 => old.failed = 0 /\ failed = 0
  <2>1. quiet'[s] = quiet[s] /\ (Present(s)' <=> Present(s))
    BY <1>0 DEF Present
  <2>2. PICK x \in Nat : x = old.failed
    BY <1>1
  <2>3. new.failed = x + failed
    BY <1>2, <2>2
  <2> HIDE DEF old, new
  <2> QED BY <2>1, <2>2, <2>3
<1>4. /\ s \in old.meta => Home[s] < old.next
      /\ Home[s] < old.next => Settled(s, Lag + old.age, old.meta, old.failed = 0)
  BY <1>0 DEF CallSettledAt
<1>5. /\ s \in meta => Home[s] = old.next
      /\ Home[s] = old.next => Settled(s, Lag, meta, failed = 0)
  BY DEF FromClient
<1> HIDE DEF old, new
<1>6. s \in new.meta => Home[s] < new.next
  BY <1>1, <1>2, <1>4, <1>5
<1>7. ASSUME Home[s] < new.next, quiet[s] > Lag + old.age
      PROVE  (s \in new.meta => Present(s)) /\ (Present(s) /\ new.failed = 0 => s \in new.meta)
  <2>1. quiet[s] > Lag /\ (Home[s] < old.next \/ Home[s] = old.next)
    <3>1. PICK h \in Nat, q \in Nat, x \in Nat, a \in Nat, g \in Nat :
             h = Home[s] /\ q = quiet[s] /\ x = old.next /\ a = old.age /\ g = Lag
      BY <1>1
    <3>2. h < x + 1 /\ q > g + a
      BY <1>2, <1>7, <3>1
    <3>3. q > g /\ (h < x \/ h = x)
      BY <3>2
    <3> QED BY <3>1, <3>3
  <2>2. CASE Home[s] < old.next
    <3>1. /\ s \in old.meta => Present(s)
          /\ Present(s) /\ old.failed = 0 => s \in old.meta
      BY <2>2, <1>4, <1>7 DEF Settled
    <3>2. s \notin meta
      BY <2>2, <1>1, <1>5
    <3> QED BY <3>1, <3>2, <1>2, <1>3
  <2>3. CASE Home[s] = old.next
    <3>1. /\ s \in meta => Present(s)
          /\ Present(s) /\ failed = 0 => s \in meta
      BY <2>1, <2>3, <1>5 DEF Settled
    <3>2. s \notin old.meta
      BY <2>3, <1>1, <1>4
    <3> QED BY <3>1, <3>2, <1>2, <1>3
  <2> QED BY <2>1, <2>2, <2>3
<1>8. Home[s] < new.next => Settled(s, Lag + call[c].age, call[c].meta, call[c].failed = 0)'
  BY <1>2, <1>3, <1>7 DEF Settled, new
<1> QED BY <1>6, <1>8 DEF new

\* With every client in place the one a call asks next is that of the node at its place.
LEMMA NextClient ==
  ASSUME RoutingInv, ~misdialled, NEW c \in Callers, call[c] # None,
         InRange(CallsAt[c], call[c].next)
  PROVE  call[c].next \in Nodes /\ Peer(CallsAt[c], call[c].next) = call[c].next
<1>0. SetupOK
  BY RoutingParts
<1>1. call[c] \in Calls /\ CallsAt[c] \in Nodes
  BY CallAt
<1>2. Len(clients[CallsAt[c]]) = N /\ N \in Nat /\ call[c].next \in Nat
  BY <1>0, <1>1, ClusterAssumption DEF SetupOK, ClientsComplete, Calls
<1>3. call[c].next \in Nodes
  BY <1>2 DEF InRange, Nodes
<1> QED BY <1>1, <1>3, CompleteLookup

\* localMeta keeps an answer that may be as old as a call can take, and gives it to
\* the caller that waits for it.
LEMMA StoreMetaSettled ==
  ASSUME RoutingInv, RoutingInv', MetaSettled, ~misdialled, NEW k \in Lookers, StoreMeta(k)
  PROVE  MetaSettled'
<1> DEFINE l == look[k]
<1>0. /\ l # None /\ l.pc = "store"
      /\ localCache' = [localCache EXCEPT ![l.node] = [age |-> 0, meta |-> l.meta]]
      /\ look' = [j \in Lookers |->
           IF j = k THEN None ELSE IF j = l.for THEN Answered(j, l.meta) ELSE look[j]]
      /\ call' = [c \in Callers |-> IF c = l.for THEN With(c, l.meta, 0) ELSE call[c]]
      /\ UNCHANGED <<setupVars, dataVars, remoteCache>>
  BY DEF StoreMeta
<1>1. DataOK /\ MetaOK /\ DataOK' /\ QuietKept /\ LookSettledAt(k) /\ LookDirect(k) /\ Linked
  BY <1>0, RestSettled, RoutingParts
<1>2. l \in Looks
  BY <1>0, LookAt
<1>3. PICK meta \in SUBSET SourceIds, node \in Nodes, age \in 0..MaxTook :
         meta = l.meta /\ node = l.node /\ age = l.age
  BY <1>2 DEF Looks, Metas
<1>4. \A s \in SourceIds : /\ s \in meta => Home[s] = node
                           /\ Home[s] = node => Settled(s, age, meta, TRUE)
  BY <1>0, <1>1, <1>3 DEF LookSettledAt
<1>5. l.for \notin Lookers
  BY <1>0, <1>1 DEF LookDirect
<1>6. \A j \in Lookers : look'[j] \in {None, look[j]}
  BY <1>0, <1>5
<1>7. \A j \in Lookers : LookSettledAt(j)' /\ LookDirect(j)'
  <2>1. \A j \in Lookers : LookStays(j)
    BY <1>6 DEF LookStays
  <2> QED BY <1>0, <2>1, RestSettled
<1>8. localCache' = [localCache EXCEPT ![node] = [age |-> 0, meta |-> meta]]
  BY <1>0, <1>3
<1>9. ASSUME NEW n \in Nodes PROVE LocalSettledAt(n)'
  <2>1. CASE n # node
    <3>1. localCache'[n] = localCache[n]
      BY <1>1, <1>8, <2>1 DEF MetaOK
    <3>2. LocalSettledAt(n)
      BY <1>0, RestSettled
    <3> QED BY <1>1, <3>1, <3>2, LocalKept
  <2>2. CASE n = node
    <3>1. localCache'[n].age = 0 /\ localCache'[n].meta = meta
      BY <1>1, <1>8, <2>2 DEF MetaOK
    <3> SUFFICES ASSUME NEW s \in SourceIds
                 PROVE  /\ s \in localCache'[n].meta => Home[s] = n
                        /\ Home[s] = n =>
                             Settled(s, MaxTook + localCache[n].age, localCache[n].meta, TRUE)'
      BY DEF LocalSettledAt
    <3>2. MaxTook \in Nat /\ age \in Nat /\ age <= MaxTook /\ MaxTook + 0 = MaxTook
      BY LagType
    <3>3. Home[s] = n => Settled(s, MaxTook, meta, TRUE)
      BY <1>1, <1>4, <2>2, <3>2, SettledLater
    <3>4. Home[s] = n => Settled(s, MaxTook, meta, TRUE)'
      BY <1>1, <3>2, <3>3, StaysSettled
    <3>5. MaxTook + localCache'[n].age = MaxTook
      BY <3>1, <3>2
    <3> QED BY <1>4, <2>2, <3>1, <3>4, <3>5 DEF Settled
  <2> QED BY <2>1, <2>2
<1>10. ASSUME NEW c \in Callers PROVE CallSettledAt(c)'
  <2>1. CASE c # l.for
    <3>1. call'[c] = call[c]
      BY <1>0, <2>1
    <3> QED BY <1>0, <3>1, RestSettled
  <2>2. CASE c = l.for
    <3>1. Serves(k, c)
      BY <1>0, <2>2 DEF Serves
    <3>2. Awaits(c, node)
      BY <1>1, <1>3, <3>1 DEF Linked
    <3>3. call[c] # None /\ InRange(CallsAt[c], call[c].next) /\ Peer(CallsAt[c], call[c].next) = node
      BY <3>2 DEF Awaits
    <3>4. node = call[c].next
      BY <3>3, NextClient
    <3>5. age \in Nat /\ age <= Lag /\ Lag \in Nat
      BY LagType DEF Lag
    <3>6. FromClient(c, meta, 0)
      <4> SUFFICES ASSUME NEW s \in SourceIds
                   PROVE  /\ s \in meta => Home[s] = call[c].next
                          /\ Home[s] = call[c].next => Settled(s, Lag, meta, 0 = 0)
        BY DEF FromClient
      <4>1. Home[s] = node => Settled(s, Lag, meta, TRUE)
        BY <1>1, <1>4, <3>5, SettledLater
      <4> QED BY <1>4, <3>4, <4>1 DEF Settled
    <3>7. call'[c] = With(c, meta, 0)
      BY <1>0, <1>3, <2>2
    <3>8. UNCHANGED <<setupVars, dataVars>>
      BY <1>0
    <3> HIDE DEF l
    <3> QED BY <3>3, <3>6, <3>7, <3>8, CollectedSettled
  <2> QED BY <2>1, <2>2
<1> QED BY <1>0, <1>7, <1>9, <1>10, RestSettled DEF MetaSettled

LEMMA AskClientSettled ==
  ASSUME RoutingInv, RoutingInv', AtHome, MetaSettled, ~misdialled, NEW c \in Callers, AskClient(c)
  PROVE  MetaSettled'
<1> DEFINE n == CallsAt[c]
           m == Peer(n, call[c].next)
<1>0. /\ call[c] # None /\ InRange(n, call[c].next)
      /\ UNCHANGED <<setupVars, dataVars, localCache, remoteCache>>
  BY DEF AskClient
<1>1. DataOK /\ MetaOK /\ \A k \in Nodes : LocalSettledAt(k)
  BY <1>0, RestSettled
<1>2. n \in Nodes /\ m \in Nodes /\ m = call[c].next
  BY <1>0, CallAt, NextClient
<1>3. ASSUME NEW meta \in SUBSET SourceIds, FromClient(c, meta, 0),
             call' = [call EXCEPT ![c] = With(c, meta, 0)], UNCHANGED look
      PROVE  MetaSettled'
  <2>1. call'[c] = With(c, meta, 0) /\ \A d \in Callers : d # c => call'[d] = call[d]
    BY <1>1, <1>3 DEF MetaOK
  <2>2. CallSettledAt(c)'
    BY <1>0, <1>3, <2>1, CollectedSettled
  <2>3. \A d \in Callers : CallSettledAt(d)'
    BY <1>0, <2>1, <2>2, RestSettled
  <2>4. \A k \in Lookers : LookStays(k)
    BY <1>3, SameLookStays
  <2> QED BY <1>0, <2>3, <2>4, RestSettled DEF MetaSettled
<1>4. CASE m = n /\ call' = [call EXCEPT ![c] = With(c, Sources(store[n]), 0)] /\ UNCHANGED look
  <2>1. Sources(store[n]) \subseteq SourceIds
    BY <1>1, <1>2, ClusterAssumption DEF DataOK, Sources, Envelopes
  <2>2. \A s \in SourceIds : s \in Sources(store[n]) <=> Home[s] = call[c].next /\ Present(s)
    BY <1>1, <1>2, <1>4, StoreSources
  <2>3. FromClient(c, Sources(store[n]), 0)
    BY <2>2 DEF FromClient, Settled
  <2> QED BY <1>3, <1>4, <2>1, <2>3
<1>5. ASSUME NEW meta \in SUBSET SourceIds, FromCache(m, meta),
             call' = [call EXCEPT ![c] = With(c, meta, 0)], UNCHANGED look
      PROVE  MetaSettled'
  <2>1. meta = localCache[m].meta /\ localCache[m] # None
    BY <1>5 DEF FromCache, Expired, ExpiredAt
  <2>2. LocalSettledAt(m) /\ localCache[m] \in LocalCaches
    BY <1>1, <1>2, <2>1 DEF MetaOK
  <2>3. PICK time \in Nat : time = MaxTook + localCache[m].age /\ time <= Lag
    BY <2>2, LagType DEF LocalCaches, Lag
  <2>4. \A s \in SourceIds : /\ s \in meta => Home[s] = m
                             /\ Home[s] = m => Settled(s, time, meta, TRUE)
    BY <2>1, <2>2, <2>3 DEF LocalSettledAt
  <2> HIDE DEF m
  <2>5. FromClient(c, meta, 0)
    <3> SUFFICES ASSUME NEW s \in SourceIds
                 PROVE  /\ s \in meta => Home[s] = call[c].next
                        /\ Home[s] = call[c].next => Settled(s, Lag, meta, 0 = 0)
      BY DEF FromClient
    <3>1. Home[s] = m => Settled(s, Lag, meta, TRUE)
      BY <1>1, <2>3, <2>4, LagType, SettledLater
    <3> QED BY <1>2, <2>4, <3>1 DEF Settled
  <2> QED BY <1>3, <1>5, <2>5
<1>6. ASSUME NEW k \in Lookers, look' = [look EXCEPT ![k] = NewLook(m, c)],
             call' = [call EXCEPT ![c].asked = TRUE]
      PROVE  MetaSettled'
  <2>1. \A j \in Lookers : look'[j] = IF j = k THEN NewLook(m, c) ELSE look[j]
    BY <1>1, <1>6 DEF MetaOK
  <2>2. NewLook(m, c).pc = "ask" /\ NewLook(m, c).for = c
    BY <1>2, NewLookType
  <2>3. LookSettledAt(k)' /\ LookDirect(k)'
    BY <2>1, <2>2, ClusterAssumption DEF LookSettledAt, LookDirect
  <2>4. \A j \in Lookers : LookSettledAt(j)' /\ LookDirect(j)'
    BY <1>0, <2>1, <2>3, RestSettled, SameLookStays
  <2>5. ASSUME NEW d \in Callers PROVE CallSettledAt(d)'
    <3>1. CASE d # c
      <4>1. call'[d] = call[d]
        BY <1>1, <1>6, <3>1 DEF MetaOK
      <4> QED BY <1>0, <4>1, RestSettled
    <3>2. CASE d = c
      <4>1. call[c] \in Calls /\ call'[c] = [call[c] EXCEPT !.asked = TRUE]
        BY <1>0, <1>1, <1>6, CallAt DEF MetaOK
      <4>2. /\ call'[c].age = call[c].age /\ call'[c].next = call[c].next
            /\ call'[c].meta = call[c].meta /\ call'[c].failed = call[c].failed
        BY <4>1 DEF Calls
      <4> QED BY <1>0, <3>2, <4>2, RestSettled, CallKept
    <3> QED BY <3>1, <3>2
  <2> QED BY <1>0, <2>4, <2>5, RestSettled DEF MetaSettled
<1> QED BY <1>3, <1>4, <1>5, <1>6 DEF AskClient

LEMMA ClientFailsSettled ==
  ASSUME RoutingInv, RoutingInv', MetaSettled, ~misdialled, NEW c \in Callers, ClientFails(c)
  PROVE  MetaSettled'
<1>0. /\ call[c] # None /\ InRange(CallsAt[c], call[c].next)
      /\ call' = [call EXCEPT ![c] = With(c, {}, 1)]
      /\ look' = [k \in Lookers |-> NoLongerFor(c, look[k])]
      /\ UNCHANGED <<setupVars, dataVars, localCache, remoteCache>>
  BY DEF ClientFails
<1>1. call'[c] = With(c, {}, 1) /\ \A d \in Callers : d # c => call'[d] = call[d]
  BY <1>0, RestSettled DEF MetaOK
<1>2. FromClient(c, {}, 1)
  BY DEF FromClient, Settled
<1>3. CallSettledAt(c)'
  BY <1>0, <1>1, <1>2, CollectedSettled
<1>4. \A d \in Callers : CallSettledAt(d)'
  BY <1>0, <1>1, <1>3, RestSettled
<1>5. ASSUME NEW k \in Lookers PROVE LookStays(k)
  <2>1. look'[k] = NoLongerFor(c, look[k])
    BY <1>0
  <2> QED BY <2>1, Released DEF LookStays
<1> QED BY <1>0, <1>4, <1>5, RestSettled DEF MetaSettled

\* Every client was asked: the answer covers every home.
LEMMA AnswerMetaSettled ==
  ASSUME RoutingInv, RoutingInv', MetaSettled, ~misdialled, NEW c \in Callers, AnswerMeta(c)
  PROVE  MetaSettled'
<1> DEFINE n == CallsAt[c]
           result == [age |-> 0, took |-> call[c].age, meta |-> call[c].meta,
                      complete |-> call[c].failed = 0]
<1>0. SetupOK /\ DataOK /\ MetaOK /\ DataOK'
  BY RoutingParts, RoutingParts_
<1>1. /\ call[c] # None /\ ~InRange(n, call[c].next)
      /\ call' = [call EXCEPT ![c] = None]
      /\ remoteCache' \in {remoteCache, [remoteCache EXCEPT ![n] = result]}
      /\ UNCHANGED <<setupVars, dataVars, localCache, look>>
  BY DEF AnswerMeta
<1>2. call[c] \in Calls /\ n \in Nodes
  BY <1>1, CallAt
<1>3. /\ \A k \in Nodes : RemoteSettledAt(k)
      /\ CallSettledAt(c) /\ QuietKept /\ UNCHANGED <<store, quiet>>
  BY <1>1, RestSettled DEF dataVars
<1>5. \A d \in Callers : CallSettledAt(d)'
  <2>1. \A d \in Callers : call'[d] \in {None, call[d]}
    BY <1>0, <1>1 DEF MetaOK
  <2>2. \A d \in Callers : CallSettledAt(d)
    BY <1>1, RestSettled
  <2> QED BY <1>0, <1>3, <2>1, <2>2, CallKept
<1>6. ASSUME NEW k \in Nodes PROVE RemoteSettledAt(k)'
  <2>1. CASE remoteCache'[k] = remoteCache[k]
    BY <2>1, <1>0, <1>3, RemoteKept
  <2>2. CASE remoteCache'[k] = result
    <3> SUFFICES ASSUME NEW s \in SourceIds
                 PROVE  Settled(s, Lag + remoteCache[k].took + remoteCache[k].age,
                                remoteCache[k].meta, remoteCache[k].complete)'
      BY DEF RemoteSettledAt
    <3>1. Home[s] < call[c].next
      <4>1. Len(clients[n]) = N /\ N \in Nat /\ call[c].next \in Nat
        BY <1>0, <1>2, ClusterAssumption DEF SetupOK, ClientsComplete, Calls
      <4>2. Home[s] \in 0..(N - 1)
        BY ClusterAssumption DEF Nodes
      <4> QED BY <4>1, <4>2, <1>1 DEF InRange
    <3>2. Settled(s, Lag + call[c].age, call[c].meta, call[c].failed = 0)
      BY <3>1, <1>1, <1>3 DEF CallSettledAt
    <3>3. /\ remoteCache'[k].took = call[c].age /\ remoteCache'[k].age = 0
          /\ remoteCache'[k].meta = call[c].meta
      BY <2>2
    <3>6. remoteCache'[k].complete = (call[c].failed = 0)
      <4> DEFINE whole == call[c].failed = 0
      <4>1. remoteCache'[k] = [age |-> 0, took |-> call[c].age, meta |-> call[c].meta,
                               complete |-> whole]
        BY <2>2
      <4> HIDE DEF whole
      <4>2. remoteCache'[k].complete = whole
        BY <4>1
      <4> QED BY <4>2 DEF whole
    <3>4. Lag + call[c].age + 0 = Lag + call[c].age
      BY <1>2, LagType DEF Calls
    <3>5. quiet'[s] = quiet[s] /\ (Present(s)' <=> Present(s))
      BY <1>3 DEF Present
    <3> HIDE DEF result
    <3> QED BY <3>2, <3>3, <3>4, <3>5, <3>6 DEF Settled
  <2> QED BY <2>1, <2>2, <1>0, <1>1 DEF MetaOK
<1>7. \A k \in Lookers : LookStays(k)
  BY <1>1, SameLookStays
<1> QED BY <1>1, <1>5, <1>6, <1>7, RestSettled DEF MetaSettled

LEMMA RemoteMetaSettled ==
  ASSUME RoutingInv, RoutingInv', MetaSettled, ~misdialled, NEW c \in Callers, RemoteMeta(c)
  PROVE  MetaSettled'
<1> DEFINE r == [age |-> 0, next |-> 0, asked |-> FALSE, meta |-> {}, failed |-> 0]
<1>1. /\ call' = [call EXCEPT ![c] = r]
      /\ UNCHANGED <<setupVars, dataVars, localCache, remoteCache, look>>
  BY DEF RemoteMeta
<1>2. r.meta = {} /\ r.next = 0
  OBVIOUS
<1> HIDE DEF r
<1>3. \A d \in Callers : call'[d] = IF d = c THEN r ELSE call[d]
  BY <1>1, RestSettled DEF MetaOK
<1>4. CallSettledAt(c)'
  <2>1. \A s \in SourceIds : Home[s] \in Nat
    BY ClusterAssumption DEF Nodes
  <2>2. call'[c].meta = {} /\ call'[c].next = 0
    BY <1>2, <1>3
  <2>3. \A s \in SourceIds : s \notin call'[c].meta /\ ~(Home[s] < call'[c].next)
    BY <2>1, <2>2
  <2> QED BY <2>3 DEF CallSettledAt
<1>5. \A d \in Callers : CallSettledAt(d)'
  BY <1>1, <1>3, <1>4, RestSettled
<1>6. \A k \in Lookers : LookStays(k)
  BY <1>1, SameLookStays
<1> QED BY <1>1, <1>5, <1>6, RestSettled DEF MetaSettled

\* Time passes for the caches, the calls and the sources alike.  The cap on how
\* long a source has been quiet lies above every age that is compared with it.
LEMMA TickSettled ==
  ASSUME RoutingInv, MetaSettled, Tick
  PROVE  MetaSettled'
<1>0. DataOK /\ MetaOK
  BY RoutingParts
<1>1. UNCHANGED <<store, misdialled>>
  BY DEF Tick, setupVars
<1> SUFFICES ASSUME ~misdialled'
             PROVE  /\ \A k \in Nodes : LocalSettledAt(k)' /\ RemoteSettledAt(k)'
                    /\ \A d \in Callers : CallSettledAt(d)'
                    /\ \A k \in Lookers : LookSettledAt(k)' /\ LookDirect(k)'
  BY DEF MetaSettled
<1>2. /\ \A k \in Nodes : LocalSettledAt(k) /\ RemoteSettledAt(k)
      /\ \A d \in Callers : CallSettledAt(d)
      /\ \A k \in Lookers : LookSettledAt(k) /\ LookDirect(k)
  BY <1>1 DEF MetaSettled
<1>3. ASSUME NEW s \in SourceIds, NEW time \in Nat, time <= Lag + MaxTook + CacheDuration,
             NEW meta, NEW complete, Settled(s, time, meta, complete)
      PROVE  Settled(s, time + 1, meta, complete)'
  <2>1. quiet[s] \in 0..LongAgo /\ quiet'[s] = IF quiet[s] = LongAgo THEN LongAgo ELSE quiet[s] + 1
    BY <1>0 DEF DataOK, Tick
  <2>2. PICK c \in Nat, t \in Nat : c = CacheDuration /\ t = MaxTook /\ Lag = c + t
    BY LagType DEF Lag
  <2>3. time <= 2 * c + 2 * t /\ LongAgo \in Nat /\ LongAgo > 2 * c + 2 * t
    BY <1>3, <2>2, LongAgoType
  <2>4. quiet'[s] > time + 1 => quiet[s] > time
    BY <2>1, <2>3
  <2>5. Present(s)' <=> Present(s)
    BY <1>1 DEF Present
  <2> QED BY <1>3, <2>4, <2>5 DEF Settled
<1>5. ASSUME NEW k \in Nodes PROVE LocalSettledAt(k)'
  <2> SUFFICES ASSUME localCache'[k] # None, NEW s \in SourceIds
               PROVE  /\ s \in localCache'[k].meta => Home[s] = k
                      /\ Home[s] = k =>
                           Settled(s, MaxTook + localCache[k].age, localCache[k].meta, TRUE)'
    BY DEF LocalSettledAt
  <2>1. localCache'[k] = Kept(localCache[k]) /\ localCache[k] \in LocalCaches \cup {None}
    BY <1>0 DEF Tick, MetaOK
  <2>2. /\ localCache[k] # None /\ localCache'[k].age = localCache[k].age + 1
        /\ localCache'[k].meta = localCache[k].meta
    BY <2>1, KeptLocal
  <2>3. PICK time \in Nat, meta \in {localCache[k].meta} :
           /\ time = MaxTook + localCache[k].age /\ time + 1 = MaxTook + localCache'[k].age
           /\ time <= Lag + MaxTook + CacheDuration /\ meta = localCache[k].meta
    <3>1. PICK age \in 0..CacheDuration : age = localCache[k].age
      BY <2>1, <2>2 DEF LocalCaches
    <3>2. /\ MaxTook + age \in Nat /\ (MaxTook + age) + 1 = MaxTook + (age + 1)
          /\ MaxTook + age <= Lag + MaxTook + CacheDuration
      BY LagType
    <3> QED BY <2>2, <3>1, <3>2
  <2>4. /\ s \in meta => Home[s] = k
        /\ Home[s] = k => Settled(s, time, meta, TRUE)
    BY <1>2, <2>2, <2>3 DEF LocalSettledAt
  <2>5. Home[s] = k => Settled(s, time + 1, meta, TRUE)'
    BY <1>3, <2>3, <2>4
  <2> QED BY <2>2, <2>3, <2>4, <2>5 DEF Settled
<1>6. ASSUME NEW k \in Nodes PROVE RemoteSettledAt(k)'
  <2> SUFFICES ASSUME remoteCache'[k] # None, NEW s \in SourceIds
               PROVE  Settled(s, Lag + remoteCache[k].took + remoteCache[k].age,
                              remoteCache[k].meta, remoteCache[k].complete)'
    BY DEF RemoteSettledAt
  <2>1. remoteCache'[k] = Kept(remoteCache[k]) /\ remoteCache[k] \in RemoteCaches \cup {None}
    BY <1>0 DEF Tick, MetaOK
  <2>2. /\ remoteCache[k] # None /\ remoteCache'[k].age = remoteCache[k].age + 1
        /\ remoteCache'[k].meta = remoteCache[k].meta /\ remoteCache'[k].took = remoteCache[k].took
        /\ remoteCache'[k].complete = remoteCache[k].complete
    BY <2>1, KeptRemote
  <2>3. PICK time \in Nat, meta \in {remoteCache[k].meta}, complete \in {remoteCache[k].complete} :
           /\ time = Lag + remoteCache[k].took + remoteCache[k].age
           /\ time + 1 = Lag + remoteCache'[k].took + remoteCache'[k].age
           /\ time <= Lag + MaxTook + CacheDuration
           /\ meta = remoteCache[k].meta /\ complete = remoteCache[k].complete
    <3>1. remoteCache[k].took \in 0..MaxTook /\ remoteCache[k].age \in 0..CacheDuration
      BY <2>1, <2>2 DEF RemoteCaches
    <3>2. PICK took \in Nat, age \in Nat :
             /\ took = remoteCache[k].took /\ age = remoteCache[k].age
             /\ took <= MaxTook /\ age <= CacheDuration
      BY <3>1
    <3>3. /\ Lag + took + age \in Nat /\ (Lag + took + age) + 1 = Lag + took + (age + 1)
          /\ Lag + took + age <= Lag + MaxTook + CacheDuration
      BY <3>2, LagType
    <3> QED BY <2>2, <3>2, <3>3
  <2>4. Settled(s, time, meta, complete)
    BY <1>2, <2>2, <2>3 DEF RemoteSettledAt
  <2>5. Settled(s, time + 1, meta, complete)'
    BY <1>3, <2>3, <2>4
  <2> QED BY <2>2, <2>3, <2>5 DEF Settled
<1>7. ASSUME NEW c \in Callers PROVE CallSettledAt(c)'
  <2> SUFFICES ASSUME call'[c] # None, NEW s \in SourceIds
               PROVE  /\ s \in call'[c].meta => Home[s] < call'[c].next
                      /\ Home[s] < call'[c].next =>
                           Settled(s, Lag + call[c].age, call[c].meta, call[c].failed = 0)'
    BY DEF CallSettledAt
  <2>1. call[c] # None /\ call[c] \in Calls
    BY OlderCall, CallAt
  <2>2. /\ call'[c].age = call[c].age + 1 /\ call'[c].meta = call[c].meta
        /\ call'[c].next = call[c].next /\ call'[c].failed = call[c].failed
    BY <2>1, OlderCall
  <2>3. PICK time \in Nat, meta \in {call[c].meta} :
           /\ time = Lag + call[c].age /\ time + 1 = Lag + call'[c].age
           /\ time <= Lag + MaxTook + CacheDuration /\ meta = call[c].meta
    <3>1. PICK age \in 0..MaxTook : age = call[c].age
      BY <2>1 DEF Calls
    <3>2. /\ Lag + age \in Nat /\ (Lag + age) + 1 = Lag + (age + 1)
          /\ Lag + age <= Lag + MaxTook + CacheDuration
      BY LagType
    <3> QED BY <2>2, <3>1, <3>2
  <2>4. /\ s \in meta => Home[s] < call[c].next
        /\ Home[s] < call[c].next => Settled(s, time, meta, call[c].failed = 0)
    BY <1>2, <2>1, <2>3 DEF CallSettledAt
  <2>5. PICK failed : failed = call[c].failed
    OBVIOUS
  <2>6. Home[s] < call[c].next => Settled(s, time, meta, failed = 0)
    BY <2>4, <2>5
  <2>7. Home[s] < call[c].next => Settled(s, time + 1, meta, failed = 0)'
    BY <1>3, <2>3, <2>6
  <2> QED BY <2>2, <2>3, <2>4, <2>5, <2>7 DEF Settled
<1>8. ASSUME NEW k \in Lookers PROVE LookSettledAt(k)' /\ LookDirect(k)'
  <2>1. LookDirect(k)'
    BY <1>2, OlderLook DEF LookDirect
  <2> SUFFICES ASSUME look'[k] # None, look'[k].pc = "store", NEW s \in SourceIds
               PROVE  /\ s \in look'[k].meta => Home[s] = look'[k].node
                      /\ Home[s] = look'[k].node => Settled(s, look[k].age, look[k].meta, TRUE)'
    BY <2>1 DEF LookSettledAt
  <2>2. /\ look[k] # None /\ look[k].pc = "store" /\ look'[k].age = look[k].age + 1
        /\ look'[k].meta = look[k].meta /\ look'[k].node = look[k].node /\ look[k].age < MaxTook
    BY OlderLook
  <2>3. look[k].age \in Nat
    BY <2>2, LookAt DEF Looks
  <2>4. PICK time \in Nat, meta \in {look[k].meta} :
           /\ time = look[k].age /\ time + 1 = look'[k].age
           /\ time <= Lag + MaxTook + CacheDuration /\ meta = look[k].meta
    <3>1. PICK age \in Nat : age = look[k].age /\ age < MaxTook
      BY <2>2, <2>3
    <3>2. age <= Lag + MaxTook + CacheDuration
      BY <3>1, LagType
    <3> QED BY <2>2, <3>1, <3>2
  <2>5. /\ s \in meta => Home[s] = look[k].node
        /\ Home[s] = look[k].node => Settled(s, time, meta, TRUE)
    BY <1>2, <2>2, <2>4 DEF LookSettledAt
  <2>6. Home[s] = look[k].node => Settled(s, time + 1, meta, TRUE)'
    BY <1>3, <2>4, <2>5
  <2> QED BY <2>2, <2>4, <2>5, <2>6 DEF Settled
<1> QED BY <1>5, <1>6, <1>7, <1>8

\* A client that is missing is not created later.
LEMMA MisdialledStays ==
  ASSUME misdialled, [Next]_vars
  PROVE  misdialled'
<1>1. CASE UNCHANGED setupVars
  BY <1>1 DEF setupVars
<1>2. CASE \E n, handedOver : Crash(n, handedOver)
  BY <1>2 DEF Crash
<1>3. CASE \E n \in Nodes : Start(n)
  BY <1>3 DEF Start
<1>4. CASE UNCHANGED vars
  BY <1>4 DEF vars
<1>5. ASSUME NEW n \in Nodes, NEW batch, Send(n, batch) PROVE misdialled'
  BY <1>1, <1>2, <1>5 DEF Send
<1>6. ASSUME NEW n \in Nodes, NEW m \in Nodes, Forward(n, m) PROVE misdialled'
  BY <1>1, <1>2, <1>6 DEF Forward, Arrive, Lose
<1>7. ASSUME NEW k \in Lookers, AskLocal(k) \/ LookFails(k) \/ StoreMeta(k) PROVE misdialled'
  BY <1>1, <1>2, <1>7 DEF AskLocal, LookFails, StoreMeta
<1>8. ASSUME NEW c \in Callers, RemoteMeta(c) \/ AskClient(c) \/ ClientFails(c) \/ AnswerMeta(c)
      PROVE  misdialled'
  BY <1>1, <1>8 DEF RemoteMeta, AskClient, ClientFails, AnswerMeta
<1>9. ASSUME NEW n \in Nodes, Stop(n) \/ Evict(n) PROVE misdialled'
  BY <1>1, <1>2, <1>9 DEF Stop, Evict
<1>10. ASSUME NEW n \in LocalCallsAt, LocalMeta(n) PROVE misdialled'
  BY <1>1, <1>10 DEF LocalMeta
<1>11. CASE Tick
  BY <1>1, <1>11 DEF Tick
<1> QED BY <1>3, <1>4, <1>5, <1>6, <1>7, <1>8, <1>9, <1>10, <1>11 DEF Next

LEMMA SettledStep == RoutingInv /\ RoutingInv' /\ AtHome /\ MetaSettled /\ [Next]_vars => MetaSettled'
<1> SUFFICES ASSUME RoutingInv, RoutingInv', AtHome, MetaSettled, [Next]_vars PROVE MetaSettled'
  OBVIOUS
<1>0. SetupOK /\ DataOK /\ MetaOK /\ DataOK'
  BY RoutingParts, RoutingParts_
<1>1. ASSUME NEW n \in Nodes, NEW handedOver, Crash(n, handedOver) PROVE MetaSettled'
  <2>1. QuietKept
    BY <1>0, <1>1, TrackedQuiet DEF Crash
  <2>2. /\ \A k \in Nodes : /\ localCache'[k] \in {None, localCache[k]}
                            /\ remoteCache'[k] \in {None, remoteCache[k]}
        /\ \A d \in Callers : call'[d] \in {None, call[d]}
        /\ misdialled => misdialled'
    BY <1>0, <1>1 DEF Crash, MetaOK
  <2>3. ASSUME NEW k \in Lookers PROVE LookStays(k)
    <3>1. look[k] \in Looks \cup {None}
      BY <1>0 DEF MetaOK
    <3>2. \/ look'[k] = None
          \/ look[k] # None /\ look'[k] \in {look[k], [look[k] EXCEPT !.for = None]}
      BY <1>1 DEF Crash
    <3> QED BY <3>1, <3>2 DEF LookStays, Looks
  <2> QED BY <1>0, <2>1, <2>2, <2>3, SettledKept
<1>2. ASSUME UNCHANGED metaVars, misdialled => misdialled',
             TrackChanges \/ UNCHANGED <<store, quiet>>
      PROVE  MetaSettled'
  BY <1>0, <1>2, TrackedQuiet, SettledKept, SameLookStays DEF metaVars
<1>3. ASSUME NEW n \in Nodes, Evict(n) PROVE MetaSettled'
  BY <1>2, <1>3 DEF Evict, setupVars
<1>4. ASSUME NEW n \in LocalCallsAt, LocalMeta(n), ~misdialled PROVE MetaSettled'
  <2>1. n \in Nodes
    BY ClusterAssumption
  <2> QED BY <1>4, <2>1, LocalMetaSettled
<1>5. ASSUME NEW k \in Lookers, AskLocal(k) \/ LookFails(k) \/ StoreMeta(k), ~misdialled
      PROVE  MetaSettled'
  <2>1. CASE LookFails(k)
    <3>1. look[k] # None /\ Peer(look[k].node, LocalIdx(look[k].node)) # look[k].node
      BY <2>1 DEF LookFails
    <3>2. look[k].node \in Nodes
      BY <3>1, LookAt
    <3> QED BY <1>5, <3>1, <3>2, CompleteLookup DEF LocalIdx
  <2> QED BY <1>5, <2>1, AskLocalSettled, StoreMetaSettled
<1>6. ASSUME NEW n \in Nodes, NEW batch \in SUBSET (Envelopes \ sent), Send(n, batch)
      PROVE  MetaSettled'
  <2>1. CASE ~ \A e \in batch : InRange(n, Lookup(SourceOf[e]))
    BY <2>1, <1>1, <1>6 DEF Send
  <2>2. CASE \A e \in batch : InRange(n, Lookup(SourceOf[e]))
    BY <2>2, <1>2, <1>6 DEF Send, setupVars
  <2> QED BY <2>1, <2>2
<1>7. ASSUME NEW n \in Nodes, NEW m \in Nodes, Forward(n, m) PROVE MetaSettled'
  <2>1. PICK batch \in SUBSET transit[<<n, m>>] : Arrive(m, batch) \/ Lose(n, m, batch)
    BY <1>7 DEF Forward
  <2>2. CASE Lose(n, m, batch)
    BY <2>2, <1>2 DEF Lose, setupVars
  <2>3. CASE Arrive(m, batch) /\ ~InRange(m, LocalIdx(m))
    BY <2>3, <1>1 DEF Arrive
  <2>4. CASE Arrive(m, batch) /\ InRange(m, LocalIdx(m))
    BY <2>4, <1>2 DEF Arrive, setupVars
  <2> QED BY <2>1, <2>2, <2>3, <2>4
<1>8. ASSUME NEW n \in Nodes, Stop(n) PROVE MetaSettled'
  BY <1>1, <1>8 DEF Stop
<1>9. ASSUME NEW n \in Nodes, Start(n) PROVE MetaSettled'
  <2>1. misdialled => misdialled'
    BY <1>9 DEF Start
  <2> QED BY <2>1, <1>2, <1>9 DEF Start, dataVars
<1>10. ASSUME NEW c \in Callers, RemoteMeta(c) \/ AskClient(c) \/ ClientFails(c) \/ AnswerMeta(c),
              ~misdialled
       PROVE  MetaSettled'
  BY <1>10, RemoteMetaSettled, AskClientSettled, ClientFailsSettled, AnswerMetaSettled
<1>11. CASE Tick
  BY <1>11, TickSettled
<1>12. CASE UNCHANGED vars
  BY <1>12, <1>2 DEF vars, metaVars
<1>13. CASE ~misdialled
  BY <1>3, <1>4, <1>5, <1>6, <1>7, <1>8, <1>9, <1>10, <1>11, <1>12, <1>13 DEF Next
<1>14. CASE misdialled
  <2>1. misdialled'
    BY <1>14, MisdialledStays
  <2> QED BY <2>1 DEF MetaSettled
<1> QED BY <1>13, <1>14

\* A Meta answer, kept in two caches and collected over several calls, is right
\* about every source that has not changed for longer than both caches last, the
\* collecting took and a localMeta may take, however slow calls of localMeta that
\* overlap overwrite the cache with what they read earlier
\* (EgressReverseProxy.localMeta, remoteMeta, metaCache).
THEOREM MetaIsBoundedStale == Spec => []MetaCatchesUp
<1>1. Init => AtHome /\ MetaSettled
  BY DEF Init, AtHome, MetaSettled, LocalSettledAt, RemoteSettledAt, CallSettledAt, LookSettledAt,
         LookDirect
<1>2. RoutingInv /\ MetaSettled => MetaCatchesUp
  <2> SUFFICES ASSUME RoutingInv, MetaSettled, ~misdialled, NEW n \in up, ~Expired(remoteCache[n]),
                      NEW s \in SourceIds,
                      quiet[s] > Lag + remoteCache[n].took + remoteCache[n].age
               PROVE  /\ s \in remoteCache[n].meta => Present(s)
                      /\ Present(s) /\ remoteCache[n].complete => s \in remoteCache[n].meta
    BY DEF MetaCatchesUp, Lag
  <2>1. n \in Nodes /\ remoteCache[n] # None
    BY DEF RoutingInv, TypeOK, Expired, ExpiredAt
  <2> QED BY <2>1 DEF MetaSettled, RemoteSettledAt, Settled
<1> QED BY RoutingInit, RoutingStep, AtHomeStep, SettledStep, <1>1, <1>2, PTL DEF Spec
=============================================================================
