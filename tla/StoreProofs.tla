----------------------------- MODULE StoreProofs -----------------------------
(***************************************************************************)
(* Proofs about Store, for every value of its constants: its types, that it  *)
(* implements EnvelopeStore, what it counts and the bounds on its trees, and *)
(* what its truncation can rely on and removes first.                        *)
(***************************************************************************)
EXTENDS Store, FiniteSetTheorems, TLAPS

-----------------------------------------------------------------------------
(* Type correctness. *)

\* Storages are allocated by Puts, one each at most, and a Put that is under way
\* holds a storage.
Allocation ==
  /\ created <= ingress
  /\ \A w \in Writers : writer[w].pc # "idle" => writer[w].tree \in Storages

TypeInv == TypeOK /\ Allocation

\* GetQuantityToPrune returns an integer for every memory reading and count.
LEMMA QuantityIsInteger ==
  ASSUME NEW m \in Memories, NEW n \in Int, NEW q \in QuantityToPrune(m, n)
  PROVE  q \in Int
<1>1. m.heap \in Nat /\ m.total \in Nat /\ PercentToFill \in Nat
  BY StoreAssumption
<1>2. CASE m.total = 0
  BY <1>2 DEF QuantityToPrune
<1>3. CASE m.total # 0 /\ m.heap * 100 > PercentToFill * m.total
  <2> DEFINE p == PercentToFill * m.total
             h == m.heap * 100
  <2>1. p \in Nat /\ h \in Nat /\ h > p
    BY <1>1, <1>3
  <2> HIDE DEF p, h
  <2>2. (n * (h - p)) \in Int /\ h > 0 /\ h \in Int
    BY <2>1
  <2> DEFINE d == n * (h - p)
  <2> HIDE DEF d
  <2>3. d \div h \in Int
    BY <2>2 DEF d
  <2>4. q = d \div h
    BY <1>3 DEF QuantityToPrune, d, h, p
  <2> QED BY <2>3, <2>4
<1>4. CASE m.total # 0 /\ ~(m.heap * 100 > PercentToFill * m.total)
  BY <1>4 DEF QuantityToPrune
<1> QED BY <1>1, <1>2, <1>3, <1>4

LEMMA TypeInit == Init => TypeInv
<1> SUFFICES ASSUME Init PROVE TypeInv
  OBVIOUS
<1> USE StoreAssumption DEF Init, Storages, NoStorage, MetaInfos, Nodes
<1>1. /\ storageIndex \in [Sources -> Storages \cup {NoStorage}]
      /\ tree \in [Storages -> SUBSET Nodes]
      /\ meta \in [Storages -> MetaInfos]
  OBVIOUS
<1>2. /\ created \in Nat /\ count \in Int /\ oldestTimestamp \in Int
      /\ consecutiveTruncation \in 0..(PrunesPerGC - 1)
      /\ ingress \in 0..MaxPuts /\ expired \in Nat /\ overwritten \in Nat
      /\ created <= ingress
  OBVIOUS
<1>3. writer \in [Writers -> WriterStates]
  BY DEF WriterStates, IdleWriter
<1>4. truncator \in TruncatorStates
  BY DEF IdleTruncator, TruncatorStates
<1>5. reader \in [MetaReaders -> ReaderStates]
  BY DEF IdleReader, ReaderStates
<1>6. panicked \in Panics /\ disturbed \in BOOLEAN
  BY DEF Panics
<1>7. \A w \in Writers : writer[w].pc # "idle" => writer[w].tree \in Storages
  BY DEF IdleWriter
<1> QED
  BY <1>1, <1>2, <1>3, <1>4, <1>5, <1>6, <1>7 DEF TypeInv, TypeOK, Allocation

\* How the records of the goroutines are updated.
LEMMA RemovingType ==
  ASSUME NEW heap \in SUBSET HeapEntries, NEW n \in Int
  PROVE  Removing(heap, n) \in TruncatorStates
  BY DEF Removing, TruncatorStates

LEMMA IdleWriterType == IdleWriter \in WriterStates /\ IdleWriter.pc = "idle"
  BY DEF WriterStates, IdleWriter

LEMMA ReadingType ==
  ASSUME reader \in [MetaReaders -> ReaderStates], NEW r \in MetaReaders,
         NEW pc \in {"idle", "range", "load"}, NEW todo \in SUBSET Sources,
         NEW report \in SUBSET Sources
  PROVE  Reading(r, pc, todo, report) \in [MetaReaders -> ReaderStates]
  BY DEF Reading, ReaderStates

\* One step of any goroutine keeps the types.
\* A Put that loads oldestTimestamp goes on to replace it, or returns.
LEMMA LoadMoves ==
  ASSUME writer \in [Writers -> WriterStates], NEW w \in Writers, LoadOldest(w)
  PROVE  \E state \in WriterStates :
           /\ writer' = [writer EXCEPT ![w] = state]
           /\ state.pc \in {"publish", "idle"} /\ writer[w].pc = "inserted"
           /\ state.pc = "publish" => state.tree = writer[w].tree
           /\ state.pc = "idle" => state.tree = NoStorage
<1>1. writer[w].pc = "inserted"
  BY DEF LoadOldest
<1>2. CASE writer[w].oldest < oldestTimestamp
  <2>1. PICK state : state = [writer[w] EXCEPT !.pc = "publish"]
    OBVIOUS
  <2>2. state \in WriterStates /\ state.pc = "publish" /\ state.tree = writer[w].tree
    BY <2>1 DEF WriterStates
  <2>3. writer' = [writer EXCEPT ![w] = state]
    BY <1>2, <2>1 DEF LoadOldest
  <2> QED BY <1>1, <2>2, <2>3
<1>3. CASE ~(writer[w].oldest < oldestTimestamp)
  <2>1. writer' = [writer EXCEPT ![w] = IdleWriter]
    BY <1>3 DEF LoadOldest
  <2>2. IdleWriter \in WriterStates /\ IdleWriter.pc = "idle" /\ IdleWriter.tree = NoStorage
    BY IdleWriterType DEF IdleWriter
  <2> QED BY <1>1, <2>1, <2>2
<1> QED BY <1>2, <1>3

LEMMA TypeStep == TypeInv /\ [Next]_vars => TypeInv'
<1> SUFFICES ASSUME TypeInv, [Next]_vars PROVE TypeInv'
  OBVIOUS
<1>a. /\ storageIndex \in [Sources -> Storages \cup {NoStorage}]
      /\ tree \in [Storages -> SUBSET Nodes]
      /\ meta \in [Storages -> MetaInfos]
  BY DEF TypeInv, TypeOK
<1>b. /\ created \in Nat /\ count \in Int /\ oldestTimestamp \in Int /\ expired \in Nat
      /\ consecutiveTruncation \in 0..(PrunesPerGC - 1) /\ ingress \in 0..MaxPuts
      /\ overwritten \in Nat /\ created <= ingress
  BY DEF TypeInv, TypeOK, Allocation
<1>c. /\ writer \in [Writers -> WriterStates]
      /\ \A v \in Writers : writer[v].pc # "idle" => writer[v].tree \in Storages
  BY DEF TypeInv, TypeOK, Allocation
<1>d. truncator \in TruncatorStates /\ truncator.heap \subseteq HeapEntries
      /\ truncator.remaining \in Int
  BY DEF TypeInv, TypeOK, TruncatorStates
<1>e. reader \in [MetaReaders -> ReaderStates] /\ panicked \in Panics /\ disturbed \in BOOLEAN
  BY DEF TypeInv, TypeOK
<1>1. ASSUME NEW w \in Writers, NEW s \in Sources, NEW ts \in Timestamps, PutLocate(w, s, ts)
      PROVE  TypeInv'
  <2>1. ingress' \in 0..MaxPuts /\ created' \in Nat /\ created' <= ingress'
    BY <1>1, <1>b, StoreAssumption DEF PutLocate
  <2>2. /\ storageIndex' \in [Sources -> Storages \cup {NoStorage}]
        /\ storageIndex'[s] \in Storages
    <3>1. CASE Indexed(s)
      BY <1>1, <1>a, <3>1 DEF PutLocate, Indexed
    <3>2. CASE ~Indexed(s)
      <4>1. created + 1 \in Storages
        BY <1>1, <1>b, StoreAssumption DEF PutLocate, Storages
      <4> QED BY <1>1, <1>a, <3>2, <4>1 DEF PutLocate
    <3> QED BY <3>1, <3>2
  <2> DEFINE new == [pc |-> "located", tree |-> storageIndex'[s], timestamp |-> ts, oldest |-> 0]
  <2>3. new \in WriterStates /\ new.tree \in Storages
    BY <2>2, StoreAssumption DEF WriterStates
  <2>4. writer' = [writer EXCEPT ![w] = new]
    BY <1>1 DEF PutLocate
  <2> HIDE DEF new
  <2>5. /\ writer' \in [Writers -> WriterStates]
        /\ \A v \in Writers : writer'[v].pc # "idle" => writer'[v].tree \in Storages
    BY <1>c, <2>3, <2>4
  <2> QED
    BY <1>1, <1>a, <1>b, <1>d, <1>e, <2>1, <2>2, <2>5
       DEF PutLocate, historyVars, TypeInv, TypeOK, Allocation
<1>2. ASSUME NEW w \in Writers, InsertOrSwap(w)
      PROVE  TypeInv'
  <2> DEFINE t == writer[w].tree
             ts == writer[w].timestamp
  <2>1. t \in Storages /\ ts \in Int /\ tree[t] \in SUBSET Nodes
    BY <1>2, <1>a, <1>c DEF InsertOrSwap, WriterStates
  <2>2. PICK room \in RoomIn(tree[t]) : \E key \in FudgedKey(room, ts) : InsertUnder(w, room, key)
    BY <1>2 DEF InsertOrSwap
  <2>3. PICK key \in FudgedKey(room, ts) : InsertUnder(w, room, key)
    BY <2>2
  <2> DEFINE nodes == TreePut(room, [key |-> key, timestamp |-> ts])
  <2>4. room \subseteq tree[t] /\ key \in Int
    BY <2>1, StoreAssumption DEF RoomIn, FudgedKey
  <2>5. nodes \in SUBSET Nodes
    BY <2>1, <2>4 DEF TreePut, Nodes
  <2>6. PICK oldest \in Left(nodes) :
          /\ meta' = [meta EXCEPT ![t] = MetaAfterInsert(@, Evictions(t), ts, oldest.key)]
          /\ writer' = [writer EXCEPT ![w] =
               [pc |-> "inserted", tree |-> t, timestamp |-> ts, oldest |-> oldest.key]]
    BY <2>3 DEF InsertUnder
  <2>7. oldest.key \in Int
    BY <2>5 DEF Left, Nodes
  <2>8. tree' \in [Storages -> SUBSET Nodes]
    BY <1>a, <2>1, <2>3, <2>5 DEF InsertUnder
  <2> HIDE DEF nodes
  <2>9. meta' \in [Storages -> MetaInfos]
    <3>1. Evictions(t) \in Nat /\ meta[t] \in MetaInfos
      BY <1>a, <2>1 DEF Evictions
    <3>2. MetaAfterInsert(meta[t], Evictions(t), ts, oldest.key) \in MetaInfos
      BY <2>1, <2>7, <3>1 DEF MetaAfterInsert, MetaInfos, Larger
    <3> QED BY <1>a, <2>1, <2>6, <3>2
  <2>10. /\ writer' \in [Writers -> WriterStates]
         /\ \A v \in Writers : writer'[v].pc # "idle" => writer'[v].tree \in Storages
    <3> DEFINE new == [pc |-> "inserted", tree |-> t, timestamp |-> ts, oldest |-> oldest.key]
    <3>1. writer' = [writer EXCEPT ![w] = new]
      BY <2>6
    <3>2. new \in WriterStates /\ new.tree \in Storages
      BY <2>1, <2>7 DEF WriterStates
    <3> HIDE DEF new
    <3> QED BY <1>c, <3>1, <3>2
  <2>11. count' \in Int /\ expired' \in Nat /\ overwritten' \in Nat /\ disturbed' \in BOOLEAN
    BY <1>2, <1>b, <2>3 DEF InsertOrSwap, InsertUnder, CountOfInsert, Evictions
  <2> QED
    BY <1>2, <1>a, <1>b, <1>d, <1>e, <2>8, <2>9, <2>10, <2>11
       DEF InsertOrSwap, TypeInv, TypeOK, Allocation
<1>3. ASSUME NEW w \in Writers, PublishOldest(w)
      PROVE  TypeInv'
  <2>1. oldestTimestamp' \in Int /\ disturbed' \in BOOLEAN
    BY <1>3, <1>c DEF PublishOldest, WriterStates
  <2>2. /\ writer' \in [Writers -> WriterStates]
        /\ \A v \in Writers : writer'[v].pc # "idle" => writer'[v].tree \in Storages
    BY <1>3, <1>c, IdleWriterType DEF PublishOldest
  <2> QED
    BY <1>3, <1>a, <1>b, <1>d, <1>e, <2>1, <2>2
       DEF PublishOldest, metricVars, TypeInv, TypeOK, Allocation
<1>l. ASSUME NEW w \in Writers, LoadOldest(w)
      PROVE  TypeInv'
  <2>1. PICK state \in WriterStates :
          /\ writer' = [writer EXCEPT ![w] = state]
          /\ state.pc \in {"publish", "idle"} /\ writer[w].pc = "inserted"
          /\ state.pc = "publish" => state.tree = writer[w].tree
    BY <1>l, <1>c, LoadMoves
  <2>2. state.pc # "idle" => state.tree \in Storages
    BY <1>c, <2>1
  <2>3. /\ writer' \in [Writers -> WriterStates]
        /\ \A v \in Writers : writer'[v].pc # "idle" => writer'[v].tree \in Storages
    BY <1>c, <2>1, <2>2
  <2>4. UNCHANGED <<storeVars, metricVars, truncator, reader, panicked, historyVars>>
    BY <1>l DEF LoadOldest
  <2> QED
    BY <1>a, <1>b, <1>d, <1>e, <2>3, <2>4
       DEF storeVars, metricVars, historyVars, TypeInv, TypeOK, Allocation
<1>4. CASE TruncateBegin
  <2>1. PICK m \in Memories : \E quantity \in QuantityToPrune(m, count) : BeginPruning(quantity)
    BY <1>4 DEF TruncateBegin
  <2>2. PICK quantity \in QuantityToPrune(m, count) : BeginPruning(quantity)
    BY <2>1
  <2>3. quantity \in Int
    BY <1>b, QuantityIsInteger
  <2>4. consecutiveTruncation' \in 0..(PrunesPerGC - 1)
    BY <1>b, <2>2, StoreAssumption DEF BeginPruning
  <2>5. truncator' \in TruncatorStates
    <3>1. CASE quantity = 0
      BY <1>d, <2>2, <3>1 DEF BeginPruning
    <3>2. CASE quantity # 0
      BY <1>b, <2>2, <2>3, <3>2 DEF BeginPruning, TruncatorStates, IndexedSources
    <3> QED BY <3>1, <3>2
  <2>6. disturbed' \in BOOLEAN
    BY <1>4 DEF TruncateBegin
  <2> QED
    BY <1>4, <1>a, <1>b, <1>c, <1>e, <2>4, <2>5, <2>6
       DEF TruncateBegin, storeVars, TypeInv, TypeOK, Allocation
<1>5. ASSUME NEW s \in Sources, BuildHeapVisit(s)
      PROVE  TypeInv'
  <2> DEFINE t == storageIndex[s]
  <2>1. t \in Storages
    BY <1>5, <1>a DEF BuildHeapVisit, Indexed
  <2>2. truncator' \in TruncatorStates
    <3>1. ASSUME NEW oldest \in Left(tree[t]),
                 truncator' =
                   [pc |-> "build", todo |-> truncator.todo \ {s},
                    heap |-> truncator.heap \cup
                               {[timestamp |-> oldest.key, source |-> s, tree |-> t]},
                    remaining |-> truncator.remaining]
          PROVE  truncator' \in TruncatorStates
      <4>1. oldest.key \in Int
        BY <1>a, <2>1 DEF Left, Nodes
      <4>2. truncator.heap \cup {[timestamp |-> oldest.key, source |-> s, tree |-> t]}
              \in SUBSET HeapEntries
        BY <1>d, <2>1, <4>1 DEF HeapEntries
      <4> QED BY <1>d, <3>1, <4>2 DEF TruncatorStates
    <3> QED BY <1>5, <1>d, <3>1 DEF BuildHeapVisit
  <2>3. panicked' \in Panics
    BY <1>5, <1>e DEF BuildHeapVisit, Panics
  <2> QED
    BY <1>5, <1>a, <1>b, <1>c, <1>e, <2>2, <2>3
       DEF BuildHeapVisit, storeVars, metricVars, historyVars, TypeInv, TypeOK, Allocation
<1>6. CASE BuildHeapDone
  <2>1. truncator' \in TruncatorStates
    BY <1>6, <1>d, RemovingType DEF BuildHeapDone
  <2> QED
    BY <1>6, <1>a, <1>b, <1>c, <1>e, <2>1
       DEF BuildHeapDone, storeVars, metricVars, historyVars, TypeInv, TypeOK, Allocation
<1>7. CASE TruncateRemove
  <2>1. PICK entry \in truncator.heap : RemoveOldestEnvelope(entry)
    BY <1>7 DEF TruncateRemove, HeapMin
  <2> DEFINE t == entry.tree
             rest == truncator.heap \ {entry}
  <2>2. /\ entry \in HeapEntries /\ t \in Storages /\ entry.source \in Sources
        /\ rest \in SUBSET HeapEntries
    BY <1>d DEF HeapEntries
  <2>3. CASE tree[t] = {}
    <3>1. /\ truncator' = Removing(rest, truncator.remaining - 1)
          /\ UNCHANGED <<storageIndex, tree, meta, count, expired>>
      BY <2>1, <2>3 DEF RemoveOldestEnvelope
    <3>2. truncator' \in TruncatorStates
      BY <1>d, <2>2, <3>1, RemovingType
    <3> QED
      BY <1>7, <1>a, <1>b, <1>c, <1>e, <3>1, <3>2
         DEF TruncateRemove, historyVars, TypeInv, TypeOK, Allocation
  <2>4. CASE tree[t] # {}
    <3>1. PICK oldest \in Left(tree[t]) : RemoveNode(entry, oldest)
      BY <2>1, <2>4 DEF RemoveOldestEnvelope
    <3> DEFINE nodes == tree[t] \ {oldest}
    <3>2. tree' \in [Storages -> SUBSET Nodes] /\ count' \in Int /\ expired' \in Nat
      BY <1>a, <1>b, <2>2, <3>1 DEF RemoveNode
    <3>3. storageIndex' \in [Sources -> Storages \cup {NoStorage}]
      BY <1>a, <2>2, <3>1 DEF RemoveNode, IndexAfterRemove
    <3>4. truncator' \in TruncatorStates /\ meta' \in [Storages -> MetaInfos]
      <4>1. CASE /\ nodes = {}
                 /\ truncator' = Removing(rest, truncator.remaining - 1)
                 /\ UNCHANGED meta
        BY <1>a, <1>d, <2>2, <4>1, RemovingType
      <4>2. ASSUME NEW left \in Left(nodes),
                   meta' = [meta EXCEPT ![t] = MetaAfterRemove(@, left.key)],
                   truncator' = Removing(rest \cup PushBack(entry, left.key),
                                         truncator.remaining - 1)
            PROVE  truncator' \in TruncatorStates /\ meta' \in [Storages -> MetaInfos]
        <5>1. left.key \in Int
          BY <1>a, <2>2 DEF Left, Nodes
        <5>2. rest \cup PushBack(entry, left.key) \in SUBSET HeapEntries
          BY <2>2, <5>1 DEF PushBack, HeapEntries
        <5>3. MetaAfterRemove(meta[t], left.key) \in MetaInfos
          BY <1>a, <2>2, <5>1 DEF MetaAfterRemove, MetaInfos
        <5>4. truncator' \in TruncatorStates
          BY <1>d, <4>2, <5>2, RemovingType
        <5> QED BY <1>a, <2>2, <4>2, <5>3, <5>4
      <4> QED BY <3>1, <4>1, <4>2 DEF RemoveNode
    <3> QED
      BY <1>7, <1>b, <1>c, <1>e, <3>2, <3>3, <3>4
         DEF TruncateRemove, historyVars, TypeInv, TypeOK, Allocation
  <2> QED BY <2>3, <2>4
<1>8. CASE TruncatePanic
  BY <1>8, <1>a, <1>b, <1>c, <1>d, <1>e
     DEF TruncatePanic, Panics, storeVars, metricVars, historyVars, TypeInv, TypeOK, Allocation
<1>9. CASE TruncateEnd
  <2>1. oldestTimestamp' \in Int
    BY <1>9, <1>d, StoreAssumption DEF TruncateEnd, HeapLast, HeapEntries
  <2>2. consecutiveTruncation' \in 0..(PrunesPerGC - 1)
    BY <1>9, <1>b, StoreAssumption DEF TruncateEnd, CountTruncation
  <2>3. truncator' \in TruncatorStates
    BY <1>9 DEF TruncateEnd, IdleTruncator, TruncatorStates
  <2> QED
    BY <1>9, <1>a, <1>b, <1>c, <1>e, <2>1, <2>2, <2>3
       DEF TruncateEnd, historyVars, TypeInv, TypeOK, Allocation
<1>10. ASSUME NEW r \in MetaReaders, MetaBegin(r) \/ MetaStep(r)
       PROVE  TypeInv'
  <2>1. /\ UNCHANGED <<storeVars, metricVars, writer, truncator, historyVars>>
        /\ panicked' \in Panics
    BY <1>10, <1>e
       DEF MetaBegin, MetaStep, MetaRange, MetaLoad, MetaRangeDone, MetaReturn, Panics
  <2>2. reader' \in [MetaReaders -> ReaderStates]
    <3>1. CASE MetaBegin(r)
      BY <1>e, <3>1, ReadingType DEF MetaBegin, IndexedSources
    <3>2. CASE MetaStep(r)
      <4>1. reader[r].todo \in SUBSET Sources /\ reader[r].report \in SUBSET Sources
        BY <1>e DEF ReaderStates
      <4>2. ASSUME NEW s \in Sources, MetaRange(r, s) \/ MetaLoad(r, s)
            PROVE  reader' \in [MetaReaders -> ReaderStates]
        <5>1. /\ reader[r].todo \ {s} \in SUBSET Sources
              /\ reader[r].report \cup {s} \in SUBSET Sources
          BY <4>1
        <5>2. CASE MetaRange(r, s)
          <6>1. \E report \in {reader[r].report, reader[r].report \cup {s}} :
                  reader' = Reading(r, "range", reader[r].todo \ {s}, report)
            BY <5>2 DEF MetaRange
          <6>2. \A report \in SUBSET Sources :
                  Reading(r, "range", reader[r].todo \ {s}, report) \in [MetaReaders -> ReaderStates]
            BY <1>e, <5>1, ReadingType
          <6> QED BY <4>1, <5>1, <6>1, <6>2
        <5>3. CASE MetaLoad(r, s)
          <6>1. reader' = Reading(r, "load", reader[r].todo \ {s}, reader[r].report) \/ reader' = reader
            BY <5>3 DEF MetaLoad
          <6>2. Reading(r, "load", reader[r].todo \ {s}, reader[r].report) \in [MetaReaders -> ReaderStates]
            BY <1>e, <4>1, <5>1, ReadingType
          <6> QED BY <1>e, <6>1, <6>2
        <5> QED BY <4>2, <5>2, <5>3
      <4>3. CASE MetaRangeDone(r)
        BY <1>e, <4>1, <4>3, ReadingType DEF MetaRangeDone
      <4>4. CASE MetaReturn(r)
        BY <1>e, <4>4 DEF MetaReturn, IdleReader, ReaderStates
      <4> QED BY <3>2, <4>2, <4>3, <4>4 DEF MetaStep
    <3> QED BY <1>10, <3>1, <3>2
  <2> QED
    BY <1>a, <1>b, <1>c, <1>d, <1>e, <2>1, <2>2
       DEF storeVars, metricVars, historyVars, TypeInv, TypeOK, Allocation
<1>11. CASE UNCHANGED vars
  BY <1>11, <1>a, <1>b, <1>c, <1>d, <1>e
     DEF vars, storeVars, metricVars, threadVars, historyVars, TypeInv, TypeOK, Allocation
<1> QED
  BY <1>l, <1>1, <1>2, <1>3, <1>4, <1>5, <1>6, <1>7, <1>8, <1>9, <1>10, <1>11
     DEF Next, PutStep, TruncateStep

\* Every reachable state of the store is well typed: in particular the storage a
\* Put found, and the storages in the expiration heap, always exist.
THEOREM TypeCorrect == Spec => []TypeOK
<1>1. TypeInv => TypeOK
  BY DEF TypeInv
<1> QED
  BY <1>1, TypeInit, TypeStep, PTL DEF Spec

-----------------------------------------------------------------------------
(* The index, the heap and empty storages. *)

\* What makes HeapEntriesIndexed and EmptyIsAwaited inductive: two sources never
\* share a storage, and storages that are not allocated yet are held by nobody.
IndexInv ==
  /\ \A s \in Sources : storageIndex[s] <= created
  /\ \A s, r \in Sources : Indexed(s) /\ storageIndex[s] = storageIndex[r] => s = r
  /\ \A w \in Writers : writer[w].tree <= created
  /\ \A t \in Storages : t > created => tree[t] = {}
  /\ HeapEntriesIndexed
  /\ EmptyIsAwaited

LEMMA IndexInit == Init => IndexInv
<1> SUFFICES ASSUME Init PROVE IndexInv
  OBVIOUS
<1>1. truncator.heap = {}
  BY DEF Init, IdleTruncator
<1> QED
  BY <1>1 DEF Init, IndexInv, HeapEntriesIndexed, EmptyIsAwaited, Indexed, NoStorage, IdleWriter

\* A step that leaves the index, the trees and the allocation alone, keeps the
\* Puts that located a storage, and at most empties the heap.
LEMMA IndexKept ==
  ASSUME TypeInv, IndexInv,
         UNCHANGED <<storageIndex, tree, created>>,
         \A w \in Writers : /\ writer[w].pc = "located" => writer'[w] = writer[w]
                            /\ writer'[w].tree \in {writer[w].tree, NoStorage},
         truncator'.heap \in {truncator.heap, {}}
  PROVE  IndexInv'
<1>0. created \in Nat
  BY DEF TypeInv, TypeOK
<1>1. /\ \A s \in Sources : storageIndex'[s] <= created'
      /\ \A s, r \in Sources :
           storageIndex'[s] # NoStorage /\ storageIndex'[s] = storageIndex'[r] => s = r
      /\ \A t \in Storages : t > created' => tree'[t] = {}
  BY DEF IndexInv, Indexed
<1>2. \A w \in Writers : writer'[w].tree <= created'
  BY <1>0 DEF IndexInv, NoStorage
<1>3. HeapEntriesIndexed'
  BY DEF IndexInv, HeapEntriesIndexed
<1>4. EmptyIsAwaited'
  BY DEF IndexInv, EmptyIsAwaited, Indexed, Locating
<1> QED BY <1>1, <1>2, <1>3, <1>4 DEF IndexInv, Indexed

LEMMA IndexStep == TypeInv /\ TypeInv' /\ IndexInv /\ [Next]_vars => IndexInv'
<1> SUFFICES ASSUME TypeInv, TypeInv', IndexInv, [Next]_vars PROVE IndexInv'
  OBVIOUS
<1>a. /\ storageIndex \in [Sources -> Storages \cup {NoStorage}]
      /\ tree \in [Storages -> SUBSET Nodes]
      /\ created \in Nat /\ writer \in [Writers -> WriterStates]
      /\ \A v \in Writers : writer[v].pc # "idle" => writer[v].tree \in Storages
      /\ truncator.heap \subseteq HeapEntries
  BY DEF TypeInv, TypeOK, Allocation, TruncatorStates
<1>b. NoStorage = 0 /\ NoStorage \notin Storages /\ Storages \subseteq Nat
  BY StoreAssumption DEF NoStorage, Storages
<1>1. ASSUME NEW w \in Writers, NEW s \in Sources, NEW ts \in Timestamps, PutLocate(w, s, ts)
      PROVE  IndexInv'
  <2>1. /\ writer[w].pc = "idle"
        /\ writer' = [writer EXCEPT ![w] = [pc |-> "located", tree |-> storageIndex'[s],
                                            timestamp |-> ts, oldest |-> 0]]
        /\ UNCHANGED <<tree, truncator>>
    BY <1>1 DEF PutLocate
  <2>2. CASE Indexed(s)
    <3>1. UNCHANGED <<storageIndex, created>>
      BY <1>1, <2>2 DEF PutLocate
    <3>2. \A v \in Writers : writer'[v].tree <= created'
      BY <1>a, <2>1, <3>1 DEF IndexInv
    <3>3. EmptyIsAwaited'
      BY <1>a, <2>1, <3>1 DEF IndexInv, EmptyIsAwaited, Indexed, Locating
    <3>4. HeapEntriesIndexed'
      BY <2>1, <3>1 DEF IndexInv, HeapEntriesIndexed
    <3> QED BY <2>1, <3>1, <3>2, <3>3, <3>4 DEF IndexInv, Indexed
  <2>3. CASE ~Indexed(s)
    <3>1. /\ storageIndex' = [storageIndex EXCEPT ![s] = created + 1]
          /\ created' = created + 1
      BY <1>1, <2>3 DEF PutLocate
    <3>2. /\ \A r \in Sources : storageIndex'[r] <= created'
          /\ \A q, r \in Sources :
               storageIndex'[q] # NoStorage /\ storageIndex'[q] = storageIndex'[r] => q = r
      <4>1. \A r \in Sources : storageIndex[r] \in Nat /\ storageIndex[r] <= created
        <5>1. \A r \in Sources : storageIndex[r] \in Nat
          BY <1>a, StoreAssumption DEF Storages, NoStorage
        <5> QED BY <5>1 DEF IndexInv
      <4>2. storageIndex'[s] = created + 1 /\ \A r \in Sources \ {s} : storageIndex'[r] = storageIndex[r]
        BY <1>a, <3>1
      <4> QED BY <1>a, <3>1, <4>1, <4>2 DEF IndexInv, Indexed
    <3>3. \A v \in Writers : writer'[v].tree <= created'
      <4>1. \A v \in Writers : writer[v].tree \in Nat /\ writer[v].tree <= created
        <5>1. \A v \in Writers : writer[v].tree \in Nat
          BY <1>a, StoreAssumption DEF Storages, NoStorage, WriterStates
        <5> QED BY <5>1 DEF IndexInv
      <4>2. writer'[w].tree = created + 1 /\ \A v \in Writers \ {w} : writer'[v] = writer[v]
        BY <1>a, <2>1, <3>1
      <4> QED BY <1>a, <3>1, <4>1, <4>2
    <3>4. \A t \in Storages : t > created' => tree'[t] = {}
      BY <1>a, <1>b, <2>1, <3>1 DEF IndexInv
    <3>5. HeapEntriesIndexed'
      <4>1. \A e \in truncator.heap : e.source # s
        BY <1>a, <1>b, <2>3 DEF IndexInv, HeapEntriesIndexed, Indexed, HeapEntries
      <4> QED BY <1>a, <2>1, <3>1, <4>1 DEF IndexInv, HeapEntriesIndexed, HeapEntries
    <3>6. EmptyIsAwaited'
      <4> SUFFICES ASSUME NEW r \in Sources, Indexed(r)', tree'[storageIndex'[r]] = {}
                   PROVE  \E v \in Locating' : writer'[v].tree = storageIndex'[r]
        BY DEF EmptyIsAwaited
      <4>1. CASE r = s
        BY <1>a, <2>1, <4>1 DEF Locating
      <4>2. CASE r # s
        <5>1. Indexed(r) /\ storageIndex'[r] = storageIndex[r] /\ tree[storageIndex[r]] = {}
          BY <1>a, <2>1, <3>1, <4>2 DEF Indexed
        <5>2. PICK v \in Locating : writer[v].tree = storageIndex[r]
          BY <5>1 DEF IndexInv, EmptyIsAwaited
        <5>3. v # w /\ writer'[v] = writer[v]
          BY <1>a, <2>1, <5>2 DEF Locating
        <5> QED BY <5>1, <5>2, <5>3 DEF Locating
      <4> QED BY <4>1, <4>2
    <3> QED BY <3>2, <3>3, <3>4, <3>5, <3>6 DEF IndexInv, Indexed
  <2> QED BY <2>2, <2>3
<1>2. ASSUME NEW w \in Writers, InsertOrSwap(w)
      PROVE  IndexInv'
  <2> DEFINE t == writer[w].tree
  <2>1. writer[w].pc = "located" /\ t \in Storages /\ UNCHANGED <<storageIndex, created, truncator>>
    BY <1>2, <1>a DEF InsertOrSwap
  <2>2. \E nodes : nodes # {} /\ tree' = [tree EXCEPT ![t] = nodes]
    BY <1>2 DEF InsertOrSwap, InsertUnder, TreePut
  <2>3. /\ \A v \in Writers \ {w} : writer'[v] = writer[v]
        /\ writer'[w].tree \in {t, NoStorage}
    BY <1>2, <1>a DEF InsertOrSwap, InsertUnder
  <2>4. /\ tree'[t] # {}
        /\ \A u \in Storages \ {t} : tree'[u] = tree[u]
    BY <1>a, <2>1, <2>2
  <2>5. \A v \in Writers : writer'[v].tree <= created'
    BY <1>a, <1>b, <2>1, <2>3 DEF IndexInv
  <2>6. \A u \in Storages : u > created' => tree'[u] = {}
    BY <1>a, <1>b, <2>1, <2>4 DEF IndexInv
  <2>7. HeapEntriesIndexed'
    BY <1>a, <2>1, <2>4 DEF IndexInv, HeapEntriesIndexed, HeapEntries
  <2>8. EmptyIsAwaited'
    <3> SUFFICES ASSUME NEW r \in Sources, Indexed(r)', tree'[storageIndex'[r]] = {}
                 PROVE  \E v \in Locating' : writer'[v].tree = storageIndex'[r]
      BY DEF EmptyIsAwaited
    <3>1. /\ Indexed(r) /\ storageIndex'[r] = storageIndex[r]
          /\ storageIndex[r] \in Storages \ {t} /\ tree[storageIndex[r]] = {}
      BY <1>a, <2>1, <2>4 DEF Indexed
    <3>2. PICK v \in Locating : writer[v].tree = storageIndex[r]
      BY <3>1 DEF IndexInv, EmptyIsAwaited
    <3>3. writer'[v] = writer[v]
      BY <2>3, <3>1, <3>2 DEF Locating
    <3> QED BY <3>1, <3>2, <3>3 DEF Locating
  <2> QED BY <2>1, <2>5, <2>6, <2>7, <2>8 DEF IndexInv, Indexed
<1>3. ASSUME NEW w \in Writers, PublishOldest(w)
      PROVE  IndexInv'
  <2>1. /\ writer[w].pc = "publish" /\ writer' = [writer EXCEPT ![w] = IdleWriter]
        /\ UNCHANGED <<storageIndex, tree, created, truncator>>
    BY <1>3 DEF PublishOldest
  <2>2. \A v \in Writers : /\ writer[v].pc = "located" => writer'[v] = writer[v]
                           /\ writer'[v].tree \in {writer[v].tree, NoStorage}
    BY <1>a, <2>1 DEF IdleWriter
  <2> QED BY <2>1, <2>2, IndexKept
<1>l. ASSUME NEW w \in Writers, LoadOldest(w)
      PROVE  IndexInv'
  <2>1. PICK state \in WriterStates :
          /\ writer' = [writer EXCEPT ![w] = state]
          /\ state.pc \in {"publish", "idle"} /\ writer[w].pc = "inserted"
          /\ state.pc = "publish" => state.tree = writer[w].tree
          /\ state.pc = "idle" => state.tree = NoStorage
    BY <1>l, <1>a, LoadMoves
  <2>2. UNCHANGED <<storageIndex, tree, created, truncator>>
    BY <1>l DEF LoadOldest, storeVars
  <2>3. \A v \in Writers : /\ writer[v].pc = "located" => writer'[v] = writer[v]
                           /\ writer'[v].tree \in {writer[v].tree, NoStorage}
    BY <1>a, <2>1
  <2> QED BY <2>2, <2>3, IndexKept
<1>4. CASE TruncateBegin
  <2>1. UNCHANGED <<storageIndex, tree, created, writer>> /\ truncator'.heap \in {truncator.heap, {}}
    BY <1>4 DEF TruncateBegin, BeginPruning, storeVars
  <2> QED BY <2>1, IndexKept
<1>5. ASSUME NEW s \in Sources, BuildHeapVisit(s)
      PROVE  IndexInv'
  <2> DEFINE t == storageIndex[s]
  <2>1. /\ UNCHANGED <<storageIndex, tree, created, writer>> /\ t \in Storages
        /\ s \notin {e.source : e \in truncator.heap}
    BY <1>5, <1>a DEF BuildHeapVisit, storeVars, Indexed
  <2>2. CASE UNCHANGED truncator
    BY <2>1, <2>2, IndexKept
  <2>3. ASSUME NEW oldest \in Left(tree[t]),
               truncator'.heap = truncator.heap \cup
                                   {[timestamp |-> oldest.key, source |-> s, tree |-> t]}
        PROVE  IndexInv'
    <3>1. HeapEntriesIndexed'
      BY <2>1, <2>3 DEF IndexInv, HeapEntriesIndexed, Left
    <3> QED BY <2>1, <3>1 DEF IndexInv, EmptyIsAwaited, Indexed, Locating
  <2> QED BY <1>5, <2>2, <2>3 DEF BuildHeapVisit
<1>6. CASE BuildHeapDone
  <2>1. UNCHANGED <<storageIndex, tree, created, writer>> /\ truncator'.heap = truncator.heap
    BY <1>6 DEF BuildHeapDone, Removing, storeVars
  <2> QED BY <2>1, IndexKept
<1>7. CASE TruncateRemove
  <2>1. PICK entry \in truncator.heap : RemoveOldestEnvelope(entry)
    BY <1>7 DEF TruncateRemove, HeapMin
  <2> DEFINE t == entry.tree
             s == entry.source
             rest == truncator.heap \ {entry}
  <2>2. /\ t \in Storages /\ s \in Sources /\ storageIndex[s] = t /\ tree[t] # {}
        /\ \A e \in rest : e.source # s
        /\ UNCHANGED <<created, writer>>
    BY <1>7, <1>a DEF IndexInv, HeapEntriesIndexed, HeapEntries, TruncateRemove
  <2>3. PICK oldest \in Left(tree[t]) : RemoveNode(entry, oldest)
    BY <2>1, <2>2 DEF RemoveOldestEnvelope
  <2> DEFINE nodes == tree[t] \ {oldest}
  <2>4. /\ tree' = [tree EXCEPT ![t] = nodes]
        /\ storageIndex' = IF nodes = {} THEN [storageIndex EXCEPT ![s] = NoStorage]
                                         ELSE storageIndex
    BY <2>3 DEF RemoveNode, IndexAfterRemove
  <2>5. \/ nodes = {} /\ truncator'.heap = rest
        \/ /\ nodes # {}
           /\ \E key : truncator'.heap =
                 rest \cup {[timestamp |-> key, source |-> s, tree |-> t]}
    <3>1. CASE nodes = {} /\ truncator' = Removing(rest, truncator.remaining - 1)
      BY <3>1 DEF Removing
    <3>2. ASSUME NEW left \in Left(nodes),
                 truncator' = Removing(rest \cup PushBack(entry, left.key),
                                       truncator.remaining - 1)
          PROVE  /\ nodes # {}
                 /\ truncator'.heap =
                      rest \cup {[timestamp |-> left.key, source |-> s, tree |-> t]}
      BY <3>2 DEF Removing, PushBack, Left
    <3> QED BY <2>3, <3>1, <3>2 DEF RemoveNode
  <2> HIDE DEF nodes
  <2>6. /\ \A r \in Sources : storageIndex'[r] <= created'
        /\ \A q, r \in Sources :
             storageIndex'[q] # NoStorage /\ storageIndex'[q] = storageIndex'[r] => q = r
    BY <1>a, <1>b, <2>2, <2>4 DEF IndexInv, Indexed
  <2>7. \A u \in Storages : u > created' => tree'[u] = {}
    BY <1>a, <1>b, <2>2, <2>4 DEF IndexInv
  <2>8. \A e \in rest : e.tree # t /\ e.tree \in Storages /\ e.source \in Sources
    BY <1>a, <1>b, <2>2 DEF IndexInv, HeapEntriesIndexed, HeapEntries, Indexed
  <2>9. HeapEntriesIndexed'
    <3>1. CASE nodes = {}
      <4>1. \A e \in rest : storageIndex'[e.source] = e.tree /\ tree'[e.tree] # {}
        BY <1>a, <2>2, <2>4, <2>8 DEF IndexInv, HeapEntriesIndexed
      <4> QED BY <2>5, <3>1, <4>1 DEF IndexInv, HeapEntriesIndexed
    <3>2. CASE nodes # {}
      <4>1. PICK key : truncator'.heap = rest \cup {[timestamp |-> key, source |-> s, tree |-> t]}
        BY <2>5, <3>2
      <4>2. \A e \in rest : storageIndex'[e.source] = e.tree /\ tree'[e.tree] # {}
        BY <1>a, <2>4, <2>8, <3>2 DEF IndexInv, HeapEntriesIndexed
      <4>3. storageIndex'[s] = t /\ tree'[t] # {}
        BY <1>a, <2>2, <2>4, <3>2
      <4> QED BY <2>2, <4>1, <4>2, <4>3 DEF IndexInv, HeapEntriesIndexed
    <3> QED BY <3>1, <3>2
  <2>10. EmptyIsAwaited'
    <3> SUFFICES ASSUME NEW r \in Sources, Indexed(r)', tree'[storageIndex'[r]] = {}
                 PROVE  \E v \in Locating' : writer'[v].tree = storageIndex'[r]
      BY DEF EmptyIsAwaited
    <3>1. r # s /\ Indexed(r) /\ storageIndex'[r] = storageIndex[r]
      BY <1>a, <2>2, <2>4 DEF Indexed
    <3>2. storageIndex[r] \in Storages \ {t}
      BY <1>a, <2>2, <3>1 DEF IndexInv, Indexed
    <3>3. tree[storageIndex[r]] = {}
      BY <1>a, <2>4, <3>1, <3>2
    <3> QED BY <2>2, <3>1, <3>3 DEF IndexInv, EmptyIsAwaited, Locating
  <2> QED BY <2>2, <2>6, <2>7, <2>9, <2>10 DEF IndexInv, Indexed
<1>8. CASE TruncatePanic
  <2>1. UNCHANGED <<storageIndex, tree, created, writer, truncator>>
    BY <1>8 DEF TruncatePanic, storeVars
  <2> QED BY <2>1, IndexKept
<1>9. CASE TruncateEnd
  <2>1. UNCHANGED <<storageIndex, tree, created, writer>> /\ truncator'.heap = {}
    BY <1>9 DEF TruncateEnd, IdleTruncator
  <2> QED BY <2>1, IndexKept
<1>10. ASSUME NEW r \in MetaReaders, MetaBegin(r) \/ MetaStep(r)
       PROVE  IndexInv'
  <2>1. UNCHANGED <<storageIndex, tree, created, writer, truncator>>
    BY <1>10 DEF MetaBegin, MetaStep, MetaRange, MetaLoad, MetaRangeDone, MetaReturn, storeVars
  <2> QED BY <2>1, IndexKept
<1>11. CASE UNCHANGED vars
  <2>1. UNCHANGED <<storageIndex, tree, created, writer, truncator>>
    BY <1>11 DEF vars, storeVars, threadVars
  <2> QED BY <2>1, IndexKept
<1> QED
  BY <1>l, <1>1, <1>2, <1>3, <1>4, <1>5, <1>6, <1>7, <1>8, <1>9, <1>10, <1>11
     DEF Next, PutStep, TruncateStep

LEMMA Invariance == Spec => [](TypeInv /\ IndexInv)
  BY TypeInit, TypeStep, IndexInit, IndexStep, PTL DEF Spec

\* For any number of sources, writers and readers: every entry of the expiration
\* heap names the storage that is indexed for its source, and that storage is
\* not empty, so truncation only deletes index entries of storages it emptied.
THEOREM HeapSafe == Spec => []HeapEntriesIndexed
<1>1. IndexInv => HeapEntriesIndexed
  BY DEF IndexInv
<1> QED BY <1>1, Invariance, PTL

\* For any number of sources, writers and readers: a source without envelopes is
\* indexed only while a Put is about to insert into it.
THEOREM NoEmptySourceLingers == Spec => []EmptyIsAwaited
<1>1. IndexInv => EmptyIsAwaited
  BY DEF IndexInv
<1> QED BY <1>1, Invariance, PTL

-----------------------------------------------------------------------------
(* Refinement: what the index reaches behaves like EnvelopeStore. *)

\* A Put inserts the envelope it was given.
Timestamped == \A w \in Writers : writer[w].pc = "located" => writer[w].timestamp \in Timestamps

LEMMA TimestampedInit == Init => Timestamped
  BY DEF Init, Timestamped, IdleWriter

LEMMA TimestampedStep == TypeInv /\ Timestamped /\ [Next]_vars => Timestamped'
<1> SUFFICES ASSUME TypeInv, Timestamped, [Next]_vars PROVE Timestamped'
  OBVIOUS
<1>a. writer \in [Writers -> WriterStates]
  BY DEF TypeInv, TypeOK
<1>1. ASSUME NEW w \in Writers, NEW s \in Sources, NEW ts \in Timestamps, PutLocate(w, s, ts)
      PROVE  Timestamped'
  BY <1>1, <1>a DEF PutLocate, Timestamped
<1>2. ASSUME NEW w \in Writers, PutStep(w)
      PROVE  Timestamped'
  <2>1. \E state : writer' = [writer EXCEPT ![w] = state] /\ state.pc # "located"
    <3>1. CASE InsertOrSwap(w)
      <4>1. PICK room, key : InsertUnder(w, room, key)
        BY <3>1 DEF InsertOrSwap
      <4> DEFINE state(o) ==
            [pc |-> "inserted", tree |-> writer[w].tree, timestamp |-> writer[w].timestamp, oldest |-> o]
      <4>2. PICK o : writer' = [writer EXCEPT ![w] = state(o)]
        BY <4>1 DEF InsertUnder
      <4>3. state(o).pc # "located"
        OBVIOUS
      <4> QED BY <4>2, <4>3
    <3>2. CASE PublishOldest(w)
      <4>1. writer' = [writer EXCEPT ![w] = IdleWriter] /\ IdleWriter.pc # "located"
        BY <3>2 DEF PublishOldest, IdleWriter
      <4> QED BY <4>1
    <3>3. CASE LoadOldest(w)
      BY <1>a, <3>3, LoadMoves
    <3> QED BY <1>2, <3>1, <3>2, <3>3 DEF PutStep
  <2> QED BY <1>a, <2>1 DEF Timestamped
<1>3. CASE TruncateBegin \/ TruncateStep
  <2>1. UNCHANGED writer
    BY <1>3 DEF TruncateBegin, TruncateStep, BuildHeapVisit, BuildHeapDone, TruncateRemove,
       TruncatePanic, TruncateEnd
  <2> QED BY <2>1 DEF Timestamped
<1>4. ASSUME NEW r \in MetaReaders, MetaBegin(r) \/ MetaStep(r)
      PROVE  Timestamped'
  <2>1. UNCHANGED writer
    BY <1>4 DEF MetaBegin, MetaStep, MetaRange, MetaLoad, MetaRangeDone, MetaReturn
  <2> QED BY <2>1 DEF Timestamped
<1>5. CASE UNCHANGED vars
  BY <1>5 DEF vars, threadVars, Timestamped
<1> QED
  BY <1>1, <1>2, <1>3, <1>4, <1>5 DEF Next

\* EnvelopeStore counts nodes with its own instance of FiniteSets.
LEMMA SameCardinality == \A S : Promise!Cardinality(S) = Cardinality(S)
  BY DEF Promise!Cardinality, Cardinality

LEMMA PromiseInit == Init => Promise!Init
  BY DEF Init, Promise!Init, Contents, Indexed

\* insertOrSwap on the tree of an indexed source is one of the abstract
\* insertions.
LEMMA InsertionIsPromised ==
  ASSUME NEW s \in Sources, NEW ts \in Timestamps,
         Contents[s] \in SUBSET Nodes,
         NEW room \in RoomIn(Contents[s]), NEW key \in FudgedKey(room, ts),
         Contents' = [Contents EXCEPT ![s] = TreePut(room, [key |-> key, timestamp |-> ts])]
  PROVE  Promise!Next
<1> DEFINE n == [key |-> key, timestamp |-> ts]
<1>1. PICK f \in 0..MaxTimestampFudge :
        /\ key = ts + f
        /\ \A g \in 0..(f - 1) : ts + g \in Keys(room)
        /\ f = MaxTimestampFudge \/ ts + f \notin Keys(room)
  BY DEF FudgedKey
<1>2. n \in Promise!Nodes
  <2>1. n \in Promise!Filings(ts)
    BY <1>1 DEF Promise!Filings
  <2> QED BY <2>1 DEF Promise!Nodes
<1>3. /\ room \in SUBSET Contents[s]
      /\ IF Promise!Full(s)
           THEN \E old \in Contents[s] :
                  Promise!IsOldest(old, Contents[s]) /\ room = Contents[s] \ {old}
           ELSE room = Contents[s]
  <2>1. Promise!Full(s) <=> Cardinality(Contents[s]) >= MaxPerSource
    BY SameCardinality DEF Promise!Full
  <2> DEFINE C == Contents[s]
  <2>2. room \in RoomIn(C)
    OBVIOUS
  <2> HIDE DEF C
  <2>3. CASE Cardinality(C) >= MaxPerSource
    <3>1. PICK old \in Left(C) : room = C \ {old}
      BY <2>2, <2>3 DEF RoomIn
    <3>2. old \in C /\ Promise!IsOldest(old, C)
      BY DEF Left, Promise!IsOldest
    <3> QED BY <2>1, <2>3, <3>1, <3>2 DEF C
  <2>4. CASE ~(Cardinality(C) >= MaxPerSource)
    <3>1. room = C
      BY <2>2, <2>4 DEF RoomIn
    <3> QED BY <2>1, <2>4, <3>1 DEF C
  <2> QED BY <2>3, <2>4
<1>4. CASE key \notin Keys(room)
  <2>1. TreePut(room, n) = room \cup {n}
    BY <1>4 DEF TreePut, Keys
  <2>2. n.key \notin Promise!Keys(room)
    BY <1>4 DEF Keys, Promise!Keys
  <2>3. CASE Promise!Full(s)
    <3>1. PICK old \in Contents[s] :
            Promise!IsOldest(old, Contents[s]) /\ room = Contents[s] \ {old}
      BY <1>3, <2>3
    <3>2. Contents' = [Contents EXCEPT ![s] = (Contents[s] \ {old}) \cup {n}]
      BY <2>1, <3>1
    <3>3. Promise!AcceptEvicting(s)
      BY <1>2, <2>2, <2>3, <3>1, <3>2 DEF Promise!AcceptEvicting
    <3> QED BY <3>3 DEF Promise!Next
  <2>4. CASE ~Promise!Full(s)
    <3>1. room = Contents[s]
      BY <1>3, <2>4
    <3>2. Contents' = [Contents EXCEPT ![s] = Contents[s] \cup {n}]
      BY <2>1, <3>1
    <3>3. Promise!Accept(s)
      BY <1>2, <2>2, <2>4, <3>1, <3>2 DEF Promise!Accept
    <3> QED BY <3>3 DEF Promise!Next
  <2> QED BY <2>3, <2>4
<1>5. CASE key \in Keys(room)
  <2>1. f = MaxTimestampFudge
    BY <1>1, <1>5
  <2>2. n.timestamp .. n.key \subseteq Promise!Keys(room)
    <3> SUFFICES ASSUME NEW k \in ts..key PROVE k \in Keys(room)
      BY DEF Keys, Promise!Keys
    <3>1. ts \in Int /\ MaxTimestampFudge \in Nat
      BY StoreAssumption
    <3>2. CASE k = key
      BY <1>5, <3>2
    <3>3. CASE k # key
      <4>1. k - ts \in 0..(f - 1) /\ k = ts + (k - ts)
        BY <1>1, <3>1, <3>3
      <4> QED BY <1>1, <4>1
    <3> QED BY <3>2, <3>3
  <2>3. n.key = n.timestamp + MaxTimestampFudge
    BY <1>1, <2>1
  <2>4. Contents' = [Contents EXCEPT ![s] = {m \in room : m.key # n.key} \cup {n}]
    BY DEF TreePut
  <2>5. Promise!AcceptOverwriting(s)
    <3>1. room \in Promise!Kept(s)
      BY <1>3 DEF Promise!Kept
    <3> QED BY <1>2, <2>2, <2>3, <2>4, <3>1 DEF Promise!AcceptOverwriting
  <2> QED BY <2>5 DEF Promise!Next
<1> QED BY <1>4, <1>5

LEMMA PromiseStep ==
  TypeInv /\ IndexInv /\ Timestamped /\ [Next]_vars => [Promise!Next]_Contents
<1> SUFFICES ASSUME TypeInv, IndexInv, Timestamped, [Next]_vars
             PROVE  Promise!Next \/ Contents' = Contents
  OBVIOUS
<1>a. /\ storageIndex \in [Sources -> Storages \cup {NoStorage}]
      /\ tree \in [Storages -> SUBSET Nodes]
      /\ created \in Nat /\ writer \in [Writers -> WriterStates]
      /\ \A v \in Writers : writer[v].pc # "idle" => writer[v].tree \in Storages
      /\ truncator.heap \subseteq HeapEntries
  BY DEF TypeInv, TypeOK, Allocation, TruncatorStates
<1>b. NoStorage = 0 /\ NoStorage \notin Storages
  BY StoreAssumption DEF NoStorage, Storages
<1>c. UNCHANGED <<storageIndex, tree>> => Contents' = Contents
  BY DEF Contents, Indexed
<1>1. ASSUME NEW w \in Writers, NEW s \in Sources, NEW ts \in Timestamps, PutLocate(w, s, ts)
      PROVE  Contents' = Contents
  <2>1. CASE Indexed(s)
    BY <1>1, <1>c, <2>1 DEF PutLocate
  <2>2. CASE ~Indexed(s)
    <3>1. /\ storageIndex' = [storageIndex EXCEPT ![s] = created + 1] /\ UNCHANGED tree
          /\ created + 1 \in Storages
      BY <1>1, <1>a, <2>2, StoreAssumption DEF PutLocate, Storages, TypeInv, TypeOK, Allocation
    <3>2. tree[created + 1] = {}
      BY <1>a, <3>1 DEF IndexInv
    <3> QED BY <1>a, <2>2, <3>1, <3>2 DEF Contents, Indexed
  <2> QED BY <2>1, <2>2
<1>2. ASSUME NEW w \in Writers, InsertOrSwap(w)
      PROVE  Promise!Next \/ Contents' = Contents
  <2> DEFINE t == writer[w].tree
             ts == writer[w].timestamp
  <2>1. t \in Storages /\ ts \in Timestamps /\ UNCHANGED storageIndex
    BY <1>2, <1>a DEF InsertOrSwap, Timestamped
  <2>2. PICK room \in RoomIn(tree[t]) : \E key \in FudgedKey(room, ts) : InsertUnder(w, room, key)
    BY <1>2 DEF InsertOrSwap
  <2>3. PICK key \in FudgedKey(room, ts) : InsertUnder(w, room, key)
    BY <2>2
  <2> DEFINE nodes == TreePut(room, [key |-> key, timestamp |-> ts])
  <2>4. tree' = [tree EXCEPT ![t] = nodes]
    BY <2>3 DEF InsertUnder
  <2>5. CASE \E s \in Sources : storageIndex[s] = t
    <3>1. PICK s \in Sources : storageIndex[s] = t
      BY <2>5
    <3>2. Contents[s] = tree[t] /\ tree[t] \in SUBSET Nodes
      BY <1>a, <1>b, <2>1, <3>1 DEF Contents, Indexed
    <3> HIDE DEF nodes
    <3>3. \A r \in Sources \ {s} : storageIndex[r] # t
      BY <1>b, <2>1, <3>1 DEF IndexInv, Indexed
    <3>4. Contents' = [Contents EXCEPT ![s] = nodes]
      <4>1. \A r \in Sources : Contents'[r] = IF r = s THEN nodes ELSE Contents[r]
        BY <1>a, <1>b, <2>1, <2>4, <3>1, <3>3 DEF Contents, Indexed
      <4> QED BY <4>1 DEF Contents
    <3> QED BY <2>1, <3>2, <3>4, InsertionIsPromised DEF nodes
  <2>6. CASE ~\E s \in Sources : storageIndex[s] = t
    <3> HIDE DEF nodes
    <3> QED BY <1>a, <2>1, <2>4, <2>6 DEF Contents, Indexed
  <2> QED BY <2>5, <2>6
<1>3. CASE TruncateRemove
  <2>1. PICK entry \in truncator.heap : RemoveOldestEnvelope(entry)
    BY <1>3 DEF TruncateRemove, HeapMin
  <2> DEFINE t == entry.tree
             s == entry.source
  <2>2. t \in Storages /\ s \in Sources /\ storageIndex[s] = t /\ tree[t] # {}
    BY <1>a DEF IndexInv, HeapEntriesIndexed, HeapEntries
  <2>3. PICK oldest \in Left(tree[t]) : RemoveNode(entry, oldest)
    BY <2>1, <2>2 DEF RemoveOldestEnvelope
  <2> DEFINE nodes == tree[t] \ {oldest}
  <2>4. /\ tree' = [tree EXCEPT ![t] = nodes]
        /\ storageIndex' = IF nodes = {} THEN [storageIndex EXCEPT ![s] = NoStorage]
                                         ELSE storageIndex
    BY <2>3 DEF RemoveNode, IndexAfterRemove
  <2>5. Contents[s] = tree[t]
    BY <1>a, <1>b, <2>2 DEF Contents, Indexed
  <2>6. \A r \in Sources \ {s} : storageIndex[r] # t
    BY <1>b, <2>2 DEF IndexInv, Indexed
  <2>7. Contents' = [Contents EXCEPT ![s] = nodes]
    <3> HIDE DEF nodes
    <3> QED BY <1>a, <1>b, <2>2, <2>4, <2>6 DEF Contents, Indexed
  <2>8. oldest \in Contents[s] /\ Promise!IsOldest(oldest, Contents[s])
    BY <2>5 DEF Left, Promise!IsOldest
  <2>9. Promise!Expire(s)
    BY <2>5, <2>7, <2>8 DEF Promise!Expire
  <2> QED BY <2>2, <2>9 DEF Promise!Next
<1>4. ASSUME NEW w \in Writers, PublishOldest(w)
      PROVE  Contents' = Contents
  BY <1>4, <1>c DEF PublishOldest
<1>l. ASSUME NEW w \in Writers, LoadOldest(w)
      PROVE  Contents' = Contents
  BY <1>l, <1>c DEF LoadOldest, storeVars
<1>5. CASE TruncateBegin \/ BuildHeapDone \/ TruncatePanic \/ TruncateEnd
           \/ \E s \in Sources : BuildHeapVisit(s)
  BY <1>5, <1>c DEF TruncateBegin, BuildHeapDone, TruncatePanic, TruncateEnd, BuildHeapVisit,
     storeVars
<1>6. ASSUME NEW r \in MetaReaders, MetaBegin(r) \/ MetaStep(r)
      PROVE  Contents' = Contents
  BY <1>6, <1>c DEF MetaBegin, MetaStep, MetaRange, MetaLoad, MetaRangeDone, MetaReturn, storeVars
<1>7. CASE UNCHANGED vars
  BY <1>7, <1>c DEF vars, storeVars
<1> QED
  BY <1>l, <1>1, <1>2, <1>3, <1>4, <1>5, <1>6, <1>7 DEF Next, PutStep, TruncateStep

\* For any number of sources, writers and readers, what readers of the index can
\* reach changes only as EnvelopeStore allows: envelopes leave a source oldest
\* first or by an overwritten key, whatever the goroutines interleave.
THEOREM Refinement == Spec => ImplementsPromise
<1>1. Spec => []Timestamped
  BY TypeInit, TypeStep, TimestampedInit, TimestampedStep, PTL DEF Spec
<1> QED
  BY <1>1, Invariance, PromiseInit, PromiseStep, PTL DEF Spec, ImplementsPromise, Promise!Spec

-----------------------------------------------------------------------------
(* Sets that lose or gain an element. *)

\* E is what a set A loses: nothing (k = 0), or one of its elements (k = 1).
Loses(A, E, k) == \/ k = 0 /\ E = {}
                  \/ k = 1 /\ \E x \in A : E = {x}

LEMMA CardLoses ==
  ASSUME NEW A, IsFiniteSet(A), NEW E, NEW k, Loses(A, E, k)
  PROVE  IsFiniteSet(A \ E) /\ Cardinality(A \ E) = Cardinality(A) - k
<1>0. Cardinality(A) \in Nat
  BY FS_CardinalityType
<1>1. CASE k = 0 /\ E = {}
  <2>1. A \ E = A
    BY <1>1
  <2> QED BY <1>0, <1>1, <2>1
<1>2. CASE k = 1 /\ \E x \in A : E = {x}
  <2>1. PICK x \in A : E = {x}
    BY <1>2
  <2> QED BY <1>2, <2>1, FS_RemoveElement
<1> QED BY <1>1, <1>2 DEF Loses

\* An insertion: a set loses E, then O, and gains a new element.
LEMMA CardSwap ==
  ASSUME NEW A, IsFiniteSet(A), NEW E, NEW k, Loses(A, E, k),
         NEW O, NEW j, Loses(A \ E, O, j), NEW d, d \notin (A \ E) \ O
  PROVE  /\ IsFiniteSet(((A \ E) \ O) \cup {d})
         /\ Cardinality(((A \ E) \ O) \cup {d}) = Cardinality(A) - k - j + 1
<1>1. IsFiniteSet(A \ E) /\ Cardinality(A \ E) = Cardinality(A) - k
  BY CardLoses
<1>2. IsFiniteSet((A \ E) \ O) /\ Cardinality((A \ E) \ O) = Cardinality(A \ E) - j
  BY <1>1, CardLoses
<1>3. /\ IsFiniteSet(((A \ E) \ O) \cup {d})
      /\ Cardinality(((A \ E) \ O) \cup {d}) = Cardinality((A \ E) \ O) + 1
  BY <1>2, FS_AddElement
<1> QED BY <1>1, <1>2, <1>3

-----------------------------------------------------------------------------
(* What each step does to the trees. *)

\* Trees are finite and hold one node per key.
TreeInv ==
  \A t \in Storages :
    /\ IsFiniteSet(tree[t])
    /\ \A n, m \in tree[t] : n.key = m.key => n = m

\* insertOrSwap: the tree loses the evicted node E and the overwritten one O, and
\* gains n; Left is then oldest.
InsertsAs(w, E, O, n, oldest) ==
  LET t == writer[w].tree IN
  /\ Loses(tree[t], E, Evictions(t))
  /\ Loses(tree[t] \ E, O, overwritten' - overwritten)
  /\ n \in Nodes /\ n.timestamp = writer[w].timestamp
  /\ \A m \in (tree[t] \ E) \ O : m.key # n.key
  /\ tree' = [tree EXCEPT ![t] = ((tree[t] \ E) \ O) \cup {n}]
  /\ oldest \in Left(((tree[t] \ E) \ O) \cup {n})
  /\ meta' = [meta EXCEPT ![t] = MetaAfterInsert(meta[t], Evictions(t), n.timestamp, oldest.key)]

LEMMA InsertEffect ==
  ASSUME TypeInv, TreeInv, NEW w \in Writers, InsertOrSwap(w)
  PROVE  /\ writer[w].tree \in Storages
         /\ overwritten' \in {overwritten, overwritten + 1}
         /\ \E E, O, n, oldest : InsertsAs(w, E, O, n, oldest)
<1> DEFINE t == writer[w].tree
           ts == writer[w].timestamp
<1>a. /\ tree \in [Storages -> SUBSET Nodes] /\ writer \in [Writers -> WriterStates]
      /\ meta \in [Storages -> MetaInfos]
      /\ \A v \in Writers : writer[v].pc # "idle" => writer[v].tree \in Storages
      /\ overwritten \in Nat
  BY DEF TypeInv, TypeOK, Allocation
<1>1. t \in Storages /\ ts \in Int /\ tree[t] \in SUBSET Nodes
  BY <1>a DEF InsertOrSwap, WriterStates
<1>2. PICK room \in RoomIn(tree[t]) : \E key \in FudgedKey(room, ts) : InsertUnder(w, room, key)
  BY DEF InsertOrSwap
<1>3. PICK key \in FudgedKey(room, ts) : InsertUnder(w, room, key)
  BY <1>2
<1> DEFINE n == [key |-> key, timestamp |-> ts]
           E == tree[t] \ room
           O == {m \in room : m.key = key}
<1>4. room \subseteq tree[t] /\ key \in Int /\ room = tree[t] \ E
  BY <1>1, StoreAssumption DEF RoomIn, FudgedKey
<1>5. Loses(tree[t], E, Evictions(t))
  <2>1. CASE Cardinality(tree[t]) >= MaxPerSource
    <3>1. PICK old \in Left(tree[t]) : room = tree[t] \ {old}
      BY <2>1 DEF RoomIn
    <3>2. old \in tree[t] /\ E = {old}
      BY <3>1 DEF Left
    <3> QED BY <2>1, <3>2 DEF Loses, Evictions
  <2>2. CASE ~(Cardinality(tree[t]) >= MaxPerSource)
    BY <2>2 DEF Loses, Evictions, RoomIn
  <2> QED BY <2>1, <2>2
<1>6. overwritten' = IF key \in Keys(room) THEN overwritten + 1 ELSE overwritten
  BY <1>3 DEF InsertUnder
<1>7. Loses(room, O, overwritten' - overwritten)
  <2>1. CASE key \in Keys(room)
    <3>1. PICK m \in room : m.key = key
      BY <2>1 DEF Keys
    <3>2. O = {m}
      BY <1>1, <1>4, <3>1 DEF TreeInv
    <3>3. overwritten' - overwritten = 1
      BY <1>a, <1>6, <2>1
    <3> QED BY <3>1, <3>2, <3>3 DEF Loses
  <2>2. CASE key \notin Keys(room)
    <3>1. O = {}
      BY <2>2 DEF Keys
    <3>2. overwritten' - overwritten = 0
      BY <1>a, <1>6, <2>2
    <3> QED BY <3>1, <3>2 DEF Loses
  <2> QED BY <2>1, <2>2
<1>8. TreePut(room, n) = (room \ O) \cup {n} /\ n \in Nodes /\ n.timestamp = ts
  BY <1>1, <1>4 DEF TreePut, Nodes
<1>9. \A m \in room \ O : m.key # n.key
  OBVIOUS
<1>10. tree' = [tree EXCEPT ![t] = (room \ O) \cup {n}]
  <2>1. tree' = [tree EXCEPT ![t] = TreePut(room, n)]
    BY <1>3 DEF InsertUnder
  <2> QED BY <1>8, <2>1
<1>11. PICK oldest \in Left((room \ O) \cup {n}) :
         meta' = [meta EXCEPT ![t] = MetaAfterInsert(meta[t], Evictions(t), ts, oldest.key)]
  <2>1. PICK oldest \in Left(TreePut(room, n)) :
          meta' = [meta EXCEPT ![t] = MetaAfterInsert(@, Evictions(t), ts, oldest.key)]
    BY <1>3 DEF InsertUnder
  <2> QED BY <1>a, <1>1, <1>8, <2>1
<1> HIDE DEF E, O, n
<1>12. InsertsAs(w, E, O, n, oldest)
  BY <1>4, <1>5, <1>7, <1>8, <1>9, <1>10, <1>11 DEF InsertsAs
<1> QED BY <1>1, <1>6, <1>12

\* removeOldestEnvelope, on the storage of a heap entry: it is indexed and not
\* empty, and loses its left-most node.
RemovesAs(entry, oldest) ==
  LET t == entry.tree
      nodes == tree[t] \ {oldest}
      rest == truncator.heap \ {entry}
  IN
  /\ entry \in HeapMin(truncator.heap)
  /\ t \in Storages /\ entry.source \in Sources /\ storageIndex[entry.source] = t
  /\ oldest \in Left(tree[t])
  /\ tree' = [tree EXCEPT ![t] = nodes]
  /\ storageIndex' = IF nodes = {} THEN [storageIndex EXCEPT ![entry.source] = NoStorage]
                                   ELSE storageIndex
  /\ \/ /\ nodes = {} /\ UNCHANGED meta
        /\ truncator' = Removing(rest, truncator.remaining - 1)
     \/ \E left \in Left(nodes) :
          /\ meta' = [meta EXCEPT ![t] = MetaAfterRemove(meta[t], left.key)]
          /\ truncator' = Removing(rest \cup PushBack(entry, left.key), truncator.remaining - 1)

LEMMA RemoveEffect ==
  ASSUME TypeInv, IndexInv, TruncateRemove
  PROVE  /\ count' = count - 1 /\ expired' = expired + 1
         /\ UNCHANGED <<created, ingress, writer, panicked, overwritten, disturbed>>
         /\ \E entry, oldest : RemovesAs(entry, oldest)
<1>a. truncator.heap \subseteq HeapEntries /\ meta \in [Storages -> MetaInfos]
  BY DEF TypeInv, TypeOK, TruncatorStates
<1>1. PICK entry \in HeapMin(truncator.heap) : RemoveOldestEnvelope(entry)
  BY DEF TruncateRemove
<1> DEFINE t == entry.tree
<1>2. /\ entry \in truncator.heap /\ t \in Storages /\ entry.source \in Sources
      /\ storageIndex[entry.source] = t /\ tree[t] # {}
  BY <1>1, <1>a DEF HeapMin, IndexInv, HeapEntriesIndexed, HeapEntries
<1>3. PICK oldest \in Left(tree[t]) : RemoveNode(entry, oldest)
  BY <1>1, <1>2 DEF RemoveOldestEnvelope
<1>4. RemovesAs(entry, oldest)
  BY <1>a, <1>1, <1>2, <1>3 DEF RemovesAs, RemoveNode, IndexAfterRemove
<1> QED BY <1>3, <1>4 DEF RemoveNode, TruncateRemove, historyVars

\* Every other step leaves the trees and the counts alone.
Uncounted == <<tree, meta, count, expired, overwritten>>
LEMMA OtherSteps ==
  ASSUME TypeInv, [Next]_vars
  PROVE  \/ \E w \in Writers, s \in Sources, ts \in Timestamps : PutLocate(w, s, ts)
         \/ \E w \in Writers : InsertOrSwap(w)
         \/ TruncateRemove
         \/ /\ UNCHANGED <<Uncounted, storageIndex, created, ingress>>
            /\ \A w \in Writers : writer[w].pc = "located" <=> writer'[w].pc = "located"
            /\ \A w \in Writers : writer'[w].pc = "located" => writer'[w] = writer[w]
<1>a. writer \in [Writers -> WriterStates]
  BY DEF TypeInv, TypeOK
<1>1. ASSUME NEW w \in Writers, PublishOldest(w)
      PROVE  /\ UNCHANGED <<Uncounted, storageIndex, created, ingress>>
             /\ \A v \in Writers : writer[v].pc = "located" <=> writer'[v].pc = "located"
             /\ \A v \in Writers : writer'[v].pc = "located" => writer'[v] = writer[v]
  BY <1>1, <1>a DEF PublishOldest, IdleWriter, Uncounted, metricVars
<1>l. ASSUME NEW w \in Writers, LoadOldest(w)
      PROVE  /\ UNCHANGED <<Uncounted, storageIndex, created, ingress>>
             /\ \A v \in Writers : writer[v].pc = "located" <=> writer'[v].pc = "located"
             /\ \A v \in Writers : writer'[v].pc = "located" => writer'[v] = writer[v]
  <2>1. PICK state \in WriterStates :
          /\ writer' = [writer EXCEPT ![w] = state]
          /\ state.pc \in {"publish", "idle"} /\ writer[w].pc = "inserted"
    BY <1>l, <1>a, LoadMoves
  <2>2. UNCHANGED <<Uncounted, storageIndex, created, ingress>>
    BY <1>l DEF LoadOldest, Uncounted, storeVars, metricVars, historyVars
  <2> QED BY <1>a, <2>1, <2>2
<1>2. CASE TruncateBegin
  BY <1>2 DEF TruncateBegin, Uncounted, storeVars
<1>3. ASSUME NEW s \in Sources, BuildHeapVisit(s)
      PROVE  UNCHANGED <<Uncounted, storageIndex, created, ingress, writer>>
  BY <1>3 DEF BuildHeapVisit, Uncounted, storeVars, metricVars, historyVars
<1>4. CASE BuildHeapDone \/ TruncatePanic
  BY <1>4 DEF BuildHeapDone, TruncatePanic, Uncounted, storeVars, metricVars, historyVars
<1>5. CASE TruncateEnd
  BY <1>5 DEF TruncateEnd, Uncounted, historyVars
<1>6. ASSUME NEW r \in MetaReaders, MetaBegin(r) \/ MetaStep(r)
      PROVE  UNCHANGED <<Uncounted, storageIndex, created, ingress, writer>>
  BY <1>6 DEF MetaBegin, MetaStep, MetaRange, MetaLoad, MetaRangeDone, MetaReturn, Uncounted,
     storeVars, metricVars, historyVars
<1>7. CASE UNCHANGED vars
  BY <1>7 DEF vars, Uncounted, storeVars, metricVars, threadVars, historyVars
<1> QED
  BY <1>l, <1>1, <1>2, <1>3, <1>4, <1>5, <1>6, <1>7 DEF Next, PutStep, TruncateStep

-----------------------------------------------------------------------------
(* PerSourceBound and MetaTracksTree. *)

ShapeInv == TreeInv /\ PerSourceBound /\ MetaTracksTree

\* The left-most node of a tree has its least key.
LEMMA LeftIsLeast ==
  ASSUME NEW nodes, NEW oldest \in Left(nodes)
  PROVE  oldest.key \in Keys(nodes) /\ \A m \in nodes : oldest.key <= m.key
  BY DEF Left, Keys

LEMMA ShapeInit == Init => ShapeInv
<1> SUFFICES ASSUME Init PROVE ShapeInv
  OBVIOUS
<1>1. \A t \in Storages : tree[t] = {}
  BY DEF Init
<1>2. IsFiniteSet({}) /\ Cardinality({}) = 0 /\ 0 <= MaxPerSource
  BY FS_EmptySet, StoreAssumption
<1>3. TreeInv
  BY <1>1, <1>2, Zenon DEF TreeInv
<1>4. PerSourceBound
  BY <1>1, <1>2 DEF PerSourceBound
<1>5. MetaTracksTree
  BY <1>1, Zenon DEF MetaTracksTree
<1> QED BY <1>3, <1>4, <1>5 DEF ShapeInv

LEMMA ShapeInsert ==
  ASSUME TypeInv, ShapeInv, NEW w \in Writers, InsertOrSwap(w)
  PROVE  ShapeInv'
<1> DEFINE t == writer[w].tree
<1>a. /\ tree \in [Storages -> SUBSET Nodes] /\ meta \in [Storages -> MetaInfos]
      /\ writer[w].timestamp \in Int /\ overwritten \in Nat
  BY DEF TypeInv, TypeOK, WriterStates
<1>1. t \in Storages /\ overwritten' \in {overwritten, overwritten + 1}
  BY InsertEffect DEF ShapeInv
<1>2. PICK E, O, n, oldest : InsertsAs(w, E, O, n, oldest)
  BY InsertEffect DEF ShapeInv
<1> DEFINE left == (tree[t] \ E) \ O
           nodes == left \cup {n}
<1>3. /\ Loses(tree[t], E, Evictions(t)) /\ Loses(tree[t] \ E, O, overwritten' - overwritten)
      /\ \A m \in left : m.key # n.key
      /\ n \in Nodes /\ n.timestamp = writer[w].timestamp
      /\ tree' = [tree EXCEPT ![t] = nodes] /\ oldest \in Left(nodes)
      /\ meta' = [meta EXCEPT ![t] = MetaAfterInsert(meta[t], Evictions(t), n.timestamp, oldest.key)]
  BY <1>2 DEF InsertsAs
<1>4. /\ IsFiniteSet(tree[t]) /\ Cardinality(tree[t]) \in Nat /\ Cardinality(tree[t]) <= MaxPerSource
      /\ \A a, b \in tree[t] : a.key = b.key => a = b
  BY <1>1, FS_CardinalityType DEF ShapeInv, TreeInv, PerSourceBound
<1>5. /\ IsFiniteSet(nodes)
      /\ Cardinality(nodes) = Cardinality(tree[t]) - Evictions(t) - (overwritten' - overwritten) + 1
  <2>1. n \notin left
    BY <1>3
  <2>2. ASSUME NEW k, k = overwritten' - overwritten
        PROVE  /\ IsFiniteSet(nodes)
               /\ Cardinality(nodes) = Cardinality(tree[t]) - Evictions(t) - k + 1
    <3> DEFINE A == tree[t]
               ev == Evictions(t)
    <3>1. Loses(A \ E, O, k) /\ Loses(A, E, ev) /\ IsFiniteSet(A) /\ n \notin (A \ E) \ O
      BY <1>3, <1>4, <2>1, <2>2
    <3> HIDE DEF A, ev
    <3>2. /\ IsFiniteSet(((A \ E) \ O) \cup {n})
          /\ Cardinality(((A \ E) \ O) \cup {n}) = Cardinality(A) - ev - k + 1
      BY <3>1, CardSwap
    <3> QED BY <3>2 DEF A, ev
  <2> QED BY <2>2
<1>6. left \subseteq tree[t]
  OBVIOUS
<1>7. \A a, b \in nodes : a.key = b.key => a = b
  <2> HIDE DEF left
  <2> QED BY <1>3, <1>4, <1>6
<1> HIDE DEF left, nodes
<1>8. tree'[t] = nodes /\ \A u \in Storages \ {t} : tree'[u] = tree[u]
  BY <1>a, <1>1, <1>3
<1>9. TreeInv'
  BY <1>5, <1>7, <1>8 DEF ShapeInv, TreeInv
<1>10. PerSourceBound'
  <2>1. Cardinality(nodes) <= MaxPerSource
    BY <1>a, <1>1, <1>4, <1>5, StoreAssumption DEF Evictions
  <2> QED BY <1>8, <2>1 DEF ShapeInv, PerSourceBound
<1>11. MetaTracksTree'
  <2> SUFFICES ASSUME NEW u \in Storages, tree'[u] # {}
               PROVE  /\ meta'[u].oldest \in Keys(tree'[u])
                      /\ \A m \in tree'[u] : meta'[u].oldest <= m.key /\ m.timestamp <= meta'[u].newest
    BY DEF MetaTracksTree
  <2>1. CASE u # t
    <3>1. tree'[u] = tree[u] /\ meta'[u] = meta[u]
      BY <1>a, <1>1, <1>3, <1>8, <2>1
    <3> QED BY <3>1 DEF ShapeInv, MetaTracksTree
  <2>2. CASE u = t
    <3>1. /\ meta'[t].oldest = oldest.key
          /\ meta'[t].newest = Larger(meta[t].newest, n.timestamp)
      BY <1>a, <1>1, <1>3 DEF MetaAfterInsert
    <3>2. meta[t].newest \in Int /\ n.timestamp \in Int /\ \A m \in tree[t] : m.timestamp \in Int
      BY <1>a, <1>1, <1>3 DEF MetaInfos, Nodes
    <3>3. meta'[t].newest >= meta[t].newest /\ meta'[t].newest >= n.timestamp /\ meta'[t].newest \in Int
      BY <3>1, <3>2 DEF Larger
    <3>4. \A m \in tree[t] : m.timestamp <= meta[t].newest
      BY <1>1 DEF ShapeInv, MetaTracksTree
    <3>5. \A m \in nodes : m.timestamp <= meta'[t].newest
      BY <1>6, <3>2, <3>3, <3>4 DEF nodes
    <3> QED BY <1>3, <1>8, <2>2, <3>1, <3>5, LeftIsLeast
  <2> QED BY <2>1, <2>2
<1> QED BY <1>9, <1>10, <1>11 DEF ShapeInv

LEMMA ShapeRemove ==
  ASSUME TypeInv, IndexInv, ShapeInv, TruncateRemove
  PROVE  ShapeInv'
<1>a. tree \in [Storages -> SUBSET Nodes] /\ meta \in [Storages -> MetaInfos]
  BY DEF TypeInv, TypeOK
<1>1. PICK entry, oldest : RemovesAs(entry, oldest)
  BY RemoveEffect
<1> DEFINE t == entry.tree
           nodes == tree[t] \ {oldest}
<1>2. /\ t \in Storages /\ oldest \in tree[t] /\ tree' = [tree EXCEPT ![t] = nodes]
      /\ \/ nodes = {} /\ UNCHANGED meta
         \/ \E left \in Left(nodes) : meta' = [meta EXCEPT ![t] = MetaAfterRemove(meta[t], left.key)]
  BY <1>1 DEF RemovesAs, Left
<1>3. /\ IsFiniteSet(nodes) /\ Cardinality(nodes) <= MaxPerSource
      /\ \A n, m \in nodes : n.key = m.key => n = m
  <2>1. IsFiniteSet(tree[t]) /\ Cardinality(tree[t]) \in Nat /\ Cardinality(tree[t]) <= MaxPerSource
    BY <1>2, FS_CardinalityType DEF ShapeInv, TreeInv, PerSourceBound
  <2>2. IsFiniteSet(nodes) /\ Cardinality(nodes) = Cardinality(tree[t]) - 1
    BY <1>2, <2>1, FS_RemoveElement
  <2>3. Cardinality(nodes) <= MaxPerSource
    BY <2>1, <2>2, StoreAssumption
  <2> QED BY <1>2, <2>2, <2>3 DEF ShapeInv, TreeInv
<1>4. nodes \subseteq tree[t]
  OBVIOUS
<1> HIDE DEF nodes
<1>5. tree'[t] = nodes /\ \A u \in Storages \ {t} : tree'[u] = tree[u] /\ meta'[u] = meta[u]
  BY <1>a, <1>2
<1>6. TreeInv' /\ PerSourceBound'
  BY <1>3, <1>5 DEF ShapeInv, TreeInv, PerSourceBound
<1>7. MetaTracksTree'
  <2> SUFFICES ASSUME NEW u \in Storages, tree'[u] # {}
               PROVE  /\ meta'[u].oldest \in Keys(tree'[u])
                      /\ \A m \in tree'[u] : meta'[u].oldest <= m.key /\ m.timestamp <= meta'[u].newest
    BY DEF MetaTracksTree
  <2>1. CASE u # t
    BY <1>5, <2>1 DEF ShapeInv, MetaTracksTree
  <2>2. CASE u = t
    <3>1. PICK left \in Left(nodes) : meta' = [meta EXCEPT ![t] = MetaAfterRemove(meta[t], left.key)]
      BY <1>2, <1>5, <2>2
    <3>2. meta'[t].oldest = left.key /\ meta'[t].newest = meta[t].newest
      BY <1>a, <1>2, <3>1 DEF MetaAfterRemove
    <3>3. \A m \in nodes : m.timestamp <= meta[t].newest
      BY <1>2, <1>4 DEF ShapeInv, MetaTracksTree
    <3> QED BY <1>5, <2>2, <3>2, <3>3, LeftIsLeast
  <2> QED BY <2>1, <2>2
<1> QED BY <1>6, <1>7 DEF ShapeInv

LEMMA ShapeStep == TypeInv /\ IndexInv /\ ShapeInv /\ [Next]_vars => ShapeInv'
<1> SUFFICES ASSUME TypeInv, IndexInv, ShapeInv, [Next]_vars PROVE ShapeInv'
  OBVIOUS
<1>1. CASE UNCHANGED <<tree, meta>>
  BY <1>1 DEF ShapeInv, TreeInv, PerSourceBound, MetaTracksTree
<1>2. ASSUME NEW w \in Writers, NEW s \in Sources, NEW ts \in Timestamps, PutLocate(w, s, ts)
      PROVE  ShapeInv'
  BY <1>1, <1>2 DEF PutLocate
<1> QED BY <1>1, <1>2, OtherSteps, ShapeInsert, ShapeRemove DEF Uncounted

LEMMA ShapeInvariance == Spec => []ShapeInv
  BY Invariance, ShapeInit, ShapeStep, PTL DEF Spec

\* For any number of sources and goroutines, and any fudging of equal timestamps:
\* no storage ever holds more than maxPerSource envelopes (insertOrSwap).
THEOREM SourcesAreBounded == Spec => []PerSourceBound
<1>1. ShapeInv => PerSourceBound
  BY DEF ShapeInv
<1> QED BY <1>1, ShapeInvariance, PTL

\* For any number of sources and goroutines: the meta record that Meta reports is
\* that of the tree under the same lock, whatever was evicted, overwritten or
\* removed by a truncation (insertOrSwap, removeOldestEnvelope).
THEOREM MetaIsTrueToTree == Spec => []MetaTracksTree
<1>1. ShapeInv => MetaTracksTree
  BY DEF ShapeInv
<1> QED BY <1>1, ShapeInvariance, PTL

-----------------------------------------------------------------------------
(* The nodes in some of the trees, and their number. *)

HeldBy(trees, T) == {p \in HeldIn(trees) : p[1] \in T}

LEMMA HeldMember ==
  ASSUME NEW trees, NEW T \in SUBSET Storages, NEW p
  PROVE  p \in HeldBy(trees, T) <=> \E u \in T : \E x \in trees[u] : p = <<u, x>>
  BY DEF HeldBy, HeldIn

LEMMA HeldIsAll == Held = HeldBy(tree, Storages)
<1>1. \A p : p \in Held <=> \E u \in Storages : \E x \in tree[u] : p = <<u, x>>
  BY DEF Held, HeldIn
<1>2. \A p : p \in HeldBy(tree, Storages) <=> \E u \in Storages : \E x \in tree[u] : p = <<u, x>>
  BY HeldMember
<1> QED BY <1>1, <1>2

LEMMA HeldIsAll_ == Held' = HeldBy(tree', Storages)
<1>1. \A p : p \in Held' <=> \E u \in Storages : \E x \in tree'[u] : p = <<u, x>>
  BY DEF Held, HeldIn
<1>2. \A p : p \in HeldBy(tree', Storages) <=> \E u \in Storages : \E x \in tree'[u] : p = <<u, x>>
  BY HeldMember
<1> QED BY <1>1, <1>2

LEMMA HeldSame ==
  ASSUME NEW trees, NEW after, NEW T \in SUBSET Storages, \A u \in T : after[u] = trees[u]
  PROVE  HeldBy(after, T) = HeldBy(trees, T)
<1>1. \A p : p \in HeldBy(after, T) <=> p \in HeldBy(trees, T)
  BY HeldMember
<1> QED BY <1>1 DEF HeldBy

\* An insertion of n into the tree of t.
Swaps(trees, after, t, E, k, O, j, n) ==
  /\ Loses(trees[t], E, k) /\ Loses(trees[t] \ E, O, j)
  /\ n \notin (trees[t] \ E) \ O
  /\ after[t] = ((trees[t] \ E) \ O) \cup {n}
  /\ \A u \in Storages \ {t} : after[u] = trees[u]

LEMMA HeldSwap ==
  ASSUME NEW trees, NEW after, NEW T \in SUBSET Storages, NEW t \in T,
         IsFiniteSet(HeldBy(trees, T)),
         NEW E, NEW k, NEW O, NEW j, NEW n, Swaps(trees, after, t, E, k, O, j, n)
  PROVE  /\ IsFiniteSet(HeldBy(after, T))
         /\ Cardinality(HeldBy(after, T)) = Cardinality(HeldBy(trees, T)) - k - j + 1
<1>0. /\ Loses(trees[t], E, k) /\ Loses(trees[t] \ E, O, j)
      /\ n \notin (trees[t] \ E) \ O
      /\ after[t] = ((trees[t] \ E) \ O) \cup {n}
      /\ \A u \in T \ {t} : after[u] = trees[u]
  BY DEF Swaps
<1> DEFINE A == HeldBy(trees, T)
           F == {<<t, x>> : x \in E}
           P == {<<t, x>> : x \in O}
           d == <<t, n>>
<1>1. \A x : <<t, x>> \in A <=> x \in trees[t]
  BY HeldMember
<1>2. Loses(A, F, k)
  <2>1. CASE k = 0 /\ E = {}
    <3>1. F = {}
      BY <2>1
    <3> QED BY <2>1, <3>1 DEF Loses
  <2>2. CASE k = 1 /\ \E x \in trees[t] : E = {x}
    <3>1. PICK x \in trees[t] : E = {x}
      BY <2>2
    <3>2. <<t, x>> \in A /\ F = {<<t, x>>}
      BY <1>1, <3>1
    <3> HIDE DEF A, F
    <3> QED BY <2>2, <3>2 DEF Loses
  <2> QED BY <1>0, <2>1, <2>2 DEF Loses
<1>3. \A x : <<t, x>> \in A \ F <=> x \in trees[t] \ E
  <2> HIDE DEF A
  <2> QED BY <1>1
<1>4. Loses(A \ F, P, j)
  <2>1. CASE j = 0 /\ O = {}
    <3>1. P = {}
      BY <2>1
    <3> QED BY <2>1, <3>1 DEF Loses
  <2>2. CASE j = 1 /\ \E x \in trees[t] \ E : O = {x}
    <3>1. PICK x \in trees[t] \ E : O = {x}
      BY <2>2
    <3>2. <<t, x>> \in A \ F /\ P = {<<t, x>>}
      BY <1>3, <3>1
    <3> HIDE DEF A, F, P
    <3> QED BY <2>2, <3>2 DEF Loses
  <2> QED BY <1>0, <2>1, <2>2 DEF Loses
<1>5. d \notin (A \ F) \ P
  <2>1. \A x : <<t, x>> \in (A \ F) \ P <=> x \in (trees[t] \ E) \ O
    <3> HIDE DEF A, F
    <3> QED BY <1>3
  <2> QED BY <1>0, <2>1
<1>6. HeldBy(after, T) = ((A \ F) \ P) \cup {d}
  <2>1. ASSUME NEW p
        PROVE  p \in HeldBy(after, T) <=> p \in ((A \ F) \ P) \cup {d}
    <3>1. p \in HeldBy(after, T) <=> \E u \in T : \E x \in after[u] : p = <<u, x>>
      BY HeldMember
    <3>2. p \in A <=> \E u \in T : \E x \in trees[u] : p = <<u, x>>
      BY HeldMember
    <3> HIDE DEF A
    <3> QED BY <1>0, <3>1, <3>2
  <2>2. \A p : p \in HeldBy(after, T) <=> p \in ((A \ F) \ P) \cup {d}
    BY <2>1
  <2> HIDE DEF A, F, P, d
  <2> QED BY <2>2
<1> HIDE DEF A, F, P, d
<1>7. IsFiniteSet(A)
  BY DEF A
<1>8. /\ IsFiniteSet(((A \ F) \ P) \cup {d})
      /\ Cardinality(((A \ F) \ P) \cup {d}) = Cardinality(A) - k - j + 1
  <2>1. IsFiniteSet(A \ F) /\ Cardinality(A \ F) = Cardinality(A) - k
    BY <1>2, <1>7, CardLoses, Zenon
  <2>2. IsFiniteSet((A \ F) \ P) /\ Cardinality((A \ F) \ P) = Cardinality(A \ F) - j
    BY <1>4, <2>1, CardLoses, Zenon
  <2>3. /\ IsFiniteSet(((A \ F) \ P) \cup {d})
        /\ Cardinality(((A \ F) \ P) \cup {d}) = Cardinality((A \ F) \ P) + 1
    BY <1>5, <2>2, FS_AddElement, Zenon
  <2> QED BY <2>1, <2>2, <2>3, Zenon
<1> QED BY <1>6, <1>8 DEF A

LEMMA InsertSwaps ==
  ASSUME TypeInv, TreeInv, NEW w \in Writers, InsertOrSwap(w)
  PROVE  /\ writer[w].tree \in Storages /\ Evictions(writer[w].tree) \in {0, 1}
         /\ overwritten' - overwritten \in {0, 1} /\ overwritten' \in Nat
         /\ \E E, O, n : Swaps(tree, tree', writer[w].tree, E, Evictions(writer[w].tree),
                               O, overwritten' - overwritten, n)
<1> DEFINE t == writer[w].tree
<1>1. /\ t \in Storages /\ overwritten' \in {overwritten, overwritten + 1}
      /\ tree \in [Storages -> SUBSET Nodes] /\ overwritten \in Nat
  BY InsertEffect DEF TypeInv, TypeOK
<1>2. PICK E, O, n, oldest : InsertsAs(w, E, O, n, oldest)
  BY InsertEffect
<1>3. /\ Loses(tree[t], E, Evictions(t)) /\ Loses(tree[t] \ E, O, overwritten' - overwritten)
      /\ n \notin (tree[t] \ E) \ O
      /\ tree' = [tree EXCEPT ![t] = ((tree[t] \ E) \ O) \cup {n}]
  BY <1>2 DEF InsertsAs
<1>4. /\ tree'[t] = ((tree[t] \ E) \ O) \cup {n}
      /\ \A u \in Storages \ {t} : tree'[u] = tree[u]
  BY <1>1, <1>3
<1>5. Swaps(tree, tree', t, E, Evictions(t), O, overwritten' - overwritten, n)
  BY <1>3, <1>4 DEF Swaps
<1>6. Evictions(t) \in {0, 1}
  BY DEF Evictions
<1>7. overwritten' - overwritten \in {0, 1} /\ overwritten' \in Nat
  <2>1. CASE overwritten' = overwritten
    BY <1>1, <2>1
  <2>2. CASE overwritten' = overwritten + 1
    BY <1>1, <2>2
  <2> QED BY <1>1, <2>1, <2>2
<1> QED BY <1>1, <1>5, <1>6, <1>7

\* A removal from one of the trees.
LEMMA HeldDrop ==
  ASSUME NEW trees, NEW after, NEW T \in SUBSET Storages, NEW t \in T,
         IsFiniteSet(HeldBy(trees, T)),
         NEW n \in trees[t], after[t] = trees[t] \ {n},
         \A u \in T \ {t} : after[u] = trees[u]
  PROVE  /\ IsFiniteSet(HeldBy(after, T))
         /\ Cardinality(HeldBy(after, T)) = Cardinality(HeldBy(trees, T)) - 1
<1> DEFINE A == HeldBy(trees, T)
           d == <<t, n>>
<1>1. d \in A
  BY HeldMember
<1>2. HeldBy(after, T) = A \ {d}
  <2>1. ASSUME NEW p
        PROVE  p \in HeldBy(after, T) <=> p \in A \ {d}
    <3>1. p \in HeldBy(after, T) <=> \E u \in T : \E x \in after[u] : p = <<u, x>>
      BY HeldMember
    <3>2. p \in A <=> \E u \in T : \E x \in trees[u] : p = <<u, x>>
      BY HeldMember
    <3> HIDE DEF A
    <3> QED BY <3>1, <3>2
  <2>2. \A p : p \in HeldBy(after, T) <=> p \in A \ {d}
    BY <2>1
  <2> HIDE DEF A, d
  <2> QED BY <2>2
<1> HIDE DEF A, d
<1>3. IsFiniteSet(A)
  BY DEF A
<1> QED BY <1>1, <1>2, <1>3, FS_RemoveElement DEF A

-----------------------------------------------------------------------------
(* CountAccounts and EnvelopesConserved. *)

CountInv == IsFiniteSet(Held) /\ CountAccounts /\ EnvelopesConserved

\* A Put that starts, or inserts, is one more, or one less, on its way in.
LEMMA LocatingFinite == IsFiniteSet(Locating) /\ Cardinality(Locating) \in Nat
<1>1. Locating \in SUBSET Writers
  BY DEF Locating
<1> QED BY <1>1, FS_Subset, FS_CardinalityType, StoreAssumption

LEMMA LocatingGains ==
  ASSUME TypeInv, NEW w \in Writers, NEW s \in Sources, NEW ts \in Timestamps, PutLocate(w, s, ts)
  PROVE  w \notin Locating /\ Locating' = Locating \cup {w}
<1>1. /\ writer \in [Writers -> WriterStates] /\ writer[w].pc = "idle"
      /\ writer' = [writer EXCEPT ![w] = [pc |-> "located", tree |-> storageIndex'[s],
                                          timestamp |-> ts, oldest |-> 0]]
  BY DEF TypeInv, TypeOK, PutLocate
<1>2. \A v \in Writers : writer'[v].pc = "located" <=> v = w \/ writer[v].pc = "located"
  BY <1>1
<1> QED BY <1>1, <1>2 DEF Locating

LEMMA LocatingLoses ==
  ASSUME TypeInv, NEW w \in Writers, InsertOrSwap(w)
  PROVE  /\ w \in Locating /\ Locating' = Locating \ {w}
         /\ \A v \in Locating' : writer'[v] = writer[v]
<1>a. writer \in [Writers -> WriterStates] /\ writer[w].pc = "located"
  BY DEF TypeInv, TypeOK, InsertOrSwap
<1>1. \E state : writer' = [writer EXCEPT ![w] = state] /\ state.pc # "located"
  <2>1. PICK room, key : InsertUnder(w, room, key)
    BY DEF InsertOrSwap
  <2> DEFINE state(o) ==
        [pc |-> "inserted", tree |-> writer[w].tree, timestamp |-> writer[w].timestamp, oldest |-> o]
  <2>2. PICK o : writer' = [writer EXCEPT ![w] = state(o)]
    BY <2>1 DEF InsertUnder
  <2>3. state(o).pc # "located"
    OBVIOUS
  <2> QED BY <2>2, <2>3
<1>2. \A v \in Writers : /\ v # w => writer'[v] = writer[v]
                         /\ writer'[v].pc = "located" <=> v # w /\ writer[v].pc = "located"
  BY <1>a, <1>1
<1> QED BY <1>a, <1>2 DEF Locating

LEMMA CountInit == Init => CountInv
<1> SUFFICES ASSUME Init PROVE CountInv
  OBVIOUS
<1>1. Held = {}
  BY DEF Init, Held, HeldIn
<1>2. Locating = {}
  BY DEF Init, Locating, IdleWriter
<1>3. ingress = 0 /\ expired = 0 /\ overwritten = 0 /\ count = 0
  BY DEF Init
<1> QED BY <1>1, <1>2, <1>3, FS_EmptySet DEF CountInv, CountAccounts, EnvelopesConserved

LEMMA CountStep == TypeInv /\ IndexInv /\ ShapeInv /\ CountInv /\ [Next]_vars => CountInv'
<1> SUFFICES ASSUME TypeInv, IndexInv, ShapeInv, CountInv, [Next]_vars PROVE CountInv'
  OBVIOUS
<1>a. /\ tree \in [Storages -> SUBSET Nodes] /\ overwritten \in Nat /\ count \in Int
      /\ ingress \in Nat /\ expired \in Nat
  BY StoreAssumption DEF TypeInv, TypeOK
<1> DEFINE held == Cardinality(Held)
           loc == Cardinality(Locating)
<1>b. /\ IsFiniteSet(Held) /\ held \in Nat /\ IsFiniteSet(Locating) /\ loc \in Nat
      /\ count = held + overwritten
      /\ ingress = held + expired + overwritten + loc
  BY FS_CardinalityType, LocatingFinite DEF CountInv, CountAccounts, EnvelopesConserved
<1>1. ASSUME NEW w \in Writers, NEW s \in Sources, NEW ts \in Timestamps, PutLocate(w, s, ts)
      PROVE  CountInv'
  <2>1. UNCHANGED <<tree, count, expired, overwritten>> /\ ingress' = ingress + 1
    BY <1>1 DEF PutLocate, historyVars
  <2>2. Held' = Held
    BY <2>1 DEF Held
  <2>3. Cardinality(Locating') = loc + 1
    BY <1>1, <1>b, LocatingGains, FS_AddElement
  <2> QED BY <1>a, <1>b, <2>1, <2>2, <2>3 DEF CountInv, CountAccounts, EnvelopesConserved
<1>2. ASSUME NEW w \in Writers, InsertOrSwap(w) PROVE CountInv'
  <2> DEFINE t == writer[w].tree
             ev == Evictions(t)
             over == overwritten' - overwritten
  <2>1. t \in Storages /\ ev \in {0, 1} /\ over \in {0, 1} /\ overwritten' \in Nat
    BY <1>2, InsertSwaps DEF ShapeInv
  <2>2. PICK E, O, n : Swaps(tree, tree', t, E, ev, O, over, n)
    BY <1>2, InsertSwaps DEF ShapeInv
  <2>5. IsFiniteSet(HeldBy(tree, Storages))
    BY <1>b, HeldIsAll
  <2>6. ingress' = ingress /\ count' = count + 1 - ev /\ expired' = expired + ev
    BY <1>2, <1>a DEF InsertOrSwap, CountOfInsert, Evictions
  <2>7. overwritten' = overwritten + over
    <3>1. overwritten' \in Nat /\ overwritten \in Nat
      BY <1>a, <2>1
    <3>2. \A a, b \in Nat : a = b + (a - b)
      OBVIOUS
    <3> QED BY <3>1, <3>2
  <2>8. Cardinality(Locating') = loc - 1
    BY <1>2, <1>b, LocatingLoses, FS_RemoveElement
  <2> HIDE DEF t, ev, over
  <2>9. /\ IsFiniteSet(HeldBy(tree', Storages))
        /\ Cardinality(HeldBy(tree', Storages)) = Cardinality(HeldBy(tree, Storages)) - ev - over + 1
    <3>1. Storages \in SUBSET Storages
      OBVIOUS
    <3> QED BY <2>1, <2>2, <2>5, <3>1, HeldSwap
  <2>10. IsFiniteSet(Held') /\ Cardinality(Held') = held - ev - over + 1
    BY <2>9, HeldIsAll, HeldIsAll_
  <2> HIDE DEF held, loc
  <2>11. /\ count' = Cardinality(Held') + overwritten'
         /\ ingress' = Cardinality(Held') + expired' + overwritten' + Cardinality(Locating')
    BY <1>a, <1>b, <2>1, <2>6, <2>7, <2>8, <2>10
  <2> QED BY <2>10, <2>11 DEF CountInv, CountAccounts, EnvelopesConserved
<1>3. CASE TruncateRemove
  <2>1. PICK entry, oldest : RemovesAs(entry, oldest)
    BY <1>3, RemoveEffect
  <2> DEFINE t == entry.tree
  <2>2. t \in Storages /\ oldest \in tree[t] /\ tree' = [tree EXCEPT ![t] = tree[t] \ {oldest}]
    BY <2>1 DEF RemovesAs, Left
  <2>3. tree'[t] = tree[t] \ {oldest} /\ \A u \in Storages \ {t} : tree'[u] = tree[u]
    BY <1>a, <2>2
  <2>4. IsFiniteSet(HeldBy(tree, Storages))
    BY <1>b, HeldIsAll
  <2> HIDE DEF t
  <2>5. /\ IsFiniteSet(HeldBy(tree', Storages))
        /\ Cardinality(HeldBy(tree', Storages)) = Cardinality(HeldBy(tree, Storages)) - 1
    BY <2>2, <2>3, <2>4, HeldDrop, ZenonT(40)
  <2>6. IsFiniteSet(Held') /\ Cardinality(Held') = held - 1
    BY <2>5, HeldIsAll, HeldIsAll_
  <2>7. /\ count' = count - 1 /\ expired' = expired + 1
        /\ UNCHANGED <<ingress, writer, overwritten>>
    BY <1>3, RemoveEffect
  <2>8. Locating' = Locating
    BY <2>7 DEF Locating
  <2> QED BY <1>a, <1>b, <2>6, <2>7, <2>8 DEF CountInv, CountAccounts, EnvelopesConserved
<1>4. ASSUME UNCHANGED <<Uncounted, storageIndex, created, ingress>>,
             \A w \in Writers : writer[w].pc = "located" <=> writer'[w].pc = "located"
      PROVE  CountInv'
  <2>1. Held' = Held /\ Locating' = Locating
    BY <1>4 DEF Held, Locating, Uncounted
  <2> QED BY <1>4, <2>1 DEF CountInv, CountAccounts, EnvelopesConserved, Uncounted
<1> QED BY <1>1, <1>2, <1>3, <1>4, OtherSteps

LEMMA CountInvariance == Spec => []CountInv
  BY Invariance, ShapeInvariance, CountInit, CountStep, PTL DEF Spec

\* For any number of sources and goroutines: store.count is the number of nodes in
\* all trees and of envelopes overwritten under a fudged key, after every critical
\* section (insertOrSwap, removeOldestEnvelope).
THEOREM CountIsExact == Spec => []CountAccounts
<1>1. CountInv => CountAccounts
  BY DEF CountInv
<1> QED BY <1>1, CountInvariance, PTL

\* For any number of sources and goroutines: the ingress and expired metrics, the
\* trees, the overwritten envelopes and the Puts under way add up.
THEOREM EnvelopesAreConserved == Spec => []EnvelopesConserved
<1>1. CountInv => EnvelopesConserved
  BY DEF CountInv
<1> QED BY <1>1, CountInvariance, PTL

-----------------------------------------------------------------------------
(* OrphanLossBounded. *)

LocatedAt(t) == {w \in Locating : writer[w].tree = t}

LEMMA LocatedAtFinite ==
  ASSUME NEW t
  PROVE  /\ IsFiniteSet(LocatedAt(t)) /\ Cardinality(LocatedAt(t)) \in Nat
         /\ Cardinality(LocatedAt(t)) <= Cardinality(Writers) /\ Cardinality(Writers) \in Nat
<1>1. LocatedAt(t) \in SUBSET Writers
  BY DEF LocatedAt, Locating
<1> QED BY <1>1, FS_Subset, FS_CardinalityType, StoreAssumption

\* No step makes an orphan of a storage, except the removal that empties it; and an
\* orphan stays one.
LEMMA OrphansKept ==
  ASSUME TypeInv, IndexInv, [Next]_vars, ~TruncateRemove, NEW t \in Storages
  PROVE  Orphan(t)' <=> Orphan(t)
<1>a. /\ storageIndex \in [Sources -> Storages \cup {NoStorage}] /\ created \in Nat
      /\ NoStorage \notin Storages
  BY StoreAssumption DEF TypeInv, TypeOK, NoStorage, Storages
<1>1. CASE UNCHANGED <<storageIndex, created>>
  BY <1>1 DEF Orphan
<1>2. ASSUME NEW w \in Writers, NEW s \in Sources, NEW ts \in Timestamps, PutLocate(w, s, ts),
             ~Indexed(s)
      PROVE  Orphan(t)' <=> Orphan(t)
  <2>1. storageIndex' = [storageIndex EXCEPT ![s] = created + 1] /\ created' = created + 1
    BY <1>2 DEF PutLocate
  <2>2. storageIndex[s] # t /\ t \in Nat
    BY <1>2, <1>a, StoreAssumption DEF Indexed, Storages
  <2>3. CASE t = created + 1
    <3>1. storageIndex'[s] = t /\ t \notin 1..created
      BY <1>a, <2>1, <2>3
    <3> QED BY <3>1 DEF Orphan
  <2>4. CASE t # created + 1
    <3>1. t \in 1..created' <=> t \in 1..created
      BY <1>a, <2>1, <2>2, <2>4
    <3>2. \A r \in Sources : storageIndex'[r] = t <=> storageIndex[r] = t
      BY <1>a, <2>1, <2>2, <2>4
    <3> QED BY <3>1, <3>2 DEF Orphan
  <2> QED BY <2>3, <2>4
<1>3. ASSUME NEW w \in Writers, NEW s \in Sources, NEW ts \in Timestamps, PutLocate(w, s, ts)
      PROVE  Orphan(t)' <=> Orphan(t)
  BY <1>1, <1>2, <1>3 DEF PutLocate
<1>4. ASSUME NEW w \in Writers, InsertOrSwap(w) PROVE Orphan(t)' <=> Orphan(t)
  BY <1>1, <1>4 DEF InsertOrSwap
<1> QED BY <1>1, <1>3, <1>4, OtherSteps DEF Uncounted

LEMMA OrphansRemove ==
  ASSUME TypeInv, IndexInv, NEW entry, NEW oldest, RemovesAs(entry, oldest),
         created' = created, NEW t \in Storages
  PROVE  /\ Orphan(t) => Orphan(t)' /\ t # entry.tree
         /\ Orphan(t)' => Orphan(t) \/ (t = entry.tree /\ tree'[t] = {})
<1>a. /\ storageIndex \in [Sources -> Storages \cup {NoStorage}] /\ NoStorage \notin Storages
      /\ tree \in [Storages -> SUBSET Nodes]
  BY StoreAssumption DEF TypeInv, TypeOK, NoStorage, Storages
<1> DEFINE u == entry.tree
           nodes == tree[u] \ {oldest}
<1>1. /\ entry.source \in Sources /\ storageIndex[entry.source] = u /\ u \in Storages
      /\ storageIndex' = IF nodes = {} THEN [storageIndex EXCEPT ![entry.source] = NoStorage]
                                       ELSE storageIndex
      /\ tree' = [tree EXCEPT ![u] = nodes]
  BY DEF RemovesAs
<1>2. tree'[u] = nodes
  BY <1>a, <1>1
<1> HIDE DEF nodes
<1>3. \A r \in Sources : storageIndex'[r] \in {storageIndex[r], NoStorage}
  BY <1>a, <1>1
<1>4. \A r \in Sources : storageIndex'[r] # storageIndex[r] => r = entry.source /\ nodes = {}
  BY <1>a, <1>1
<1>5. ASSUME Orphan(t) PROVE Orphan(t)' /\ t # u
  BY <1>a, <1>1, <1>3, <1>5 DEF Orphan
<1>6. ASSUME Orphan(t)', ~Orphan(t) PROVE t = u /\ tree'[t] = {}
  <2>1. PICK r \in Sources : storageIndex[r] = t
    BY <1>6 DEF Orphan
  <2>2. storageIndex'[r] # t
    BY <1>6 DEF Orphan
  <2> QED BY <1>1, <1>2, <1>4, <2>1, <2>2
<1>7. Orphan(t) => Orphan(t)' /\ t # entry.tree
  BY <1>5
<1>8. Orphan(t)' => Orphan(t) \/ (t = entry.tree /\ tree'[t] = {})
  BY <1>6
<1> QED BY <1>7, <1>8

LEMMA OrphanStep == TypeInv /\ IndexInv /\ ShapeInv /\ OrphanLossBounded /\ [Next]_vars
                      => OrphanLossBounded'
<1> SUFFICES ASSUME TypeInv, IndexInv, ShapeInv, OrphanLossBounded, [Next]_vars,
                    NEW t \in Storages, Orphan(t)'
             PROVE  Cardinality(tree'[t]) + Cardinality(LocatedAt(t)') <= Cardinality(Writers)
  BY DEF OrphanLossBounded, LocatedAt
<1>a. /\ tree \in [Storages -> SUBSET Nodes] /\ writer \in [Writers -> WriterStates]
      /\ IsFiniteSet(tree[t]) /\ Cardinality(tree[t]) \in Nat
  BY FS_CardinalityType DEF TypeInv, TypeOK, ShapeInv, TreeInv
<1>b. /\ IsFiniteSet(LocatedAt(t)) /\ Cardinality(LocatedAt(t)) \in Nat
      /\ Cardinality(LocatedAt(t)) <= Cardinality(Writers) /\ Cardinality(Writers) \in Nat
  BY LocatedAtFinite
<1>c. Orphan(t) => Cardinality(tree[t]) + Cardinality(LocatedAt(t)) <= Cardinality(Writers)
  BY DEF OrphanLossBounded, LocatedAt
<1>1. ASSUME Orphan(t), tree'[t] = tree[t], LocatedAt(t)' = LocatedAt(t)
      PROVE  Cardinality(tree'[t]) + Cardinality(LocatedAt(t)') <= Cardinality(Writers)
  BY <1>c, <1>1
<1>2. ASSUME NEW w \in Writers, NEW s \in Sources, NEW ts \in Timestamps, PutLocate(w, s, ts)
      PROVE  Cardinality(tree'[t]) + Cardinality(LocatedAt(t)') <= Cardinality(Writers)
  <2>0. ~TruncateRemove
    BY <1>2, <1>a DEF PutLocate, TruncateRemove, TypeInv, TypeOK
  <2>1. Orphan(t) /\ tree' = tree
    BY <1>2, <2>0, OrphansKept DEF PutLocate
  <2>2. writer' = [writer EXCEPT ![w] = [pc |-> "located", tree |-> storageIndex'[s],
                                         timestamp |-> ts, oldest |-> 0]]
    BY <1>2 DEF PutLocate
  <2>3. storageIndex'[s] # t
    BY DEF Orphan
  <2>4. w \notin Locating /\ Locating' = Locating \cup {w}
    BY <1>2, LocatingGains
  <2>5. \A v \in Locating' : v # w => writer'[v] = writer[v]
    BY <1>a, <2>2 DEF Locating
  <2>6. writer'[w].tree # t
    BY <1>a, <2>2, <2>3
  <2>7. LocatedAt(t)' = LocatedAt(t)
    BY <2>4, <2>5, <2>6 DEF LocatedAt
  <2> QED BY <1>1, <2>1, <2>7
<1>3. ASSUME NEW w \in Writers, InsertOrSwap(w)
      PROVE  Cardinality(tree'[t]) + Cardinality(LocatedAt(t)') <= Cardinality(Writers)
  <2>0. ~TruncateRemove
    <3>1. CASE TruncateRemove
      <4>1. writer' = writer
        BY <3>1 DEF TruncateRemove
      <4>2. w \in Locating /\ w \notin Locating'
        BY <1>3, LocatingLoses
      <4> QED BY <4>1, <4>2 DEF Locating
    <3> QED BY <3>1
  <2>1. Orphan(t)
    BY <2>0, OrphansKept
  <2> DEFINE u == writer[w].tree
             ev == Evictions(u)
             over == overwritten' - overwritten
  <2>2. u \in Storages /\ ev \in {0, 1} /\ over \in {0, 1}
    BY <1>3, InsertSwaps DEF ShapeInv
  <2>3. PICK E, O, n : Swaps(tree, tree', u, E, ev, O, over, n)
    BY <1>3, InsertSwaps DEF ShapeInv
  <2>4. w \in Locating /\ Locating' = Locating \ {w} /\ \A v \in Locating' : writer'[v] = writer[v]
    BY <1>3, LocatingLoses
  <2> HIDE DEF ev, over
  <2>5. CASE u # t
    <3>1. tree'[t] = tree[t]
      BY <2>3, <2>5 DEF Swaps
    <3>2. LocatedAt(t)' = LocatedAt(t)
      BY <2>4, <2>5 DEF LocatedAt
    <3> QED BY <1>1, <2>1, <3>1, <3>2
  <2>6. CASE u = t
    <3>1. Cardinality(tree'[t]) = Cardinality(tree[t]) - ev - over + 1
      <4> DEFINE A == tree[t]
      <4>1. /\ Loses(A, E, ev) /\ Loses(A \ E, O, over) /\ n \notin (A \ E) \ O
            /\ tree'[t] = ((A \ E) \ O) \cup {n} /\ IsFiniteSet(A)
        BY <1>a, <2>3, <2>6 DEF Swaps
      <4> HIDE DEF A, u
      <4>2. Cardinality(((A \ E) \ O) \cup {n}) = Cardinality(A) - ev - over + 1
        <5>1. IsFiniteSet(A \ E) /\ Cardinality(A \ E) = Cardinality(A) - ev
          BY <4>1, CardLoses, Zenon
        <5>2. IsFiniteSet((A \ E) \ O) /\ Cardinality((A \ E) \ O) = Cardinality(A \ E) - over
          BY <4>1, <5>1, CardLoses, Zenon
        <5>3. Cardinality(((A \ E) \ O) \cup {n}) = Cardinality((A \ E) \ O) + 1
          BY <4>1, <5>2, FS_AddElement, Zenon
        <5> QED BY <5>1, <5>2, <5>3, Zenon
      <4> QED BY <4>1, <4>2 DEF A
    <3>2. w \in LocatedAt(t) /\ LocatedAt(t)' = LocatedAt(t) \ {w}
      BY <2>4, <2>6 DEF LocatedAt
    <3>3. Cardinality(LocatedAt(t)') = Cardinality(LocatedAt(t)) - 1
      BY <1>b, <3>2, FS_RemoveElement
    <3> QED BY <1>a, <1>b, <1>c, <2>1, <2>2, <3>1, <3>3
  <2> QED BY <2>5, <2>6
<1>4. CASE TruncateRemove
  <2>1. PICK entry, oldest : RemovesAs(entry, oldest)
    BY <1>4, RemoveEffect
  <2>2. UNCHANGED <<created, writer>>
    BY <1>4, RemoveEffect
  <2>3. LocatedAt(t)' = LocatedAt(t)
    BY <2>2 DEF LocatedAt, Locating
  <2>4. CASE t = entry.tree /\ tree'[t] = {}
    BY <1>b, <2>3, <2>4, FS_EmptySet
  <2>5. CASE Orphan(t)
    <3>1. t # entry.tree
      BY <2>1, <2>2, <2>5, OrphansRemove
    <3>2. tree'[t] = tree[t]
      BY <1>a, <2>1, <3>1 DEF RemovesAs
    <3> QED BY <1>1, <2>3, <2>5, <3>2
  <2> QED BY <2>1, <2>2, <2>4, <2>5, OrphansRemove
<1>5. ASSUME UNCHANGED <<Uncounted, storageIndex, created, ingress>>,
             \A w \in Writers : writer[w].pc = "located" <=> writer'[w].pc = "located",
             \A w \in Writers : writer'[w].pc = "located" => writer'[w] = writer[w]
      PROVE  Cardinality(tree'[t]) + Cardinality(LocatedAt(t)') <= Cardinality(Writers)
  <2>1. Orphan(t) /\ tree' = tree
    BY <1>5 DEF Orphan, Uncounted
  <2>2. LocatedAt(t)' = LocatedAt(t)
    BY <1>5 DEF LocatedAt, Locating
  <2> QED BY <1>1, <2>1, <2>2
<1> QED BY <1>2, <1>3, <1>4, <1>5, OtherSteps

\* For any number of sources and goroutines: a storage that truncation emptied under
\* a Put that had already found it holds no more envelopes than there are Puts that
\* can have found it (getOrInitializeStorage, removeOldestEnvelope).
THEOREM OrphanLossIsBounded == Spec => []OrphanLossBounded
<1>1. Init => OrphanLossBounded
  BY DEF Init, OrphanLossBounded, Orphan
<1> QED BY <1>1, Invariance, ShapeInvariance, OrphanStep, PTL DEF Spec

-----------------------------------------------------------------------------
(* What a truncation still has before it. *)

\* The sources that truncate's heap has, or that Range has still to visit, and
\* their storages.
HeapSources == {e.source : e \in truncator.heap}
Awaiting == truncator.todo \cup HeapSources
PruneSet == {storageIndex[s] : s \in Awaiting}

\* Nobody but the removal loop takes a source out of the index, so that Range
\* finds every source it began with.
TodoInv ==
  /\ truncator.todo \subseteq IndexedSources
  /\ truncator.pc # "build" => truncator.todo = {}

LEMMA TodoStep == TypeInv /\ IndexInv /\ TodoInv /\ [Next]_vars => TodoInv'
<1> SUFFICES ASSUME TypeInv, IndexInv, TodoInv, [Next]_vars PROVE TodoInv'
  OBVIOUS
<1>a. /\ storageIndex \in [Sources -> Storages \cup {NoStorage}] /\ created \in Nat
      /\ truncator.todo \subseteq IndexedSources
      /\ truncator.pc # "build" => truncator.todo = {}
  BY DEF TypeInv, TypeOK, TodoInv
<1>1. ASSUME truncator' = truncator, \A s \in Sources : Indexed(s) => storageIndex'[s] # NoStorage
      PROVE  TodoInv'
  <2>1. truncator'.todo \subseteq IndexedSources'
    BY <1>1, <1>a DEF IndexedSources, Indexed
  <2> QED BY <1>1, <1>a, <2>1 DEF TodoInv
<1>2. ASSUME truncator' = truncator, storageIndex' = storageIndex PROVE TodoInv'
  BY <1>1, <1>2 DEF Indexed
<1>3. ASSUME NEW w \in Writers, NEW s \in Sources, NEW ts \in Timestamps, PutLocate(w, s, ts)
      PROVE  TodoInv'
  <2>1. truncator' = truncator
    BY <1>3 DEF PutLocate
  <2>2. \/ storageIndex' = storageIndex
        \/ storageIndex' = [storageIndex EXCEPT ![s] = created + 1]
    BY <1>3 DEF PutLocate
  <2>3. \A r \in Sources : Indexed(r) => storageIndex'[r] # NoStorage
    BY <1>a, <2>2 DEF Indexed, NoStorage
  <2> QED BY <1>1, <2>1, <2>3
<1>4. ASSUME NEW w \in Writers, PutStep(w) PROVE TodoInv'
  BY <1>2, <1>4 DEF PutStep, InsertOrSwap, LoadOldest, PublishOldest, storeVars
<1>5. CASE TruncateBegin
  <2>1. storageIndex' = storageIndex
    BY <1>5 DEF TruncateBegin, storeVars
  <2>2. PICK quantity : BeginPruning(quantity)
    BY <1>5 DEF TruncateBegin
  <2>3. CASE truncator' = truncator
    BY <1>2, <2>1, <2>3
  <2>4. CASE truncator'.pc = "build" /\ truncator'.todo = IndexedSources
    <3>1. IndexedSources' = IndexedSources
      BY <2>1 DEF IndexedSources, Indexed
    <3> QED BY <2>4, <3>1 DEF TodoInv
  <2> QED BY <2>2, <2>3, <2>4 DEF BeginPruning
<1>6. ASSUME NEW s \in Sources, BuildHeapVisit(s) PROVE TodoInv'
  <2>1. storageIndex' = storageIndex
    BY <1>6 DEF BuildHeapVisit, storeVars
  <2>2. CASE truncator' = truncator
    BY <1>2, <2>1, <2>2
  <2>3. CASE truncator'.pc = "build" /\ truncator'.todo = truncator.todo \ {s}
    <3>1. IndexedSources' = IndexedSources
      BY <2>1 DEF IndexedSources, Indexed
    <3> QED BY <1>a, <2>3, <3>1 DEF TodoInv
  <2> QED BY <1>6, <2>2, <2>3 DEF BuildHeapVisit
<1>7. CASE BuildHeapDone \/ TruncateEnd
  <2>1. truncator'.todo = {}
    BY <1>7 DEF BuildHeapDone, TruncateEnd, Removing, IdleTruncator
  <2> QED BY <2>1 DEF TodoInv
<1>8. CASE TruncateRemove
  <2>1. PICK entry, oldest : RemovesAs(entry, oldest)
    BY <1>8, RemoveEffect
  <2>2. truncator'.todo = {}
    BY <2>1 DEF RemovesAs, Removing
  <2> QED BY <2>2 DEF TodoInv
<1>9. CASE TruncatePanic
  BY <1>2, <1>9 DEF TruncatePanic, storeVars
<1>10. ASSUME NEW r \in MetaReaders, MetaBegin(r) \/ MetaStep(r) PROVE TodoInv'
  BY <1>2, <1>10 DEF MetaBegin, MetaStep, MetaRange, MetaLoad, MetaRangeDone, MetaReturn,
     storeVars
<1>11. CASE UNCHANGED vars
  BY <1>2, <1>11 DEF vars, storeVars, threadVars
<1> QED
  BY <1>3, <1>4, <1>5, <1>6, <1>7, <1>8, <1>9, <1>10, <1>11 DEF Next, TruncateStep

LEMMA TodoInvariance == Spec => []TodoInv
<1>1. Init => TodoInv
  BY DEF Init, TodoInv, IdleTruncator
<1> QED BY <1>1, Invariance, TodoStep, PTL DEF Spec

LEMMA AwaitingIsIndexed ==
  ASSUME TypeInv, IndexInv, TodoInv
  PROVE  /\ \A s \in Awaiting : s \in Sources /\ Indexed(s)
         /\ PruneSet \in SUBSET Storages
<1>a. /\ storageIndex \in [Sources -> Storages \cup {NoStorage}]
      /\ truncator.heap \subseteq HeapEntries /\ NoStorage \notin Storages
  BY DEF TypeInv, TypeOK, TruncatorStates, NoStorage, Storages
<1>1. ASSUME NEW s \in truncator.todo PROVE s \in Sources /\ Indexed(s)
  BY DEF TodoInv, IndexedSources
<1>2. ASSUME NEW e \in truncator.heap PROVE e.source \in Sources /\ Indexed(e.source)
  <2>1. e.source \in Sources /\ e.tree \in Storages /\ storageIndex[e.source] = e.tree
    BY <1>a DEF HeapEntries, IndexInv, HeapEntriesIndexed
  <2> QED BY <1>a, <2>1 DEF Indexed
<1>3. \A s \in Awaiting : s \in Sources /\ Indexed(s)
  BY <1>1, <1>2 DEF Awaiting, HeapSources
<1> QED BY <1>a, <1>3 DEF PruneSet, Indexed

-----------------------------------------------------------------------------
(* HeapPopNeedsLeak. *)

\* count is larger than the number of envelopes that truncation can reach.
Leak == overwritten > 0 \/ \E t \in Storages : Orphan(t) /\ tree[t] # {}

\* Unless there is a leak, the heap and the sources still to visit hold enough
\* envelopes for what remains to be removed.
LeakInv ==
  /\ truncator.pc # "idle" /\ ~Leak
       => truncator.remaining <= Cardinality(HeldBy(tree, PruneSet))
  /\ HeapPopNeedsLeak

\* A leak is for ever: an orphan stays one, and nothing is removed from it.
LEMMA LeakStays == ASSUME TypeInv, IndexInv, ShapeInv, [Next]_vars, Leak PROVE Leak'
<1>a. tree \in [Storages -> SUBSET Nodes] /\ overwritten \in Nat
  BY DEF TypeInv, TypeOK
<1>1. overwritten' \in Nat /\ overwritten' >= overwritten
  <2>1. ASSUME NEW w \in Writers, InsertOrSwap(w)
        PROVE  overwritten' \in Nat /\ overwritten' >= overwritten
    BY <1>a, <2>1, InsertEffect DEF ShapeInv
  <2>2. ASSUME NEW w \in Writers, NEW s \in Sources, NEW ts \in Timestamps, PutLocate(w, s, ts)
        PROVE  overwritten' = overwritten
    BY <2>2 DEF PutLocate, historyVars
  <2>3. CASE TruncateRemove
    BY <1>a, <2>3, RemoveEffect
  <2> QED BY <1>a, <2>1, <2>2, <2>3, OtherSteps DEF Uncounted
<1>2. ASSUME NEW t \in Storages, Orphan(t), tree[t] # {}
      PROVE  Orphan(t)' /\ tree'[t] # {}
  <2>1. CASE TruncateRemove
    <3>1. PICK entry, oldest : RemovesAs(entry, oldest)
      BY <2>1, RemoveEffect
    <3>2. created' = created
      BY <2>1, RemoveEffect
    <3>3. Orphan(t)' /\ t # entry.tree
      BY <1>2, <3>1, <3>2, OrphansRemove
    <3>4. tree'[t] = tree[t]
      BY <1>a, <3>1, <3>3 DEF RemovesAs
    <3> QED BY <1>2, <3>3, <3>4
  <2>2. CASE ~TruncateRemove
    <3>1. Orphan(t)'
      BY <1>2, <2>2, OrphansKept
    <3>2. ASSUME NEW w \in Writers, InsertOrSwap(w) PROVE tree'[t] # {}
      <4>1. PICK E, O, n : Swaps(tree, tree', writer[w].tree, E, Evictions(writer[w].tree),
                                 O, overwritten' - overwritten, n)
        BY <3>2, InsertSwaps DEF ShapeInv
      <4> QED BY <1>2, <4>1 DEF Swaps
    <3>3. ASSUME NEW w \in Writers, NEW s \in Sources, NEW ts \in Timestamps, PutLocate(w, s, ts)
          PROVE  tree'[t] # {}
      BY <1>2, <3>3 DEF PutLocate
    <3>4. tree'[t] # {}
      BY <1>2, <2>2, <3>2, <3>3, OtherSteps DEF Uncounted
    <3> QED BY <3>1, <3>4
  <2> QED BY <2>1, <2>2
<1>3. CASE overwritten > 0
  BY <1>a, <1>1, <1>3 DEF Leak
<1>4. CASE \E t \in Storages : Orphan(t) /\ tree[t] # {}
  BY <1>2, <1>4 DEF Leak
<1> QED BY <1>3, <1>4 DEF Leak

\* The nodes in some of the trees, when nothing is removed from those trees.
LEMMA HeldFinite ==
  ASSUME CountInv, NEW T
  PROVE  IsFiniteSet(HeldBy(tree, T)) /\ Cardinality(HeldBy(tree, T)) \in Nat
<1>1. IsFiniteSet(Held) /\ HeldBy(tree, T) \in SUBSET Held
  BY DEF CountInv, HeldBy, Held
<1> QED BY <1>1, FS_Subset, FS_CardinalityType

LEMMA HeldGrows ==
  ASSUME CountInv, NEW S, NEW T, S \subseteq T
  PROVE  Cardinality(HeldBy(tree, S)) <= Cardinality(HeldBy(tree, T))
<1>1. HeldBy(tree, S) \in SUBSET HeldBy(tree, T)
  BY DEF HeldBy
<1> QED BY <1>1, HeldFinite, FS_Subset

\* Without a leak, every envelope that count counts is in an indexed tree.
LEMMA IndexReachesAll ==
  ASSUME TypeInv, IndexInv, CountInv, ~Leak
  PROVE  count = Cardinality(HeldBy(tree, {storageIndex[s] : s \in IndexedSources}))
<1> DEFINE T == {storageIndex[s] : s \in IndexedSources}
<1>a. /\ overwritten \in Nat /\ created \in Nat /\ NoStorage \notin Storages /\ Storages \subseteq Nat
      /\ storageIndex \in [Sources -> Storages \cup {NoStorage}]
  BY StoreAssumption DEF TypeInv, TypeOK, NoStorage, Storages
<1>1. overwritten = 0 /\ count = Cardinality(Held) + overwritten
  BY <1>a DEF Leak, CountInv, CountAccounts
<1>2. ASSUME NEW u \in Storages, tree[u] # {} PROVE u \in T
  <2>1. ~(u > created)
    BY <1>2 DEF IndexInv
  <2>2. u \in 1..created
    BY <1>a, <2>1 DEF Storages
  <2>3. ~Orphan(u)
    BY <1>2 DEF Leak
  <2>4. PICK s \in Sources : storageIndex[s] = u
    BY <2>2, <2>3 DEF Orphan
  <2> QED BY <1>a, <2>4 DEF IndexedSources, Indexed
<1>3. HeldBy(tree, T) = Held
  <2>1. T \in SUBSET Storages /\ Storages \in SUBSET Storages
    BY <1>a DEF IndexedSources, Indexed
  <2> HIDE DEF T
  <2>2. ASSUME NEW p PROVE p \in HeldBy(tree, T) <=> p \in HeldBy(tree, Storages)
    BY <1>2, <2>1, HeldMember
  <2>3. HeldBy(tree, T) = HeldBy(tree, Storages)
    BY <2>2 DEF HeldBy
  <2> QED BY <2>3, HeldIsAll
<1>4. Cardinality(Held) \in Nat
  BY FS_CardinalityType DEF CountInv
<1> QED BY <1>1, <1>3, <1>4

LEMMA LeakStep ==
  TypeInv /\ IndexInv /\ ShapeInv /\ CountInv /\ TodoInv /\ LeakInv /\ [Next]_vars => LeakInv'
<1> SUFFICES ASSUME TypeInv, IndexInv, ShapeInv, CountInv, TodoInv, LeakInv, [Next]_vars, ~Leak'
             PROVE  /\ truncator'.pc # "idle" =>
                         truncator'.remaining <= Cardinality(HeldBy(tree', PruneSet'))
                    /\ panicked' # "heap.Pop"
  BY DEF LeakInv, HeapPopNeedsLeak, Leak
<1> DEFINE Goal == /\ truncator'.pc # "idle" =>
                        truncator'.remaining <= Cardinality(HeldBy(tree', PruneSet'))
                   /\ panicked' # "heap.Pop"
           held == Cardinality(HeldBy(tree, PruneSet))
<1>a. /\ tree \in [Storages -> SUBSET Nodes] /\ overwritten \in Nat /\ count \in Int
      /\ storageIndex \in [Sources -> Storages \cup {NoStorage}] /\ truncator.remaining \in Int
      /\ NoStorage \notin Storages
  BY DEF TypeInv, TypeOK, TruncatorStates, NoStorage, Storages
<1>b. /\ ~Leak /\ panicked # "heap.Pop"
      /\ truncator.pc # "idle" => truncator.remaining <= held
  BY LeakStays DEF LeakInv, HeapPopNeedsLeak, Leak
<1>c. /\ \A s \in Awaiting : s \in Sources /\ Indexed(s)
      /\ PruneSet \in SUBSET Storages
  BY AwaitingIsIndexed
<1>d. IsFiniteSet(HeldBy(tree, PruneSet)) /\ held \in Nat
  BY HeldFinite
<1>1. ASSUME truncator' = truncator, panicked' # "heap.Pop",
             \A s \in Awaiting : storageIndex'[s] = storageIndex[s],
             HeldBy(tree', PruneSet) = HeldBy(tree, PruneSet)
      PROVE  Goal
  <2>1. PruneSet' = PruneSet
    BY <1>1 DEF PruneSet, Awaiting, HeapSources
  <2> QED BY <1>1, <1>b, <2>1
<1>2. ASSUME UNCHANGED <<truncator, storageIndex, tree>>, panicked' # "heap.Pop" PROVE Goal
  BY <1>1, <1>2
<1>3. ASSUME NEW w \in Writers, NEW s \in Sources, NEW ts \in Timestamps, PutLocate(w, s, ts)
      PROVE  Goal
  <2>1. UNCHANGED <<truncator, tree, panicked>>
    BY <1>3 DEF PutLocate
  <2>2. \/ storageIndex' = storageIndex
        \/ ~Indexed(s) /\ storageIndex' = [storageIndex EXCEPT ![s] = created + 1]
    BY <1>3 DEF PutLocate
  <2>3. \A r \in Awaiting : storageIndex'[r] = storageIndex[r]
    BY <1>a, <1>c, <2>2
  <2> QED BY <1>1, <1>b, <2>1, <2>3
<1>4. ASSUME NEW w \in Writers, InsertOrSwap(w) PROVE Goal
  <2> DEFINE t == writer[w].tree
             ev == Evictions(t)
             over == overwritten' - overwritten
  <2>1. t \in Storages /\ ev \in {0, 1} /\ over \in {0, 1} /\ overwritten' \in Nat
    BY <1>4, InsertSwaps DEF ShapeInv
  <2>2. PICK E, O, n : Swaps(tree, tree', t, E, ev, O, over, n)
    BY <1>4, InsertSwaps DEF ShapeInv
  <2>3. UNCHANGED <<truncator, storageIndex, panicked>>
    BY <1>4 DEF InsertOrSwap
  <2>4. over = 0
    <3>1. overwritten' = 0 /\ overwritten = 0
      BY <1>a, <1>b, <2>1 DEF Leak
    <3> QED BY <3>1
  <2>5. PruneSet' = PruneSet
    BY <2>3 DEF PruneSet, Awaiting, HeapSources
  <2>6. CASE t \in PruneSet
    <3> HIDE DEF t, ev, over
    <3>1. Cardinality(HeldBy(tree', PruneSet)) = Cardinality(HeldBy(tree, PruneSet)) - ev - over + 1
      BY <1>c, <1>d, <2>2, <2>6, HeldSwap
    <3>2. Cardinality(HeldBy(tree', PruneSet)) = held - ev + 1
      BY <1>d, <2>1, <2>4, <3>1
    <3> HIDE DEF held
    <3>3. truncator.pc # "idle" => truncator.remaining <= held - ev + 1
      BY <1>a, <1>b, <1>d, <2>1
    <3> QED BY <1>b, <2>3, <2>5, <3>2, <3>3
  <2>7. CASE t \notin PruneSet
    <3>1. \A u \in PruneSet : tree'[u] = tree[u]
      BY <1>c, <2>2, <2>7 DEF Swaps
    <3>2. HeldBy(tree', PruneSet) = HeldBy(tree, PruneSet)
      BY <1>c, <3>1, HeldSame
    <3> QED BY <1>1, <1>b, <2>3, <3>2
  <2> QED BY <2>6, <2>7
<1>5. ASSUME NEW w \in Writers, PublishOldest(w) PROVE Goal
  BY <1>2, <1>b, <1>5 DEF PublishOldest
<1>l. ASSUME NEW w \in Writers, LoadOldest(w) PROVE Goal
  BY <1>2, <1>b, <1>l DEF LoadOldest, storeVars
<1>6. CASE TruncateBegin
  <2>1. UNCHANGED <<storageIndex, tree, panicked>>
    BY <1>6 DEF TruncateBegin, storeVars
  <2>2. PICK m \in Memories : \E quantity \in QuantityToPrune(m, count) : BeginPruning(quantity)
    BY <1>6 DEF TruncateBegin
  <2>3. PICK quantity \in QuantityToPrune(m, count) : BeginPruning(quantity)
    BY <2>2
  <2>4. quantity \in Int
    BY <1>a, <2>3, QuantityIsInteger
  <2>5. CASE truncator' = truncator
    BY <1>2, <1>b, <2>1, <2>5
  <2>6. CASE truncator' = [pc |-> "build", todo |-> IndexedSources, heap |-> {},
                           remaining |-> IF quantity > count THEN count ELSE quantity]
    <3>1. truncator'.remaining <= count
      BY <1>a, <2>4, <2>6
    <3>2. Awaiting' = IndexedSources
      BY <2>6 DEF Awaiting, HeapSources
    <3>3. PruneSet' = {storageIndex[s] : s \in IndexedSources}
      BY <2>1, <3>2 DEF PruneSet
    <3>4. count = Cardinality(HeldBy(tree', PruneSet'))
      BY <1>b, <2>1, <3>3, IndexReachesAll
    <3> QED BY <1>b, <2>1, <3>1, <3>4
  <2> QED BY <2>3, <2>5, <2>6 DEF BeginPruning
<1>7. ASSUME NEW s \in Sources, BuildHeapVisit(s) PROVE Goal
  <2>1. UNCHANGED <<storageIndex, tree>> /\ panicked' # "heap.Pop" /\ truncator.pc = "build"
    BY <1>7, <1>b DEF BuildHeapVisit, storeVars
  <2>2. CASE truncator' = truncator
    BY <1>2, <2>1, <2>2
  <2>3. ASSUME NEW e, e.source = s, truncator'.todo = truncator.todo \ {s},
               truncator'.heap = truncator.heap \cup {e},
               truncator'.remaining = truncator.remaining
        PROVE  Goal
    <3>1. Awaiting \subseteq Awaiting'
      BY <2>3 DEF Awaiting, HeapSources
    <3>2. PruneSet \subseteq PruneSet'
      BY <2>1, <3>1 DEF PruneSet
    <3>3. held <= Cardinality(HeldBy(tree, PruneSet')) /\ Cardinality(HeldBy(tree, PruneSet')) \in Nat
      BY <3>2, HeldGrows, HeldFinite
    <3>4. truncator.remaining <= held
      BY <1>b, <2>1
    <3> HIDE DEF held
    <3>5. truncator.remaining <= Cardinality(HeldBy(tree, PruneSet'))
      BY <1>a, <1>d, <3>3, <3>4
    <3> QED BY <2>1, <2>3, <3>5
  <2>4. ASSUME NEW e, e.source = s,
               truncator' = [pc |-> "build", todo |-> truncator.todo \ {s},
                             heap |-> truncator.heap \cup {e},
                             remaining |-> truncator.remaining]
        PROVE  Goal
    BY <2>3, <2>4
  <2>5. ASSUME NEW oldest,
               truncator' =
                 [pc |-> "build", todo |-> truncator.todo \ {s},
                  heap |-> truncator.heap \cup
                             {[timestamp |-> oldest.key, source |-> s, tree |-> storageIndex[s]]},
                  remaining |-> truncator.remaining]
        PROVE  Goal
    <3> DEFINE e == [timestamp |-> oldest.key, source |-> s, tree |-> storageIndex[s]]
    <3>1. e.source = s
      OBVIOUS
    <3> HIDE DEF Goal
    <3> QED BY <2>4, <2>5, <3>1
  <2> HIDE DEF Goal
  <2> QED BY <1>7, <2>2, <2>5 DEF BuildHeapVisit
<1>8. CASE BuildHeapDone
  <2>1. UNCHANGED <<storageIndex, tree, panicked>> /\ truncator.todo = {}
    BY <1>8 DEF BuildHeapDone, storeVars
  <2>2. /\ truncator'.todo = {} /\ truncator'.heap = truncator.heap
        /\ truncator'.remaining = truncator.remaining /\ truncator.pc # "idle"
    BY <1>8 DEF BuildHeapDone, Removing
  <2>3. PruneSet' = PruneSet
    BY <2>1, <2>2 DEF PruneSet, Awaiting, HeapSources
  <2> QED BY <1>b, <2>1, <2>2, <2>3
<1>9. CASE TruncateRemove
  <2>1. PICK entry, oldest : RemovesAs(entry, oldest)
    BY <1>9, RemoveEffect
  <2> DEFINE t == entry.tree
             rest == truncator.heap \ {entry}
  <2>2. /\ entry \in truncator.heap /\ t \in Storages /\ oldest \in tree[t]
        /\ entry.source \in Sources /\ storageIndex[entry.source] = t
        /\ tree' = [tree EXCEPT ![t] = tree[t] \ {oldest}]
        /\ storageIndex' = IF tree[t] \ {oldest} = {}
                             THEN [storageIndex EXCEPT ![entry.source] = NoStorage]
                             ELSE storageIndex
    BY <2>1 DEF RemovesAs, Left, HeapMin
  <2>3. /\ truncator'.remaining = truncator.remaining - 1 /\ truncator'.todo = {}
        /\ \/ tree[t] \ {oldest} = {} /\ truncator'.heap = rest
           \/ /\ tree[t] \ {oldest} # {}
              /\ \E key : truncator'.heap = rest \cup PushBack(entry, key)
    BY <2>1 DEF RemovesAs, Removing, Left
  <2>4. panicked' = panicked /\ truncator.pc = "remove" /\ truncator.todo = {}
    BY <1>9 DEF TruncateRemove, TodoInv
  <2>5. \A e \in rest : e.source # entry.source
    BY <2>2 DEF IndexInv, HeapEntriesIndexed
  <2>6. Awaiting = HeapSources /\ entry.source \in Awaiting /\ t \in PruneSet
    BY <2>2, <2>4 DEF Awaiting, HeapSources, PruneSet
  <2>7. tree'[t] = tree[t] \ {oldest} /\ \A u \in PruneSet \ {t} : tree'[u] = tree[u]
    BY <1>a, <1>c, <2>2
  <2>8. /\ IsFiniteSet(HeldBy(tree', PruneSet))
        /\ Cardinality(HeldBy(tree', PruneSet)) = held - 1
    <3> HIDE DEF t
    <3>1. PruneSet \in SUBSET Storages /\ t \in PruneSet /\ oldest \in tree[t]
      BY <1>c, <2>2, <2>6
    <3>2. IsFiniteSet(HeldBy(tree, PruneSet)) /\ held = Cardinality(HeldBy(tree, PruneSet))
      BY <1>d
    <3>3. /\ IsFiniteSet(HeldBy(tree', PruneSet))
          /\ Cardinality(HeldBy(tree', PruneSet)) = Cardinality(HeldBy(tree, PruneSet)) - 1
      BY <2>7, <3>1, <3>2, HeldDrop, ZenonT(40)
    <3> QED BY <3>2, <3>3
  <2>9. HeldBy(tree', PruneSet') = HeldBy(tree', PruneSet)
    <3>1. CASE tree[t] \ {oldest} = {}
      <4>1. Awaiting' = Awaiting \ {entry.source}
        BY <2>2, <2>3, <2>5, <2>6, <3>1 DEF Awaiting, HeapSources
      <4>2. \A s \in Awaiting' : storageIndex'[s] = storageIndex[s]
        BY <1>a, <1>c, <2>2, <4>1
      <4>3. \A s \in Awaiting' : storageIndex[s] # t
        BY <1>c, <2>2, <4>1 DEF IndexInv
      <4>4. PruneSet' = PruneSet \ {t}
        BY <2>2, <2>6, <4>1, <4>2, <4>3 DEF PruneSet
      <4>5. tree'[t] = {} /\ PruneSet' \in SUBSET Storages
        BY <1>c, <2>7, <3>1, <4>4
      <4>6. ASSUME NEW p PROVE p \in HeldBy(tree', PruneSet') <=> p \in HeldBy(tree', PruneSet)
        <5>1. p \in HeldBy(tree', PruneSet') <=> \E u \in PruneSet' : \E x \in tree'[u] : p = <<u, x>>
          BY <4>5, HeldMember
        <5>2. p \in HeldBy(tree', PruneSet) <=> \E u \in PruneSet : \E x \in tree'[u] : p = <<u, x>>
          BY <1>c, HeldMember
        <5> QED BY <4>4, <4>5, <5>1, <5>2
      <4> QED BY <4>6 DEF HeldBy
    <3>2. CASE tree[t] \ {oldest} # {}
      <4>1. PICK key : truncator'.heap = rest \cup PushBack(entry, key)
        BY <2>3, <3>2
      <4> DEFINE back == [timestamp |-> key, source |-> entry.source, tree |-> entry.tree]
      <4>a. truncator'.heap = rest \cup {back} /\ back.source = entry.source
        BY <4>1 DEF PushBack
      <4> HIDE DEF back
      <4>b. HeapSources' = HeapSources
        BY <2>2, <4>a DEF HeapSources
      <4>2. Awaiting' = Awaiting
        BY <2>3, <2>6, <4>b DEF Awaiting
      <4>3. PruneSet' = PruneSet
        BY <2>2, <3>2, <4>2 DEF PruneSet
      <4> QED BY <4>3
    <3> QED BY <3>1, <3>2
  <2>10. truncator.remaining <= held
    BY <1>b, <2>4
  <2> HIDE DEF held
  <2>11. truncator'.remaining <= Cardinality(HeldBy(tree', PruneSet'))
    BY <1>a, <1>d, <2>3, <2>8, <2>9, <2>10
  <2> QED BY <1>b, <2>4, <2>11
<1>10. CASE TruncatePanic
  <2>1. /\ truncator.pc = "remove" /\ truncator.remaining > 0 /\ truncator.heap = {}
        /\ truncator.todo = {}
    BY <1>10 DEF TruncatePanic, TodoInv
  <2>2. PruneSet = {}
    BY <2>1 DEF PruneSet, Awaiting, HeapSources
  <2>3. HeldBy(tree, PruneSet) = {}
    BY <2>2 DEF HeldBy
  <2>4. held = 0
    BY <2>3, FS_EmptySet
  <2> QED BY <1>a, <1>b, <2>1, <2>4
<1>11. CASE TruncateEnd
  BY <1>11, <1>b DEF TruncateEnd, IdleTruncator
<1>12. ASSUME NEW r \in MetaReaders, MetaBegin(r) \/ MetaStep(r) PROVE Goal
  BY <1>2, <1>b, <1>12 DEF MetaBegin, MetaStep, MetaRange, MetaLoad, MetaRangeDone, MetaReturn,
     storeVars
<1>13. CASE UNCHANGED vars
  BY <1>2, <1>b, <1>13 DEF vars, storeVars, threadVars
<1> QED
  BY <1>l, <1>3, <1>4, <1>5, <1>6, <1>7, <1>8, <1>9, <1>10, <1>11, <1>12, <1>13
     DEF Next, PutStep, TruncateStep

\* For any number of sources and goroutines: truncate pops an empty heap, and
\* crashes the process, only if count was too large before, because of envelopes
\* stranded in an orphan storage or overwritten under a fudged key.
THEOREM PopNeedsLeak == Spec => []HeapPopNeedsLeak
<1>1. Init => LeakInv
  BY DEF Init, LeakInv, HeapPopNeedsLeak, IdleTruncator
<1>2. LeakInv => HeapPopNeedsLeak
  BY DEF LeakInv
<1> QED
  BY <1>1, <1>2, Invariance, ShapeInvariance, CountInvariance, TodoInvariance, LeakStep, PTL
     DEF Spec

-----------------------------------------------------------------------------
(* OldestRemovedFirst. *)

\* The timestamp of a heap entry is the least key of its storage.
Current(e) == /\ e.timestamp \in Keys(tree[e.tree])
              /\ \A n \in tree[e.tree] : e.timestamp <= n.key

\* While no Put has disturbed a truncation, the entries of the heap are up to date,
\* and no source that has envelopes is missing.
OrderInv ==
  truncator.pc # "idle" /\ ~disturbed =>
    /\ \A e \in truncator.heap : Current(e)
    /\ \A s \in Sources : Indexed(s) /\ tree[storageIndex[s]] # {} => s \in Awaiting

\* A key that Left finds is the least one.
LEMMA LeftIsCurrent ==
  ASSUME NEW nodes \in SUBSET Nodes, NEW left \in Left(nodes)
  PROVE  left.key \in Keys(nodes) /\ \A n \in nodes : left.key <= n.key
  BY DEF Left, Keys

LEMMA OrderStep ==
  TypeInv /\ IndexInv /\ TodoInv /\ OrderInv /\ [Next]_vars => OrderInv'
<1> SUFFICES ASSUME TypeInv, IndexInv, TodoInv, OrderInv, [Next]_vars,
                    truncator'.pc # "idle", ~disturbed'
             PROVE  /\ \A e \in truncator'.heap : Current(e)'
                    /\ \A s \in Sources :
                         Indexed(s)' /\ tree'[storageIndex'[s]] # {} => s \in Awaiting'
  BY DEF OrderInv
<1> DEFINE Goal == /\ \A e \in truncator'.heap : Current(e)'
                   /\ \A s \in Sources :
                        Indexed(s)' /\ tree'[storageIndex'[s]] # {} => s \in Awaiting'
<1>a. /\ tree \in [Storages -> SUBSET Nodes]
      /\ storageIndex \in [Sources -> Storages \cup {NoStorage}]
      /\ truncator.heap \in SUBSET HeapEntries /\ created \in Nat
      /\ NoStorage \notin Storages
  BY DEF TypeInv, TypeOK, TruncatorStates, NoStorage, Storages
<1>1. ASSUME UNCHANGED <<truncator, storageIndex, tree, disturbed>> PROVE Goal
  BY <1>1 DEF OrderInv, Current, Indexed, Awaiting, HeapSources
<1>2. ASSUME NEW w \in Writers, NEW r \in Sources, NEW ts \in Timestamps, PutLocate(w, r, ts)
      PROVE  Goal
  <2>1. UNCHANGED <<truncator, tree, disturbed>>
    BY <1>2 DEF PutLocate, historyVars
  <2>2. CASE storageIndex' = storageIndex
    BY <1>1, <2>1, <2>2
  <2>3. CASE storageIndex' = [storageIndex EXCEPT ![r] = created + 1] /\ created' = created + 1
    <3>1. created + 1 \in Storages => tree[created + 1] = {}
      BY <1>a DEF IndexInv
    <3>2. created + 1 \in Storages
      BY <1>2, <1>a, StoreAssumption DEF PutLocate, Storages, TypeInv, TypeOK, Allocation
    <3>3. tree'[storageIndex'[r]] = {}
      BY <1>a, <2>1, <2>3, <3>1, <3>2
    <3>4. \A s \in Sources \ {r} : storageIndex'[s] = storageIndex[s]
      BY <1>a, <2>3
    <3>5. Awaiting' = Awaiting
      BY <2>1 DEF Awaiting, HeapSources
    <3> QED BY <2>1, <3>3, <3>4, <3>5 DEF OrderInv, Current, Indexed
  <2> QED BY <1>2, <2>2, <2>3 DEF PutLocate
<1>3. ASSUME NEW w \in Writers, PutStep(w) PROVE Goal
  <2>1. disturbed' \/ LoadOldest(w)
    BY <1>3 DEF PutStep, InsertOrSwap, PublishOldest
  <2>2. ASSUME LoadOldest(w) PROVE Goal
    BY <1>1, <2>2 DEF LoadOldest, storeVars, historyVars
  <2> QED BY <2>1, <2>2
<1>4. CASE TruncateBegin
  <2>1. UNCHANGED <<storageIndex, tree>> /\ truncator.pc = "idle"
    BY <1>4 DEF TruncateBegin, storeVars
  <2>2. PICK quantity : BeginPruning(quantity)
    BY <1>4 DEF TruncateBegin
  <2>3. truncator'.todo = IndexedSources /\ truncator'.heap = {}
    BY <2>1, <2>2 DEF BeginPruning
  <2> QED BY <2>1, <2>3 DEF IndexedSources, Indexed, Awaiting, HeapSources
<1>5. ASSUME NEW r \in Sources, BuildHeapVisit(r) PROVE Goal
  <2>1. UNCHANGED <<storageIndex, tree, disturbed>> /\ truncator.pc = "build" /\ Indexed(r)
    BY <1>5 DEF BuildHeapVisit, storeVars, historyVars
  <2>2. CASE truncator' = truncator
    BY <1>1, <2>1, <2>2
  <2>3. ASSUME NEW oldest \in Left(tree[storageIndex[r]]),
               truncator' =
                 [pc |-> "build", todo |-> truncator.todo \ {r},
                  heap |-> truncator.heap \cup
                             {[timestamp |-> oldest.key, source |-> r, tree |-> storageIndex[r]]},
                  remaining |-> truncator.remaining]
        PROVE  Goal
    <3>1. tree[storageIndex[r]] \in SUBSET Nodes
      BY <1>a, <2>1 DEF Indexed
    <3>2. PICK e : /\ e.source = r /\ e.tree = storageIndex[r] /\ e.timestamp = oldest.key
                   /\ truncator'.heap = truncator.heap \cup {e}
                   /\ truncator'.todo = truncator.todo \ {r}
      <4> DEFINE d == [timestamp |-> oldest.key, source |-> r, tree |-> storageIndex[r]]
      <4>1. /\ d.source = r /\ d.tree = storageIndex[r] /\ d.timestamp = oldest.key
            /\ truncator'.heap = truncator.heap \cup {d}
            /\ truncator'.todo = truncator.todo \ {r}
        BY <2>3
      <4> HIDE DEF d
      <4> QED BY <4>1
    <3>3. /\ oldest.key \in Keys(tree[storageIndex[r]])
          /\ \A n \in tree[storageIndex[r]] : oldest.key <= n.key
      BY <2>3, <3>1, LeftIsCurrent
    <3>4. Current(e)'
      BY <2>1, <3>2, <3>3 DEF Current
    <3>5. Awaiting \subseteq Awaiting'
      BY <3>2 DEF Awaiting, HeapSources
    <3>6. /\ \A d \in truncator.heap : Current(d)
          /\ \A s \in Sources : Indexed(s) /\ tree[storageIndex[s]] # {} => s \in Awaiting
      BY <2>1 DEF OrderInv
    <3>7. \A d \in truncator.heap : Current(d)'
      BY <2>1, <3>6 DEF Current
    <3>8. \A s \in Sources : Indexed(s)' /\ tree'[storageIndex'[s]] # {} => s \in Awaiting'
      BY <2>1, <3>5, <3>6 DEF Indexed
    <3> QED BY <3>2, <3>4, <3>7, <3>8
  <2> HIDE DEF Goal
  <2> QED BY <1>5, <2>2, <2>3 DEF BuildHeapVisit
<1>6. CASE BuildHeapDone
  <2>1. /\ UNCHANGED <<storageIndex, tree, disturbed>> /\ truncator.pc = "build"
        /\ truncator.todo = {}
    BY <1>6 DEF BuildHeapDone, storeVars, historyVars
  <2>2. truncator'.todo = {} /\ truncator'.heap = truncator.heap
    BY <1>6 DEF BuildHeapDone, Removing
  <2> QED BY <2>1, <2>2 DEF OrderInv, Current, Indexed, Awaiting, HeapSources
<1>7. CASE TruncateRemove
  <2>1. PICK entry, oldest : RemovesAs(entry, oldest)
    BY <1>7, RemoveEffect
  <2> DEFINE t == entry.tree
             rest == truncator.heap \ {entry}
             nodes == tree[t] \ {oldest}
  <2>2. /\ entry \in truncator.heap /\ t \in Storages
        /\ entry.source \in Sources /\ storageIndex[entry.source] = t
        /\ tree' = [tree EXCEPT ![t] = nodes]
        /\ storageIndex' = IF nodes = {} THEN [storageIndex EXCEPT ![entry.source] = NoStorage]
                                         ELSE storageIndex
    BY <2>1 DEF RemovesAs, HeapMin
  <2>3. /\ truncator'.todo = {}
        /\ \/ nodes = {} /\ truncator'.heap = rest
           \/ /\ nodes # {}
              /\ \E left \in Left(nodes) : truncator'.heap = rest \cup PushBack(entry, left.key)
    BY <2>1 DEF RemovesAs, Removing, Left
  <2>4. disturbed' = disturbed /\ truncator.pc = "remove" /\ truncator.todo = {}
    BY <1>7, RemoveEffect DEF TruncateRemove, TodoInv
  <2>5. /\ \A e \in truncator.heap : Current(e)
        /\ \A s \in Sources : Indexed(s) /\ tree[storageIndex[s]] # {} => s \in HeapSources
    BY <2>4 DEF OrderInv, Awaiting
  <2>6. ASSUME NEW e \in rest PROVE e.tree \in Storages \ {t} /\ e.source # entry.source
    <3>1. /\ storageIndex[e.source] = e.tree /\ e.source # entry.source
          /\ e.source \in Sources /\ e.tree \in Storages
      BY <1>a, <2>2 DEF IndexInv, HeapEntriesIndexed, HeapEntries
    <3>2. Indexed(e.source)
      BY <1>a, <3>1 DEF Indexed
    <3> QED BY <2>2, <3>1, <3>2 DEF IndexInv
  <2>7. tree'[t] = nodes /\ \A u \in Storages \ {t} : tree'[u] = tree[u]
    BY <1>a, <2>2
  <2>8. ASSUME NEW e \in rest PROVE Current(e)'
    BY <2>5, <2>6, <2>7 DEF Current
  <2>9. ASSUME NEW s \in Sources, Indexed(s)', tree'[storageIndex'[s]] # {}
        PROVE  \E e \in truncator.heap : e.source = s /\ (s = entry.source => nodes # {})
    <3>1. storageIndex'[s] = storageIndex[s] /\ Indexed(s) /\ (s = entry.source => nodes # {})
      <4> HIDE DEF nodes
      <4> QED BY <1>a, <2>2, <2>9 DEF Indexed
    <3>2. tree[storageIndex[s]] # {}
      <4>1. CASE storageIndex[s] = t
        BY <2>2, <2>7, <2>9, <3>1, <4>1
      <4>2. CASE storageIndex[s] # t
        BY <1>a, <2>7, <2>9, <3>1, <4>2 DEF Indexed
      <4> QED BY <4>1, <4>2
    <3> QED BY <2>5, <3>1, <3>2 DEF HeapSources
  <2>10. CASE nodes = {} /\ truncator'.heap = rest
    <3>1. ASSUME NEW s \in Sources, Indexed(s)', tree'[storageIndex'[s]] # {}
          PROVE  s \in Awaiting'
      <4>1. PICK e \in truncator.heap : e.source = s /\ s # entry.source
        BY <2>9, <2>10, <3>1
      <4> QED BY <2>10, <4>1 DEF Awaiting, HeapSources
    <3> QED BY <2>8, <2>10, <3>1
  <2>11. ASSUME NEW left \in Left(nodes), truncator'.heap = rest \cup PushBack(entry, left.key)
         PROVE  Goal
    <3> DEFINE back == [timestamp |-> left.key, source |-> entry.source, tree |-> entry.tree]
    <3>1. /\ truncator'.heap = rest \cup {back} /\ back.source = entry.source /\ back.tree = t
          /\ back.timestamp = left.key
      BY <2>11 DEF PushBack
    <3> HIDE DEF back
    <3>2. nodes \in SUBSET Nodes
      BY <1>a, <2>2
    <3>3. Current(back)'
      <4> HIDE DEF nodes, t
      <4>1. left.key \in Keys(nodes) /\ \A n \in nodes : left.key <= n.key
        BY <2>11, <3>2, LeftIsCurrent
      <4> QED BY <2>7, <3>1, <4>1 DEF Current
    <3>4. ASSUME NEW s \in Sources, Indexed(s)', tree'[storageIndex'[s]] # {}
          PROVE  s \in Awaiting'
      <4>1. PICK e \in truncator.heap : e.source = s
        BY <2>9, <3>4
      <4>2. \E d \in truncator'.heap : d.source = s
        BY <3>1, <4>1
      <4> QED BY <4>2 DEF Awaiting, HeapSources
    <3> HIDE DEF nodes
    <3> QED BY <2>8, <3>1, <3>3, <3>4
  <2> HIDE DEF Goal
  <2> QED BY <2>3, <2>10, <2>11 DEF Goal
<1>8. CASE TruncatePanic
  BY <1>1, <1>8 DEF TruncatePanic, storeVars, historyVars
<1>9. CASE TruncateEnd
  BY <1>9 DEF TruncateEnd, IdleTruncator
<1>10. ASSUME NEW r \in MetaReaders, MetaBegin(r) \/ MetaStep(r) PROVE Goal
  BY <1>1, <1>10 DEF MetaBegin, MetaStep, MetaRange, MetaLoad, MetaRangeDone, MetaReturn,
     storeVars, historyVars
<1>11. CASE UNCHANGED vars
  BY <1>1, <1>11 DEF vars, storeVars, threadVars, historyVars
<1> QED
  BY <1>2, <1>3, <1>4, <1>5, <1>6, <1>7, <1>8, <1>9, <1>10, <1>11 DEF Next, TruncateStep

\* What a removal takes out of an undisturbed store is no later than anything the
\* index reaches.
LEMMA RemovesOldest ==
  ASSUME TypeInv, IndexInv, TodoInv, OrderInv, [Next]_vars, NEW t \in Storages,
         truncator.pc = "remove", ~disturbed, ~disturbed',
         NEW n \in tree[t] \ tree'[t], NEW s \in IndexedSources,
         NEW m \in tree[storageIndex[s]]
  PROVE  n.key <= m.key
<1>a. /\ tree \in [Storages -> SUBSET Nodes]
      /\ storageIndex \in [Sources -> Storages \cup {NoStorage}]
      /\ truncator.heap \in SUBSET HeapEntries
  BY DEF TypeInv, TypeOK, TruncatorStates
<1>1. TruncateRemove
  <2>1. ASSUME NEW w \in Writers, NEW r \in Sources, NEW ts \in Timestamps, PutLocate(w, r, ts)
        PROVE  FALSE
    BY <2>1 DEF PutLocate
  <2>2. ASSUME NEW w \in Writers, InsertOrSwap(w) PROVE FALSE
    BY <2>2 DEF InsertOrSwap
  <2> QED BY <2>1, <2>2, OtherSteps DEF Uncounted
<1>2. PICK entry, oldest : RemovesAs(entry, oldest)
  BY <1>1, RemoveEffect
<1>3. /\ entry \in truncator.heap /\ \A d \in truncator.heap : entry.timestamp <= d.timestamp
      /\ entry.tree \in Storages /\ oldest \in Left(tree[entry.tree])
      /\ tree' = [tree EXCEPT ![entry.tree] = tree[entry.tree] \ {oldest}]
  BY <1>2 DEF RemovesAs, HeapMin
<1>4. n = oldest
  BY <1>a, <1>3
<1>5. /\ \A e \in truncator.heap : Current(e)
      /\ s \in Sources /\ Indexed(s) /\ s \in HeapSources
  BY DEF OrderInv, Awaiting, TodoInv, IndexedSources
<1>6. PICK e \in truncator.heap : e.source = s
  BY <1>5 DEF HeapSources
<1>7. storageIndex[s] = e.tree
  BY <1>6 DEF IndexInv, HeapEntriesIndexed
<1>8. e.timestamp <= m.key
  BY <1>5, <1>7 DEF Current
<1>9. PICK x \in tree[entry.tree] : x.key = entry.timestamp
  BY <1>3, <1>5 DEF Current, Keys
<1>10. oldest.key <= entry.timestamp
  BY <1>3, <1>9 DEF Left
<1>11. /\ oldest.key \in Int /\ entry.timestamp \in Int /\ e.timestamp \in Int /\ m.key \in Int
       /\ entry.timestamp <= e.timestamp
  BY <1>a, <1>3, <1>5, <1>6 DEF Left, Nodes, HeapEntries, Indexed
<1> QED BY <1>4, <1>8, <1>10, <1>11

\* For any number of sources and goroutines: a truncation that no Put disturbs
\* removes, at each iteration, an envelope that is no later than any other in the
\* store (truncate's heap, BuildExpirationHeap, removeOldestEnvelope).
THEOREM TruncationIsOldestFirst == Spec => OldestRemovedFirst
<1>1. Init => OrderInv
  BY DEF Init, OrderInv, IdleTruncator
<1>2. TypeInv /\ IndexInv /\ TodoInv /\ OrderInv /\ [Next]_vars =>
        [\A t \in Storages : truncator.pc = "remove" /\ ~disturbed /\ ~disturbed' =>
           \A n \in tree[t] \ tree'[t] : \A s \in IndexedSources :
             \A m \in tree[storageIndex[s]] : n.key <= m.key]_vars
  BY RemovesOldest
<1> QED
  BY <1>1, <1>2, Invariance, TodoInvariance, OrderStep, PTL DEF Spec, OldestRemovedFirst
==============================================================================
