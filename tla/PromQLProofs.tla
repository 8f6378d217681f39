---------------------------- MODULE PromQLProofs ----------------------------
(***************************************************************************)
(* Proofs about PromQL: a walk of the source is exact although the tree      *)
(* changes between its pages, and the engine's binary search is exact in the *)
(* order in which the walk found the points.                                 *)
(***************************************************************************)
EXTENDS PromQL, StorageTreeProofs, SequenceTheorems

-----------------------------------------------------------------------------
(* A page of the walk. *)

\* UpTo cuts a sequence behind the last envelope that is not later than a time.
LEMMA UpToFacts ==
  ASSUME NEW es \in Seq(Envelopes), NEW latest \in Int, NEW t, t = UpTo(es, latest)
  PROVE  /\ t \in Seq(Envelopes) /\ Len(t) \in 0..Len(es)
         /\ \A j \in 1..Len(t) : t[j] = es[j]
         /\ Len(t) = 0 \/ t[Len(t)].timestamp <= latest
         /\ \A j \in (Len(t) + 1)..Len(es) : es[j].timestamp > latest
<1> DEFINE Cut(i, n) == /\ i = 0 \/ es[i].timestamp <= latest
                        /\ \A j \in (i + 1)..n : es[j].timestamp > latest
           S == {n \in Nat : n <= Len(es) => \E i \in 0..n : Cut(i, n)}
<1>0. Len(es) \in Nat /\ \A i \in 1..Len(es) : es[i] \in Envelopes /\ es[i].timestamp \in Int
  BY TreeAssumption, LenProperties, ElementOfSeq
<1>1. 0 \in S
  <2>1. Cut(0, 0)
    OBVIOUS
  <2> QED BY <2>1
<1>2. ASSUME NEW n \in S PROVE n + 1 \in S
  <2> SUFFICES ASSUME n + 1 <= Len(es) PROVE \E i \in 0..(n + 1) : Cut(i, n + 1)
    OBVIOUS
  <2>1. n + 1 \in 1..Len(es) /\ n <= Len(es)
    BY <1>0
  <2>2. CASE es[n + 1].timestamp <= latest
    <3>1. Cut(n + 1, n + 1) /\ n + 1 \in 0..(n + 1)
      BY <2>2
    <3> HIDE DEF Cut
    <3> QED BY <3>1
  <2>3. CASE ~(es[n + 1].timestamp <= latest)
    <3>1. PICK i \in 0..n : Cut(i, n)
      BY <2>1
    <3>2. es[n + 1].timestamp > latest
      BY <1>0, <2>1, <2>3
    <3>3. Cut(i, n + 1)
      <4>1. \A j \in (i + 1)..(n + 1) : j \in (i + 1)..n \/ j = n + 1
        OBVIOUS
      <4> QED BY <3>1, <3>2, <4>1
    <3>4. i \in 0..(n + 1)
      OBVIOUS
    <3> HIDE DEF Cut
    <3> QED BY <3>3, <3>4
  <2> QED BY <2>2, <2>3
<1>3. \E i \in 0..Len(es) : Cut(i, Len(es))
  <2>1. S \subseteq Nat
    OBVIOUS
  <2> HIDE DEF S
  <2>2. Len(es) \in S
    BY <2>1, <1>0, <1>1, <1>2, SetInduction
  <2> QED BY <2>2, <1>0 DEF S
<1>4. PICK c : c = CHOOSE i \in 0..Len(es) : Cut(i, Len(es))
  OBVIOUS
<1>5. c \in 0..Len(es) /\ Cut(c, Len(es))
  <2> HIDE DEF Cut
  <2> QED BY <1>3, <1>4
<1>6. t = SubSeq(es, 1, c)
  BY <1>4 DEF UpTo
<1>7. c \in Int /\ 1 \in Int /\ \A i \in 1..c : es[i] \in Envelopes
  BY <1>0, <1>5
<1>8. /\ t \in Seq(Envelopes) /\ Len(t) = IF 1 <= c THEN c - 1 + 1 ELSE 0
      /\ \A i \in 1..(c - 1 + 1) : t[i] = es[1 + i - 1]
  BY <1>6, <1>7, SubSeqProperties
<1>9. Len(t) = c /\ \A i \in 1..Len(t) : t[i] = es[i]
  <2>1. \A i \in 1..c : i \in 1..(c - 1 + 1) /\ 1 + i - 1 = i
    BY <1>7
  <2> QED BY <1>5, <1>7, <1>8, <2>1
<1>10. Len(t) = 0 \/ t[Len(t)].timestamp <= latest
  <2>1. c = 0 \/ c \in 1..Len(t)
    BY <1>5, <1>9
  <2> QED BY <2>1, <1>5, <1>9
<1>11. \A j \in (Len(t) + 1)..Len(es) : es[j].timestamp > latest
  BY <1>5, <1>9
<1> QED BY <1>5, <1>8, <1>9, <1>10, <1>11

\* The request of a page, as LocalStoreReader.Read completes it.
LEMMA PageQuery ==
  ASSUME NEW from, NEW end, NEW q, q = Query(PageRequest(from, end))
  PROVE  /\ q.start = from /\ q.end = IF end = 0 THEN Now ELSE end
         /\ q.limit = DefaultLimit /\ q.types = MetricTypes
         /\ q.filter = NoFilter /\ ~q.descending
<1>1. MetricTypes \ {"any"} = MetricTypes
  BY DEF MetricTypes
<1> QED BY <1>1 DEF Query, PageRequest

\* A page is what the traversal found, envelope by envelope.
PageOf(q, found, page) ==
  /\ IsRange(q) /\ q.limit \in Nat \ {0} /\ found \in Seq(Stored)
  /\ page \in Seq(Envelopes) /\ Len(page) = Len(found)
  /\ \A i \in 1..Len(found) : page[i] = found[i].env

LEMMA PageRead ==
  ASSUME TypeOK, NEW from \in Int, NEW end \in Int, NEW q, q = Query(PageRequest(from, end)),
         NEW es, es = Read(PageRequest(from, end))
  PROVE  PageOf(q, Traverse(root, q), es)
<1>0. PICK found : found = Traverse(root, q)
  OBVIOUS
<1>1. /\ q.start = from /\ q.end = IF end = 0 THEN Now ELSE end
      /\ q.limit = DefaultLimit /\ q.filter = NoFilter
  BY PageQuery
<1>2. IsRange(q) /\ q.limit \in Nat \ {0}
  BY <1>1, RequestAssumption DEF IsRange
<1>3. found \in Seq(Stored)
  BY <1>0, <1>2, FoundFacts DEF TypeOK
<1>4. Len(found) \in Nat /\ \A i \in 1..Len(found) : found[i].env \in Envelopes
  <2>1. \A m \in Stored : m.env \in Envelopes
    BY DEF Stored
  <2>2. Len(found) \in Nat
    BY <1>3, LenProperties
  <2>3. \A i \in 1..Len(found) : found[i] \in Stored
    BY <1>3, ElementOfSeq
  <2> QED BY <2>1, <2>2, <2>3
<1>5. es = [i \in 1..Len(found) |-> Filtered(found[i].env, q.filter)]
  BY <1>0 DEF Read, Get
<1>6. es = [i \in 1..Len(found) |-> found[i].env]
  BY <1>1, <1>5 DEF Filtered
<1>7. es \in [1..Len(found) -> Envelopes]
  BY <1>4, <1>6
<1>8. es \in Seq(Envelopes)
  BY <1>4, <1>7, SeqDef
<1>9. Len(es) = Len(found)
  BY <1>4, <1>7, <1>8, LenProperties
<1> QED BY <1>0, <1>2, <1>3, <1>6, <1>8, <1>9 DEF PageOf

\* What Trimmed keeps: a prefix, and in it every envelope that is neither too new
\* nor at the end.
LEMMA TrimmedFacts ==
  ASSUME NEW page \in Seq(Envelopes), NEW end \in Int, NEW es, es = Trimmed(page, end)
  PROVE  /\ es \in Seq(Envelopes) /\ Len(es) \in 0..Len(page)
         /\ \A i \in 1..Len(es) : es[i] = page[i]
         /\ Len(es) = 0 \/ es[Len(es)].timestamp < end
         /\ \A i \in 1..Len(page) :
              page[i].timestamp <= Now - WalkDelay /\ page[i].timestamp < end => i \in 1..Len(es)
<1>1. PICK t : t = UpTo(page, Now - WalkDelay)
  OBVIOUS
<1>2. Now - WalkDelay \in Int /\ end - 1 \in Int
  BY RequestAssumption, WalkAssumption
<1>3. /\ t \in Seq(Envelopes) /\ Len(t) \in 0..Len(page)
      /\ \A j \in 1..Len(t) : t[j] = page[j]
      /\ \A j \in (Len(t) + 1)..Len(page) : page[j].timestamp > Now - WalkDelay
  BY <1>1, <1>2, UpToFacts
<1>4. es = UpTo(t, end - 1)
  BY <1>1 DEF Trimmed
<1>5. /\ es \in Seq(Envelopes) /\ Len(es) \in 0..Len(t)
      /\ \A j \in 1..Len(es) : es[j] = t[j]
      /\ Len(es) = 0 \/ es[Len(es)].timestamp <= end - 1
      /\ \A j \in (Len(es) + 1)..Len(t) : t[j].timestamp > end - 1
  BY <1>2, <1>3, <1>4, UpToFacts
<1>6. Len(page) \in Nat /\ Len(t) \in Nat /\ Len(es) \in Nat
  BY <1>3, <1>5, LenProperties
<1>7. /\ \A i \in 1..Len(page) : page[i].timestamp \in Int
      /\ \A i \in 1..Len(es) : es[i].timestamp \in Int
  BY <1>5, ElementOfSeq, TreeAssumption
<1>8. \A i \in 1..Len(es) : i \in 1..Len(t) /\ es[i] = page[i]
  BY <1>3, <1>5, <1>6
<1>9. Len(es) = 0 \/ es[Len(es)].timestamp < end
  <2>1. Len(es) # 0 => Len(es) \in 1..Len(es)
    BY <1>6
  <2> QED BY <2>1, <1>5, <1>7
<1>10. ASSUME NEW i \in 1..Len(page), page[i].timestamp <= Now - WalkDelay, page[i].timestamp < end
       PROVE  i \in 1..Len(es)
  <2>1. i \notin (Len(t) + 1)..Len(page)
    BY <1>2, <1>3, <1>7, <1>10
  <2>2. i \in 1..Len(t) /\ t[i] = page[i]
    BY <2>1, <1>3, <1>6
  <2>3. i \notin (Len(es) + 1)..Len(t)
    BY <2>2, <1>5, <1>7, <1>10
  <2> QED BY <2>2, <2>3, <1>6
<1>11. Len(es) \in 0..Len(page)
  BY <1>3, <1>5, <1>6
<1> QED BY <1>5, <1>8, <1>9, <1>10, <1>11

Increasing(es) == \A i, j \in 1..Len(es) : i < j => es[i].timestamp < es[j].timestamp

\* What a page is good for: it is in order and of the range, and an envelope of
\* the range that it does not have comes after all it has.
PageExact(from, end, es) ==
  /\ \A i \in 1..Len(es) :
       es[i].type \in MetricTypes /\ from <= es[i].timestamp /\ es[i].timestamp < end
  /\ Increasing(es)
  /\ \A e \in Held(root) :
       /\ e.type \in MetricTypes /\ from <= e.timestamp /\ e.timestamp < end
       /\ e.timestamp <= Now - WalkDelay
       => Has(es, e) \/ (Len(es) > 0 /\ es[Len(es)].timestamp < e.timestamp)

LEMMA PageFacts ==
  ASSUME TypeOK, NEW from \in Int, NEW end \in Int,
         NEW es, es = Trimmed(Read(PageRequest(from, end)), end)
  PROVE  es \in Seq(Envelopes) /\ (~Fudged(root) => PageExact(from, end, es))
<1>1. PICK q : q = Query(PageRequest(from, end))
  OBVIOUS
<1>2. PICK page : page = Read(PageRequest(from, end))
  OBVIOUS
<1>3. PICK found : found = Traverse(root, q)
  OBVIOUS
<1>4. /\ IsRange(q) /\ q.limit \in Nat \ {0} /\ found \in Seq(Stored)
      /\ page \in Seq(Envelopes) /\ Len(page) = Len(found)
      /\ \A i \in 1..Len(found) : page[i] = found[i].env
  <2>1. PageOf(q, found, page)
    BY <1>1, <1>2, <1>3, PageRead
  <2> QED BY <2>1 DEF PageOf
<1>5. /\ es \in Seq(Envelopes) /\ Len(es) \in 0..Len(page)
      /\ \A i \in 1..Len(es) : es[i] = page[i]
      /\ Len(es) = 0 \/ es[Len(es)].timestamp < end
      /\ \A i \in 1..Len(page) :
           page[i].timestamp <= Now - WalkDelay /\ page[i].timestamp < end => i \in 1..Len(es)
  BY <1>2, <1>4, TrimmedFacts
<1> SUFFICES ASSUME ~Fudged(root) PROVE PageExact(from, end, es)
  BY <1>5
<1>6. Len(page) \in Nat /\ Len(es) \in Nat
  BY <1>4, <1>5, LenProperties
<1>7. /\ InOrder(found, q)
      /\ \A i \in 1..Len(found) : found[i] \in NodesOf(root) /\ Wanted(found[i], q)
      /\ \A m \in NodesOf(root) : Wanted(m, q) =>
           \/ \E i \in 1..Len(found) : found[i] = m
           \/ Len(found) = q.limit /\ \A i \in 1..Len(found) : Precedes(found[i], m, q)
  BY <1>3, <1>4, ExactRead DEF FirstWanted
<1>8. /\ q.start = from /\ q.end = IF end = 0 THEN Now ELSE end
      /\ q.types = MetricTypes /\ q.filter = NoFilter /\ ~q.descending
  BY <1>1, PageQuery
<1>9. \A m \in NodesOf(root) : m.key = m.env.timestamp /\ m.env.timestamp \in Int
  <2>1. \A m \in NodesOf(root) : m \in Stored
    BY NodesStored DEF TypeOK
  <2>2. \A m \in Stored : m.env.timestamp \in Int
    BY TreeAssumption DEF Stored
  <2> QED BY <2>1, <2>2 DEF Fudged
<1>10. \A m, o : Precedes(m, o, q) <=> m.key < o.key
  BY <1>8 DEF Precedes
<1>11. MetricTypes # {}
  BY DEF MetricTypes
<1>12. \A m : Wanted(m, q) <=>
                /\ from <= m.env.timestamp /\ m.env.timestamp < q.end /\ m.env.type \in MetricTypes
  BY <1>8, <1>11 DEF Wanted, PassesFilter, ValidType
<1>13. \A i \in 1..Len(page) :
         /\ page[i].type \in MetricTypes /\ from <= page[i].timestamp
         /\ page[i].timestamp \in Int
  BY <1>4, <1>7, <1>9, <1>12
<1>14. Increasing(page)
  <2> SUFFICES ASSUME NEW i \in 1..Len(page), NEW j \in 1..Len(page), i < j
               PROVE  page[i].timestamp < page[j].timestamp
    BY DEF Increasing
  <2>1. found[i].key < found[j].key
    BY <1>4, <1>7, <1>10 DEF InOrder
  <2> QED BY <2>1, <1>4, <1>7, <1>9
<1>15. \A i \in 1..Len(es) : i \in 1..Len(page) /\ es[i] = page[i]
  BY <1>5, <1>6
<1>16. Increasing(es)
  BY <1>14, <1>15 DEF Increasing
<1>17. ASSUME NEW i \in 1..Len(es) PROVE es[i].timestamp < end
  <2>1. Len(es) \in 1..Len(es) /\ Len(es) # 0 /\ (i = Len(es) \/ i < Len(es))
    BY <1>6
  <2>2. es[i].timestamp \in Int /\ es[Len(es)].timestamp \in Int
    BY <2>1, <1>13, <1>15
  <2>3. es[Len(es)].timestamp < end
    BY <2>1, <1>5
  <2>4. i = Len(es) \/ es[i].timestamp < es[Len(es)].timestamp
    BY <2>1, <1>16 DEF Increasing
  <2> QED BY <2>2, <2>3, <2>4
<1>18. ASSUME NEW e \in Held(root), e.type \in MetricTypes, from <= e.timestamp,
              e.timestamp < end, e.timestamp <= Now - WalkDelay
       PROVE  Has(es, e) \/ (Len(es) > 0 /\ es[Len(es)].timestamp < e.timestamp)
  <2>1. PICK m \in NodesOf(root) : m.env = e
    BY DEF Held
  <2>2. m.key = e.timestamp /\ e.timestamp \in Int
    BY <2>1, <1>9
  <2>3. e.timestamp < q.end
    BY <1>8, <1>18, <2>2, RequestAssumption, WalkAssumption
  <2>4. Wanted(m, q)
    BY <1>12, <1>18, <2>1, <2>3
  <2>5. CASE \E i \in 1..Len(found) : found[i] = m
    <3>1. PICK i \in 1..Len(found) : found[i] = m
      BY <2>5
    <3>2. page[i] = e /\ i \in 1..Len(page)
      BY <3>1, <2>1, <1>4
    <3>3. i \in 1..Len(es)
      BY <3>2, <1>5, <1>18
    <3>4. es[i] = e
      BY <3>2, <3>3, <1>5
    <3> QED BY <3>3, <3>4 DEF Has
  <2>6. CASE Len(found) = q.limit /\ \A i \in 1..Len(found) : Precedes(found[i], m, q)
    <3>1. ASSUME NEW i \in 1..Len(page) PROVE page[i].timestamp < e.timestamp
      <4>1. found[i].key < m.key /\ found[i] \in NodesOf(root) /\ page[i] = found[i].env
        BY <2>6, <1>4, <1>7, <1>10
      <4> QED BY <4>1, <2>2, <1>9
    <3>2. 1 \in 1..Len(page) /\ page[1].timestamp \in Int
      BY <2>6, <1>4, <1>13
    <3>3. page[1].timestamp < end /\ page[1].timestamp <= Now - WalkDelay
      <4>1. page[1].timestamp < e.timestamp
        BY <3>1, <3>2
      <4> QED BY <4>1, <3>2, <2>2, <1>18, RequestAssumption, WalkAssumption
    <3>4. 1 \in 1..Len(es)
      BY <3>2, <3>3, <1>5
    <3>5. Len(es) > 0 /\ Len(es) \in 1..Len(es)
      BY <3>4, <1>6
    <3> QED BY <3>1, <3>5, <1>15
  <2> QED BY <2>4, <2>5, <2>6, <1>7
<1> QED BY <1>13, <1>15, <1>16, <1>17, <1>18 DEF PageExact

-----------------------------------------------------------------------------
(* The invariant of a walk. *)

Walks ==
  [pc : {"reading", "answered"}, sel : Selections, from : Int, errors : Nat,
   result : Seq(Envelopes), gaveUp : BOOLEAN, stayed : SUBSET Envelopes, fudged : BOOLEAN]

\* What a selection looks for, and of it what is not too new.
Among(e, sel) ==
  e.type \in MetricTypes /\ sel.start - Second <= e.timestamp /\ e.timestamp < sel.end
Sought(e, sel) == Among(e, sel) /\ e.timestamp <= Now - WalkDelay

\* Behind the time from which the walk reads next, it has found all that was there
\* all the time; and when it ends by itself, nothing is ahead.
Walked(w) ==
  /\ w.sel.start - Second <= w.from
  /\ \A i \in 1..Len(w.result) :
       Among(w.result[i], w.sel) /\ w.result[i].timestamp < w.from
  /\ Increasing(w.result)
  /\ \A e \in w.stayed : Sought(e, w.sel) =>
       \/ Has(w.result, e)
       \/ w.from <= e.timestamp /\ (w.pc = "reading" \/ w.gaveUp)

Followed(w, n) ==
  /\ w.stayed \subseteq Held(n)
  /\ w.pc = "reading" /\ ~w.fudged => ~Fudged(n)
  /\ ~w.fudged => Walked(w)

WalkInv ==
  /\ query \in {NoQuery, [pc |-> "failed"]} \cup Walks
  /\ query \in Walks => Followed(query, root)

LEMMA HeldFacts ==
  ASSUME NEW n \in Trees
  PROVE  Held(n) \subseteq Envelopes
<1>1. \A m \in NodesOf(n) : m \in Stored
  BY NodesStored
<1>2. \A m \in Stored : m.env \in Envelopes
  BY DEF Stored
<1> QED BY <1>1, <1>2 DEF Held

LEMMA WalkInit == QueryInit => WalkInv
<1> SUFFICES ASSUME QueryInit PROVE WalkInv
  OBVIOUS
<1>1. query = NoQuery
  BY DEF QueryInit
<1>2. NoQuery \notin Walks
  <2>1. NoQuery.pc = "idle" /\ \A w \in Walks : w.pc # "idle"
    BY DEF NoQuery, Walks
  <2> QED BY <2>1
<1> QED BY <1>1, <1>2 DEF WalkInv

\* A walk begins with everything ahead of it.
LEMMA SelectWalks ==
  ASSUME TypeOK, NEW sel \in Selections, NEW w,
         w = [pc |-> "reading", sel |-> sel, from |-> sel.start - Second, errors |-> 0,
              result |-> <<>>, gaveUp |-> FALSE, stayed |-> Held(root), fudged |-> Fudged(root)]
  PROVE  w \in Walks /\ Followed(w, root)
<1>1. sel.start - Second \in Int
  BY WalkAssumption
<1>2. Held(root) \subseteq Envelopes
  BY HeldFacts DEF TypeOK
<1>3. Fudged(root) \in BOOLEAN
  BY DEF Fudged
<1>4. <<>> \in Seq(Envelopes) /\ Len(<<>>) = 0
  BY EmptySeq
<1>5. w \in Walks
  BY <1>1, <1>2, <1>3, <1>4 DEF Walks
<1>6. /\ w.pc = "reading" /\ w.sel = sel /\ w.from = sel.start - Second /\ Len(w.result) = 0
      /\ w.stayed = Held(root)
  BY <1>4
<1>7. w.fudged <=> Fudged(root)
  OBVIOUS
<1>8. Walked(w)
  <2>1. \A e \in w.stayed : Sought(e, w.sel) => w.from <= e.timestamp
    BY <1>6 DEF Sought, Among
  <2>2. w.sel.start - Second <= w.from
    BY <1>1, <1>6
  <2> QED BY <1>6, <2>1, <2>2 DEF Walked, Increasing
<1> QED BY <1>5, <1>6, <1>7, <1>8 DEF Followed

\* Two sequences in order, the second of which is later than the first.
LEMMA ConcatIncreasing ==
  ASSUME NEW a \in Seq(Envelopes), NEW b \in Seq(Envelopes), NEW c, c = a \o b,
         Increasing(a), Increasing(b),
         \A i \in 1..Len(a), j \in 1..Len(b) : a[i].timestamp < b[j].timestamp
  PROVE  Increasing(c)
<1>1. /\ c \in Seq(Envelopes) /\ Len(c) = Len(a) + Len(b)
      /\ \A i \in 1..(Len(a) + Len(b)) : c[i] = IF i <= Len(a) THEN a[i] ELSE b[i - Len(a)]
      /\ Len(a) \in Nat /\ Len(b) \in Nat
  BY ConcatProperties, LenProperties
<1> SUFFICES ASSUME NEW i \in 1..Len(c), NEW j \in 1..Len(c), i < j
             PROVE  c[i].timestamp < c[j].timestamp
  BY DEF Increasing
<1>2. CASE j <= Len(a)
  <2>1. i \in 1..Len(a) /\ j \in 1..Len(a) /\ c[i] = a[i] /\ c[j] = a[j]
    BY <1>1, <1>2
  <2> QED BY <2>1 DEF Increasing
<1>3. CASE i <= Len(a) /\ ~(j <= Len(a))
  <2>1. i \in 1..Len(a) /\ j - Len(a) \in 1..Len(b) /\ c[i] = a[i] /\ c[j] = b[j - Len(a)]
    BY <1>1, <1>3
  <2> QED BY <2>1
<1>4. CASE ~(i <= Len(a))
  <2>1. /\ i - Len(a) \in 1..Len(b) /\ j - Len(a) \in 1..Len(b) /\ i - Len(a) < j - Len(a)
        /\ c[i] = b[i - Len(a)] /\ c[j] = b[j - Len(a)]
    BY <1>1, <1>4
  <2> QED BY <2>1 DEF Increasing
<1> QED BY <1>1, <1>2, <1>3, <1>4

LEMMA ConcatHas ==
  ASSUME NEW a \in Seq(Envelopes), NEW b \in Seq(Envelopes), NEW e
  PROVE  Has(a, e) \/ Has(b, e) => Has(a \o b, e)
<1>1. PICK c : c = a \o b
  OBVIOUS
<1>2. /\ Len(c) = Len(a) + Len(b) /\ Len(a) \in Nat /\ Len(b) \in Nat
      /\ \A i \in 1..(Len(a) + Len(b)) : c[i] = IF i <= Len(a) THEN a[i] ELSE b[i - Len(a)]
  BY <1>1, ConcatProperties, LenProperties
<1>3. ASSUME NEW i \in 1..Len(a), a[i] = e PROVE Has(c, e)
  <2>1. i \in 1..Len(c) /\ c[i] = e
    BY <1>2, <1>3
  <2> QED BY <2>1 DEF Has
<1>4. ASSUME NEW i \in 1..Len(b), b[i] = e PROVE Has(c, e)
  <2>1. i + Len(a) \in 1..Len(c) /\ c[i + Len(a)] = e
    <3>1. i + Len(a) \in 1..(Len(a) + Len(b)) /\ ~(i + Len(a) <= Len(a)) /\ (i + Len(a)) - Len(a) = i
      BY <1>2
    <3> QED BY <3>1, <1>2, <1>4
  <2> QED BY <2>1 DEF Has
<1> QED BY <1>1, <1>3, <1>4 DEF Has

\* The fields of a walk that a page changes.
Moved(w, pc, from, result, v) ==
  /\ v \in Walks /\ v.pc = pc /\ v.from = from /\ v.result = result
  /\ v.sel = w.sel /\ v.stayed = w.stayed /\ (v.fudged <=> w.fudged)

LEMMA WalkFields ==
  ASSUME NEW w \in Walks, NEW pc \in {"reading", "answered"}, NEW from \in Int,
         NEW result \in Seq(Envelopes), NEW v,
         v = [w EXCEPT !.pc = pc, !.result = result, !.from = from, !.errors = 0]
  PROVE  Moved(w, pc, from, result, v)
<1>1. v \in Walks
  BY DEF Walks
<1>2. v.pc = pc /\ v.from = from /\ v.result = result
  BY DEF Walks
<1>3. v.sel = w.sel /\ v.stayed = w.stayed
  BY DEF Walks
<1>4. v.fudged = w.fudged
  BY DEF Walks
<1> QED BY <1>1, <1>2, <1>3, <1>4 DEF Moved

\* A page that is not empty brings a walk forward.
LEMMA PageAdvances ==
  ASSUME TypeOK, NEW w \in Walks, w.stayed \subseteq Held(root), Walked(w),
         NEW es \in Seq(Envelopes), es # <<>>, PageExact(w.from, w.sel.end, es),
         NEW last, last = es[Len(es)].timestamp, NEW from, from = last + 1,
         NEW pc, pc = IF last + 1 >= w.sel.end THEN "answered" ELSE "reading",
         NEW result, result = w.result \o es, NEW v, Moved(w, pc, from, result, v)
  PROVE  Walked(v)
<1>0. v.pc = pc /\ v.from = last + 1 /\ v.result = result /\ v.sel = w.sel /\ v.stayed = w.stayed
  BY DEF Moved
<1>a. /\ w.sel \in Selections /\ w.from \in Int /\ w.result \in Seq(Envelopes)
      /\ w.stayed \in SUBSET Envelopes
  BY DEF Walks
<1>b. w.sel.end \in Int /\ w.sel.start \in Int /\ Second \in Nat
  BY <1>a, WalkAssumption
<1>c. \A i \in 1..Len(es) : es[i] \in Envelopes /\ es[i].timestamp \in Int
  BY ElementOfSeq, TreeAssumption
<1>d. Len(es) \in Nat /\ Len(w.result) \in Nat /\ Len(es) \in 1..Len(es)
  BY <1>a, LenProperties, EmptySeq
<1>e. \A e \in w.stayed : e.timestamp \in Int
  BY <1>a, TreeAssumption
<1>f. last \in Int
  BY <1>c, <1>d
<1>2. /\ \A i \in 1..Len(es) :
           es[i].type \in MetricTypes /\ w.from <= es[i].timestamp /\ es[i].timestamp < w.sel.end
      /\ Increasing(es)
  BY DEF PageExact
<1>3. /\ w.sel.start - Second <= w.from
      /\ \A i \in 1..Len(w.result) :
           Among(w.result[i], w.sel) /\ w.result[i].timestamp < w.from
      /\ Increasing(w.result)
      /\ \A e \in w.stayed : Sought(e, w.sel) => Has(w.result, e) \/ w.from <= e.timestamp
  BY DEF Walked
<1>4. \A i \in 1..Len(es) : es[i].timestamp <= last
  <2> SUFFICES ASSUME NEW i \in 1..Len(es) PROVE es[i].timestamp <= last
    OBVIOUS
  <2>1. i = Len(es) \/ i < Len(es)
    BY <1>d
  <2>2. i = Len(es) \/ es[i].timestamp < last
    BY <2>1, <1>2, <1>d DEF Increasing
  <2> QED BY <2>2, <1>c, <1>f
<1>5. w.from <= last
  BY <1>2, <1>d
<1>6. \A i \in 1..Len(w.result) : w.result[i].timestamp \in Int
  BY <1>a, ElementOfSeq, TreeAssumption
<1>7. Increasing(v.result)
  <2>1. \A i \in 1..Len(w.result), j \in 1..Len(es) : w.result[i].timestamp < es[j].timestamp
    <3> SUFFICES ASSUME NEW i \in 1..Len(w.result), NEW j \in 1..Len(es)
                 PROVE  w.result[i].timestamp < es[j].timestamp
      OBVIOUS
    <3>1. w.result[i].timestamp < w.from /\ w.result[i].timestamp \in Int
      BY <1>3, <1>6
    <3>2. w.from <= es[j].timestamp /\ es[j].timestamp \in Int
      BY <1>2, <1>c
    <3> QED BY <3>1, <3>2, <1>a
  <2>2. Increasing(result)
    BY <2>1, <1>a, <1>2, <1>3, ConcatIncreasing
  <2> QED BY <2>2, <1>0
<1>8. ASSUME NEW i \in 1..Len(v.result)
      PROVE  Among(v.result[i], v.sel) /\ v.result[i].timestamp < v.from
  <2>1. /\ Len(v.result) = Len(w.result) + Len(es)
        /\ \A k \in 1..(Len(w.result) + Len(es)) :
             v.result[k] = IF k <= Len(w.result) THEN w.result[k] ELSE es[k - Len(w.result)]
    <3>1. /\ Len(result) = Len(w.result) + Len(es)
          /\ \A k \in 1..(Len(w.result) + Len(es)) :
               result[k] = IF k <= Len(w.result) THEN w.result[k] ELSE es[k - Len(w.result)]
      BY <1>a, ConcatProperties
    <3> QED BY <3>1, <1>0
  <2>2. CASE i <= Len(w.result)
    <3>1. i \in 1..Len(w.result) /\ v.result[i] = w.result[i]
      BY <1>8, <2>1, <2>2, <1>d
    <3>2. w.result[i].timestamp < last + 1
      BY <3>1, <1>3, <1>5, <1>6, <1>a, <1>f
    <3> QED BY <3>1, <3>2, <1>0, <1>3
  <2>3. CASE ~(i <= Len(w.result))
    <3>1. i - Len(w.result) \in 1..Len(es) /\ v.result[i] = es[i - Len(w.result)]
      BY <1>8, <2>1, <2>3, <1>d
    <3>2. PICK k \in 1..Len(es) : v.result[i] = es[k]
      BY <3>1
    <3>3. es[k].timestamp < last + 1 /\ w.sel.start - Second <= es[k].timestamp
      <4>1. w.from <= es[k].timestamp /\ es[k].timestamp \in Int /\ es[k].timestamp <= last
        BY <1>2, <1>4, <1>c
      <4>2. w.sel.start - Second <= w.from /\ w.sel.start - Second \in Int
        BY <1>b, <1>3
      <4> QED BY <4>1, <4>2, <1>a, <1>f
    <3>4. Among(es[k], w.sel)
      BY <3>3, <1>2 DEF Among
    <3> QED BY <3>2, <3>3, <3>4, <1>0
  <2> QED BY <2>2, <2>3
<1>9. v.sel.start - Second <= v.from
  <2>1. w.sel.start - Second <= w.from /\ w.sel.start - Second \in Int /\ w.from \in Int
    BY <1>a, <1>b, <1>3
  <2>2. w.sel.start - Second <= last + 1
    BY <2>1, <1>f, <1>5
  <2> QED BY <2>2, <1>0
<1>10. ASSUME NEW e \in v.stayed, Sought(e, v.sel), ~Has(v.result, e)
       PROVE  v.from <= e.timestamp /\ v.pc = "reading"
  <2>1. e \in w.stayed /\ Sought(e, w.sel) /\ e.timestamp \in Int /\ e.timestamp < w.sel.end
    BY <1>0, <1>e, <1>10 DEF Sought, Among
  <2>2. ~Has(w.result, e) /\ ~Has(es, e)
    BY <1>0, <1>a, <1>10, ConcatHas
  <2>3. w.from <= e.timestamp
    BY <1>3, <2>1, <2>2
  <2>4. last < e.timestamp
    <3>1. /\ e \in Held(root) /\ e.type \in MetricTypes /\ e.timestamp < w.sel.end
          /\ e.timestamp <= Now - WalkDelay
      BY <2>1 DEF Sought, Among
    <3> QED BY <2>2, <2>3, <3>1 DEF PageExact
  <2>5. last + 1 <= e.timestamp /\ ~(last + 1 >= w.sel.end)
    BY <2>1, <2>4, <1>b, <1>f
  <2> QED BY <2>5, <1>0
<1> QED BY <1>7, <1>8, <1>9, <1>10 DEF Walked

\* A page brings a walk forward, or ends it.
Paged(w, es, v) ==
  v = IF es = <<>> THEN [w EXCEPT !.pc = "answered"]
      ELSE [w EXCEPT !.pc = IF NextStart(es) >= w.sel.end THEN "answered" ELSE "reading",
                     !.result = @ \o es, !.from = NextStart(es), !.errors = 0]

LEMMA PageWalks ==
  ASSUME TypeOK, NEW w \in Walks, w.pc = "reading", Followed(w, root),
         NEW es, es = Trimmed(Read(PageRequest(w.from, w.sel.end)), w.sel.end),
         NEW v, Paged(w, es, v)
  PROVE  v \in Walks /\ Followed(v, root)
<1>1. w.sel \in Selections /\ w.from \in Int /\ w.result \in Seq(Envelopes)
  BY DEF Walks
<1>2. w.sel.end \in Int
  BY <1>1, WalkAssumption
<1>3. es \in Seq(Envelopes) /\ (~Fudged(root) => PageExact(w.from, w.sel.end, es))
  BY <1>1, <1>2, PageFacts
<1>4. /\ w.stayed \subseteq Held(root)
      /\ ~w.fudged => ~Fudged(root) /\ Walked(w)
  BY DEF Followed
<1>5. CASE es = <<>>
  <2>1. v = [w EXCEPT !.pc = "answered"]
    BY <1>5 DEF Paged
  <2>2. v \in Walks
    BY <2>1 DEF Walks
  <2>3. /\ v.sel = w.sel /\ v.from = w.from /\ v.result = w.result /\ v.stayed = w.stayed
        /\ v.pc = "answered" /\ (v.fudged <=> w.fudged)
    BY <2>1 DEF Walks
  <2>4. ASSUME ~w.fudged PROVE Walked(v)
    <3>1. Len(es) = 0 /\ PageExact(w.from, w.sel.end, es) /\ Walked(w)
      BY <1>3, <1>4, <1>5, <2>4, EmptySeq
    <3>2. \A e \in w.stayed : Sought(e, w.sel) => Has(w.result, e)
      <4> SUFFICES ASSUME NEW e \in w.stayed, Sought(e, w.sel), ~Has(w.result, e) PROVE FALSE
        OBVIOUS
      <4>1. w.from <= e.timestamp
        BY <3>1 DEF Walked
      <4>2. /\ e \in Held(root) /\ e.type \in MetricTypes /\ e.timestamp < w.sel.end
            /\ e.timestamp <= Now - WalkDelay
        BY <1>4 DEF Sought, Among
      <4>3. Has(es, e) \/ Len(es) > 0
        BY <3>1, <4>1, <4>2 DEF PageExact
      <4> QED BY <3>1, <4>3 DEF Has
    <3> QED BY <2>3, <3>1, <3>2 DEF Walked
  <2> QED BY <2>2, <2>3, <2>4, <1>4 DEF Followed
<1>6. CASE es # <<>>
  <2>1. PICK last : last = es[Len(es)].timestamp
    OBVIOUS
  <2>2. last \in Int
    <3>1. Len(es) \in 1..Len(es)
      BY <1>3, <1>6, LenProperties, EmptySeq
    <3> QED BY <2>1, <3>1, <1>3, ElementOfSeq, TreeAssumption
  <2>3. PICK pc \in {"reading", "answered"} :
          pc = IF last + 1 >= w.sel.end THEN "answered" ELSE "reading"
    OBVIOUS
  <2>4. PICK result \in Seq(Envelopes) : result = w.result \o es
    <3>1. w.result \o es \in Seq(Envelopes)
      BY <1>1, <1>3, ConcatProperties
    <3> QED BY <3>1
  <2>5. PICK from \in Int : from = last + 1
    BY <2>2
  <2>6. v = [w EXCEPT !.pc = pc, !.result = result, !.from = from, !.errors = 0]
    BY <1>6, <2>1, <2>3, <2>4, <2>5 DEF Paged, NextStart
  <2>7. Moved(w, pc, from, result, v)
    BY <2>6, WalkFields
  <2>8. ASSUME ~w.fudged PROVE Walked(v)
    <3>1. PageExact(w.from, w.sel.end, es) /\ Walked(w)
      BY <1>3, <1>4, <2>8
    <3> QED BY <1>3, <1>4, <1>6, <2>1, <2>3, <2>4, <2>5, <2>7, <3>1, PageAdvances
  <2> QED BY <1>4, <2>7, <2>8 DEF Followed, Moved
<1> QED BY <1>5, <1>6

\* Failed reads leave a walk where it is, and an early end is marked.
LEMMA FailureWalks ==
  ASSUME NEW w \in Walks, w.pc = "reading", NEW n, Followed(w, n), NEW v,
         \/ v = [w EXCEPT !.pc = "answered", !.gaveUp = TRUE]
         \/ v = [w EXCEPT !.errors = @ + 1]
  PROVE  v \in Walks /\ Followed(v, n)
<1>1. v \in Walks
  <2>1. CASE v = [w EXCEPT !.pc = "answered", !.gaveUp = TRUE]
    BY <2>1 DEF Walks
  <2>2. CASE v = [w EXCEPT !.errors = @ + 1]
    <3>1. PICK k \in Nat : k = w.errors + 1
      BY DEF Walks
    <3>2. v = [w EXCEPT !.errors = k]
      BY <2>2, <3>1
    <3> QED BY <3>2 DEF Walks
  <2> QED BY <2>1, <2>2
<1>2. /\ v.sel = w.sel /\ v.from = w.from /\ v.result = w.result /\ v.stayed = w.stayed
      /\ v.fudged = w.fudged
  BY DEF Walks
<1>3. v.pc = "reading" \/ v.gaveUp = TRUE
  BY DEF Walks
<1>4. w.stayed \subseteq Held(n) /\ (~w.fudged => ~Fudged(n)) /\ (~w.fudged => Walked(w))
  BY DEF Followed
<1>5. Walked(w) => Walked(v)
  BY <1>2, <1>3 DEF Walked
<1> QED BY <1>1, <1>2, <1>4, <1>5 DEF Followed

\* What the tree does meanwhile takes from what stayed, and may fudge.
LEMMA TreeWalks ==
  ASSUME NEW w \in Walks, w.pc = "reading", NEW n, Followed(w, n), NEW t, NEW v,
         v = [w EXCEPT !.stayed = @ \cap Held(t), !.fudged = @ \/ Fudged(t)]
  PROVE  v \in Walks /\ Followed(v, t)
<1>1. w.stayed \in SUBSET Envelopes /\ w.fudged \in BOOLEAN /\ Fudged(t) \in BOOLEAN
  BY DEF Walks, Fudged
<1>2. PICK s \in SUBSET Envelopes : s = w.stayed \cap Held(t)
  BY <1>1
<1>3. PICK f \in BOOLEAN : f = (w.fudged \/ Fudged(t))
  BY <1>1
<1>4. v = [w EXCEPT !.stayed = s, !.fudged = f]
  BY <1>2, <1>3
<1>5. v \in Walks
  BY <1>4 DEF Walks
<1>6. /\ v.sel = w.sel /\ v.from = w.from /\ v.result = w.result /\ v.stayed = s
      /\ v.pc = "reading" /\ v.fudged = f
  BY <1>4 DEF Walks
<1>7. ~w.fudged => Walked(w)
  BY DEF Followed
<1>8. Walked(w) => Walked(v)
  BY <1>2, <1>6 DEF Walked
<1>9. ~v.fudged => ~w.fudged /\ ~Fudged(t)
  BY <1>3, <1>6
<1>10. v.stayed \subseteq Held(t)
  BY <1>2, <1>6
<1> QED BY <1>5, <1>7, <1>8, <1>9, <1>10 DEF Followed

LEMMA WalkStep == TreeInv /\ WalkInv /\ [QueryNext]_<<vars, query>> => WalkInv'
<1> SUFFICES ASSUME TreeInv, WalkInv, [QueryNext]_<<vars, query>> PROVE WalkInv'
  OBVIOUS
<1>0. TypeOK
  BY DEF TreeInv
<1>a. PICK w : w = query
  OBVIOUS
<1>b. PICK v : v = query'
  OBVIOUS
<1>c. PICK t : t = root'
  OBVIOUS
<1>d. /\ w \in {NoQuery, [pc |-> "failed"]} \cup Walks
      /\ w \in Walks => Followed(w, root)
  BY <1>a DEF WalkInv
<1>e. w.pc = "reading" => w \in Walks
  <2>1. NoQuery.pc = "idle" /\ [pc |-> "failed"].pc = "failed"
    BY DEF NoQuery
  <2> QED BY <1>d, <2>1
<1>f. ASSUME v \in {NoQuery, [pc |-> "failed"]} \cup Walks, v \in Walks => Followed(v, t)
      PROVE  WalkInv'
  BY <1>b, <1>c, <1>f DEF WalkInv
<1>1. ASSUME NEW sel \in Selections, Select(sel) PROVE WalkInv'
  <2>1. /\ v = [pc |-> "reading", sel |-> sel, from |-> sel.start - Second, errors |-> 0,
                result |-> <<>>, gaveUp |-> FALSE, stayed |-> Held(root), fudged |-> Fudged(root)]
        /\ t = root
    BY <1>1, <1>b, <1>c DEF Select, vars
  <2>2. v \in Walks /\ Followed(v, root)
    BY <1>0, <2>1, SelectWalks
  <2> QED BY <2>1, <2>2, <1>f
<1>2. CASE ReadPage
  <2>1. PICK es : es = Trimmed(Read(PageRequest(w.from, w.sel.end)), w.sel.end)
    OBVIOUS
  <2>2. w.pc = "reading" /\ t = root
    BY <1>2, <1>a, <1>c DEF ReadPage, vars
  <2>3. Paged(w, es, v)
    BY <1>2, <1>a, <1>b, <2>1 DEF ReadPage, Paged
  <2>4. w \in Walks /\ Followed(w, root)
    BY <2>2, <1>d, <1>e
  <2>5. v \in Walks /\ Followed(v, root)
    BY <1>0, <2>1, <2>2, <2>3, <2>4, PageWalks
  <2> QED BY <2>2, <2>5, <1>f
<1>3. CASE ReadFails
  <2>1. /\ w.pc = "reading" /\ t = root
        /\ \/ v = [w EXCEPT !.pc = "answered", !.gaveUp = TRUE]
           \/ v = [w EXCEPT !.errors = @ + 1]
    BY <1>3, <1>a, <1>b, <1>c DEF ReadFails, vars
  <2>2. w \in Walks /\ Followed(w, root)
    BY <2>1, <1>d, <1>e
  <2>3. v \in Walks /\ Followed(v, root)
    BY <2>1, <2>2, FailureWalks
  <2> QED BY <2>1, <2>3, <1>f
<1>4. CASE Deadline
  <2>1. v = [pc |-> "failed"] /\ v.pc = "failed"
    BY <1>4, <1>b DEF Deadline
  <2>2. v \notin Walks
    BY <2>1 DEF Walks
  <2> QED BY <2>1, <2>2, <1>f
<1>5. CASE TreeStep
  <2>1. CASE w.pc = "reading"
    <3>1. v = [w EXCEPT !.stayed = @ \cap Held(t), !.fudged = @ \/ Fudged(t)]
      BY <1>5, <1>a, <1>b, <1>c, <2>1 DEF TreeStep
    <3>2. w \in Walks /\ Followed(w, root)
      BY <2>1, <1>d, <1>e
    <3>3. v \in Walks /\ Followed(v, t)
      BY <2>1, <3>1, <3>2, TreeWalks
    <3> QED BY <3>3, <1>f
  <2>2. CASE w.pc # "reading"
    <3>1. v = w /\ w.pc = "idle"
      BY <1>5, <1>a, <1>b, <2>2 DEF TreeStep
    <3>2. w \notin Walks
      BY <3>1 DEF Walks
    <3> QED BY <3>1, <3>2, <1>d, <1>f
  <2> QED BY <2>1, <2>2
<1>6. CASE UNCHANGED <<vars, query>>
  BY <1>6, <1>a, <1>b, <1>c, <1>d, <1>f DEF vars
<1> QED BY <1>1, <1>2, <1>3, <1>4, <1>5, <1>6 DEF QueryNext

\* A query changes the tree only by steps of the tree.
LEMMA QueryKeepsTree == [QueryNext]_<<vars, query>> => [Next]_vars
  BY DEF QueryNext, Select, ReadPage, ReadFails, Deadline, TreeStep

\* Reading takes nothing away: under any queries the tree is still a StorageTree,
\* so that what is proved of its reads holds for every page.
THEOREM QueriesLeaveTree == QuerySpec => Spec
<1>1. QueryInit => Init
  BY DEF QueryInit
<1> QED BY <1>1, QueryKeepsTree, PTL DEF QuerySpec, Spec

LEMMA QueryInvariance == QuerySpec => [](TreeInv /\ WalkInv)
<1>1. QueryInit => TreeInv /\ WalkInv
  BY TreeInit, WalkInit DEF QueryInit
<1>2. TreeInv /\ WalkInv /\ [QueryNext]_<<vars, query>> => TreeInv' /\ WalkInv'
  BY QueryKeepsTree, TreeStepInv, WalkStep
<1> QED BY <1>1, <1>2, PTL DEF QuerySpec

\* For any pages, limits and writes between the pages: while no two envelopes
\* share a key, the walking reader finds each envelope of the range once and in
\* order, and all that was there all the time, unless it gave up.
THEOREM WalksAreExact == QuerySpec => []WalkExact
<1>1. WalkInv => WalkExact
  <2> SUFFICES ASSUME WalkInv, query.pc \in {"reading", "answered"}, ~query.fudged
               PROVE  /\ \A i \in 1..Len(query.result) : InWalk(query.result[i])
                      /\ \A i, j \in 1..Len(query.result) :
                           i < j => query.result[i].timestamp < query.result[j].timestamp
                      /\ query.pc = "answered" /\ ~query.gaveUp =>
                           \A e \in query.stayed :
                             InWalk(e) /\ e.timestamp <= Now - WalkDelay =>
                               \E i \in 1..Len(query.result) : query.result[i] = e
    BY DEF WalkExact
  <2>1. query \in Walks
    <3>1. NoQuery.pc = "idle" /\ [pc |-> "failed"].pc = "failed"
      BY DEF NoQuery
    <3> QED BY <3>1 DEF WalkInv
  <2>2. Walked(query)
    BY <2>1 DEF WalkInv, Followed
  <2>3. \A e : InWalk(e) <=> Among(e, query.sel)
    BY DEF InWalk, Among
  <2>4. /\ \A i \in 1..Len(query.result) : Among(query.result[i], query.sel)
        /\ Increasing(query.result)
        /\ query.pc = "answered" /\ ~query.gaveUp =>
             \A e \in query.stayed : Sought(e, query.sel) => Has(query.result, e)
    BY <2>2 DEF Walked
  <2> QED BY <2>3, <2>4 DEF Increasing, Sought, Has
<1> QED BY <1>1, QueryInvariance, PTL

-----------------------------------------------------------------------------
(* The binary search of the engine. *)

Bound == [lo : Int, hi : Int]

\* One round of sort.Search.
Halved(b, points, t) ==
  IF b.lo >= b.hi THEN b
  ELSE IF AtOrAfter(points[(b.lo + b.hi) \div 2], t) THEN [lo |-> b.lo, hi |-> (b.lo + b.hi) \div 2]
  ELSE [lo |-> (b.lo + b.hi) \div 2 + 1, hi |-> b.hi]

Searched(b, points, t) ==
  /\ b[0] = [lo |-> 1, hi |-> Len(points) + 1]
  /\ \A k \in 1..Len(points) : b[k] = Halved(b[k - 1], points, t)

LEMMA HalvedType ==
  ASSUME NEW points, NEW t, NEW b \in Bound PROVE Halved(b, points, t) \in Bound
<1>1. b.lo \in Int /\ b.hi \in Int
  BY DEF Bound
<1>2. PICK mid \in Int : mid = (b.lo + b.hi) \div 2
  BY <1>1
<1>3. /\ [lo |-> b.lo, hi |-> mid] \in Bound
      /\ [lo |-> mid + 1, hi |-> b.hi] \in Bound
  BY <1>1, <1>2 DEF Bound
<1> QED BY <1>2, <1>3 DEF Halved

\* The rounds of the loop follow one another.
LEMMA SeekDef ==
  ASSUME NEW points, Len(points) \in Nat, NEW t
  PROVE  \E b \in [0..Len(points) -> Bound] :
           Searched(b, points, t) /\ Seek(points, t) = b[Len(points)].lo
<1> DEFINE N == Len(points)
           base == [lo |-> 1, hi |-> N + 1]
           step == [x \in (1..N) \X Bound |-> Halved(x[2], points, t)]
           body(f, k) == IF k = 0 THEN [lo |-> 1, hi |-> Len(points) + 1]
                         ELSE LET b == f[k - 1]
                                  mid == (b.lo + b.hi) \div 2
                              IN  IF b.lo >= b.hi THEN b
                                  ELSE IF AtOrAfter(points[mid], t) THEN [lo |-> b.lo, hi |-> mid]
                                  ELSE [lo |-> mid + 1, hi |-> b.hi]
           Bounds == CHOOSE f : f = [k \in 0..Len(points) |-> body(f, k)]
<1>0. N \in Nat
  OBVIOUS
<1>1. base \in Bound
  BY DEF Bound
<1>2. step \in [(1..N) \X Bound -> Bound]
  BY HalvedType
<1>3. \A k \in 1..N, b \in Bound : step[<<k, b>>] = Halved(b, points, t)
  OBVIOUS
<1>4. PICK f \in [0..N -> Bound] : InRounds(f, N, base, step)
  <2> HIDE DEF N, base, step
  <2> QED BY <1>0, <1>1, <1>2, BoundedRecursion
<1>5. ASSUME NEW k \in 0..N PROVE f[k] = body(f, k)
  <2>1. f[0] = base /\ (k # 0 => f[k] = step[<<k, f[k - 1]>>])
    <3> HIDE DEF base, step
    <3> QED BY <1>4 DEF InRounds
  <2>2. CASE k = 0
    BY <2>1, <2>2
  <2>3. CASE k # 0
    <3>1. k \in 1..N /\ k - 1 \in 0..N
      BY <2>3
    <3>2. f[k] = Halved(f[k - 1], points, t)
      <4> HIDE DEF step
      <4> QED BY <2>1, <2>3, <3>1, <1>3, <1>4
    <3> QED BY <2>3, <3>2 DEF Halved
  <2> QED BY <2>2, <2>3
<1>6. f = [k \in 0..N |-> body(f, k)]
  <2> HIDE DEF body, base, step
  <2> QED BY <1>4, <1>5
<1>7. Bounds = [k \in 0..N |-> body(Bounds, k)]
  <2> HIDE DEF body
  <2> QED BY <1>6
<1>8. \A k \in 0..N : Bounds[k] = body(Bounds, k)
  <2> HIDE DEF body, Bounds
  <2> QED BY <1>7
<1>9. Seek(points, t) = Bounds[N].lo
  BY DEF Seek
<1>10. Bounds[0] = base
  <2>1. body(Bounds, 0) = base
    OBVIOUS
  <2> HIDE DEF body, Bounds, base
  <2> QED BY <2>1, <1>8
<1>11. ASSUME NEW k \in 1..N PROVE Bounds[k] = Halved(Bounds[k - 1], points, t)
  <2>1. k \in 0..N /\ k # 0
    OBVIOUS
  <2>2. Bounds[k] = body(Bounds, k)
    <3> HIDE DEF body, Bounds
    <3> QED BY <2>1, <1>8
  <2> HIDE DEF Bounds
  <2> QED BY <2>1, <2>2 DEF Halved
<1>12. Bounds \in [0..N -> Bound]
  <2> DEFINE S == {k \in Nat : k <= N => Bounds[k] \in Bound}
  <2> HIDE DEF Bounds, body, step, base
  <2>1. 0 \in S
    BY <1>1, <1>10
  <2>2. ASSUME NEW k \in S PROVE k + 1 \in S
    <3> SUFFICES ASSUME k + 1 <= N PROVE Bounds[k + 1] \in Bound
      OBVIOUS
    <3>1. k + 1 \in 1..N /\ k <= N /\ (k + 1) - 1 = k
      OBVIOUS
    <3>2. Bounds[k] \in Bound
      BY <3>1
    <3>3. Bounds[k + 1] = Halved(Bounds[k], points, t)
      BY <3>1, <1>11
    <3> QED BY <3>2, <3>3, HalvedType
  <2>3. S = Nat
    <3>1. S \in SUBSET Nat
      OBVIOUS
    <3> HIDE DEF S
    <3> QED BY <2>1, <2>2, <3>1, SetInduction
  <2>4. \A k \in 0..N : Bounds[k] \in Bound
    BY <2>3
  <2> HIDE DEF S
  <2> QED BY <1>7, <2>4
<1> HIDE DEF Bounds, body, step
<1>13. Searched(Bounds, points, t)
  BY <1>10, <1>11 DEF Searched
<1> QED BY <1>9, <1>12, <1>13

\* What is known of the bounds after k rounds: the point sought is at lo or after
\* and at hi or before, and there are at most Len(points) - k others left.
Between(b, points, t, k) ==
  /\ 1 <= b.lo /\ b.lo <= b.hi /\ b.hi <= Len(points) + 1
  /\ b.hi - b.lo <= Len(points) - k
  /\ \A j \in 1..(b.lo - 1) : points[j] < t
  /\ \A j \in b.hi..Len(points) : points[j] >= t

Nondecreasing(points) == \A i, j \in 1..Len(points) : i <= j => points[i] <= points[j]

LEMMA Middle ==
  ASSUME NEW lo \in Int, NEW hi \in Int, lo < hi, NEW mid, mid = (lo + hi) \div 2
  PROVE  mid \in Int /\ lo <= mid /\ mid < hi
  OBVIOUS

LEMMA Narrower ==
  ASSUME NEW lo \in Int, NEW hi \in Int, NEW mid \in Int, NEW n \in Int, NEW k \in Int,
         1 <= lo, lo <= mid, mid < hi, hi <= n + 1, hi - lo <= n - k
  PROVE  /\ 1 <= mid + 1 /\ mid + 1 <= hi /\ mid <= n + 1
         /\ mid - lo <= n - (k + 1) /\ hi - (mid + 1) <= n - (k + 1)
  OBVIOUS

LEMMA HalvedBetween ==
  ASSUME NEW points \in Seq(Int), Nondecreasing(points), NEW t \in Int, NEW k \in Nat,
         k + 1 <= Len(points), NEW b \in Bound, Between(b, points, t, k),
         NEW c, c = Halved(b, points, t)
  PROVE  Between(c, points, t, k + 1)
<1>0. /\ b.lo \in Int /\ b.hi \in Int /\ Len(points) \in Nat
      /\ \A i \in 1..Len(points) : points[i] \in Int
  BY LenProperties, ElementOfSeq DEF Bound
<1>1. /\ 1 <= b.lo /\ b.lo <= b.hi /\ b.hi <= Len(points) + 1
      /\ b.hi - b.lo <= Len(points) - k
      /\ \A j \in 1..(b.lo - 1) : points[j] < t
      /\ \A j \in b.hi..Len(points) : points[j] >= t
  BY DEF Between
<1>a. /\ 1 <= b.lo /\ b.lo <= b.hi /\ b.hi <= Len(points) + 1
      /\ b.hi - b.lo <= Len(points) - k
  BY <1>1
<1>b. b.lo \in Int /\ b.hi \in Int /\ Len(points) \in Int /\ k \in Int
  BY <1>0
<1>2. CASE b.lo >= b.hi
  <2>1. c = b
    BY <1>2 DEF Halved
  <2>2. b.hi - b.lo <= Len(points) - (k + 1)
    BY <1>0, <1>1, <1>2
  <2> QED BY <1>1, <2>1, <2>2 DEF Between
<1>3. CASE b.lo < b.hi
  <2>1. PICK mid : mid = (b.lo + b.hi) \div 2
    OBVIOUS
  <2>2. mid \in Int /\ b.lo <= mid /\ mid < b.hi
    BY <1>0, <1>3, <2>1, Middle
  <2>3. mid \in 1..Len(points) /\ points[mid] \in Int
    BY <1>0, <1>1, <2>2, SMTT(30)
  <2>4. ~(b.lo >= b.hi)
    BY <1>0, <1>3
  <2>5. /\ 1 <= mid + 1 /\ mid + 1 <= b.hi /\ mid <= Len(points) + 1
        /\ mid - b.lo <= Len(points) - (k + 1) /\ b.hi - (mid + 1) <= Len(points) - (k + 1)
    <3>1. PICK lo \in Int, hi \in Int, n \in Int : lo = b.lo /\ hi = b.hi /\ n = Len(points)
      BY <1>b
    <3>2. 1 <= lo /\ lo <= mid /\ mid < hi /\ hi <= n + 1 /\ hi - lo <= n - k
      BY <1>a, <2>2, <3>1
    <3>3. /\ 1 <= mid + 1 /\ mid + 1 <= hi /\ mid <= n + 1
          /\ mid - lo <= n - (k + 1) /\ hi - (mid + 1) <= n - (k + 1)
      BY <1>b, <2>2, <3>2, Narrower
    <3> QED BY <3>1, <3>3
  <2>6. CASE points[mid] >= t
    <3>1. c = [lo |-> b.lo, hi |-> mid] /\ c.lo = b.lo /\ c.hi = mid
      BY <2>1, <2>4, <2>6 DEF Halved, AtOrAfter
    <3>2. \A j \in mid..Len(points) : points[j] >= t
      <4> SUFFICES ASSUME NEW j \in mid..Len(points) PROVE points[j] >= t
        OBVIOUS
      <4>1. j \in 1..Len(points) /\ mid <= j
        BY <2>3
      <4>2. points[mid] <= points[j] /\ points[j] \in Int
        BY <4>1, <2>3, <1>0 DEF Nondecreasing
      <4> QED BY <4>2, <2>3, <2>6
    <3> QED BY <1>1, <2>2, <2>5, <3>1, <3>2 DEF Between
  <2>7. CASE ~(points[mid] >= t)
    <3>1. c = [lo |-> mid + 1, hi |-> b.hi] /\ c.lo = mid + 1 /\ c.hi = b.hi
      BY <2>1, <2>4, <2>7 DEF Halved, AtOrAfter
    <3>2. \A j \in 1..((mid + 1) - 1) : points[j] < t
      <4> SUFFICES ASSUME NEW j \in 1..((mid + 1) - 1) PROVE points[j] < t
        OBVIOUS
      <4>1. j \in 1..Len(points) /\ j <= mid
        BY <2>2, <2>3, <1>0
      <4>2. points[j] <= points[mid] /\ points[j] \in Int
        BY <4>1, <2>3, <1>0 DEF Nondecreasing
      <4> QED BY <4>2, <2>3, <2>7
    <3> QED BY <1>1, <2>5, <3>1, <3>2 DEF Between
  <2> QED BY <2>6, <2>7
<1> QED BY <1>0, <1>2, <1>3

\* The search finds the first point at or after t among points in order.
LEMMA SeekFinds ==
  ASSUME NEW points \in Seq(Int), Nondecreasing(points), NEW t \in Int,
         NEW first, first = Seek(points, t)
  PROVE  /\ \A j \in 1..(first - 1) : points[j] < t
         /\ first <= Len(points) => points[first] >= t
<1>0. Len(points) \in Nat
  BY LenProperties
<1>1. PICK b \in [0..Len(points) -> Bound] :
        Searched(b, points, t) /\ Seek(points, t) = b[Len(points)].lo
  BY <1>0, SeekDef
<1> DEFINE S == {k \in Nat : k <= Len(points) => Between(b[k], points, t, k)}
<1>2. 0 \in S
  <2>1. b[0].lo = 1 /\ b[0].hi = Len(points) + 1
    BY <1>1 DEF Searched
  <2>2. Between(b[0], points, t, 0)
    BY <1>0, <2>1 DEF Between
  <2> QED BY <2>2
<1>3. ASSUME NEW k \in S PROVE k + 1 \in S
  <2> SUFFICES ASSUME k + 1 <= Len(points) PROVE Between(b[k + 1], points, t, k + 1)
    OBVIOUS
  <2>1. k \in Nat /\ k \in 0..Len(points) /\ k + 1 \in 1..Len(points) /\ (k + 1) - 1 = k
    BY <1>0
  <2>2. b[k] \in Bound /\ Between(b[k], points, t, k)
    BY <2>1
  <2>3. b[k + 1] = Halved(b[k], points, t)
    BY <2>1, <1>1 DEF Searched
  <2> QED BY <2>1, <2>2, <2>3, HalvedBetween
<1>4. S = Nat
  <2>1. S \in SUBSET Nat
    OBVIOUS
  <2> HIDE DEF S
  <2> QED BY <1>2, <1>3, <2>1, SetInduction
<1>5. Between(b[Len(points)], points, t, Len(points))
  BY <1>0, <1>4
<1>6. PICK c \in Bound : c = b[Len(points)]
  BY <1>0
<1>7. c.lo \in Int /\ c.hi \in Int /\ first = c.lo
  BY <1>1, <1>6 DEF Bound
<1>8. /\ 1 <= c.lo /\ c.lo <= c.hi /\ c.hi - c.lo <= 0
      /\ \A j \in 1..(c.lo - 1) : points[j] < t
      /\ \A j \in c.hi..Len(points) : points[j] >= t
  BY <1>0, <1>5, <1>6 DEF Between
<1>9. c.hi = c.lo
  BY <1>7, <1>8
<1> QED BY <1>0, <1>7, <1>8, <1>9

\* The whole seconds of two times are in the order of the times.
LEMMA SecondsInOrder ==
  ASSUME NEW a \in Int, NEW b \in Int, a <= b
  PROVE  a \div Second \in Int /\ a \div Second <= b \div Second
<1>1. PICK s \in Int : s = Second /\ s > 0
  BY WalkAssumption
<1>2. PICK p \in Int : p = a \div s
  BY <1>1
<1>3. PICK q \in Int : q = b \div s
  BY <1>1
<1>4. s * p <= a
  BY <1>1, <1>2
<1>5. b < s * q + s
  BY <1>1, <1>3
<1>6. ASSUME q < p PROVE FALSE
  <2>1. q + 1 <= p
    BY <1>6
  <2>2. PICK d \in Nat : p = q + 1 + d
    BY <2>1
  <2>3. s * p = s * q + s + s * d
    BY <2>2
  <2>4. s * d >= 0 /\ s * d \in Int /\ s * p \in Int /\ s * q \in Int
    BY <1>1
  <2> QED BY <2>3, <2>4, <1>1, <1>4, <1>5
<1> QED BY <1>1, <1>2, <1>3, <1>6

\* One envelope of seriesSetBuilder.add.
WithPoint(ps, e, tags, sel) ==
  IF Selected(e, sel) /\ e.tags = tags THEN Append(ps, e.timestamp \div Second) ELSE ps

LEMMA WithPointType ==
  ASSUME NEW ps \in Seq(Int), NEW e \in Envelopes, NEW tags, NEW sel
  PROVE  WithPoint(ps, e, tags, sel) \in Seq(Int)
<1>1. PICK p \in Int : p = e.timestamp \div Second
  BY TreeAssumption, SecondsInOrder
<1> QED BY <1>1, AppendProperties DEF WithPoint

Built(a, es, tags, sel) ==
  a[0] = <<>> /\ \A i \in 1..Len(es) : a[i] = WithPoint(a[i - 1], es[i], tags, sel)

\* The points are added one after the other.
LEMMA PointsDef ==
  ASSUME query.result \in Seq(Envelopes), NEW tags
  PROVE  \E a \in [0..Len(query.result) -> Seq(Int)] :
           Built(a, query.result, tags, query.sel) /\ Points(tags) = a[Len(query.result)]
<1> DEFINE N == Len(query.result)
           V == Seq(Int)
           step == [x \in (1..N) \X V |-> WithPoint(x[2], query.result[x[1]], tags, query.sel)]
           body(f, i) == IF i = 0 THEN <<>>
                         ELSE LET e == query.result[i] IN
                              IF Selected(e, query.sel) /\ e.tags = tags
                                THEN Append(f[i - 1], e.timestamp \div Second)
                                ELSE f[i - 1]
           Added == CHOOSE f : f = [i \in 0..Len(query.result) |-> body(f, i)]
<1>0. N \in Nat /\ \A i \in 1..N : query.result[i] \in Envelopes
  BY LenProperties, ElementOfSeq
<1>1. <<>> \in V
  BY EmptySeq
<1>2. step \in [(1..N) \X V -> V]
  <2>1. \A x \in (1..N) \X V : WithPoint(x[2], query.result[x[1]], tags, query.sel) \in V
    BY <1>0, WithPointType
  <2> HIDE DEF V
  <2> QED BY <2>1
<1>3. \A i \in 1..N, ps \in V : step[<<i, ps>>] = WithPoint(ps, query.result[i], tags, query.sel)
  <2> HIDE DEF V
  <2> QED OBVIOUS
<1>4. PICK f \in [0..N -> V] : InRounds(f, N, <<>>, step)
  <2> HIDE DEF N, V, step
  <2> QED BY <1>0, <1>1, <1>2, BoundedRecursion
<1>5. ASSUME NEW i \in 0..N PROVE f[i] = body(f, i)
  <2> HIDE DEF N, V
  <2>1. f[0] = <<>> /\ (i # 0 => f[i] = step[<<i, f[i - 1]>>])
    <3> HIDE DEF step
    <3> QED BY <1>0, <1>4 DEF InRounds
  <2>2. CASE i = 0
    BY <2>1, <2>2
  <2>3. CASE i # 0
    <3>1. i \in 1..N /\ i - 1 \in 0..N
      BY <1>0, <2>3
    <3>2. f[i] = WithPoint(f[i - 1], query.result[i], tags, query.sel)
      <4> HIDE DEF step
      <4> QED BY <2>1, <2>3, <3>1, <1>3, <1>4
    <3> QED BY <2>3, <3>2 DEF WithPoint
  <2> QED BY <2>2, <2>3
<1>6. f = [i \in 0..N |-> body(f, i)]
  <2> HIDE DEF body, N, V, step
  <2> QED BY <1>4, <1>5
<1>7. Added = [i \in 0..N |-> body(Added, i)]
  <2> HIDE DEF body
  <2> QED BY <1>6
<1>8. \A i \in 0..N : Added[i] = body(Added, i)
  <2> HIDE DEF body, Added
  <2> QED BY <1>7
<1>9. Points(tags) = Added[N]
  BY DEF Points
<1>10. Added[0] = <<>>
  <2>1. body(Added, 0) = <<>>
    OBVIOUS
  <2> HIDE DEF body, Added, N
  <2> QED BY <2>1, <1>0, <1>8
<1>11. ASSUME NEW i \in 1..N
       PROVE  Added[i] = WithPoint(Added[i - 1], query.result[i], tags, query.sel)
  <2>1. i \in 0..N /\ i # 0
    BY <1>0
  <2>2. Added[i] = body(Added, i)
    <3> HIDE DEF body, Added
    <3> QED BY <2>1, <1>8
  <2> HIDE DEF Added
  <2> QED BY <2>1, <2>2 DEF WithPoint
<1>12. Added \in [0..N -> V]
  <2> DEFINE S == {i \in Nat : i <= N => Added[i] \in V}
  <2> HIDE DEF Added, body, step, N
  <2>1. 0 \in S
    BY <1>1, <1>10
  <2>2. ASSUME NEW i \in S PROVE i + 1 \in S
    <3> SUFFICES ASSUME i + 1 <= N PROVE Added[i + 1] \in V
      OBVIOUS
    <3>1. i + 1 \in 1..N /\ i <= N /\ (i + 1) - 1 = i
      BY <1>0
    <3>2. Added[i] \in V
      BY <3>1
    <3>3. Added[i + 1] = WithPoint(Added[i], query.result[i + 1], tags, query.sel)
      BY <3>1, <1>11
    <3> QED BY <3>1, <3>2, <3>3, <1>0, WithPointType
  <2>3. S = Nat
    <3>1. S \in SUBSET Nat
      OBVIOUS
    <3> HIDE DEF S
    <3> QED BY <2>1, <2>2, <3>1, SetInduction
  <2>4. \A i \in 0..N : Added[i] \in V
    BY <2>3, <1>0
  <2> HIDE DEF S, V
  <2> QED BY <1>7, <2>4
<1> HIDE DEF Added, body, step
<1>13. Built(Added, query.result, tags, query.sel)
  BY <1>10, <1>11 DEF Built
<1> QED BY <1>9, <1>12, <1>13

\* The points of the first k envelopes are in order, and each is of one of them.
Series(ps, es, k) ==
  /\ Nondecreasing(ps)
  /\ \A i \in 1..Len(ps) : \E m \in 1..k : ps[i] = es[m].timestamp \div Second

LEMMA SeriesGrows ==
  ASSUME NEW es \in Seq(Envelopes), Increasing(es), NEW k \in Nat, k + 1 <= Len(es),
         NEW ps \in Seq(Int), Series(ps, es, k), NEW tags, NEW sel,
         NEW c, c = WithPoint(ps, es[k + 1], tags, sel)
  PROVE  Series(c, es, k + 1)
<1>0. /\ Len(ps) \in Nat /\ Len(es) \in Nat /\ \A i \in 1..Len(ps) : ps[i] \in Int
      /\ \A i \in 1..Len(es) : es[i] \in Envelopes /\ es[i].timestamp \in Int
  BY LenProperties, ElementOfSeq, TreeAssumption
<1>1. /\ \A i, j \in 1..Len(ps) : i <= j => ps[i] <= ps[j]
      /\ \A i \in 1..Len(ps) : \E m \in 1..k : ps[i] = es[m].timestamp \div Second
  BY DEF Series, Nondecreasing
<1>2. \A m \in 1..k : m \in 1..(k + 1)
  OBVIOUS
<1>3. CASE c = ps
  BY <1>1, <1>2, <1>3 DEF Series, Nondecreasing
<1>4. CASE c # ps
  <2>1. k + 1 \in 1..Len(es) /\ k + 1 \in 1..(k + 1)
    BY <1>0
  <2>2. PICK p \in Int : p = es[k + 1].timestamp \div Second
    <3>1. PICK u \in Int : u = es[k + 1].timestamp
      BY <1>0, <2>1
    <3>2. u \div Second \in Int
      BY SecondsInOrder
    <3> QED BY <3>1, <3>2
  <2>3. c = Append(ps, p)
    BY <1>4, <2>2 DEF WithPoint
  <2>4. /\ Len(c) = Len(ps) + 1 /\ c[Len(ps) + 1] = p
        /\ \A i \in 1..Len(ps) : c[i] = ps[i]
    BY <2>3, AppendProperties
  <2>5. ASSUME NEW i \in 1..Len(ps) PROVE ps[i] <= p
    <3>1. PICK m \in 1..k : ps[i] = es[m].timestamp \div Second
      BY <1>1
    <3>2. m \in 1..Len(es) /\ m < k + 1
      BY <1>0, <2>1
    <3>3. es[m].timestamp < es[k + 1].timestamp
      BY <2>1, <3>2 DEF Increasing
    <3>4. es[m].timestamp \in Int /\ es[k + 1].timestamp \in Int
      BY <1>0, <2>1, <3>2
    <3>5. es[m].timestamp <= es[k + 1].timestamp
      BY <3>3, <3>4
    <3> QED BY <2>2, <3>1, <3>4, <3>5, SecondsInOrder
  <2>6. \A i \in 1..Len(c) : i \in 1..Len(ps) \/ i = Len(ps) + 1
    BY <1>0, <2>4
  <2>7. Nondecreasing(c)
    <3> SUFFICES ASSUME NEW i \in 1..Len(c), NEW j \in 1..Len(c), i <= j PROVE c[i] <= c[j]
      BY DEF Nondecreasing
    <3>1. CASE i \in 1..Len(ps) /\ j \in 1..Len(ps)
      BY <3>1, <1>1, <2>4
    <3>2. CASE i \in 1..Len(ps) /\ j = Len(ps) + 1
      BY <3>2, <2>4, <2>5
    <3>3. CASE i = Len(ps) + 1
      <4>1. j = Len(ps) + 1
        BY <3>3, <1>0, <2>4
      <4> QED BY <3>3, <4>1, <2>4
    <3> QED BY <2>6, <3>1, <3>2, <3>3
  <2>8. \A i \in 1..Len(c) : \E m \in 1..(k + 1) : c[i] = es[m].timestamp \div Second
    <3> SUFFICES ASSUME NEW i \in 1..Len(c)
                 PROVE  \E m \in 1..(k + 1) : c[i] = es[m].timestamp \div Second
      OBVIOUS
    <3>1. CASE i \in 1..Len(ps)
      <4>1. PICK m \in 1..k : ps[i] = es[m].timestamp \div Second
        BY <3>1, <1>1
      <4>2. c[i] = es[m].timestamp \div Second /\ m \in 1..(k + 1)
        BY <3>1, <4>1, <1>2, <2>4
      <4> QED BY <4>2
    <3>2. CASE i = Len(ps) + 1
      BY <3>2, <2>1, <2>2, <2>4
    <3> QED BY <2>6, <3>1, <3>2
  <2> QED BY <2>7, <2>8 DEF Series
<1> QED BY <1>3, <1>4

\* The points of any tags of an exact walk are in order.
LEMMA PointsInOrder ==
  ASSUME query.result \in Seq(Envelopes), Increasing(query.result), NEW tags,
         NEW points, points = Points(tags)
  PROVE  points \in Seq(Int) /\ Nondecreasing(points)
<1>1. PICK es \in Seq(Envelopes) : es = query.result
  OBVIOUS
<1>2. PICK sel : sel = query.sel
  OBVIOUS
<1>3. Len(es) \in Nat /\ Increasing(es)
  BY <1>1, LenProperties
<1>4. PICK a \in [0..Len(es) -> Seq(Int)] : Built(a, es, tags, sel) /\ points = a[Len(es)]
  BY <1>1, <1>2, PointsDef
<1> DEFINE S == {k \in Nat : k <= Len(es) => Series(a[k], es, k)}
<1>5. 0 \in S
  <2>1. Len(a[0]) = 0
    BY <1>4, EmptySeq DEF Built
  <2>2. Series(a[0], es, 0)
    BY <2>1 DEF Series, Nondecreasing
  <2> QED BY <2>2
<1>6. ASSUME NEW k \in S PROVE k + 1 \in S
  <2> SUFFICES ASSUME k + 1 <= Len(es) PROVE Series(a[k + 1], es, k + 1)
    OBVIOUS
  <2>1. k \in Nat /\ k \in 0..Len(es) /\ k + 1 \in 1..Len(es) /\ (k + 1) - 1 = k
    BY <1>3
  <2>2. PICK ps \in Seq(Int) : ps = a[k] /\ Series(ps, es, k)
    BY <2>1
  <2>3. a[k + 1] = WithPoint(ps, es[k + 1], tags, sel)
    BY <2>1, <2>2, <1>4 DEF Built
  <2> QED BY <2>1, <2>2, <2>3, <1>3, SeriesGrows
<1>7. S = Nat
  <2>1. S \in SUBSET Nat
    OBVIOUS
  <2> HIDE DEF S
  <2> QED BY <1>5, <1>6, <2>1, SetInduction
<1>8. Series(points, es, Len(es))
  BY <1>3, <1>4, <1>7
<1> QED BY <1>3, <1>4, <1>8 DEF Series

\* For any pages, limits, selections and writes between the pages: as long as no
\* two envelopes share a key, the engine's binary search finds, in the points of
\* any series of an answer, the first one at or after any time.
THEOREM SeeksAreExact == QuerySpec => []SeekExact
<1>1. WalkInv => SeekExact
  <2> SUFFICES ASSUME WalkInv, query.pc = "answered", ~query.fudged,
                      NEW i \in 1..Len(query.result), NEW t \in 0..(Now \div Second),
                      NEW points, points = Points(query.result[i].tags),
                      NEW first, first = Seek(points, t)
               PROVE  /\ \A j \in 1..(first - 1) : points[j] < t
                      /\ first <= Len(points) => points[first] >= t
    BY DEF SeekExact
  <2>1. query \in Walks
    <3>1. NoQuery.pc = "idle" /\ [pc |-> "failed"].pc = "failed"
      BY DEF NoQuery
    <3> QED BY <3>1 DEF WalkInv
  <2>2. query.result \in Seq(Envelopes)
    BY <2>1 DEF Walks
  <2>3. Increasing(query.result)
    BY <2>1 DEF WalkInv, Followed, Walked
  <2>4. PICK tags : tags = query.result[i].tags
    OBVIOUS
  <2>5. points \in Seq(Int) /\ Nondecreasing(points)
    BY <2>2, <2>3, <2>4, PointsInOrder
  <2>6. t \in Int
    OBVIOUS
  <2> QED BY <2>5, <2>6, SeekFinds
<1> QED BY <1>1, QueryInvariance, PTL
=============================================================================
