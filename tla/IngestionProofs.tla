--------------------------- MODULE IngestionProofs ---------------------------
(***************************************************************************)
(* Proofs about the syslog server and the nozzle: the counters account for   *)
(* every message and every envelope, no buffer outgrows its size, and what   *)
(* arrives at log-cache arrives once and in order.                           *)
(***************************************************************************)
EXTENDS Ingestion, FiniteSetTheorems, TLAPS

Envelope == Nat \ {0}

\* TypeOK without the bounds on numbers, which follow from Reconciles.
ServerType ==
  /\ listening \in BOOLEAN
  /\ conn \in [Conns -> ConnStates]
  /\ results \in 0..MaxResults /\ entered \in Nat /\ ingress \in Nat /\ invalidIngress \in Nat

ChannelType == envelopes \in Seq(Envelope) /\ Len(envelopes) <= ChannelSize

ReaderType ==
  /\ taken \in Seq(Envelope) /\ uncounted \in {0, 1} /\ Len(taken) + uncounted <= 1
  /\ nozzleIngress \in Nat

DiodeType ==
  /\ slot \in [0..(DiodeSize - 1) -> [data : Nat, seq : Nat]]
  /\ writeIndex \in Nat /\ readIndex \in Nat /\ missed \in Nat

BatchType ==
  /\ batch \in Seq(Envelope) /\ Len(batch) < BatchChannelSize
  /\ fired \in BOOLEAN
  /\ batches \in Seq(Seq(Envelope)) /\ Len(batches) <= BatchChannelSize
  /\ \A b \in 1..Len(batches) : Len(batches[b]) \in 1..BatchChannelSize
  /\ dropped \in Nat

WriterType ==
  /\ writer \in [Writers -> Seq(Envelope)]
  /\ \A w \in Writers : Len(writer[w]) <= BatchChannelSize
  /\ nozzleEgress \in Nat /\ nozzleErr \in Nat /\ failed \in Nat
  /\ arrived \in Seq(Seq(Envelope))

TypeInv == ServerType /\ ChannelType /\ ReaderType /\ DiodeType /\ BatchType /\ WriterType

\* An envelope's number is its place in the stream: the reader holds the one that
\* follows those written to the diode, the channel the ones that follow that, and a
\* slot holds the one its sequence number says.
StreamInv ==
  /\ writeIndex = nozzleIngress + uncounted /\ readIndex <= writeIndex
  /\ entered = Len(envelopes) + Len(taken) + writeIndex
  /\ taken # <<>> => taken[1] = writeIndex + 1
  /\ \A k \in 1..Len(envelopes) : envelopes[k] = writeIndex + Len(taken) + k
  /\ \A i \in 0..(DiodeSize - 1) : slot[i] # Empty =>
       slot[i].data = slot[i].seq + 1 /\ slot[i].seq < writeIndex

\* The parts of Reconciles: the parsers' results, the envelopes that entered the
\* channel, those the batcher has read, and the failed calls.
ConnsIn(states) == {c \in Conns : conn[c] \in states}
Unsettled == {"sending", "counting", "panicked"}
UnsettledConns == ConnsIn(Unsettled)
CountingConns == ConnsIn({"counting"})

Counted ==
  /\ results = ingress + invalidIngress + Cardinality(UnsettledConns)
  /\ entered = ingress + Cardinality(CountingConns)
Carried ==
  readIndex = missed + Len(batch) + Cardinality(Places(batches)) + Cardinality(Places(writer))
                + dropped + failed + nozzleEgress
FailedCounted == nozzleErr <= failed /\ failed <= BatchChannelSize * nozzleErr
CountInv == Counted /\ Carried /\ FailedCounted

Ascending(s) == \A i, j \in 1..Len(s) : i < j => s[i] < s[j]
Apart(s, t) == \A i \in 1..Len(s), j \in 1..Len(t) : s[i] # t[j]
Passed(s, n) == \A i \in 1..Len(s) : s[i] <= n

\* The batches on the way and those that arrived are in order, of envelopes that the
\* batcher has read, and no two of them have an envelope in common.
OrderInv ==
  /\ Ascending(batch) /\ Passed(batch, readIndex)
  /\ \A b \in 1..Len(batches) : Ascending(batches[b]) /\ Passed(batches[b], readIndex)
  /\ \A w \in Writers : Ascending(writer[w]) /\ Passed(writer[w], readIndex)
  /\ \A a \in 1..Len(arrived) : Ascending(arrived[a]) /\ Passed(arrived[a], readIndex)

ApartInv ==
  /\ \A b \in 1..Len(batches) : Apart(batch, batches[b])
  /\ \A w \in Writers : Apart(batch, writer[w])
  /\ \A a \in 1..Len(arrived) : Apart(batch, arrived[a])
  /\ \A b, c \in 1..Len(batches) : b # c => Apart(batches[b], batches[c])
  /\ \A b \in 1..Len(batches), w \in Writers : Apart(batches[b], writer[w])
  /\ \A b \in 1..Len(batches), a \in 1..Len(arrived) : Apart(batches[b], arrived[a])
  /\ \A w, v \in Writers : w # v => Apart(writer[w], writer[v])
  /\ \A w \in Writers, a \in 1..Len(arrived) : Apart(writer[w], arrived[a])
  /\ \A a, b \in 1..Len(arrived) : a # b => Apart(arrived[a], arrived[b])

-----------------------------------------------------------------------------
(* How many places a family of batches has. *)

Row(b, n) == {b} \X (1..n)
Rest(family, b) == UNION {{c} \X (1..Len(family[c])) : c \in DOMAIN family \ {b}}

LEMMA RowSize == ASSUME NEW b, NEW n \in Nat PROVE IsFiniteSet(Row(b, n)) /\ Cardinality(Row(b, n)) = n
<1>1. IsFiniteSet({b}) /\ Cardinality({b}) = 1
  BY FS_Singleton
<1>2. IsFiniteSet(1..n) /\ Cardinality(1..n) = n
  BY FS_Interval
<1>3. IsFiniteSet({b} \X (1..n)) /\ Cardinality({b} \X (1..n)) = Cardinality({b}) * Cardinality(1..n)
  BY <1>1, <1>2, FS_Product, Zenon
<1>4. 1 * n = n
  OBVIOUS
<1> QED BY <1>1, <1>2, <1>3, <1>4 DEF Row

LEMMA PlacesFinite ==
  ASSUME NEW family, IsFiniteSet(DOMAIN family), NEW n \in Nat,
         \A b \in DOMAIN family : Len(family[b]) \in 0..n
  PROVE  IsFiniteSet(Places(family))
<1>1. IsFiniteSet(1..n)
  BY FS_Interval
<1>2. IsFiniteSet((DOMAIN family) \X (1..n))
  BY <1>1, FS_Product
<1>3. \A b \in DOMAIN family : {b} \X (1..Len(family[b])) \subseteq (DOMAIN family) \X (1..n)
  OBVIOUS
<1>4. Places(family) \in SUBSET ((DOMAIN family) \X (1..n))
  BY <1>3 DEF Places
<1> QED BY <1>2, <1>4, FS_Subset

LEMMA PlacesSplit ==
  ASSUME NEW family, NEW b \in DOMAIN family, Len(family[b]) \in Nat, IsFiniteSet(Places(family))
  PROVE  /\ IsFiniteSet(Rest(family, b)) /\ Cardinality(Rest(family, b)) \in Nat
         /\ Cardinality(Places(family)) = Cardinality(Rest(family, b)) + Len(family[b])
<1> DEFINE n == Len(family[b])
<1>1. Places(family) = Rest(family, b) \cup Row(b, n)
  BY DEF Places, Rest, Row
<1>2. Rest(family, b) \cap Row(b, n) = {}
  BY DEF Rest, Row
<1>3. Rest(family, b) \in SUBSET Places(family)
  BY <1>1
<1>4. IsFiniteSet(Rest(family, b))
  BY <1>3, FS_Subset
<1>5. IsFiniteSet(Row(b, n)) /\ Cardinality(Row(b, n)) = n
  BY RowSize
<1>6. Cardinality(Rest(family, b) \cup Row(b, n)) =
        Cardinality(Rest(family, b)) + Cardinality(Row(b, n)) - Cardinality({})
  BY <1>2, <1>4, <1>5, FS_Union
<1>7. Cardinality(Rest(family, b)) \in Nat /\ Cardinality({}) = 0
  BY <1>4, FS_CardinalityType, FS_EmptySet
<1> QED BY <1>1, <1>4, <1>5, <1>6, <1>7

LEMMA PlacesJoin ==
  ASSUME NEW family, NEW b \in DOMAIN family, Len(family[b]) \in Nat, IsFiniteSet(Rest(family, b))
  PROVE  IsFiniteSet(Places(family))
<1>1. Places(family) = Rest(family, b) \cup Row(b, Len(family[b]))
  BY DEF Places, Rest, Row
<1>2. IsFiniteSet(Row(b, Len(family[b])))
  BY RowSize
<1> QED BY <1>1, <1>2, FS_Union

\* A batch of the family is replaced.
LEMMA PlacesExcept ==
  ASSUME NEW family, NEW new, NEW b \in DOMAIN family, DOMAIN new = DOMAIN family,
         \A c \in DOMAIN family \ {b} : new[c] = family[c],
         Len(family[b]) \in Nat, Len(new[b]) \in Nat, IsFiniteSet(Places(family))
  PROVE  /\ IsFiniteSet(Places(new))
         /\ Cardinality(Places(new)) + Len(family[b]) = Cardinality(Places(family)) + Len(new[b])
<1>1. Rest(new, b) = Rest(family, b)
  BY DEF Rest
<1>2. /\ IsFiniteSet(Rest(family, b)) /\ Cardinality(Rest(family, b)) \in Nat
      /\ Cardinality(Places(family)) = Cardinality(Rest(family, b)) + Len(family[b])
  BY PlacesSplit
<1>3. IsFiniteSet(Places(new))
  BY <1>1, <1>2, PlacesJoin
<1>4. Cardinality(Places(new)) = Cardinality(Rest(new, b)) + Len(new[b])
  BY <1>3, PlacesSplit
<1> QED BY <1>1, <1>2, <1>3, <1>4

\* A batch joins a queue of them at its end, or leaves it at its head.
LEMMA PlacesAppend ==
  ASSUME NEW T, NEW queue \in Seq(Seq(T)), NEW s \in Seq(T), IsFiniteSet(Places(queue))
  PROVE  /\ IsFiniteSet(Places(Append(queue, s)))
         /\ Cardinality(Places(Append(queue, s))) = Cardinality(Places(queue)) + Len(s)
<1>1. PICK new : new = Append(queue, s)
  OBVIOUS
<1>2. PICK n \in Nat : n = Len(queue)
  OBVIOUS
<1>3. /\ DOMAIN queue = 1..n /\ DOMAIN new = 1..(n + 1) /\ new[n + 1] = s
      /\ \A c \in 1..n : new[c] = queue[c]
      /\ Len(s) \in Nat
  BY <1>1, <1>2
<1>4. (1..(n + 1)) \ {n + 1} = 1..n /\ n + 1 \in 1..(n + 1)
  OBVIOUS
<1>5. Rest(new, n + 1) = Places(queue)
  BY <1>3, <1>4 DEF Rest, Places
<1>6. IsFiniteSet(Places(new))
  BY <1>3, <1>4, <1>5, PlacesJoin
<1>7. Cardinality(Places(new)) = Cardinality(Rest(new, n + 1)) + Len(new[n + 1])
  BY <1>3, <1>4, <1>6, PlacesSplit
<1> QED BY <1>1, <1>3, <1>5, <1>6, <1>7

LEMMA PlacesTail ==
  ASSUME NEW T, NEW queue \in Seq(Seq(T)), queue # <<>>, IsFiniteSet(Places(queue))
  PROVE  /\ IsFiniteSet(Places(Tail(queue)))
         /\ Cardinality(Places(Tail(queue))) + Len(Head(queue)) = Cardinality(Places(queue))
<1>1. PICK new : new = Tail(queue)
  OBVIOUS
<1>2. PICK n \in Nat : n + 1 = Len(queue)
  <2>1. Len(queue) \in Nat /\ Len(queue) # 0
    OBVIOUS
  <2>2. Len(queue) - 1 \in Nat /\ (Len(queue) - 1) + 1 = Len(queue)
    BY <2>1
  <2> QED BY <2>2
<1>3. /\ DOMAIN queue = 1..(n + 1) /\ DOMAIN new = 1..n /\ Head(queue) = queue[1]
      /\ \A c \in 1..n : new[c] = queue[c + 1]
      /\ \A c \in 1..(n + 1) : Len(queue[c]) \in Nat
  BY <1>1, <1>2
<1>4. 1 \in 1..(n + 1)
  OBVIOUS
<1>5. /\ IsFiniteSet(Rest(queue, 1)) /\ Cardinality(Rest(queue, 1)) \in Nat
      /\ Cardinality(Places(queue)) = Cardinality(Rest(queue, 1)) + Len(queue[1])
  BY <1>3, <1>4, PlacesSplit
<1> DEFINE A == Rest(queue, 1)
           B == Places(new)
           f == [p \in A |-> <<p[1] - 1, p[2]>>]
<1>6. \A p : p \in A <=> \E c \in 2..(n + 1) : \E i \in 1..Len(queue[c]) : p = <<c, i>>
  <2>1. (1..(n + 1)) \ {1} = 2..(n + 1)
    OBVIOUS
  <2> QED BY <1>3, <2>1 DEF Rest
<1>7. \A p : p \in B <=> \E c \in 1..n : \E i \in 1..Len(new[c]) : p = <<c, i>>
  BY <1>3 DEF Places
<1>8. f \in Bijection(A, B)
  <2> HIDE DEF A, B
  <2>1. ASSUME NEW p \in A PROVE f[p] \in B
    <3>1. PICK c \in 2..(n + 1) : \E i \in 1..Len(queue[c]) : p = <<c, i>>
      BY <1>6
    <3>1i. PICK i \in 1..Len(queue[c]) : p = <<c, i>>
      BY <3>1
    <3>2. c - 1 \in 1..n /\ new[c - 1] = queue[c]
      BY <1>3
    <3> QED BY <1>7, <3>1i, <3>2
  <2>2. ASSUME NEW p \in A, NEW q \in A, f[p] = f[q] PROVE p = q
    <3>1. PICK c \in 2..(n + 1) : \E i \in 1..Len(queue[c]) : p = <<c, i>>
      BY <1>6
    <3>1i. PICK i \in 1..Len(queue[c]) : p = <<c, i>>
      BY <3>1
    <3>2. PICK d \in 2..(n + 1) : \E j \in 1..Len(queue[d]) : q = <<d, j>>
      BY <1>6
    <3>2i. PICK j \in 1..Len(queue[d]) : q = <<d, j>>
      BY <3>2
    <3> QED BY <2>2, <3>1i, <3>2i
  <2>3. ASSUME NEW q \in B PROVE \E p \in A : f[p] = q
    <3>1. PICK c \in 1..n : \E i \in 1..Len(new[c]) : q = <<c, i>>
      BY <1>7
    <3>1i. PICK i \in 1..Len(new[c]) : q = <<c, i>>
      BY <3>1
    <3>2. c + 1 \in 2..(n + 1) /\ new[c] = queue[c + 1] /\ (c + 1) - 1 = c
      BY <1>3
    <3>3. <<c + 1, i>> \in A
      BY <1>6, <3>1i, <3>2
    <3>4. f[<<c + 1, i>>] = <<c, i>>
      BY <3>2, <3>3
    <3> QED BY <3>1i, <3>3, <3>4
  <2>4. f \in [A -> B]
    BY <2>1
  <2> HIDE DEF f
  <2> QED BY <2>2, <2>3, <2>4 DEF Bijection, Injection, Surjection, IsInjective
<1>9. ExistsBijection(A, B)
  BY <1>8 DEF ExistsBijection
<1> HIDE DEF A, B
<1>10. IsFiniteSet(A)
  BY <1>5 DEF A
<1>11. IsFiniteSet(B) /\ Cardinality(B) = Cardinality(A)
  BY <1>9, <1>10, FS_Bijection
<1>12. IsFiniteSet(Places(new)) /\ Cardinality(Places(new)) = Cardinality(Rest(queue, 1))
  BY <1>11 DEF A, B
<1> QED BY <1>1, <1>3, <1>5, <1>12

-----------------------------------------------------------------------------
(* Types, and the numbers of the envelopes. *)

LEMMA Modulus == ASSUME NEW n \in Nat PROVE n % DiodeSize \in 0..(DiodeSize - 1)
  BY IngestionAssumption

LEMMA Initially == Init => TypeInv /\ StreamInv /\ CountInv /\ OrderInv /\ ApartInv
<1> SUFFICES ASSUME Init PROVE TypeInv /\ StreamInv /\ CountInv /\ OrderInv /\ ApartInv
  OBVIOUS
<1>1. ServerType
  <2>1. listening \in BOOLEAN
    BY DEF Init
  <2>2. conn \in [Conns -> ConnStates]
    BY DEF Init, ConnStates
  <2> QED BY <2>1, <2>2, IngestionAssumption DEF Init, ServerType
<1>2. ChannelType
  BY IngestionAssumption DEF Init, ChannelType
<1>3. DiodeType /\ ReaderType
  BY DEF Init, DiodeType, ReaderType, Empty
<1>4. BatchType
  <2>1. fired \in BOOLEAN
    BY DEF Init
  <2> QED BY <2>1, IngestionAssumption DEF Init, BatchType
<1>5. WriterType
  BY IngestionAssumption DEF Init, WriterType
<1>6. StreamInv
  BY DEF Init, StreamInv
<1>7. Places(batches) = {} /\ Places(writer) = {}
  BY DEF Init, Places
<1>8. UnsettledConns = {} /\ CountingConns = {}
  BY DEF Init, UnsettledConns, CountingConns, ConnsIn, Unsettled
<1>9. Cardinality({}) = 0
  BY FS_EmptySet
<1>10. CountInv
  <2>1. /\ results = 0 /\ entered = 0 /\ ingress = 0 /\ invalidIngress = 0
        /\ readIndex = 0 /\ missed = 0 /\ Len(batch) = 0 /\ dropped = 0 /\ failed = 0
        /\ nozzleEgress = 0 /\ nozzleErr = 0
    BY DEF Init
  <2>2. /\ Cardinality(Places(batches)) = 0 /\ Cardinality(Places(writer)) = 0
        /\ Cardinality(UnsettledConns) = 0 /\ Cardinality(CountingConns) = 0
    BY <1>7, <1>8, <1>9
  <2>3. BatchChannelSize * 0 = 0
    BY IngestionAssumption
  <2> QED BY <2>1, <2>2, <2>3 DEF CountInv, Counted, Carried, FailedCounted
<1>11. OrderInv /\ ApartInv
  BY DEF Init, OrderInv, ApartInv, Ascending, Passed, Apart
<1> QED BY <1>1, <1>2, <1>3, <1>4, <1>5, <1>6, <1>10, <1>11 DEF TypeInv

\* The server's steps that do not touch the channel.
ServerStep ==
  AcceptFails \/ \E c \in Conns : Accept(c) \/ Receive(c) \/ CountIngress(c) \/ HangUp(c)

LEMMA Fates == \A msg : Fate(msg) \in {"none", "reading", "sending", "panicked"}
  BY DEF Fate

LEMMA ServerTypes ==
  ASSUME TypeInv, ServerStep \/ \E c \in Conns : SendEnvelope(c)
  PROVE  ServerType' /\ UNCHANGED nozzleVars
<1>a. /\ listening \in BOOLEAN /\ conn \in [Conns -> ConnStates]
      /\ results \in 0..MaxResults /\ entered \in Nat /\ ingress \in Nat /\ invalidIngress \in Nat
      /\ MaxResults \in Nat
  BY IngestionAssumption DEF TypeInv, ServerType
<1>1. UNCHANGED nozzleVars
  BY DEF ServerStep, AcceptFails, Accept, Receive, CountIngress, HangUp, SendEnvelope
<1>2. listening' \in BOOLEAN
  BY <1>a DEF ServerStep, AcceptFails, Accept, Receive, CountIngress, HangUp, SendEnvelope
<1>3. UNCHANGED conn \/ \E c \in Conns, to \in ConnStates : conn' = [conn EXCEPT ![c] = to]
  <2>1. \A msg : Fate(msg) \in ConnStates
    BY Fates DEF ConnStates
  <2>2. ASSUME NEW c \in Conns, Receive(c)
        PROVE  \E to \in ConnStates : conn' = [conn EXCEPT ![c] = to]
    BY <2>1, <2>2 DEF Receive
  <2>3. "fresh" \in ConnStates /\ "none" \in ConnStates /\ "reading" \in ConnStates
        /\ "counting" \in ConnStates
    BY DEF ConnStates
  <2>4. CASE AcceptFails
    BY <2>4 DEF AcceptFails
  <2>5. ASSUME NEW c \in Conns, Accept(c) \/ CountIngress(c) \/ HangUp(c) \/ SendEnvelope(c)
        PROVE  \E to \in ConnStates : conn' = [conn EXCEPT ![c] = to]
    BY <2>3, <2>5 DEF Accept, CountIngress, HangUp, SendEnvelope
  <2> QED BY <2>2, <2>4, <2>5 DEF ServerStep
<1>4. conn' \in [Conns -> ConnStates]
  BY <1>a, <1>3
<1>5. /\ UNCHANGED results \/ (results < MaxResults /\ results' = results + 1)
      /\ ingress' \in {ingress, ingress + 1} /\ entered' \in {entered, entered + 1}
      /\ invalidIngress' \in {invalidIngress, invalidIngress + 1}
  BY DEF ServerStep, AcceptFails, Accept, Receive, CountIngress, HangUp, SendEnvelope
<1>6. results' \in 0..MaxResults /\ entered' \in Nat /\ ingress' \in Nat /\ invalidIngress' \in Nat
  BY <1>a, <1>5
<1> QED BY <1>1, <1>2, <1>4, <1>6 DEF ServerType

LEMMA ServerInv ==
  ASSUME TypeInv, StreamInv, ServerStep
  PROVE  TypeInv' /\ StreamInv'
<1>1. ServerType' /\ UNCHANGED nozzleVars
  BY ServerTypes
<1>2. UNCHANGED <<envelopes, entered>>
  BY DEF ServerStep, AcceptFails, Accept, Receive, CountIngress, HangUp
<1>3. ChannelType' /\ ReaderType' /\ DiodeType' /\ BatchType' /\ WriterType'
  BY <1>1, <1>2 DEF TypeInv, ChannelType, ReaderType, DiodeType, BatchType, WriterType,
                    nozzleVars, readerVars, diodeVars, batcherVars, writerVars
<1>4. StreamInv'
  BY <1>1, <1>2 DEF StreamInv, nozzleVars, readerVars, diodeVars
<1> QED BY <1>1, <1>3, <1>4 DEF TypeInv

LEMMA SendEnvelopeInv ==
  ASSUME TypeInv, StreamInv, NEW c \in Conns, SendEnvelope(c)
  PROVE  TypeInv' /\ StreamInv'
<1>1. ServerType' /\ UNCHANGED nozzleVars
  BY ServerTypes
<1>2. /\ envelopes' = Append(envelopes, entered + 1) /\ entered' = entered + 1
      /\ Len(envelopes) < ChannelSize
  BY DEF SendEnvelope, RoomInChannel
<1>3. ReaderType' /\ DiodeType' /\ BatchType' /\ WriterType'
  BY <1>1 DEF TypeInv, ReaderType, DiodeType, BatchType, WriterType, nozzleVars, readerVars,
              diodeVars, batcherVars, writerVars
<1>4. /\ envelopes \in Seq(Envelope) /\ entered \in Nat /\ writeIndex \in Nat
      /\ entered + 1 \in Envelope /\ ChannelSize \in Nat /\ Len(taken) \in Nat
  BY IngestionAssumption DEF TypeInv, ChannelType, ReaderType, ServerType, DiodeType, Envelope
<1>5. ChannelType'
  BY <1>2, <1>4 DEF ChannelType
<1>6. \A k \in 1..Len(envelopes') : envelopes'[k] = writeIndex + Len(taken) + k
  <2>1. /\ Len(envelopes') = Len(envelopes) + 1 /\ Len(envelopes) \in Nat
        /\ envelopes'[Len(envelopes) + 1] = entered + 1
        /\ \A k \in 1..Len(envelopes) : envelopes'[k] = envelopes[k]
    BY <1>2, <1>4
  <2>2. /\ entered = Len(envelopes) + Len(taken) + writeIndex
        /\ \A k \in 1..Len(envelopes) : envelopes[k] = writeIndex + Len(taken) + k
    BY DEF StreamInv
  <2>3. PICK n \in Nat, t \in Nat : n = Len(envelopes) /\ t = Len(taken)
    BY <1>4, <2>1
  <2>4. entered + 1 = writeIndex + t + (n + 1)
    BY <1>4, <2>2, <2>3
  <2>5. \A k \in 1..(n + 1) : k = n + 1 \/ k \in 1..n
    BY <2>3
  <2> QED BY <2>1, <2>2, <2>3, <2>4, <2>5
<1>7. entered' = Len(envelopes') + Len(taken) + writeIndex
  <2>1. Len(envelopes') = Len(envelopes) + 1 /\ Len(envelopes) \in Nat
    BY <1>2, <1>4
  <2>2. entered = Len(envelopes) + Len(taken) + writeIndex
    BY DEF StreamInv
  <2> QED BY <1>2, <1>4, <2>1, <2>2
<1>8. StreamInv'
  BY <1>1, <1>6, <1>7 DEF StreamInv, nozzleVars, readerVars, diodeVars
<1> QED BY <1>1, <1>3, <1>5, <1>8 DEF TypeInv

LEMMA ReadStreamInv ==
  ASSUME TypeInv, StreamInv, ReadStream
  PROVE  TypeInv' /\ StreamInv'
<1>1. /\ envelopes # <<>> /\ envelopes' = Tail(envelopes) /\ taken' = <<Head(envelopes)>>
      /\ taken = <<>> /\ uncounted = 0
      /\ UNCHANGED <<serverVars, uncounted, nozzleIngress, diodeVars, batcherVars, writerVars>>
  BY DEF ReadStream
<1>2. ServerType' /\ DiodeType' /\ BatchType' /\ WriterType'
  BY <1>1 DEF TypeInv, ServerType, DiodeType, BatchType, WriterType, serverVars, diodeVars,
              batcherVars, writerVars
<1>3. /\ envelopes \in Seq(Envelope) /\ ChannelSize \in Nat /\ Len(envelopes) <= ChannelSize
      /\ nozzleIngress \in Nat /\ writeIndex \in Nat /\ entered \in Nat
  BY IngestionAssumption DEF TypeInv, ChannelType, DiodeType, ReaderType, ServerType
<1>4. /\ Head(envelopes) = envelopes[1] /\ Head(envelopes) \in Envelope
      /\ Tail(envelopes) \in Seq(Envelope) /\ Len(Tail(envelopes)) = Len(envelopes) - 1
      /\ Len(envelopes) \in Nat \ {0}
      /\ \A k \in 1..Len(Tail(envelopes)) : Tail(envelopes)[k] = envelopes[k + 1]
  BY <1>1, <1>3
<1>5. ChannelType'
  BY <1>1, <1>3, <1>4 DEF ChannelType
<1>6. Len(taken) = 0 /\ taken' \in Seq(Envelope) /\ Len(taken') = 1 /\ taken'[1] = envelopes[1]
  BY <1>1, <1>4
<1>7. ReaderType'
  BY <1>1, <1>3, <1>6 DEF ReaderType
<1>8. /\ writeIndex = nozzleIngress + uncounted /\ readIndex <= writeIndex
      /\ entered = Len(envelopes) + 0 + writeIndex
      /\ \A k \in 1..Len(envelopes) : envelopes[k] = writeIndex + 0 + k
  BY <1>6 DEF StreamInv
<1>9. taken'[1] = writeIndex + 1
  BY <1>3, <1>4, <1>6, <1>8
<1>10. entered = Len(envelopes') + 1 + writeIndex
  BY <1>1, <1>3, <1>4, <1>8
<1>11. \A k \in 1..Len(envelopes') : envelopes'[k] = writeIndex + 1 + k
  <2> SUFFICES ASSUME NEW k \in 1..Len(envelopes') PROVE envelopes'[k] = writeIndex + 1 + k
    OBVIOUS
  <2>1. k + 1 \in 1..Len(envelopes) /\ envelopes'[k] = envelopes[k + 1]
    BY <1>1, <1>4
  <2>2. envelopes[k + 1] = writeIndex + 0 + (k + 1)
    BY <1>8, <2>1
  <2> QED BY <1>3, <2>1, <2>2
<1>12. \A i \in 0..(DiodeSize - 1) : slot[i] # Empty =>
         slot[i].data = slot[i].seq + 1 /\ slot[i].seq < writeIndex
  BY DEF StreamInv
<1>13. StreamInv'
  BY <1>1, <1>6, <1>8, <1>9, <1>10, <1>11, <1>12 DEF StreamInv, serverVars, diodeVars
<1> QED BY <1>2, <1>5, <1>7, <1>13 DEF TypeInv

LEMMA SetDiodeInv ==
  ASSUME TypeInv, StreamInv, SetDiode
  PROVE  TypeInv' /\ StreamInv'
<1>1. /\ taken # <<>> /\ taken' = <<>> /\ uncounted' = 1
      /\ slot' = [slot EXCEPT ![writeIndex % DiodeSize] = [data |-> Head(taken), seq |-> writeIndex]]
      /\ writeIndex' = writeIndex + 1
      /\ UNCHANGED <<serverVars, envelopes, nozzleIngress, readIndex, missed, batcherVars, writerVars>>
  BY DEF SetDiode
<1>2. ServerType' /\ ChannelType' /\ BatchType' /\ WriterType'
  BY <1>1 DEF TypeInv, ServerType, ChannelType, BatchType, WriterType, serverVars, batcherVars, writerVars
<1>3. /\ taken \in Seq(Envelope) /\ DiodeSize \in Nat \ {0} /\ uncounted \in {0, 1}
      /\ Len(taken) + uncounted <= 1 /\ nozzleIngress \in Nat
      /\ slot \in [0..(DiodeSize - 1) -> [data : Nat, seq : Nat]]
      /\ writeIndex \in Nat /\ readIndex \in Nat /\ missed \in Nat
      /\ Len(envelopes) \in Nat /\ entered \in Nat
  BY IngestionAssumption DEF TypeInv, ServerType, ChannelType, ReaderType, DiodeType
<1>4. Head(taken) = taken[1] /\ Len(taken) = 1 /\ uncounted = 0 /\ Head(taken) \in Envelope
  <2>1. Head(taken) = taken[1] /\ Len(taken) \in Nat /\ Len(taken) # 0 /\ Head(taken) \in Envelope
    BY <1>1, <1>3
  <2>2. PICK n \in Nat, u \in {0, 1} : n = Len(taken) /\ u = uncounted
    BY <1>3, <2>1
  <2>3. n + u <= 1 /\ n # 0
    BY <1>3, <2>1, <2>2
  <2>4. n = 1 /\ u = 0
    BY <2>3
  <2> QED BY <2>1, <2>2, <2>4
<1>5. Len(taken') = 0 /\ taken' \in Seq(Envelope)
  BY <1>1
<1>5r. ReaderType'
  BY <1>1, <1>3, <1>5 DEF ReaderType
<1>6. PICK i \in 0..(DiodeSize - 1) : i = writeIndex % DiodeSize
  BY <1>3, Modulus
<1>7. PICK bucket : bucket = [data |-> Head(taken), seq |-> writeIndex]
  OBVIOUS
<1>8. Head(taken) = writeIndex + 1
  BY <1>1, <1>4 DEF StreamInv
<1>9. bucket \in [data : Nat, seq : Nat] /\ bucket.data = bucket.seq + 1 /\ bucket.seq = writeIndex
  BY <1>3, <1>7, <1>8
<1>10. /\ slot' \in [0..(DiodeSize - 1) -> [data : Nat, seq : Nat]] /\ slot'[i] = bucket
       /\ \A j \in 0..(DiodeSize - 1) : j # i => slot'[j] = slot[j]
  BY <1>1, <1>3, <1>6, <1>7, <1>9
<1>11. DiodeType'
  BY <1>1, <1>3, <1>10 DEF DiodeType
<1>12. \A j \in 0..(DiodeSize - 1) : slot'[j] # Empty =>
         slot'[j].data = slot'[j].seq + 1 /\ slot'[j].seq < writeIndex + 1
  <2> SUFFICES ASSUME NEW j \in 0..(DiodeSize - 1), slot'[j] # Empty
               PROVE  slot'[j].data = slot'[j].seq + 1 /\ slot'[j].seq < writeIndex + 1
    OBVIOUS
  <2>1. CASE j = i
    BY <1>3, <1>9, <1>10, <2>1
  <2>2. CASE j # i
    <3>1. slot'[j] = slot[j] /\ slot[j].seq \in Nat
      BY <1>3, <1>10, <2>2
    <3>2. slot[j].data = slot[j].seq + 1 /\ slot[j].seq < writeIndex
      BY <3>1 DEF StreamInv
    <3> QED BY <1>3, <3>1, <3>2
  <2> QED BY <2>1, <2>2
<1>13. /\ writeIndex = nozzleIngress + 0 /\ readIndex <= writeIndex
       /\ entered = Len(envelopes) + 1 + writeIndex
       /\ \A k \in 1..Len(envelopes) : envelopes[k] = writeIndex + 1 + k
  BY <1>4 DEF StreamInv
<1>14. /\ writeIndex' = nozzleIngress + 1 /\ readIndex <= writeIndex'
       /\ entered = Len(envelopes) + 0 + writeIndex'
       /\ \A k \in 1..Len(envelopes) : envelopes[k] = writeIndex' + 0 + k
  BY <1>1, <1>3, <1>13
<1>15. StreamInv'
  BY <1>1, <1>5, <1>12, <1>14 DEF StreamInv, serverVars
<1> QED BY <1>2, <1>5r, <1>11, <1>15 DEF TypeInv

LEMMA CountReadInv ==
  ASSUME TypeInv, StreamInv, CountRead
  PROVE  TypeInv' /\ StreamInv'
<1>1. /\ uncounted = 1 /\ uncounted' = 0 /\ nozzleIngress' = nozzleIngress + 1
      /\ UNCHANGED <<serverVars, envelopes, taken, diodeVars, batcherVars, writerVars>>
  BY DEF CountRead
<1>2. ServerType' /\ ChannelType' /\ DiodeType' /\ BatchType' /\ WriterType'
  BY <1>1 DEF TypeInv, ServerType, ChannelType, DiodeType, BatchType, WriterType, serverVars,
              diodeVars, batcherVars, writerVars
<1>3. /\ taken \in Seq(Envelope) /\ Len(taken) + uncounted <= 1 /\ nozzleIngress \in Nat
      /\ Len(taken) \in Nat
  BY DEF TypeInv, ReaderType
<1>4. ReaderType'
  BY <1>1, <1>3 DEF ReaderType
<1>5. writeIndex = nozzleIngress' + uncounted'
  BY <1>1, <1>3 DEF StreamInv
<1>6. StreamInv'
  BY <1>1, <1>5 DEF StreamInv, serverVars, diodeVars
<1> QED BY <1>2, <1>4, <1>6 DEF TypeInv

\* An iteration of the batcher, without the diode's arithmetic: it takes an envelope
\* that is newer than all it took before, or none; and keeps its batch, or gives it
\* away, or drops it.
Took(next) ==
  \/ next = batch /\ UNCHANGED <<readIndex, missed>>
  \/ \E d \in Envelope :
       /\ readIndex < d /\ d <= writeIndex
       /\ next = Append(batch, d)
       /\ readIndex' = d /\ missed' = missed + (d - 1) - readIndex
Gave(next) ==
  \/ Len(next) < BatchChannelSize /\ batch' = next /\ UNCHANGED <<batches, dropped>>
  \/ /\ next # <<>> /\ batch' = <<>> /\ Len(batches) < BatchChannelSize
     /\ batches' = Append(batches, next) /\ UNCHANGED dropped
  \/ next # <<>> /\ batch' = <<>> /\ dropped' = dropped + Len(next) /\ UNCHANGED batches

LEMMA BatchStep ==
  ASSUME TypeInv, StreamInv, Batch
  PROVE  /\ DiodeType' /\ StreamInv' /\ fired' \in BOOLEAN
         /\ \E next \in Seq(Envelope) : Took(next) /\ Gave(next) /\ Len(next) \in 0..BatchChannelSize
<1>a. /\ slot \in [0..(DiodeSize - 1) -> [data : Nat, seq : Nat]]
      /\ writeIndex \in Nat /\ readIndex \in Nat /\ missed \in Nat
      /\ batch \in Seq(Envelope) /\ Len(batch) < BatchChannelSize /\ BatchChannelSize \in Nat \ {0}
      /\ DiodeSize \in Nat \ {0} /\ Len(batch) \in Nat
  BY IngestionAssumption DEF TypeInv, DiodeType, BatchType
<1> DEFINE i == readIndex % DiodeSize
           took == Readable(slot[i])
           next == IF took THEN Append(batch, slot[i].data) ELSE batch
<1>1. /\ slot' = [slot EXCEPT ![i] = Empty]
      /\ readIndex' = IF took THEN slot[i].seq + 1 ELSE readIndex
      /\ missed' = IF took THEN missed + slot[i].seq - readIndex ELSE missed
      /\ IF Flushes(next) THEN Flush(next)
         ELSE batch' = next /\ fired' = FALSE /\ UNCHANGED <<batches, dropped>>
      /\ UNCHANGED <<serverVars, envelopes, readerVars, writeIndex, writerVars>>
  BY DEF Batch
<1>2. i \in 0..(DiodeSize - 1)
  BY <1>a, Modulus
<1>3. fired' \in BOOLEAN
  BY <1>1 DEF Flush
<1> HIDE DEF i
<1>4. /\ slot[i] \in [data : Nat, seq : Nat] /\ slot[i].seq \in Nat /\ slot[i].data \in Nat
      /\ Empty \in [data : Nat, seq : Nat]
  BY <1>a, <1>2 DEF Empty
<1>5. took => /\ slot[i].seq >= readIndex /\ slot[i].data = slot[i].seq + 1 /\ slot[i].seq < writeIndex
  BY <1>2 DEF Readable, StreamInv
<1>6. took \in BOOLEAN
  BY DEF Readable
<1> HIDE DEF took
<1>7. /\ slot' \in [0..(DiodeSize - 1) -> [data : Nat, seq : Nat]] /\ slot'[i] = Empty
      /\ \A j \in 0..(DiodeSize - 1) : j # i => slot'[j] = slot[j]
  BY <1>a, <1>1, <1>2, <1>4
<1>b. PICK q \in Nat, d \in Nat : q = slot[i].seq /\ d = slot[i].data
  BY <1>4
<1>c. took => q >= readIndex /\ d = q + 1 /\ q < writeIndex
  BY <1>5, <1>b
<1>d. took => readIndex' = q + 1 /\ missed' = missed + q - readIndex
  BY <1>1, <1>b
<1>8. readIndex' \in Nat /\ missed' \in Nat /\ readIndex' <= writeIndex
  <2>1. readIndex <= writeIndex
    BY DEF StreamInv
  <2>2. CASE took
    <3>1. q >= readIndex /\ q < writeIndex /\ readIndex' = q + 1 /\ missed' = missed + q - readIndex
      BY <1>c, <1>d, <2>2
    <3>2. readIndex \in Nat /\ writeIndex \in Nat /\ missed \in Nat /\ q \in Nat
      BY <1>a
    <3> QED BY <3>1, <3>2
  <2>3. CASE ~took
    BY <1>a, <1>1, <2>1, <2>3
  <2> QED BY <2>2, <2>3
<1>9. DiodeType'
  BY <1>a, <1>1, <1>7, <1>8 DEF DiodeType
<1>10. StreamInv'
  <2>1. \A j \in 0..(DiodeSize - 1) : slot'[j] # Empty =>
          slot'[j].data = slot'[j].seq + 1 /\ slot'[j].seq < writeIndex
    BY <1>7 DEF StreamInv
  <2> QED BY <1>1, <1>8, <2>1 DEF StreamInv, serverVars, readerVars
<1>11. next \in Seq(Envelope) /\ Len(next) \in 0..BatchChannelSize
  <2>1. took => slot[i].data \in Envelope
    BY <1>4, <1>5 DEF Envelope
  <2> QED BY <1>a, <2>1
<1>12. Took(next)
  <2>1. CASE took
    <3>a. q >= readIndex /\ d = q + 1 /\ q < writeIndex
      BY <1>c, <2>1
    <3>b. readIndex \in Nat /\ writeIndex \in Nat
      BY <1>a
    <3>1. d \in Envelope /\ readIndex < d /\ d <= writeIndex /\ q = d - 1
      BY <3>a, <3>b DEF Envelope
    <3>2. next = Append(batch, d)
      BY <1>b, <2>1
    <3>3. readIndex' = d /\ missed' = missed + (d - 1) - readIndex
      BY <1>c, <1>d, <2>1, <3>1
    <3> QED BY <3>1, <3>2, <3>3 DEF Took
  <2>2. CASE ~took
    BY <1>1, <2>2 DEF Took
  <2> QED BY <2>1, <2>2
<1> HIDE DEF next
<1>13. Gave(next)
  <2>1. CASE Flushes(next)
    <3>1. next # <<>>
      <4>1. fired \/ Len(next) >= BatchChannelSize
        BY <2>1 DEF Flushes
      <4>2. fired => next # <<>>
        BY <2>1 DEF Flushes
      <4>3. Len(next) >= BatchChannelSize => next # <<>>
        BY <1>a
      <4> QED BY <4>1, <4>2, <4>3
    <3>2. Flush(next)
      BY <1>1, <2>1
    <3> QED BY <3>1, <3>2 DEF Flush, Gave
  <2>2. CASE ~Flushes(next)
    <3>1. batch' = next /\ UNCHANGED <<batches, dropped>>
      BY <1>1, <2>2
    <3>2. Len(next) < BatchChannelSize
      <4>1. CASE fired
        <5>1. next = <<>>
          BY <2>2, <4>1 DEF Flushes
        <5>2. Len(next) = 0
          BY <5>1
        <5> QED BY <1>a, <5>2
      <4>2. CASE ~fired
        <5>1. ~(Len(next) >= BatchChannelSize)
          BY <2>2, <4>2 DEF Flushes
        <5> QED BY <1>a, <1>11, <5>1
      <4> QED BY <4>1, <4>2
    <3> QED BY <3>1, <3>2 DEF Gave
  <2> QED BY <2>1, <2>2
<1> QED BY <1>3, <1>9, <1>10, <1>11, <1>12, <1>13

LEMMA BatchInv ==
  ASSUME TypeInv, StreamInv, Batch
  PROVE  TypeInv' /\ StreamInv'
<1>1. DiodeType' /\ StreamInv' /\ fired' \in BOOLEAN
  BY BatchStep
<1>2. PICK next \in Seq(Envelope) : Gave(next) /\ Len(next) \in 0..BatchChannelSize
  BY BatchStep
<1>3. ServerType' /\ ChannelType' /\ ReaderType' /\ WriterType'
  BY DEF Batch, TypeInv, ServerType, ChannelType, ReaderType, WriterType, serverVars, readerVars,
         writerVars
<1>4. /\ batches \in Seq(Seq(Envelope)) /\ Len(batches) <= BatchChannelSize /\ Len(batches) \in Nat
      /\ \A b \in 1..Len(batches) : Len(batches[b]) \in 1..BatchChannelSize
      /\ dropped \in Nat /\ BatchChannelSize \in Nat \ {0}
  BY IngestionAssumption DEF TypeInv, BatchType
<1>5. batch' \in Seq(Envelope) /\ Len(batch') < BatchChannelSize
  <2>1. (batch' = next /\ Len(next) < BatchChannelSize) \/ batch' = <<>>
    BY <1>2 DEF Gave
  <2>2. CASE batch' = next /\ Len(next) < BatchChannelSize
    BY <1>2, <2>2
  <2>3. CASE batch' = <<>>
    <3>1. batch' \in Seq(Envelope) /\ Len(batch') = 0
      BY <2>3
    <3> QED BY <1>4, <3>1
  <2> QED BY <2>1, <2>2, <2>3
<1>6. dropped' \in Nat
  BY <1>2, <1>4 DEF Gave
<1>7. /\ batches' \in Seq(Seq(Envelope)) /\ Len(batches') <= BatchChannelSize
      /\ \A b \in 1..Len(batches') : Len(batches'[b]) \in 1..BatchChannelSize
  <2>1. CASE batches' = batches
    BY <1>4, <2>1
  <2>2. CASE /\ batches' = Append(batches, next) /\ next # <<>> /\ Len(batches) < BatchChannelSize
    <3>1. Len(next) \in 1..BatchChannelSize
      BY <1>2, <2>2
    <3>2. /\ batches' \in Seq(Seq(Envelope)) /\ Len(batches') = Len(batches) + 1
          /\ batches'[Len(batches) + 1] = next
          /\ \A b \in 1..Len(batches) : batches'[b] = batches[b]
      BY <1>2, <1>4, <2>2
    <3> QED BY <1>4, <2>2, <3>1, <3>2
  <2> QED BY <1>2, <2>1, <2>2 DEF Gave
<1>8. BatchType'
  BY <1>1, <1>5, <1>6, <1>7 DEF BatchType
<1> QED BY <1>1, <1>3, <1>8 DEF TypeInv

LEMMA TimerInv ==
  ASSUME TypeInv, StreamInv, TimerFires
  PROVE  TypeInv' /\ StreamInv'
<1>1. fired' \in BOOLEAN
  BY DEF TimerFires
<1>2. UNCHANGED <<serverVars, envelopes, readerVars, diodeVars, batch, batches, dropped, writerVars>>
  BY DEF TimerFires
<1>3. TypeInv'
  BY <1>1, <1>2 DEF TypeInv, ServerType, ChannelType, ReaderType, DiodeType, BatchType, WriterType,
                    serverVars, readerVars, diodeVars, writerVars
<1>4. StreamInv'
  BY <1>2 DEF StreamInv, serverVars, readerVars, diodeVars
<1> QED BY <1>3, <1>4

LEMMA TakeBatchInv ==
  ASSUME TypeInv, StreamInv, NEW w \in Writers, TakeBatch(w)
  PROVE  TypeInv' /\ StreamInv'
<1>1. /\ batches # <<>> /\ writer' = [writer EXCEPT ![w] = Head(batches)] /\ batches' = Tail(batches)
      /\ UNCHANGED <<serverVars, envelopes, readerVars, diodeVars, batch, fired, dropped, nozzleEgress,
                     nozzleErr, failed, arrived>>
  BY DEF TakeBatch
<1>2. /\ batches \in Seq(Seq(Envelope)) /\ Len(batches) <= BatchChannelSize /\ Len(batches) \in Nat
      /\ \A b \in 1..Len(batches) : Len(batches[b]) \in 1..BatchChannelSize
      /\ BatchChannelSize \in Nat \ {0} /\ writer \in [Writers -> Seq(Envelope)]
      /\ \A v \in Writers : Len(writer[v]) <= BatchChannelSize
  BY IngestionAssumption DEF TypeInv, BatchType, WriterType
<1>3. /\ Head(batches) = batches[1] /\ 1 \in 1..Len(batches) /\ Head(batches) \in Seq(Envelope)
      /\ Tail(batches) \in Seq(Seq(Envelope)) /\ Len(Tail(batches)) = Len(batches) - 1
      /\ \A b \in 1..Len(Tail(batches)) : b + 1 \in 1..Len(batches) /\ Tail(batches)[b] = batches[b + 1]
  BY <1>1, <1>2
<1>4. BatchType'
  <2>1. \A b \in 1..Len(Tail(batches)) : Len(Tail(batches)[b]) \in 1..BatchChannelSize
    BY <1>2, <1>3
  <2> QED BY <1>1, <1>2, <1>3, <2>1 DEF TypeInv, BatchType
<1>5. WriterType'
  <2>1. Len(Head(batches)) <= BatchChannelSize
    BY <1>2, <1>3
  <2> QED BY <1>1, <1>2, <1>3, <2>1 DEF TypeInv, WriterType
<1>6. ServerType' /\ ChannelType' /\ ReaderType' /\ DiodeType' /\ StreamInv'
  BY <1>1 DEF TypeInv, ServerType, ChannelType, ReaderType, DiodeType, StreamInv, serverVars,
              readerVars, diodeVars
<1> QED BY <1>4, <1>5, <1>6 DEF TypeInv

LEMMA SendBatchInv ==
  ASSUME TypeInv, StreamInv, NEW w \in Writers, SendBatch(w)
  PROVE  TypeInv' /\ StreamInv'
<1>1. /\ writer' = [writer EXCEPT ![w] = <<>>]
      /\ arrived' \in {arrived, Append(arrived, writer[w])}
      /\ nozzleErr' \in {nozzleErr, nozzleErr + 1}
      /\ nozzleEgress' \in {nozzleEgress, nozzleEgress + Len(writer[w]), nozzleEgress + 0}
      /\ failed' \in {failed, failed + Len(writer[w])}
      /\ UNCHANGED <<serverVars, envelopes, readerVars, diodeVars, batcherVars>>
  BY DEF SendBatch, AfterSend, Egressed
<1>2. /\ writer \in [Writers -> Seq(Envelope)] /\ Len(writer[w]) \in Nat
      /\ \A v \in Writers : Len(writer[v]) <= BatchChannelSize
      /\ nozzleEgress \in Nat /\ nozzleErr \in Nat /\ failed \in Nat /\ BatchChannelSize \in Nat
      /\ arrived \in Seq(Seq(Envelope))
  BY IngestionAssumption DEF TypeInv, BatchType, WriterType
<1>3. /\ writer' \in [Writers -> Seq(Envelope)]
      /\ \A v \in Writers : Len(writer'[v]) <= BatchChannelSize
  BY <1>1, <1>2
<1>4. arrived' \in Seq(Seq(Envelope))
  <2>1. PICK sent \in Seq(Envelope) : sent = writer[w]
    BY <1>2
  <2>2. Append(arrived, sent) \in Seq(Seq(Envelope))
    BY <1>2
  <2>3. arrived' = arrived \/ arrived' = Append(arrived, sent)
    BY <1>1, <2>1
  <2>4. CASE arrived' = arrived
    BY <1>2, <2>4
  <2>5. CASE arrived' = Append(arrived, sent)
    BY <2>2, <2>5
  <2> QED BY <2>3, <2>4, <2>5
<1>5. nozzleEgress' \in Nat /\ nozzleErr' \in Nat /\ failed' \in Nat
  BY <1>1, <1>2
<1>6. WriterType'
  BY <1>3, <1>4, <1>5 DEF WriterType
<1>7. BatchType'
  BY <1>1 DEF TypeInv, BatchType, batcherVars
<1>8. ServerType' /\ ChannelType' /\ ReaderType' /\ DiodeType' /\ StreamInv'
  BY <1>1 DEF TypeInv, ServerType, ChannelType, ReaderType, DiodeType, StreamInv, serverVars,
              readerVars, diodeVars
<1> QED BY <1>6, <1>7, <1>8 DEF TypeInv

LEMMA StreamSteps ==
  ASSUME TypeInv, StreamInv, [Next]_vars
  PROVE  TypeInv' /\ StreamInv'
<1>1. CASE UNCHANGED vars
  BY <1>1 DEF TypeInv, ServerType, ChannelType, ReaderType, DiodeType, BatchType, WriterType,
              StreamInv, vars, serverVars, nozzleVars, readerVars, diodeVars, batcherVars, writerVars
<1> QED
  BY <1>1, ServerInv, SendEnvelopeInv, ReadStreamInv, SetDiodeInv, CountReadInv, BatchInv, TimerInv,
     TakeBatchInv, SendBatchInv
  DEF Next, ServerStep, Ended

-----------------------------------------------------------------------------
(* The counters. *)

LEMMA PlacesTypes ==
  ASSUME TypeInv
  PROVE  /\ IsFiniteSet(Places(batches)) /\ Cardinality(Places(batches)) \in Nat
         /\ IsFiniteSet(Places(writer)) /\ Cardinality(Places(writer)) \in Nat
<1>1. /\ batches \in Seq(Seq(Envelope)) /\ DOMAIN batches = 1..Len(batches)
      /\ \A b \in 1..Len(batches) : Len(batches[b]) \in 1..BatchChannelSize
      /\ writer \in [Writers -> Seq(Envelope)] /\ DOMAIN writer = Writers
      /\ \A w \in Writers : Len(writer[w]) <= BatchChannelSize
      /\ BatchChannelSize \in Nat /\ Len(batches) \in Nat
  BY IngestionAssumption DEF TypeInv, BatchType, WriterType
<1>2. IsFiniteSet(DOMAIN batches)
  BY <1>1, FS_Interval
<1>3. \A b \in DOMAIN batches : Len(batches[b]) \in 0..BatchChannelSize
  BY <1>1
<1>4. IsFiniteSet(DOMAIN writer)
  BY <1>1, IngestionAssumption
<1>5. \A w \in DOMAIN writer : Len(writer[w]) \in 0..BatchChannelSize
  BY <1>1
<1>6. IsFiniteSet(Places(batches)) /\ IsFiniteSet(Places(writer))
  BY <1>1, <1>2, <1>3, <1>4, <1>5, PlacesFinite
<1> QED BY <1>6, FS_CardinalityType

\* A connection changes its state.
Weight(states, state) == IF state \in states THEN 1 ELSE 0

LEMMA ConnMoves ==
  ASSUME TypeInv, NEW states, NEW c \in Conns, NEW to, conn' = [conn EXCEPT ![c] = to]
  PROVE  /\ Cardinality(ConnsIn(states)) \in Nat
         /\ Cardinality(ConnsIn(states)') =
              Cardinality(ConnsIn(states)) - Weight(states, conn[c]) + Weight(states, to)
<1>1. conn \in [Conns -> ConnStates]
  BY DEF TypeInv, ServerType
<1>2. ConnsIn(states)' = IF to \in states THEN ConnsIn(states) \cup {c} ELSE ConnsIn(states) \ {c}
  BY <1>1 DEF ConnsIn
<1>3. c \in ConnsIn(states) <=> conn[c] \in states
  BY DEF ConnsIn
<1>4. ConnsIn(states) \in SUBSET Conns
  BY DEF ConnsIn
<1>5. IsFiniteSet(ConnsIn(states))
  BY <1>4, IngestionAssumption, FS_Subset
<1>6. Cardinality(ConnsIn(states)) \in Nat
  BY <1>5, FS_CardinalityType
<1>7. Cardinality(ConnsIn(states) \cup {c}) =
        IF c \in ConnsIn(states) THEN Cardinality(ConnsIn(states)) ELSE Cardinality(ConnsIn(states)) + 1
  BY <1>5, FS_AddElement
<1>8. Cardinality(ConnsIn(states) \ {c}) =
        IF c \in ConnsIn(states) THEN Cardinality(ConnsIn(states)) - 1 ELSE Cardinality(ConnsIn(states))
  BY <1>5, FS_RemoveElement
<1>9. PICK n \in Nat : n = Cardinality(ConnsIn(states))
  BY <1>6
<1>10. CASE to \in states
  <2>1. Cardinality(ConnsIn(states)') = IF conn[c] \in states THEN n ELSE n + 1
    BY <1>2, <1>3, <1>7, <1>9, <1>10
  <2> QED BY <1>9, <1>10, <2>1 DEF Weight
<1>11. CASE to \notin states
  <2>1. Cardinality(ConnsIn(states)') = IF conn[c] \in states THEN n - 1 ELSE n
    BY <1>2, <1>3, <1>8, <1>9, <1>11
  <2> QED BY <1>9, <1>11, <2>1 DEF Weight
<1> QED BY <1>10, <1>11

\* What a step of the server does to Counted.
LEMMA CountedMoves ==
  ASSUME TypeInv, Counted, NEW c \in Conns, NEW to, conn' = [conn EXCEPT ![c] = to],
         NEW from, from = conn[c],
         NEW i \in {0, 1}, NEW v \in {0, 1}, NEW e \in {0, 1},
         ingress' = ingress + i, invalidIngress' = invalidIngress + v, entered' = entered + e,
         results' = results + i + v - Weight(Unsettled, from) + Weight(Unsettled, to),
         e = i - Weight({"counting"}, from) + Weight({"counting"}, to)
  PROVE  Counted'
<1>1. PICK u \in Nat, k \in Nat : u = Cardinality(UnsettledConns) /\ k = Cardinality(CountingConns)
  BY ConnMoves DEF UnsettledConns, CountingConns
<1>2. PICK fu \in {0, 1}, tu \in {0, 1}, fk \in {0, 1}, tk \in {0, 1} :
        /\ fu = Weight(Unsettled, from) /\ tu = Weight(Unsettled, to)
        /\ fk = Weight({"counting"}, from) /\ tk = Weight({"counting"}, to)
  BY DEF Weight
<1>3. Cardinality(UnsettledConns') = u - fu + tu /\ Cardinality(CountingConns') = k - fk + tk
  BY <1>1, <1>2, ConnMoves DEF UnsettledConns, CountingConns
<1>4. results = ingress + invalidIngress + u /\ entered = ingress + k
  BY <1>1 DEF Counted
<1>5. results \in Nat /\ ingress \in Nat /\ invalidIngress \in Nat /\ entered \in Nat
  BY DEF TypeInv, ServerType
<1>6. results' = results + i + v - fu + tu /\ e = i - fk + tk
  BY <1>2
<1>7. results' = ingress' + invalidIngress' + (u - fu + tu) /\ entered' = ingress' + (k - fk + tk)
  BY <1>4, <1>5, <1>6
<1> QED BY <1>3, <1>7 DEF Counted

LEMMA Weights ==
  /\ \A state \in {"none", "fresh", "reading"} :
       Weight(Unsettled, state) = 0 /\ Weight({"counting"}, state) = 0
  /\ \A state \in {"sending", "panicked"} :
       Weight(Unsettled, state) = 1 /\ Weight({"counting"}, state) = 0
  /\ Weight(Unsettled, "counting") = 1 /\ Weight({"counting"}, "counting") = 1
  BY DEF Weight, Unsettled

LEMMA CountedStep ==
  ASSUME TypeInv, Counted, [Next]_vars PROVE Counted'
<1>a. results \in Nat /\ ingress \in Nat /\ invalidIngress \in Nat /\ entered \in Nat
  BY DEF TypeInv, ServerType
<1>1. ASSUME UNCHANGED <<conn, results, entered, ingress, invalidIngress>> PROVE Counted'
  BY <1>1 DEF Counted, UnsettledConns, CountingConns, ConnsIn
<1>2. CASE \/ AcceptFails \/ ReadStream \/ SetDiode \/ CountRead \/ Batch \/ TimerFires \/ Ended
           \/ UNCHANGED vars
  BY <1>1, <1>2 DEF AcceptFails, ReadStream, SetDiode, CountRead, Batch, TimerFires, Ended, vars, serverVars
<1>3. ASSUME NEW w \in Writers, TakeBatch(w) \/ SendBatch(w) PROVE Counted'
  BY <1>1, <1>3 DEF TakeBatch, SendBatch, serverVars
<1>4. ASSUME NEW c \in Conns, Accept(c) PROVE Counted'
  <2>1. /\ conn[c] = "none" /\ conn' = [conn EXCEPT ![c] = "fresh"]
        /\ UNCHANGED <<results, entered, ingress, invalidIngress>>
    BY <1>4 DEF Accept, In
  <2>2. /\ results' = results + 0 + 0 - 0 + 0 /\ entered' = entered + 0 /\ ingress' = ingress + 0
        /\ invalidIngress' = invalidIngress + 0 /\ 0 = 0 - 0 + 0
    BY <1>a, <2>1
  <2> QED BY <2>1, <2>2, CountedMoves, Weights
<1>5. ASSUME NEW c \in Conns, Receive(c) PROVE Counted'
  <2>1. /\ conn[c] \in {"fresh", "reading"} /\ results' = results + 1
        /\ UNCHANGED <<entered, ingress>>
    BY <1>5 DEF Receive, In
  <2>2. PICK to \in {"none", "reading", "sending", "panicked"} :
          /\ conn' = [conn EXCEPT ![c] = to]
          /\ invalidIngress' = IF to \in {"none", "reading"} THEN invalidIngress + 1 ELSE invalidIngress
    BY <1>5, Fates DEF Receive
  <2>3. CASE to \in {"none", "reading"}
    <3>1. /\ results' = results + 0 + 1 - 0 + 0 /\ entered' = entered + 0 /\ ingress' = ingress + 0
          /\ invalidIngress' = invalidIngress + 1 /\ 0 = 0 - 0 + 0
      BY <1>a, <2>1, <2>2, <2>3
    <3>2. PICK from \in {"fresh", "reading"} : from = conn[c]
      BY <2>1
    <3>3. /\ Weight(Unsettled, from) = 0 /\ Weight({"counting"}, from) = 0
          /\ Weight(Unsettled, to) = 0 /\ Weight({"counting"}, to) = 0
      BY <2>3, Weights
    <3> QED BY <2>2, <3>1, <3>2, <3>3, CountedMoves
  <2>4. CASE to \in {"sending", "panicked"}
    <3>1. /\ results' = results + 0 + 0 - 0 + 1 /\ entered' = entered + 0 /\ ingress' = ingress + 0
          /\ invalidIngress' = invalidIngress + 0 /\ 0 = 0 - 0 + 0
      BY <1>a, <2>1, <2>2, <2>4
    <3> QED BY <2>1, <2>2, <2>4, <3>1, CountedMoves, Weights
  <2> QED BY <2>2, <2>3, <2>4
<1>6. ASSUME NEW c \in Conns, SendEnvelope(c) PROVE Counted'
  <2>1. /\ conn[c] = "sending" /\ conn' = [conn EXCEPT ![c] = "counting"] /\ entered' = entered + 1
        /\ UNCHANGED <<results, ingress, invalidIngress>>
    BY <1>6 DEF SendEnvelope, Sending, In
  <2>2. /\ results' = results + 0 + 0 - 1 + 1 /\ ingress' = ingress + 0
        /\ invalidIngress' = invalidIngress + 0 /\ 1 = 0 - 0 + 1
    BY <1>a, <2>1
  <2> QED BY <2>1, <2>2, CountedMoves, Weights
<1>7. ASSUME NEW c \in Conns, CountIngress(c) PROVE Counted'
  <2>1. /\ conn[c] = "counting" /\ conn' = [conn EXCEPT ![c] = "reading"] /\ ingress' = ingress + 1
        /\ UNCHANGED <<results, entered, invalidIngress>>
    BY <1>7 DEF CountIngress, In
  <2>2. /\ results' = results + 1 + 0 - 1 + 0 /\ entered' = entered + 0
        /\ invalidIngress' = invalidIngress + 0 /\ 0 = 1 - 1 + 0
    BY <1>a, <2>1
  <2> QED BY <2>1, <2>2, CountedMoves, Weights
<1>8. ASSUME NEW c \in Conns, HangUp(c) PROVE Counted'
  <2>1. /\ conn[c] \in {"fresh", "reading"} /\ conn' = [conn EXCEPT ![c] = "none"]
        /\ UNCHANGED <<entered, ingress>>
        /\ \/ UNCHANGED <<results, invalidIngress>>
           \/ results' = results + 1 /\ invalidIngress' = invalidIngress + 1
    BY <1>8 DEF HangUp, In
  <2>2. CASE UNCHANGED <<results, invalidIngress>>
    <3>1. /\ results' = results + 0 + 0 - 0 + 0 /\ entered' = entered + 0 /\ ingress' = ingress + 0
          /\ invalidIngress' = invalidIngress + 0 /\ 0 = 0 - 0 + 0
      BY <1>a, <2>1, <2>2
    <3> QED BY <2>1, <3>1, CountedMoves, Weights
  <2>3. CASE results' = results + 1 /\ invalidIngress' = invalidIngress + 1
    <3>1. /\ results' = results + 0 + 1 - 0 + 0 /\ entered' = entered + 0 /\ ingress' = ingress + 0
          /\ invalidIngress' = invalidIngress + 1 /\ 0 = 0 - 0 + 0
      BY <1>a, <2>1, <2>3
    <3> QED BY <2>1, <3>1, CountedMoves, Weights
  <2> QED BY <2>1, <2>2, <2>3
<1> QED BY <1>2, <1>3, <1>4, <1>5, <1>6, <1>7, <1>8 DEF Next

LEMMA CarriedStep ==
  ASSUME TypeInv, StreamInv, Carried, FailedCounted, [Next]_vars
  PROVE  Carried' /\ FailedCounted'
<1>a. /\ readIndex \in Nat /\ missed \in Nat /\ dropped \in Nat /\ failed \in Nat
      /\ nozzleEgress \in Nat /\ nozzleErr \in Nat /\ Len(batch) \in Nat /\ BatchChannelSize \in Nat
      /\ batch \in Seq(Envelope) /\ batches \in Seq(Seq(Envelope))
      /\ writer \in [Writers -> Seq(Envelope)] /\ \A w \in Writers : Len(writer[w]) \in Nat
  BY IngestionAssumption DEF TypeInv, DiodeType, BatchType, WriterType
<1>b. /\ IsFiniteSet(Places(batches)) /\ Cardinality(Places(batches)) \in Nat
      /\ IsFiniteSet(Places(writer)) /\ Cardinality(Places(writer)) \in Nat
  BY PlacesTypes
<1>c. readIndex = missed + Len(batch) + Cardinality(Places(batches)) + Cardinality(Places(writer))
                    + dropped + failed + nozzleEgress
  BY DEF Carried
<1>d. nozzleErr <= failed /\ failed <= BatchChannelSize * nozzleErr
  BY DEF FailedCounted
<1>1. ASSUME UNCHANGED <<readIndex, missed, batch, batches, dropped, writerVars>>
      PROVE  Carried' /\ FailedCounted'
  BY <1>1 DEF Carried, FailedCounted, writerVars
<1>2. CASE ServerStep \/ \E c \in Conns : SendEnvelope(c)
  BY <1>1, <1>2, ServerTypes DEF nozzleVars, diodeVars, batcherVars
<1>3. CASE TimerFires \/ ReadStream \/ SetDiode \/ CountRead \/ Ended \/ UNCHANGED vars
  BY <1>1, <1>3 DEF TimerFires, ReadStream, SetDiode, CountRead, Ended, vars, nozzleVars, diodeVars,
                    batcherVars
<1>5. CASE Batch
  <2>1. UNCHANGED writerVars
    BY <1>5 DEF Batch
  <2>2. PICK next \in Seq(Envelope) : Took(next) /\ Gave(next) /\ Len(next) \in Nat
    BY <1>5, BatchStep
  <2>3. readIndex' \in Nat /\ missed' \in Nat /\
        (missed' - readIndex') + Len(next) = (missed - readIndex) + Len(batch)
    <3>1. CASE next = batch /\ UNCHANGED <<readIndex, missed>>
      BY <1>a, <3>1
    <3>2. ASSUME NEW d \in Envelope, readIndex < d, next = Append(batch, d), readIndex' = d,
                 missed' = missed + (d - 1) - readIndex
          PROVE  readIndex' \in Nat /\ missed' \in Nat /\
                 (missed' - readIndex') + Len(next) = (missed - readIndex) + Len(batch)
      <4>1. Len(next) = Len(batch) + 1
        BY <1>a, <3>2
      <4>2. d \in Nat /\ d # 0
        BY DEF Envelope
      <4> QED BY <1>a, <3>2, <4>1, <4>2
    <3> QED BY <2>2, <3>1, <3>2 DEF Took
  <2>4. /\ dropped' \in Nat /\ Len(batch') \in Nat /\ Cardinality(Places(batches')) \in Nat
        /\ Len(batch') + Cardinality(Places(batches')) + dropped'
             = Len(next) + Cardinality(Places(batches)) + dropped
    <3>1. CASE batch' = next /\ UNCHANGED <<batches, dropped>>
      BY <1>a, <1>b, <2>2, <3>1
    <3>2. CASE batch' = <<>> /\ batches' = Append(batches, next) /\ UNCHANGED dropped
      <4>1. Cardinality(Places(batches')) = Cardinality(Places(batches)) + Len(next)
        BY <1>a, <1>b, <2>2, <3>2, PlacesAppend
      <4>2. Len(batch') = 0
        BY <3>2
      <4> QED BY <1>a, <1>b, <2>2, <3>2, <4>1, <4>2
    <3>3. CASE batch' = <<>> /\ dropped' = dropped + Len(next) /\ UNCHANGED batches
      <4>1. Len(batch') = 0
        BY <3>3
      <4> QED BY <1>a, <1>b, <2>2, <3>3, <4>1
    <3> QED BY <2>2, <3>1, <3>2, <3>3 DEF Gave
  <2>5. FailedCounted'
    BY <1>d, <2>1 DEF FailedCounted, writerVars
  <2>6. readIndex' = missed' + Len(batch') + Cardinality(Places(batches')) + Cardinality(Places(writer))
                       + dropped' + failed + nozzleEgress
    <3>1. PICK b \in Nat, bb \in Nat, q \in Nat, qq \in Nat, v \in Nat, n \in Nat :
            /\ b = Len(batch) /\ bb = Len(batch') /\ n = Len(next)
            /\ q = Cardinality(Places(batches)) /\ qq = Cardinality(Places(batches'))
            /\ v = Cardinality(Places(writer))
      BY <1>a, <1>b, <2>2, <2>4
    <3>4. /\ readIndex \in Nat /\ missed \in Nat /\ dropped \in Nat /\ failed \in Nat
          /\ nozzleEgress \in Nat /\ readIndex' \in Nat /\ missed' \in Nat /\ dropped' \in Nat
      BY <1>a, <2>3, <2>4
    <3>5. PICK r \in Nat, rr \in Nat, m \in Nat, mm \in Nat, l \in Nat, ll \in Nat, e \in Nat, f \in Nat :
            /\ r = readIndex /\ rr = readIndex' /\ m = missed /\ mm = missed'
            /\ l = dropped /\ ll = dropped' /\ e = nozzleEgress /\ f = failed
      BY <3>4
    <3>6. /\ (mm - rr) + n = (m - r) + b /\ bb + qq + ll = n + q + l
          /\ r = m + b + q + v + l + f + e
      BY <1>c, <2>3, <2>4, <3>1, <3>5
    <3>7. rr = mm + bb + qq + v + ll + f + e
      BY <3>6
    <3> QED BY <3>1, <3>5, <3>7
  <2> QED BY <2>1, <2>5, <2>6 DEF Carried, writerVars
<1>6. ASSUME NEW w \in Writers, TakeBatch(w) PROVE Carried' /\ FailedCounted'
  <2>1. /\ writer[w] = <<>> /\ batches # <<>> /\ writer' = [writer EXCEPT ![w] = Head(batches)]
        /\ batches' = Tail(batches)
        /\ UNCHANGED <<readIndex, missed, batch, dropped, failed, nozzleEgress, nozzleErr>>
    BY <1>6 DEF TakeBatch, diodeVars
  <2>2. PICK s \in Seq(Envelope) : s = Head(batches)
    BY <1>a, <2>1
  <2>3. /\ DOMAIN writer = Writers /\ DOMAIN writer' = Writers /\ writer'[w] = s
        /\ \A c \in Writers \ {w} : writer'[c] = writer[c]
        /\ Len(s) \in Nat /\ Len(writer[w]) = 0
    BY <1>a, <2>1, <2>2
  <2>4. IsFiniteSet(Places(batches')) /\ Cardinality(Places(batches')) + Len(s) = Cardinality(Places(batches))
    BY <1>a, <1>b, <2>1, <2>2, PlacesTail
  <2>5. /\ IsFiniteSet(Places(writer'))
        /\ Cardinality(Places(writer')) + Len(writer[w]) = Cardinality(Places(writer)) + Len(writer'[w])
    BY <1>b, <2>3, PlacesExcept
  <2>6. Cardinality(Places(batches')) \in Nat /\ Cardinality(Places(writer')) \in Nat
    BY <2>3, <2>4, <2>5, FS_CardinalityType
  <2>7. PICK q \in Nat, qq \in Nat, v \in Nat, vv \in Nat, n \in Nat, b \in Nat :
          /\ q = Cardinality(Places(batches)) /\ qq = Cardinality(Places(batches'))
          /\ v = Cardinality(Places(writer)) /\ vv = Cardinality(Places(writer'))
          /\ n = Len(s) /\ b = Len(batch)
    BY <1>a, <1>b, <2>3, <2>6
  <2>8. qq + n = q /\ vv + 0 = v + n
    BY <2>3, <2>4, <2>5, <2>7
  <2>9. PICK r \in Nat, m \in Nat, l \in Nat, f \in Nat, e \in Nat :
          r = readIndex /\ m = missed /\ l = dropped /\ f = failed /\ e = nozzleEgress
    BY <1>a
  <2>10. r = m + b + q + v + l + f + e
    BY <1>c, <2>7, <2>9
  <2>11. r = m + b + qq + vv + l + f + e
    BY <2>8, <2>10
  <2>12. Carried'
    BY <2>1, <2>7, <2>9, <2>11 DEF Carried
  <2> QED BY <1>d, <2>1, <2>12 DEF FailedCounted
<1>7. ASSUME NEW w \in Writers, SendBatch(w) PROVE Carried' /\ FailedCounted'
  <2>1. /\ writer[w] # <<>> /\ writer' = [writer EXCEPT ![w] = <<>>]
        /\ UNCHANGED <<readIndex, missed, batch, batches, dropped>>
    BY <1>7 DEF SendBatch, AfterSend, diodeVars, batcherVars
  <2>2. \/ /\ nozzleErr' = nozzleErr /\ nozzleEgress' = nozzleEgress + Len(writer[w]) /\ failed' = failed
        \/ /\ nozzleErr' = nozzleErr + 1 /\ nozzleEgress' = nozzleEgress + 0
           /\ failed' = failed + Len(writer[w])
    BY <1>7 DEF SendBatch, Egressed
  <2>3. Len(writer[w]) \in Nat /\ Len(writer[w]) >= 1 /\ Len(writer[w]) <= BatchChannelSize
    <3>1. writer[w] \in Seq(Envelope) /\ Len(writer[w]) <= BatchChannelSize
      BY DEF TypeInv, WriterType
    <3> QED BY <2>1, <3>1
  <2>4. Len(<<>>) = 0
    OBVIOUS
  <2>5. /\ DOMAIN writer = Writers /\ DOMAIN writer' = Writers /\ Len(writer'[w]) = 0
        /\ \A c \in Writers \ {w} : writer'[c] = writer[c]
    BY <1>a, <2>1, <2>4
  <2>6. /\ IsFiniteSet(Places(writer'))
        /\ Cardinality(Places(writer')) + Len(writer[w]) = Cardinality(Places(writer)) + Len(writer'[w])
    BY <1>b, <2>3, <2>5, PlacesExcept
  <2>7. Cardinality(Places(writer')) \in Nat
    BY <2>5, <2>6, FS_CardinalityType
  <2>9. PICK q \in Nat, v \in Nat, vv \in Nat, n \in Nat, b \in Nat :
          /\ q = Cardinality(Places(batches)) /\ v = Cardinality(Places(writer))
          /\ vv = Cardinality(Places(writer')) /\ n = Len(writer[w]) /\ b = Len(batch)
    BY <1>a, <1>b, <2>3, <2>7
  <2>10. PICK r \in Nat, m \in Nat, l \in Nat, f \in Nat, e \in Nat, x \in Nat, size \in Nat :
           /\ r = readIndex /\ m = missed /\ l = dropped /\ f = failed /\ e = nozzleEgress
           /\ x = nozzleErr /\ size = BatchChannelSize
    BY <1>a
  <2>11. /\ vv + n = v + 0 /\ n >= 1 /\ n <= size
         /\ \/ nozzleErr' = x /\ nozzleEgress' = e + n /\ failed' = f
            \/ nozzleErr' = x + 1 /\ nozzleEgress' = e + 0 /\ failed' = f + n
    BY <2>2, <2>3, <2>5, <2>6, <2>9, <2>10
  <2>12. r = m + b + q + v + l + f + e
    BY <1>c, <2>9, <2>10
  <2>13. r = m + b + q + vv + l + failed' + nozzleEgress'
    BY <2>11, <2>12
  <2>14. Carried'
    BY <2>1, <2>9, <2>10, <2>13 DEF Carried
  <2>15. size * (x + 1) = size * x + size /\ size * x \in Nat
    OBVIOUS
  <2>16. PICK most \in Nat : most = size * x
    BY <2>15
  <2>17. x <= f /\ f <= most
    BY <1>d, <2>10, <2>16
  <2>18. nozzleErr' <= failed' /\ failed' <= size * nozzleErr'
    <3>1. CASE nozzleErr' = x /\ failed' = f
      BY <2>16, <2>17, <3>1
    <3>2. CASE nozzleErr' = x + 1 /\ failed' = f + n
      <4>1. x + 1 <= f + n /\ f + n <= most + size
        BY <2>11, <2>17
      <4>2. size * nozzleErr' = most + size
        BY <2>15, <2>16, <3>2
      <4> QED BY <3>2, <4>1, <4>2
    <3> QED BY <2>11, <3>1, <3>2
  <2> QED BY <2>10, <2>14, <2>18 DEF FailedCounted
<1> QED BY <1>2, <1>3, <1>5, <1>6, <1>7 DEF Next, ServerStep

LEMMA CountStep ==
  ASSUME TypeInv, StreamInv, CountInv, [Next]_vars PROVE CountInv'
  BY CountedStep, CarriedStep DEF CountInv

-----------------------------------------------------------------------------
(* The order of the envelopes. *)

LEMMA ApartSymmetric == ASSUME NEW s, NEW t, Apart(s, t) PROVE Apart(t, s)
  BY DEF Apart

LEMMA NothingInOrder ==
  ASSUME NEW n
  PROVE  Ascending(<<>>) /\ Passed(<<>>, n) /\ \A s : Apart(<<>>, s) /\ Apart(s, <<>>)
  BY DEF Ascending, Passed, Apart

LEMMA QuietOrder ==
  ASSUME OrderInv, ApartInv, UNCHANGED <<readIndex, batch, batches, writer, arrived>>
  PROVE  OrderInv' /\ ApartInv'
  BY DEF OrderInv, ApartInv

\* What the batcher takes is newer than anything it took before.
LEMMA TookOrder ==
  ASSUME TypeInv, OrderInv, NEW next \in Seq(Envelope), Took(next)
  PROVE  /\ Ascending(next) /\ Passed(next, readIndex')
         /\ \A s \in Seq(Envelope) : Passed(s, readIndex) =>
              Passed(s, readIndex') /\ (Apart(batch, s) => Apart(next, s))
<1>a. batch \in Seq(Envelope) /\ readIndex \in Nat /\ Ascending(batch) /\ Passed(batch, readIndex)
  BY DEF TypeInv, BatchType, DiodeType, OrderInv
<1>1. CASE next = batch /\ UNCHANGED <<readIndex, missed>>
  BY <1>a, <1>1
<1>2. ASSUME NEW d \in Envelope, readIndex < d, next = Append(batch, d), readIndex' = d
      PROVE  /\ Ascending(next) /\ Passed(next, readIndex')
             /\ \A s \in Seq(Envelope) : Passed(s, readIndex) =>
                  Passed(s, readIndex') /\ (Apart(batch, s) => Apart(next, s))
  <2>1. PICK n \in Nat : n = Len(batch)
    BY <1>a
  <2>2. /\ Len(next) = n + 1 /\ next[n + 1] = d
        /\ \A i \in 1..n : next[i] = batch[i] /\ batch[i] \in Envelope
    BY <1>a, <1>2, <2>1
  <2>3. \A s \in Seq(Envelope) : \A i \in 1..Len(s) : s[i] \in Nat
    BY DEF Envelope
  <2>4. \A i \in 1..n : next[i] \in Nat /\ next[i] <= readIndex /\ next[i] < d
    BY <1>a, <1>2, <2>1, <2>2 DEF Passed, Envelope
  <2>5. d \in Nat
    BY DEF Envelope
  <2>6. Ascending(next)
    <3> SUFFICES ASSUME NEW i \in 1..(n + 1), NEW j \in 1..(n + 1), i < j PROVE next[i] < next[j]
      BY <2>2 DEF Ascending
    <3>1. i \in 1..n
      OBVIOUS
    <3>2. CASE j = n + 1
      BY <2>2, <2>4, <3>1, <3>2
    <3>3. CASE j \in 1..n
      BY <1>a, <2>1, <2>2, <3>1, <3>3 DEF Ascending
    <3> QED BY <3>2, <3>3
  <2>7. Passed(next, d)
    <3> SUFFICES ASSUME NEW i \in 1..(n + 1) PROVE next[i] <= d
      BY <2>2 DEF Passed
    <3>1. CASE i = n + 1
      BY <2>2, <2>5, <3>1
    <3>2. CASE i \in 1..n
      BY <2>4, <2>5, <3>2
    <3> QED BY <3>1, <3>2
  <2>8. ASSUME NEW s \in Seq(Envelope), Passed(s, readIndex)
        PROVE  Passed(s, d) /\ (Apart(batch, s) => Apart(next, s))
    <3>1. \A i \in 1..Len(s) : s[i] \in Nat /\ s[i] <= readIndex /\ s[i] < d
      BY <1>a, <1>2, <2>3, <2>5, <2>8 DEF Passed
    <3>2. Passed(s, d)
      BY <2>5, <3>1 DEF Passed
    <3>3. ASSUME Apart(batch, s) PROVE Apart(next, s)
      <4> SUFFICES ASSUME NEW i \in 1..(n + 1), NEW j \in 1..Len(s) PROVE next[i] # s[j]
        BY <2>2 DEF Apart
      <4>1. CASE i = n + 1
        BY <2>2, <2>5, <3>1, <4>1
      <4>2. CASE i \in 1..n
        BY <2>1, <2>2, <3>3, <4>2 DEF Apart
      <4> QED BY <4>1, <4>2
    <3> QED BY <3>2, <3>3
  <2> QED BY <1>2, <2>6, <2>7, <2>8
<1> QED BY <1>1, <1>2 DEF Took

LEMMA BatchOrder ==
  ASSUME TypeInv, StreamInv, OrderInv, ApartInv, Batch
  PROVE  OrderInv' /\ ApartInv'
<1>a. /\ batches \in Seq(Seq(Envelope)) /\ arrived \in Seq(Seq(Envelope)) /\ Len(batches) \in Nat
      /\ writer \in [Writers -> Seq(Envelope)]
      /\ \A b \in 1..Len(batches) : batches[b] \in Seq(Envelope)
      /\ \A a \in 1..Len(arrived) : arrived[a] \in Seq(Envelope)
      /\ \A w \in Writers : writer[w] \in Seq(Envelope)
  BY DEF TypeInv, BatchType, WriterType
<1>1. UNCHANGED <<writer, arrived>>
  BY DEF Batch, writerVars
<1>2. PICK next \in Seq(Envelope) : Took(next) /\ Gave(next)
  BY BatchStep
<1>3. /\ Ascending(next) /\ Passed(next, readIndex')
      /\ \A s \in Seq(Envelope) : Passed(s, readIndex) =>
           Passed(s, readIndex') /\ (Apart(batch, s) => Apart(next, s))
  BY <1>2, TookOrder
<1>4. \A b \in 1..Len(batches) :
        Ascending(batches[b]) /\ Passed(batches[b], readIndex') /\ Apart(next, batches[b])
  BY <1>a, <1>3 DEF OrderInv, ApartInv
<1>5. \A w \in Writers : Ascending(writer[w]) /\ Passed(writer[w], readIndex') /\ Apart(next, writer[w])
  BY <1>a, <1>3 DEF OrderInv, ApartInv
<1>6. \A a \in 1..Len(arrived) :
        Ascending(arrived[a]) /\ Passed(arrived[a], readIndex') /\ Apart(next, arrived[a])
  BY <1>a, <1>3 DEF OrderInv, ApartInv
<1>7. /\ \A b, c \in 1..Len(batches) : b # c => Apart(batches[b], batches[c])
      /\ \A b \in 1..Len(batches), w \in Writers : Apart(batches[b], writer[w])
      /\ \A b \in 1..Len(batches), a \in 1..Len(arrived) : Apart(batches[b], arrived[a])
      /\ \A w, v \in Writers : w # v => Apart(writer[w], writer[v])
      /\ \A w \in Writers, a \in 1..Len(arrived) : Apart(writer[w], arrived[a])
      /\ \A a, b \in 1..Len(arrived) : a # b => Apart(arrived[a], arrived[b])
  BY DEF ApartInv
<1>8. CASE batch' = next /\ UNCHANGED batches
  BY <1>1, <1>3, <1>4, <1>5, <1>6, <1>7, <1>8 DEF OrderInv, ApartInv
<1>9. /\ Ascending(<<>>) /\ Passed(<<>>, readIndex') /\ \A s : Apart(<<>>, s)
  BY NothingInOrder
<1>10. CASE batch' = <<>> /\ UNCHANGED batches
  BY <1>1, <1>4, <1>5, <1>6, <1>7, <1>9, <1>10 DEF OrderInv, ApartInv
<1>11. CASE batch' = <<>> /\ batches' = Append(batches, next)
  <2>1. PICK n \in Nat : n = Len(batches)
    BY <1>a
  <2>2. /\ Len(batches') = n + 1 /\ batches'[n + 1] = next
        /\ \A b \in 1..n : batches'[b] = batches[b]
    BY <1>a, <1>11, <2>1
  <2>3. \A b \in 1..(n + 1) : b = n + 1 \/ b \in 1..n
    OBVIOUS
  <2>4. \A b \in 1..(n + 1) : Ascending(batches'[b]) /\ Passed(batches'[b], readIndex')
    BY <1>3, <1>4, <2>1, <2>2, <2>3
  <2>5. \A b, c \in 1..(n + 1) : b # c => Apart(batches'[b], batches'[c])
    BY <1>4, <1>7, <2>1, <2>2, <2>3, ApartSymmetric
  <2>6. \A b \in 1..(n + 1), w \in Writers : Apart(batches'[b], writer[w])
    BY <1>5, <1>7, <2>1, <2>2, <2>3
  <2>7. \A b \in 1..(n + 1), a \in 1..Len(arrived) : Apart(batches'[b], arrived[a])
    BY <1>6, <1>7, <2>1, <2>2, <2>3
  <2>8. OrderInv'
    BY <1>1, <1>5, <1>6, <1>9, <1>11, <2>2, <2>4 DEF OrderInv
  <2>9. ApartInv'
    BY <1>1, <1>7, <1>9, <1>11, <2>2, <2>5, <2>6, <2>7 DEF ApartInv
  <2> QED BY <2>8, <2>9
<1> QED BY <1>2, <1>8, <1>10, <1>11 DEF Gave

LEMMA TakeBatchOrder ==
  ASSUME TypeInv, OrderInv, ApartInv, NEW w \in Writers, TakeBatch(w)
  PROVE  OrderInv' /\ ApartInv'
<1>1. /\ batches # <<>> /\ writer' = [writer EXCEPT ![w] = Head(batches)] /\ batches' = Tail(batches)
      /\ UNCHANGED <<readIndex, batch, arrived>>
  BY DEF TakeBatch, diodeVars
<1>2. batches \in Seq(Seq(Envelope)) /\ writer \in [Writers -> Seq(Envelope)]
  BY DEF TypeInv, BatchType, WriterType
<1>3. /\ 1 \in 1..Len(batches) /\ writer'[w] = batches[1]
      /\ \A v \in Writers : v # w => writer'[v] = writer[v]
  BY <1>1, <1>2
<1>4. \A b \in 1..Len(batches') :
        b + 1 \in 1..Len(batches) /\ b + 1 # 1 /\ batches'[b] = batches[b + 1]
  BY <1>1, <1>2
<1>5. \A b, c \in 1..Len(batches') : b # c => b + 1 # c + 1
  OBVIOUS
<1>6. OrderInv'
  <2>1. \A b \in 1..Len(batches') : Ascending(batches'[b]) /\ Passed(batches'[b], readIndex)
    BY <1>4 DEF OrderInv
  <2>2. \A v \in Writers : Ascending(writer'[v]) /\ Passed(writer'[v], readIndex)
    BY <1>3 DEF OrderInv
  <2> QED BY <1>1, <2>1, <2>2 DEF OrderInv
<1>7. /\ \A b \in 1..Len(batches) : Apart(batch, batches[b])
      /\ \A v \in Writers : Apart(batch, writer[v])
      /\ \A b, c \in 1..Len(batches) : b # c => Apart(batches[b], batches[c])
      /\ \A b \in 1..Len(batches), v \in Writers : Apart(batches[b], writer[v])
      /\ \A b \in 1..Len(batches), a \in 1..Len(arrived) : Apart(batches[b], arrived[a])
      /\ \A u, v \in Writers : u # v => Apart(writer[u], writer[v])
      /\ \A v \in Writers, a \in 1..Len(arrived) : Apart(writer[v], arrived[a])
      /\ \A a \in 1..Len(arrived) : Apart(batch, arrived[a])
      /\ \A a, b \in 1..Len(arrived) : a # b => Apart(arrived[a], arrived[b])
  BY DEF ApartInv
<1>8. \A b \in 1..Len(batches') : Apart(batch, batches'[b])
  BY <1>4, <1>7
<1>9. \A v \in Writers : Apart(batch, writer'[v])
  BY <1>3, <1>7
<1>10. \A b, c \in 1..Len(batches') : b # c => Apart(batches'[b], batches'[c])
  BY <1>4, <1>5, <1>7
<1>11. \A b \in 1..Len(batches'), v \in Writers : Apart(batches'[b], writer'[v])
  BY <1>3, <1>4, <1>7
<1>12. \A b \in 1..Len(batches'), a \in 1..Len(arrived) : Apart(batches'[b], arrived[a])
  BY <1>4, <1>7
<1>13. \A u, v \in Writers : u # v => Apart(writer'[u], writer'[v])
  BY <1>3, <1>7, ApartSymmetric
<1>14. \A v \in Writers, a \in 1..Len(arrived) : Apart(writer'[v], arrived[a])
  BY <1>3, <1>7
<1>15. ApartInv'
  BY <1>1, <1>7, <1>8, <1>9, <1>10, <1>11, <1>12, <1>13, <1>14 DEF ApartInv
<1> QED BY <1>6, <1>15

LEMMA SendBatchOrder ==
  ASSUME TypeInv, OrderInv, ApartInv, NEW w \in Writers, SendBatch(w)
  PROVE  OrderInv' /\ ApartInv'
<1>1. /\ writer' = [writer EXCEPT ![w] = <<>>]
      /\ arrived' = arrived \/ arrived' = Append(arrived, writer[w])
      /\ UNCHANGED <<readIndex, batch, batches>>
  BY DEF SendBatch, AfterSend, diodeVars, batcherVars
<1>2. /\ writer \in [Writers -> Seq(Envelope)] /\ arrived \in Seq(Seq(Envelope)) /\ Len(arrived) \in Nat
      /\ writer[w] \in Seq(Envelope)
  BY DEF TypeInv, WriterType
<1>3. writer'[w] = <<>> /\ \A v \in Writers : v # w => writer'[v] = writer[v]
  BY <1>1, <1>2
<1>4. Ascending(<<>>) /\ Passed(<<>>, readIndex) /\ \A s : Apart(<<>>, s) /\ Apart(s, <<>>)
  BY NothingInOrder
<1>5. \A a \in 1..Len(arrived') : \/ a \in 1..Len(arrived) /\ arrived'[a] = arrived[a]
                                  \/ a = Len(arrived) + 1 /\ arrived'[a] = writer[w]
  <2>1. CASE arrived' = arrived
    BY <2>1
  <2>2. CASE arrived' = Append(arrived, writer[w])
    <3>1. PICK s \in Seq(Envelope) : s = writer[w]
      BY <1>2
    <3>2. arrived' = Append(arrived, s)
      BY <2>2, <3>1
    <3>3. /\ Len(arrived') = Len(arrived) + 1 /\ arrived'[Len(arrived) + 1] = s
          /\ \A a \in 1..Len(arrived) : arrived'[a] = arrived[a]
      BY <1>2, <3>2
    <3>4. \A a \in 1..(Len(arrived) + 1) : a \in 1..Len(arrived) \/ a = Len(arrived) + 1
      BY <1>2
    <3> QED BY <3>1, <3>3, <3>4
  <2> QED BY <1>1, <2>1, <2>2
<1>6. OrderInv'
  <2>1. \A v \in Writers : Ascending(writer'[v]) /\ Passed(writer'[v], readIndex)
    BY <1>3, <1>4 DEF OrderInv
  <2>2. \A a \in 1..Len(arrived') : Ascending(arrived'[a]) /\ Passed(arrived'[a], readIndex)
    BY <1>5 DEF OrderInv
  <2> QED BY <1>1, <2>1, <2>2 DEF OrderInv
<1>7. /\ \A b \in 1..Len(batches) : Apart(batch, batches[b])
      /\ \A v \in Writers : Apart(batch, writer[v])
      /\ \A b, c \in 1..Len(batches) : b # c => Apart(batches[b], batches[c])
      /\ \A b \in 1..Len(batches), v \in Writers : Apart(batches[b], writer[v])
      /\ \A b \in 1..Len(batches), a \in 1..Len(arrived) : Apart(batches[b], arrived[a])
      /\ \A u, v \in Writers : u # v => Apart(writer[u], writer[v])
      /\ \A v \in Writers, a \in 1..Len(arrived) : Apart(writer[v], arrived[a])
      /\ \A a \in 1..Len(arrived) : Apart(batch, arrived[a])
      /\ \A a, b \in 1..Len(arrived) : a # b => Apart(arrived[a], arrived[b])
  BY DEF ApartInv
<1>8. \A v \in Writers : Apart(batch, writer'[v])
  BY <1>3, <1>4, <1>7
<1>9. \A b \in 1..Len(batches), v \in Writers : Apart(batches[b], writer'[v])
  BY <1>3, <1>4, <1>7
<1>10. \A u, v \in Writers : u # v => Apart(writer'[u], writer'[v])
  BY <1>3, <1>4, <1>7
<1>11. \A a \in 1..Len(arrived') : Apart(batch, arrived'[a])
  BY <1>5, <1>7
<1>12. \A b \in 1..Len(batches), a \in 1..Len(arrived') : Apart(batches[b], arrived'[a])
  BY <1>5, <1>7
<1>13. \A v \in Writers, a \in 1..Len(arrived') : Apart(writer'[v], arrived'[a])
  <2> SUFFICES ASSUME NEW v \in Writers, NEW a \in 1..Len(arrived') PROVE Apart(writer'[v], arrived'[a])
    OBVIOUS
  <2>1. CASE v = w
    BY <1>3, <1>4, <2>1
  <2>2. CASE v # w
    BY <1>3, <1>5, <1>7, <2>2
  <2> QED BY <2>1, <2>2
<1>14. \A a, b \in 1..Len(arrived') : a # b => Apart(arrived'[a], arrived'[b])
  <2> SUFFICES ASSUME NEW a \in 1..Len(arrived'), NEW b \in 1..Len(arrived'), a # b
               PROVE  Apart(arrived'[a], arrived'[b])
    OBVIOUS
  <2> QED BY <1>5, <1>7, ApartSymmetric
<1>15. ApartInv'
  BY <1>1, <1>7, <1>8, <1>9, <1>10, <1>11, <1>12, <1>13, <1>14 DEF ApartInv
<1> QED BY <1>6, <1>15

LEMMA OrderStep ==
  ASSUME TypeInv, StreamInv, OrderInv, ApartInv, [Next]_vars
  PROVE  OrderInv' /\ ApartInv'
<1>1. CASE ServerStep \/ \E c \in Conns : SendEnvelope(c)
  BY <1>1, ServerTypes, QuietOrder DEF nozzleVars, diodeVars, batcherVars, writerVars
<1>2. CASE ReadStream \/ SetDiode \/ CountRead \/ TimerFires \/ Ended \/ UNCHANGED vars
  BY <1>2, QuietOrder DEF ReadStream, SetDiode, CountRead, TimerFires, Ended, vars, nozzleVars,
                          diodeVars, batcherVars, writerVars
<1> QED BY <1>1, <1>2, BatchOrder, TakeBatchOrder, SendBatchOrder DEF Next, ServerStep

-----------------------------------------------------------------------------
(* The theorems. *)

Inv == TypeInv /\ StreamInv /\ CountInv /\ OrderInv /\ ApartInv

LEMMA Invariance == Spec => []Inv
<1>1. Init => Inv
  BY Initially DEF Inv
<1>2. Inv /\ [Next]_vars => Inv'
  BY StreamSteps, CountStep, OrderStep DEF Inv
<1> QED BY <1>1, <1>2, PTL DEF Spec

\* Each counter is a part of what the parsers gave, which is bounded.
LEMMA CountersBounded ==
  ASSUME Inv
  PROVE  /\ entered <= MaxResults /\ ingress <= MaxResults /\ invalidIngress <= MaxResults
         /\ nozzleIngress <= writeIndex /\ writeIndex <= entered /\ readIndex <= writeIndex
         /\ missed <= readIndex /\ dropped <= readIndex /\ failed <= readIndex
         /\ nozzleEgress <= readIndex /\ nozzleErr <= failed
<1>a. /\ results \in Nat /\ results <= MaxResults /\ MaxResults \in Nat
      /\ entered \in Nat /\ ingress \in Nat /\ invalidIngress \in Nat
      /\ nozzleIngress \in Nat /\ writeIndex \in Nat
      /\ readIndex \in Nat /\ missed \in Nat /\ dropped \in Nat /\ failed \in Nat
      /\ nozzleEgress \in Nat /\ nozzleErr \in Nat
  BY IngestionAssumption DEF Inv, TypeInv, ServerType, ReaderType, DiodeType, BatchType, WriterType
<1>b. Len(envelopes) \in Nat /\ Len(batch) \in Nat /\ Len(taken) \in Nat /\ uncounted \in {0, 1}
  BY DEF Inv, TypeInv, ChannelType, ReaderType, BatchType
<1>c. /\ writeIndex = nozzleIngress + uncounted /\ readIndex <= writeIndex
      /\ entered = Len(envelopes) + Len(taken) + writeIndex
  BY DEF Inv, StreamInv
<1>d. Cardinality(Places(batches)) \in Nat /\ Cardinality(Places(writer)) \in Nat
  BY PlacesTypes DEF Inv
<1>e. /\ CountingConns \in SUBSET UnsettledConns /\ UnsettledConns \in SUBSET Conns
  BY DEF CountingConns, UnsettledConns, ConnsIn, Unsettled
<1>f. /\ Cardinality(UnsettledConns) \in Nat /\ Cardinality(CountingConns) \in Nat
      /\ Cardinality(CountingConns) <= Cardinality(UnsettledConns)
  <2>1. IsFiniteSet(UnsettledConns)
    BY <1>e, IngestionAssumption, FS_Subset
  <2>2. IsFiniteSet(CountingConns) /\ Cardinality(CountingConns) <= Cardinality(UnsettledConns)
    BY <1>e, <2>1, FS_Subset
  <2> QED BY <2>1, <2>2, FS_CardinalityType
<1>g. Counted /\ Carried /\ nozzleErr <= failed
  BY DEF Inv, CountInv, FailedCounted
<1>1. entered <= MaxResults /\ ingress <= MaxResults /\ invalidIngress <= MaxResults
  <2>1. PICK u \in Nat, k \in Nat :
          u = Cardinality(UnsettledConns) /\ k = Cardinality(CountingConns) /\ k <= u
    BY <1>f
  <2>2. results = ingress + invalidIngress + u /\ entered = ingress + k
    BY <1>g, <2>1 DEF Counted
  <2> QED BY <1>a, <2>1, <2>2
<1>2. nozzleIngress <= writeIndex /\ writeIndex <= entered
  <2>1. PICK n \in Nat, k \in Nat : n = Len(envelopes) /\ k = Len(taken)
    BY <1>b
  <2> QED BY <1>a, <1>b, <1>c, <2>1
<1>3. missed <= readIndex /\ dropped <= readIndex /\ failed <= readIndex /\ nozzleEgress <= readIndex
  <2>1. PICK b \in Nat, q \in Nat, v \in Nat :
          b = Len(batch) /\ q = Cardinality(Places(batches)) /\ v = Cardinality(Places(writer))
    BY <1>b, <1>d
  <2>2. PICK m \in Nat, l \in Nat, f \in Nat, e \in Nat :
          m = missed /\ l = dropped /\ f = failed /\ e = nozzleEgress
    BY <1>a
  <2>3. readIndex = m + b + q + v + l + f + e
    BY <1>g, <2>1, <2>2 DEF Carried
  <2>4. m <= readIndex /\ l <= readIndex /\ f <= readIndex /\ e <= readIndex
    BY <2>3
  <2> QED BY <2>2, <2>4
<1> QED BY <1>1, <1>2, <1>3, <1>c, <1>g

LEMMA InvImpliesReconciles == Inv => Reconciles
<1> SUFFICES ASSUME Inv PROVE Reconciles
  OBVIOUS
<1>a. /\ writeIndex \in Nat /\ readIndex \in Nat /\ uncounted \in {0, 1} /\ nozzleIngress \in Nat
      /\ Len(envelopes) \in Nat /\ Len(taken) \in Nat /\ missed \in Nat /\ dropped \in Nat
      /\ failed \in Nat /\ nozzleEgress \in Nat /\ nozzleErr \in Nat /\ Len(batch) \in Nat
      /\ BatchChannelSize \in Nat
  BY IngestionAssumption
  DEF Inv, TypeInv, ChannelType, ReaderType, DiodeType, BatchType, WriterType
<1>b. Cardinality(Places(batches)) \in Nat /\ Cardinality(Places(writer)) \in Nat
  BY PlacesTypes DEF Inv
<1>c. writeIndex = nozzleIngress + uncounted /\ entered = Len(envelopes) + Len(taken) + writeIndex
  BY DEF Inv, StreamInv
<1>1. results = ingress + invalidIngress
                  + Cardinality({c \in Conns : conn[c] \in {"sending", "counting", "panicked"}})
  BY DEF Inv, CountInv, Counted, UnsettledConns, ConnsIn, Unsettled
<1>2. ingress + Cardinality({c \in Conns : In(c, "counting")})
        = Len(envelopes) + Len(taken) + uncounted + nozzleIngress
  <2>1. {c \in Conns : In(c, "counting")} = CountingConns
    BY DEF CountingConns, ConnsIn, In
  <2>2. entered = ingress + Cardinality(CountingConns)
    BY DEF Inv, CountInv, Counted
  <2>3. entered = Len(envelopes) + Len(taken) + uncounted + nozzleIngress
    BY <1>a, <1>c
  <2> QED BY <2>1, <2>2, <2>3
<1>3. nozzleIngress + uncounted =
        (writeIndex - readIndex) + missed + Len(batch) + Cardinality(Places(batches))
          + Cardinality(Places(writer)) + dropped + failed + nozzleEgress
  <2>1. PICK b \in Nat, q \in Nat, v \in Nat :
          b = Len(batch) /\ q = Cardinality(Places(batches)) /\ v = Cardinality(Places(writer))
    BY <1>a, <1>b
  <2>2. readIndex = missed + b + q + v + dropped + failed + nozzleEgress
    BY <2>1 DEF Inv, CountInv, Carried
  <2>3. PICK m \in Nat, l \in Nat, f \in Nat, e \in Nat, k \in Nat, r \in Nat :
          /\ m = missed /\ l = dropped /\ f = failed /\ e = nozzleEgress
          /\ k = writeIndex /\ r = readIndex
    BY <1>a
  <2>4. k = (k - r) + m + b + q + v + l + f + e
    BY <2>2, <2>3
  <2> QED BY <1>c, <2>1, <2>3, <2>4
<1>4. failed \in nozzleErr..(BatchChannelSize * nozzleErr)
  <2>1. nozzleErr <= failed /\ failed <= BatchChannelSize * nozzleErr
    BY DEF Inv, CountInv, FailedCounted
  <2>2. BatchChannelSize * nozzleErr \in Nat
    BY <1>a
  <2> QED BY <1>a, <2>1, <2>2
<1> QED BY <1>1, <1>2, <1>3, <1>4 DEF Reconciles

LEMMA SequenceOf ==
  ASSUME NEW S, NEW T, NEW s \in Seq(S), \A i \in 1..Len(s) : s[i] \in T PROVE s \in Seq(T)
  OBVIOUS

LEMMA PassedBounds ==
  ASSUME Inv, NEW s \in Seq(Envelope), Passed(s, readIndex)
  PROVE  s \in Seq(1..MaxResults)
<1>1. readIndex \in Nat /\ readIndex <= MaxResults /\ MaxResults \in Nat
  BY CountersBounded, IngestionAssumption DEF Inv, TypeInv, DiodeType, ServerType
<1>2. \A i \in 1..Len(s) : s[i] \in 1..MaxResults
  BY <1>1 DEF Passed, Envelope
<1> QED BY <1>2, SequenceOf

LEMMA InvImpliesTypeOK == Inv => TypeOK
<1> SUFFICES ASSUME Inv PROVE TypeOK
  OBVIOUS
<1>a. /\ entered <= MaxResults /\ ingress <= MaxResults /\ invalidIngress <= MaxResults
      /\ nozzleIngress <= writeIndex /\ writeIndex <= entered /\ readIndex <= writeIndex
      /\ missed <= readIndex /\ dropped <= readIndex /\ failed <= readIndex
      /\ nozzleEgress <= readIndex /\ nozzleErr <= failed
  BY CountersBounded
<1>b. /\ results \in 0..MaxResults /\ MaxResults \in Nat
      /\ entered \in Nat /\ ingress \in Nat /\ invalidIngress \in Nat
      /\ nozzleIngress \in Nat /\ writeIndex \in Nat
      /\ readIndex \in Nat /\ missed \in Nat /\ dropped \in Nat /\ failed \in Nat
      /\ nozzleEgress \in Nat /\ nozzleErr \in Nat
  BY IngestionAssumption DEF Inv, TypeInv, ServerType, ReaderType, DiodeType, BatchType, WriterType
<1>1. listening \in BOOLEAN /\ conn \in [Conns -> ConnStates]
  BY DEF Inv, TypeInv, ServerType
<1>2. {results, entered, ingress, invalidIngress, missed, nozzleIngress, nozzleEgress, nozzleErr,
       dropped, failed} \subseteq 0..MaxResults
  BY <1>a, <1>b
<1>3a. /\ envelopes \in Seq(Envelope) /\ Len(envelopes) <= ChannelSize /\ Len(envelopes) \in Nat
       /\ taken \in Seq(Envelope) /\ Len(taken) \in Nat /\ uncounted \in {0, 1}
       /\ Len(taken) + uncounted <= 1
       /\ entered = Len(envelopes) + Len(taken) + writeIndex
       /\ taken # <<>> => taken[1] = writeIndex + 1
       /\ \A k \in 1..Len(envelopes) : envelopes[k] = writeIndex + Len(taken) + k
  BY DEF Inv, TypeInv, ChannelType, ReaderType, StreamInv
<1>3. envelopes \in Seq(1..MaxResults) /\ Len(envelopes) <= ChannelSize
  <2>1. \A k \in 1..Len(envelopes) : writeIndex + Len(taken) + k \in 1..MaxResults
    BY <1>a, <1>b, <1>3a
  <2>2. \A k \in 1..Len(envelopes) : envelopes[k] \in 1..MaxResults
    BY <1>3a, <2>1
  <2> QED BY <1>3a, <2>2, SequenceOf
<1>3b. taken \in Seq(1..MaxResults) /\ Len(taken) + uncounted <= 1 /\ uncounted \in {0, 1}
  <2>1. \A k \in 1..Len(taken) : k = 1 /\ taken # <<>>
    BY <1>3a
  <2>2. \A k \in 1..Len(taken) : taken[k] = writeIndex + 1
    BY <1>3a, <2>1
  <2>3. \A k \in 1..Len(taken) : writeIndex + 1 \in 1..MaxResults
    BY <1>a, <1>b, <1>3a
  <2>4. \A k \in 1..Len(taken) : taken[k] \in 1..MaxResults
    BY <2>2, <2>3
  <2> QED BY <1>3a, <2>4, SequenceOf
<1>4. writeIndex \in 0..MaxResults /\ readIndex \in 0..MaxResults
  BY <1>a, <1>b
<1>5. slot \in [0..(DiodeSize - 1) -> [data : 0..MaxResults, seq : 0..MaxResults]]
  <2>1. slot \in [0..(DiodeSize - 1) -> [data : Nat, seq : Nat]]
    BY DEF Inv, TypeInv, DiodeType
  <2>2. ASSUME NEW i \in 0..(DiodeSize - 1) PROVE slot[i] \in [data : 0..MaxResults, seq : 0..MaxResults]
    <3>1. CASE slot[i] = Empty
      BY <1>b, <3>1 DEF Empty
    <3>2. CASE slot[i] # Empty
      <4>1. slot[i].data = slot[i].seq + 1 /\ slot[i].seq < writeIndex
        BY <3>2 DEF Inv, StreamInv
      <4>2. slot[i] \in [data : Nat, seq : Nat]
        BY <2>1
      <4>3. PICK q \in Nat, d \in Nat : q = slot[i].seq /\ d = slot[i].data
        BY <4>2
      <4>4. d = q + 1 /\ q < writeIndex
        BY <4>1, <4>3
      <4>5. writeIndex \in Nat /\ writeIndex <= MaxResults
        BY <1>4
      <4>6. q \in 0..MaxResults /\ d \in 0..MaxResults
        BY <1>b, <4>4, <4>5
      <4> QED BY <4>2, <4>3, <4>6
    <3> QED BY <3>1, <3>2
  <2> QED BY <2>1, <2>2
<1>6. batch \in Seq(1..MaxResults) /\ Len(batch) < BatchChannelSize
  <2>1. batch \in Seq(Envelope) /\ Len(batch) < BatchChannelSize /\ Passed(batch, readIndex)
    BY DEF Inv, TypeInv, BatchType, OrderInv
  <2> QED BY <2>1, PassedBounds
<1>7. fired \in BOOLEAN
  BY DEF Inv, TypeInv, BatchType
<1>8. batches \in Seq(Seq(1..MaxResults)) /\ Len(batches) <= BatchChannelSize
  <2>1. /\ batches \in Seq(Seq(Envelope)) /\ Len(batches) <= BatchChannelSize
        /\ \A b \in 1..Len(batches) : batches[b] \in Seq(Envelope) /\ Passed(batches[b], readIndex)
    BY DEF Inv, TypeInv, BatchType, OrderInv
  <2>2. \A b \in 1..Len(batches) : batches[b] \in Seq(1..MaxResults)
    BY <2>1, PassedBounds
  <2> QED BY <2>1, <2>2
<1>9. \A w \in Writers : writer[w] \in Seq(1..MaxResults) /\ Len(writer[w]) <= BatchChannelSize
  <2>1. \A w \in Writers : /\ writer[w] \in Seq(Envelope) /\ Passed(writer[w], readIndex)
                           /\ Len(writer[w]) <= BatchChannelSize
    BY DEF Inv, TypeInv, WriterType, OrderInv
  <2>2. ASSUME NEW w \in Writers PROVE writer[w] \in Seq(1..MaxResults)
    <3>1. PICK s \in Seq(Envelope) : s = writer[w] /\ Passed(s, readIndex)
      BY <2>1
    <3>2. s \in Seq(1..MaxResults)
      BY <3>1, PassedBounds
    <3> QED BY <3>1, <3>2
  <2> QED BY <2>1, <2>2
<1> QED BY <1>1, <1>2, <1>3, <1>3b, <1>4, <1>5, <1>6, <1>7, <1>8, <1>9 DEF TypeOK

LEMMA InvImpliesOrder == Inv => ArrivesOnceInOrder
<1> SUFFICES ASSUME Inv, NEW p \in Places(arrived), NEW q \in Places(arrived)
             PROVE  /\ p # q => arrived[p[1]][p[2]] # arrived[q[1]][q[2]]
                    /\ p[1] = q[1] /\ p[2] < q[2] => arrived[p[1]][p[2]] < arrived[q[1]][q[2]]
  BY DEF ArrivesOnceInOrder
<1>1. arrived \in Seq(Seq(Envelope)) /\ DOMAIN arrived = 1..Len(arrived)
  BY DEF Inv, TypeInv, WriterType
<1>2. \A r \in Places(arrived) : /\ r = <<r[1], r[2]>> /\ r[1] \in 1..Len(arrived)
                                 /\ r[2] \in 1..Len(arrived[r[1]])
  BY <1>1 DEF Places
<1>3. PICK a \in 1..Len(arrived), b \in 1..Len(arrived) : a = p[1] /\ b = q[1]
  BY <1>2
<1>4. PICK i \in 1..Len(arrived[a]), j \in 1..Len(arrived[b]) : i = p[2] /\ j = q[2]
  BY <1>2, <1>3
<1>5. /\ \A c \in 1..Len(arrived) : Ascending(arrived[c])
      /\ \A c, d \in 1..Len(arrived) : c # d => Apart(arrived[c], arrived[d])
  BY DEF Inv, OrderInv, ApartInv
<1>6. arrived[a] \in Seq(Envelope) /\ arrived[a][i] \in Nat
  BY <1>1 DEF Envelope
<1>7. CASE a # b
  <2>1. arrived[a][i] # arrived[b][j]
    BY <1>5, <1>7 DEF Apart
  <2> QED BY <1>3, <1>4, <1>7, <2>1
<1>8. CASE a = b
  <2>1. p # q => i # j
    BY <1>2, <1>3, <1>4, <1>8
  <2>2. j \in 1..Len(arrived[a]) /\ arrived[a][j] \in Nat /\ i \in Nat /\ j \in Nat
    BY <1>4, <1>6, <1>8 DEF Envelope
  <2>3. (i < j => arrived[a][i] < arrived[a][j]) /\ (j < i => arrived[a][j] < arrived[a][i])
    BY <1>5, <2>2 DEF Ascending
  <2>4. i # j => arrived[a][i] # arrived[a][j]
    BY <1>6, <2>2, <2>3
  <2> QED BY <1>3, <1>4, <1>8, <2>1, <2>3, <2>4
<1> QED BY <1>7, <1>8

\* The channel, the batch, the channel of batches and each writer stay within the
\* sizes they were made with, for any sizes, and every counter within what the
\* parsers gave: neither the server nor the nozzle can count more than there was.
THEOREM TypeCorrect == Spec => []TypeOK
  BY Invariance, InvImpliesTypeOK, PTL

\* The counters of server and nozzle account for every message and every envelope, at
\* any step and also when a message without a timestamp has ended the process:
\* whatever is neither on the way nor counted as egress was reported by the diode, was
\* part of a failed call, of which nozzle_err bounds the envelopes from both sides, or
\* was dropped with its batch.
THEOREM CountersReconcile == Spec => []Reconciles
  BY Invariance, InvImpliesReconciles, PTL

\* With any number of writers overtaking each other, and calls that fail although
\* log-cache received the batch, no envelope arrives twice, and those of a batch
\* arrive in the order in which they entered the channel.
THEOREM ArrivalsAreOrdered == Spec => []ArrivesOnceInOrder
  BY Invariance, InvImpliesOrder, PTL
=============================================================================
