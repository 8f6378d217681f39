-------------------------- MODULE IngressClientProofs --------------------------
(***************************************************************************)
(* Proofs about BatchedIngressClient: what reaches the peer, and what        *)
(* ingress_dropped counts.                                                   *)
(***************************************************************************)
EXTENDS BatchedIngressClient, TLAPS

Slots == 0..(DiodeSize - 1)
Busy(s) == sender[s].pc # "idle"
Filled(i) == slot[i] # Empty
AllIdle == \A s \in Senders : ~Busy(s)

\* TypeOK with what makes it inductive: a batch that is not being sent has room,
\* and what is under way, or in a slot, is an envelope that was given to Set.
TypeInv ==
  /\ TypeOK
  /\ client = "poll" => Len(batch) < BatchSize
  /\ \A s \in Senders : Busy(s) => sender[s].data \in 1..accepted
  /\ \A i \in Slots : Filled(i) => slot[i].data \in 1..accepted
  /\ \A n \in 1..Len(batch) : batch[n] \in 1..accepted
  /\ \A n \in 1..Len(arrived) : arrived[n] \in 1..accepted

\* An envelope is in one place at most.
PlacesInv ==
  /\ \A s, r \in Senders : Busy(s) /\ Busy(r) /\ sender[s].data = sender[r].data => s = r
  /\ \A i, j \in Slots : Filled(i) /\ Filled(j) /\ slot[i].data = slot[j].data => i = j
  /\ \A s \in Senders, i \in Slots : Busy(s) /\ Filled(i) => sender[s].data # slot[i].data
  /\ \A n, m \in 1..Len(batch) : batch[n] = batch[m] => n = m
  /\ \A n, m \in 1..Len(arrived) : arrived[n] = arrived[m] => n = m
  /\ \A n \in 1..Len(batch), m \in 1..Len(arrived) : batch[n] # arrived[m]
  /\ \A s \in Senders : Busy(s) =>
       /\ \A n \in 1..Len(batch) : sender[s].data # batch[n]
       /\ \A n \in 1..Len(arrived) : sender[s].data # arrived[n]
  /\ \A i \in Slots : Filled(i) =>
       /\ \A n \in 1..Len(batch) : slot[i].data # batch[n]
       /\ \A n \in 1..Len(arrived) : slot[i].data # arrived[n]

\* The reader has passed what it batched and what it counted as dropped.
ReadInv == readIndex = dropped + Len(batch) + Len(arrived) + lost

\* The Sets that have ended, while no two overlap.
Completed == IF AllIdle THEN accepted ELSE accepted - 1

\* A Set that is alone.
InTurn(s) ==
  /\ sender[s].data = accepted
  /\ sender[s].seq = accepted - 1 /\ sender[s].next = accepted - 1
  /\ sender[s].idx = (accepted - 1) % DiodeSize
  /\ writeIndex = IF sender[s].pc = "store" THEN accepted ELSE accepted - 1

\* The diode while no two Sets overlapped: Set n gives envelope n the sequence
\* number n - 1, and the last one that ended is passed or can be read.
SerialInv ==
  ~overlapped =>
    /\ \A s, r \in Senders : Busy(s) /\ Busy(r) => s = r
    /\ \A s \in Senders : Busy(s) => InTurn(s)
    /\ AllIdle => writeIndex = accepted
    /\ \A i \in Slots : Filled(i) => slot[i].data = slot[i].seq + 1 /\ slot[i].seq < Completed
    /\ readIndex <= Completed
    /\ readIndex < Completed =>
         slot[(Completed - 1) % DiodeSize] = [data |-> Completed, seq |-> Completed - 1]

\* And what was read is in the order of Set.
OrderInv ==
  ~overlapped =>
    /\ \A n \in 1..Len(batch) : batch[n] <= readIndex
    /\ \A n \in 1..Len(arrived) : arrived[n] <= readIndex
    /\ \A n, m \in 1..Len(batch) : n < m => batch[n] < batch[m]
    /\ \A n, m \in 1..Len(arrived) : n < m => arrived[n] < arrived[m]
    /\ \A n \in 1..Len(batch), m \in 1..Len(arrived) : arrived[m] < batch[n]

SenderStates == [pc : {"idle", "bucket", "load", "advance", "store"}, data : 0..MaxEnvelopes,
                 idx : 0..(DiodeSize - 1), seq : Nat, next : Nat]

-----------------------------------------------------------------------------
(* Type correctness. *)

LEMMA Modulus == ASSUME NEW n \in Nat PROVE n % DiodeSize \in Slots
  BY ClientAssumption DEF Slots

\* What the elements of a longer sequence are.
LEMMA AppendElements ==
  ASSUME NEW S, NEW seq \in Seq(S), NEW d \in S
  PROVE  /\ Append(seq, d) \in Seq(S) /\ Len(Append(seq, d)) = Len(seq) + 1
         /\ Len(seq) \in Nat
         /\ \A n \in 1..(Len(seq) + 1) : Append(seq, d)[n] = IF n = Len(seq) + 1 THEN d ELSE seq[n]
  OBVIOUS

LEMMA ConcatElements ==
  ASSUME NEW S, NEW a \in Seq(S), NEW b \in Seq(S)
  PROVE  /\ a \o b \in Seq(S) /\ Len(a \o b) = Len(a) + Len(b)
         /\ Len(a) \in Nat /\ Len(b) \in Nat
         /\ \A n \in 1..(Len(a) + Len(b)) :
              (a \o b)[n] = IF n <= Len(a) THEN a[n] ELSE b[n - Len(a)]
  OBVIOUS

LEMMA TypeInit == Init => TypeInv
<1> SUFFICES ASSUME Init PROVE TypeInv
  OBVIOUS
<1>1. Empty \in Buckets /\ IdleSender \in SenderStates
  BY ClientAssumption DEF Empty, Buckets, IdleSender, SenderStates
<1>2. TypeOK
  <2>1. slot \in [0..(DiodeSize - 1) -> Buckets] /\ sender \in [Senders -> SenderStates]
    BY <1>1 DEF Init
  <2>2. batch \in Seq(1..MaxEnvelopes) /\ Len(batch) <= BatchSize /\ arrived \in Seq(1..MaxEnvelopes)
    BY ClientAssumption DEF Init
  <2>3. /\ {writeIndex, readIndex, dropped, failures, lost} \subseteq Nat
        /\ accepted \in 0..MaxEnvelopes /\ client \in {"poll", "sending"}
    BY ClientAssumption DEF Init
  <2>4. lapsed \in BOOLEAN /\ overlapped \in BOOLEAN
    BY DEF Init
  <2> QED BY <2>1, <2>2, <2>3, <2>4 DEF TypeOK, SenderStates
<1>3. \A s \in Senders : ~Busy(s)
  BY DEF Init, Busy, IdleSender
<1>4. \A i \in Slots : ~Filled(i)
  BY DEF Init, Filled, Slots
<1> QED BY <1>2, <1>3, <1>4, ClientAssumption DEF TypeInv, Init

\* A step of a Set: what it does to its sender and to the slots.
LEMMA SetEffect ==
  ASSUME TypeInv, NEW s \in Senders, SetBegin(s) \/ SetStep(s)
  PROVE  /\ sender' \in [Senders -> SenderStates]
         /\ \A r \in Senders \ {s} : sender'[r] = sender[r]
         /\ UNCHANGED <<readIndex, client, batch, lapsed, dropped, remoteVars>>
         /\ writeIndex' \in Nat
         /\ \/ /\ ~Busy(s) /\ Busy(s)' /\ slot' = slot /\ sender'[s].data = accepted + 1
               /\ accepted' = accepted + 1 /\ accepted + 1 <= MaxEnvelopes
               /\ overlapped' = (overlapped \/ ~AllIdle)
            \/ /\ Busy(s) /\ Busy(s)' /\ slot' = slot /\ sender'[s].data = sender[s].data
               /\ UNCHANGED <<accepted, overlapped>>
            \/ /\ Busy(s) /\ ~Busy(s)' /\ UNCHANGED <<accepted, overlapped>>
               /\ slot' = [slot EXCEPT ![sender[s].idx] =
                                         [data |-> sender[s].data, seq |-> sender[s].seq]]
<1>a. /\ sender \in [Senders -> SenderStates] /\ accepted \in 0..MaxEnvelopes
      /\ writeIndex \in Nat
  BY DEF TypeInv, TypeOK, SenderStates
<1>b. sender[s] \in SenderStates
  BY <1>a
<1>1. CASE SetBegin(s)
  <2> DEFINE new == [pc |-> "bucket", data |-> accepted + 1, idx |-> writeIndex % DiodeSize,
                     seq |-> writeIndex, next |-> writeIndex]
  <2>1. accepted + 1 \in 0..MaxEnvelopes
    BY <1>1, <1>a, ClientAssumption DEF SetBegin
  <2>2. writeIndex % DiodeSize \in 0..(DiodeSize - 1)
    BY <1>a, Modulus DEF Slots
  <2>3. new \in SenderStates /\ new.pc # "idle" /\ new.data = accepted + 1
    BY <1>a, <2>1, <2>2 DEF SenderStates
  <2>4. sender' = [sender EXCEPT ![s] = new]
    BY <1>1 DEF SetBegin
  <2> HIDE DEF new
  <2>5. /\ sender'[s] = new /\ sender' \in [Senders -> SenderStates]
        /\ \A r \in Senders \ {s} : sender'[r] = sender[r]
    BY <1>a, <2>3, <2>4
  <2>6. overlapped' = (overlapped \/ ~AllIdle)
    BY <1>1 DEF SetBegin, AllIdle, Busy
  <2> QED BY <1>1, <1>a, <2>1, <2>3, <2>5, <2>6 DEF SetBegin, Busy
<1>2. CASE SetBucket(s)
  <2>1. PICK seq \in {sender[s].seq, writeIndex} :
          sender' = [sender EXCEPT ![s].pc = "load", ![s].seq = seq]
    BY <1>2 DEF SetBucket
  <2> DEFINE new == [sender[s] EXCEPT !.pc = "load", !.seq = seq]
  <2>2. sender' = [sender EXCEPT ![s] = new]
    BY <1>a, <2>1
  <2>3. seq \in Nat
    BY <1>a, <1>b, <2>1 DEF SenderStates
  <2>4. new \in SenderStates /\ new.pc # "idle" /\ new.data = sender[s].data
    BY <1>b, <2>3 DEF SenderStates
  <2> HIDE DEF new
  <2>5. /\ sender'[s] = new /\ sender' \in [Senders -> SenderStates]
        /\ \A r \in Senders \ {s} : sender'[r] = sender[r]
    BY <1>a, <2>2, <2>4
  <2> QED BY <1>2, <1>a, <2>4, <2>5 DEF SetBucket, Busy
<1>5. CASE SetLoad(s)
  <2>1. PICK next \in {sender[s].next, sender[s].seq, writeIndex} :
          sender' = [sender EXCEPT ![s].pc = "advance", ![s].next = next]
    BY <1>5 DEF SetLoad
  <2> DEFINE new == [sender[s] EXCEPT !.pc = "advance", !.next = next]
  <2>2. sender' = [sender EXCEPT ![s] = new]
    BY <1>a, <2>1
  <2>3. next \in Nat
    BY <1>a, <1>b, <2>1 DEF SenderStates
  <2>4. new \in SenderStates /\ new.pc # "idle" /\ new.data = sender[s].data
    BY <1>b, <2>3 DEF SenderStates
  <2> HIDE DEF new
  <2>5. /\ sender'[s] = new /\ sender' \in [Senders -> SenderStates]
        /\ \A r \in Senders \ {s} : sender'[r] = sender[r]
    BY <1>a, <2>2, <2>4
  <2> QED BY <1>5, <1>a, <2>4, <2>5 DEF SetLoad, Busy
<1>3. CASE SetAdvance(s)
  <2> DEFINE new == [sender[s] EXCEPT !.pc = "store"]
  <2>2. sender' = [sender EXCEPT ![s] = new]
    BY <1>3, <1>a DEF SetAdvance
  <2>4. new \in SenderStates /\ new.pc # "idle" /\ new.data = sender[s].data
    BY <1>b DEF SenderStates
  <2> HIDE DEF new
  <2>5. /\ sender'[s] = new /\ sender' \in [Senders -> SenderStates]
        /\ \A r \in Senders \ {s} : sender'[r] = sender[r]
    BY <1>a, <2>2, <2>4
  <2>6. writeIndex' \in Nat
    <3>1. sender[s].next \in Nat
      BY <1>b DEF SenderStates
    <3> QED BY <1>3, <3>1 DEF SetAdvance
  <2> QED BY <1>3, <1>a, <2>4, <2>5, <2>6 DEF SetAdvance, Busy
<1>4. CASE SetStore(s)
  <2>1. IdleSender \in SenderStates /\ IdleSender.pc = "idle"
    BY ClientAssumption DEF IdleSender, SenderStates
  <2>2. sender' = [sender EXCEPT ![s] = IdleSender]
    BY <1>4 DEF SetStore
  <2>5. /\ sender'[s] = IdleSender /\ sender' \in [Senders -> SenderStates]
        /\ \A r \in Senders \ {s} : sender'[r] = sender[r]
    BY <1>a, <2>1, <2>2
  <2> QED BY <1>4, <1>a, <2>1, <2>5 DEF SetStore, Busy
<1> QED BY <1>1, <1>2, <1>3, <1>4, <1>5 DEF SetStep

\* TryNext takes the bucket of slot i.
Takes(i) ==
  /\ i \in Slots /\ i = readIndex % DiodeSize
  /\ client = "poll" /\ Filled(i)
  /\ slot[i].seq \in Nat /\ slot[i].seq >= readIndex
  /\ slot[i].data \in 1..accepted /\ slot[i].data \in 1..MaxEnvelopes
  /\ slot' = [slot EXCEPT ![i] = Empty]
  /\ dropped' = dropped + (slot[i].seq - readIndex)
  /\ readIndex' = slot[i].seq + 1
  /\ batch' = Append(batch, slot[i].data)
  /\ client' \in {"poll", "sending"}
  /\ client' = "poll" => Len(batch') < BatchSize
  /\ UNCHANGED <<writeIndex, sender, lapsed, accepted, overlapped, remoteVars>>

LEMMA TakeEffect == ASSUME TypeInv, TakeNext PROVE \E i : Takes(i)
<1> DEFINE i == readIndex % DiodeSize
<1>a. readIndex \in Nat /\ slot \in [Slots -> Buckets] /\ accepted \in 0..MaxEnvelopes
  BY DEF TypeInv, TypeOK, Slots
<1>1. i \in Slots
  BY <1>a, Modulus
<1>2. slot[i] # Empty /\ slot[i].seq >= readIndex /\ slot[i].seq \in Nat
  BY <1>a, <1>1 DEF TakeNext, Readable, Buckets
<1>3. slot[i].data \in 1..accepted /\ slot[i].data \in 1..MaxEnvelopes
  BY <1>a, <1>1, <1>2, ClientAssumption DEF TypeInv, Filled
<1>4. /\ batch' = Append(batch, slot[i].data)
      /\ client' = IF Len(Append(batch, slot[i].data)) < BatchSize /\ ~lapsed
                     THEN "poll" ELSE "sending"
  BY DEF TakeNext, PartialBatch
<1>5. client' \in {"poll", "sending"} /\ (client' = "poll" => Len(batch') < BatchSize)
  BY <1>4
<1>6. /\ slot' = [slot EXCEPT ![i] = Empty]
      /\ dropped' = dropped + (slot[i].seq - readIndex)
      /\ readIndex' = slot[i].seq + 1
      /\ client = "poll"
      /\ UNCHANGED <<writeIndex, sender, lapsed, accepted, overlapped, remoteVars>>
  BY DEF TakeNext, Skipped, NextRead
<1>7. Takes(i)
  BY <1>1, <1>2, <1>3, <1>4, <1>5, <1>6 DEF Takes, Filled
<1> QED BY <1>7

\* TryNext finds nothing to return in slot i, and empties it.
LEMMA NothingEffect ==
  ASSUME TypeInv, FindNothing
  PROVE  /\ readIndex % DiodeSize \in Slots
         /\ ~(Filled(readIndex % DiodeSize) /\ slot[readIndex % DiodeSize].seq >= readIndex)
         /\ slot' = [slot EXCEPT ![readIndex % DiodeSize] = Empty]
         /\ client = "poll" /\ client' \in {"poll", "sending"}
         /\ UNCHANGED <<writeIndex, readIndex, sender, batch, lapsed, dropped, accepted,
                        overlapped, remoteVars>>
<1>1. readIndex \in Nat
  BY DEF TypeInv, TypeOK
<1> QED BY <1>1, Modulus DEF FindNothing, Readable, Filled, AfterFlush

\* A batch is given up: it arrived or it is lost.
LEMMA SendEffect ==
  ASSUME SendBatch
  PROVE  /\ batch' = <<>> /\ client' = "poll" /\ lapsed' = FALSE
         /\ \/ arrived' = arrived \o batch /\ lost' = lost
            \/ arrived' = arrived /\ lost' = lost + Len(batch)
         /\ failures' \in {failures, failures + 1}
         /\ UNCHANGED <<diodeVars, readIndex, dropped>>
  BY DEF SendBatch, BatchAfterSend

LEMMA TypeStep == TypeInv /\ [Next]_vars => TypeInv'
<1> SUFFICES ASSUME TypeInv, [Next]_vars PROVE TypeInv'
  OBVIOUS
<1> DEFINE E == 1..MaxEnvelopes
<1>a. /\ slot \in [Slots -> Buckets] /\ writeIndex \in Nat /\ readIndex \in Nat
      /\ sender \in [Senders -> SenderStates] /\ client \in {"poll", "sending"}
      /\ batch \in Seq(E) /\ Len(batch) <= BatchSize /\ dropped \in Nat /\ failures \in Nat
      /\ accepted \in 0..MaxEnvelopes /\ arrived \in Seq(E) /\ lost \in Nat
  BY DEF TypeInv, TypeOK, Slots, SenderStates
<1>b. lapsed \in BOOLEAN /\ overlapped \in BOOLEAN
  BY DEF TypeInv, TypeOK
<1>c. /\ client = "poll" => Len(batch) < BatchSize
      /\ \A s \in Senders : Busy(s) => sender[s].data \in 1..accepted
      /\ \A i \in Slots : Filled(i) => slot[i].data \in 1..accepted
      /\ \A n \in 1..Len(batch) : batch[n] \in 1..accepted
      /\ \A n \in 1..Len(arrived) : arrived[n] \in 1..accepted
  BY DEF TypeInv
<1>d. Empty \in Buckets
  BY ClientAssumption DEF Empty, Buckets
<1>1. ASSUME NEW s \in Senders, SetBegin(s) \/ SetStep(s) PROVE TypeInv'
  <2>1. /\ sender' \in [Senders -> SenderStates]
        /\ \A r \in Senders \ {s} : sender'[r] = sender[r]
        /\ UNCHANGED <<readIndex, client, batch, lapsed, dropped, arrived, lost, failures>>
        /\ writeIndex' \in Nat
    BY <1>1, SetEffect DEF remoteVars
  <2>2. CASE /\ ~Busy(s) /\ Busy(s)' /\ slot' = slot /\ sender'[s].data = accepted + 1
             /\ accepted' = accepted + 1 /\ accepted + 1 <= MaxEnvelopes
             /\ overlapped' = (overlapped \/ ~AllIdle)
    <3>1. /\ accepted' \in 0..MaxEnvelopes /\ 1..accepted \subseteq 1..accepted'
          /\ accepted + 1 \in 1..accepted'
      BY <1>a, <2>2, ClientAssumption
    <3>2. overlapped' \in BOOLEAN
      BY <2>2
    <3>3. TypeOK'
      BY <1>a, <1>b, <2>1, <2>2, <3>1, <3>2 DEF TypeOK, SenderStates, Slots
    <3>4. \A r \in Senders : Busy(r)' => sender'[r].data \in 1..accepted'
      BY <1>c, <2>1, <2>2, <3>1 DEF Busy
    <3>5. \A i \in Slots : Filled(i)' => slot'[i].data \in 1..accepted'
      BY <1>c, <2>2, <3>1 DEF Filled
    <3> QED BY <1>c, <2>1, <3>1, <3>3, <3>4, <3>5 DEF TypeInv
  <2>3. CASE /\ Busy(s) /\ Busy(s)' /\ slot' = slot /\ sender'[s].data = sender[s].data
             /\ UNCHANGED <<accepted, overlapped>>
    <3>3. TypeOK'
      BY <1>a, <1>b, <2>1, <2>3 DEF TypeOK, SenderStates, Slots
    <3>4. \A r \in Senders : Busy(r)' => sender'[r].data \in 1..accepted'
      BY <1>c, <2>1, <2>3 DEF Busy
    <3>5. \A i \in Slots : Filled(i)' => slot'[i].data \in 1..accepted'
      BY <1>c, <2>3 DEF Filled
    <3> QED BY <1>c, <2>1, <2>3, <3>3, <3>4, <3>5 DEF TypeInv
  <2>4. CASE /\ Busy(s) /\ ~Busy(s)' /\ UNCHANGED <<accepted, overlapped>>
             /\ slot' = [slot EXCEPT ![sender[s].idx] =
                                       [data |-> sender[s].data, seq |-> sender[s].seq]]
    <3> DEFINE new == [data |-> sender[s].data, seq |-> sender[s].seq]
    <3>1. new \in Buckets /\ new.data = sender[s].data /\ sender[s].idx \in Slots
      BY <1>a DEF Buckets, SenderStates, Slots
    <3> HIDE DEF new
    <3>2. slot' = [slot EXCEPT ![sender[s].idx] = new]
      BY <2>4 DEF new
    <3>3. slot' \in [Slots -> Buckets]
      BY <1>a, <3>1, <3>2
    <3>4. TypeOK'
      BY <1>a, <1>b, <2>1, <2>4, <3>3 DEF TypeOK, SenderStates, Slots
    <3>5. \A r \in Senders : Busy(r)' => sender'[r].data \in 1..accepted'
      BY <1>c, <2>1, <2>4 DEF Busy
    <3>6. \A i \in Slots : Filled(i)' => slot'[i].data \in 1..accepted'
      BY <1>a, <1>c, <2>4, <3>1, <3>2 DEF Filled
    <3> QED BY <1>c, <2>1, <2>4, <3>4, <3>5, <3>6 DEF TypeInv
  <2> QED BY <1>1, <2>2, <2>3, <2>4, SetEffect
<1>2. CASE TakeNext
  <2>1. PICK i : Takes(i)
    BY <1>2, TakeEffect
  <2>2. /\ i \in Slots /\ slot' = [slot EXCEPT ![i] = Empty] /\ slot[i].data \in E
        /\ slot[i].data \in 1..accepted
        /\ slot[i].seq \in Nat /\ slot[i].seq >= readIndex
        /\ dropped' = dropped + (slot[i].seq - readIndex) /\ readIndex' = slot[i].seq + 1
        /\ batch' = Append(batch, slot[i].data) /\ client = "poll"
        /\ client' \in {"poll", "sending"} /\ (client' = "poll" => Len(batch') < BatchSize)
        /\ UNCHANGED <<writeIndex, sender, lapsed, accepted, overlapped, failures, lost, arrived>>
    BY <2>1 DEF Takes, remoteVars
  <2>3. slot' \in [Slots -> Buckets] /\ dropped' \in Nat /\ readIndex' \in Nat
    <3>1. slot' \in [Slots -> Buckets]
      BY <1>a, <1>d, <2>2
    <3>2. PICK q \in Nat : q = slot[i].seq
      BY <2>2
    <3>3. q >= readIndex /\ dropped' = dropped + (q - readIndex) /\ readIndex' = q + 1
      BY <2>2, <3>2
    <3>4. dropped \in Nat /\ readIndex \in Nat
      BY <1>a
    <3> QED BY <3>1, <3>3, <3>4
  <2>4. /\ batch' \in Seq(E) /\ Len(batch') = Len(batch) + 1 /\ Len(batch) \in Nat
        /\ \A n \in 1..(Len(batch) + 1) :
             batch'[n] = IF n = Len(batch) + 1 THEN slot[i].data ELSE batch[n]
    BY <1>a, <2>2, AppendElements
  <2>5. Len(batch') <= BatchSize
    BY <1>c, <2>2, <2>4, ClientAssumption
  <2> HIDE DEF E
  <2>6. TypeOK'
    BY <1>a, <1>b, <2>2, <2>3, <2>4, <2>5 DEF TypeOK, SenderStates, Slots, E
  <2>7. \A n \in 1..Len(batch') : batch'[n] \in 1..accepted'
    BY <1>c, <2>2, <2>4
  <2>8. \A j \in Slots : Filled(j)' => slot'[j].data \in 1..accepted'
    BY <1>a, <1>c, <2>2 DEF Filled
  <2>9. \A s \in Senders : Busy(s)' => sender'[s].data \in 1..accepted'
    BY <1>c, <2>2 DEF Busy
  <2> QED BY <1>c, <2>2, <2>6, <2>7, <2>8, <2>9 DEF TypeInv
<1>3. CASE FindNothing
  <2>1. /\ readIndex % DiodeSize \in Slots
        /\ slot' = [slot EXCEPT ![readIndex % DiodeSize] = Empty]
        /\ client = "poll" /\ client' \in {"poll", "sending"}
        /\ UNCHANGED <<writeIndex, readIndex, sender, batch, lapsed, dropped, accepted,
                        overlapped, failures, lost, arrived>>
    BY <1>3, NothingEffect DEF remoteVars
  <2>2. slot' \in [Slots -> Buckets]
    BY <1>a, <1>d, <2>1
  <2>3. TypeOK'
    BY <1>a, <1>b, <2>1, <2>2 DEF TypeOK, SenderStates, Slots
  <2>4. \A j \in Slots : Filled(j)' => slot'[j].data \in 1..accepted'
    BY <1>a, <1>c, <2>1 DEF Filled
  <2>5. \A s \in Senders : Busy(s)' => sender'[s].data \in 1..accepted'
    BY <1>c, <2>1 DEF Busy
  <2> QED BY <1>c, <2>1, <2>3, <2>4, <2>5 DEF TypeInv
<1>4. CASE SendBatch
  <2>1. /\ batch' = <<>> /\ client' = "poll" /\ lapsed' = FALSE
        /\ failures' \in {failures, failures + 1}
        /\ UNCHANGED <<slot, writeIndex, sender, accepted, overlapped, readIndex, dropped>>
    BY <1>4, SendEffect DEF diodeVars
  <2>2. /\ arrived' \in Seq(E) /\ lost' \in Nat
        /\ \A n \in 1..Len(arrived') : arrived'[n] \in 1..accepted
    <3>1. CASE arrived' = arrived \o batch /\ lost' = lost
      <4>1. /\ arrived' \in Seq(E) /\ Len(arrived') = Len(arrived) + Len(batch)
            /\ Len(arrived) \in Nat /\ Len(batch) \in Nat
            /\ \A n \in 1..(Len(arrived) + Len(batch)) :
                 arrived'[n] = IF n <= Len(arrived) THEN arrived[n] ELSE batch[n - Len(arrived)]
        BY <1>a, <3>1, ConcatElements
      <4> HIDE DEF E
      <4> QED BY <1>a, <1>c, <3>1, <4>1
    <3>2. CASE arrived' = arrived /\ lost' = lost + Len(batch)
      BY <1>a, <1>c, <3>2
    <3> QED BY <1>4, <3>1, <3>2, SendEffect
  <2>3. batch' \in Seq(E) /\ Len(batch') = 0 /\ failures' \in Nat
    BY <1>a, <2>1
  <2>4. lapsed' \in BOOLEAN /\ overlapped' \in BOOLEAN
    BY <1>b, <2>1, Zenon
  <2>5. /\ UNCHANGED <<slot, writeIndex, sender, accepted, readIndex, dropped>>
        /\ client' \in {"poll", "sending"} /\ Len(batch') <= BatchSize
    BY <2>1, <2>3, ClientAssumption
  <2> HIDE DEF E
  <2>6. TypeOK'
    BY <1>a, <2>2, <2>3, <2>4, <2>5 DEF TypeOK, SenderStates, Slots, E
  <2> QED BY <1>c, <2>1, <2>2, <2>3, <2>6, ClientAssumption DEF TypeInv, Busy, Filled
<1>5. CASE IntervalLapses \/ UNCHANGED vars
  <2>1. /\ UNCHANGED <<slot, writeIndex, sender, accepted, overlapped, readIndex, client, batch,
                       dropped, failures, lost, arrived>>
        /\ lapsed' \in {TRUE, lapsed}
    BY <1>5 DEF IntervalLapses, vars, diodeVars, remoteVars
  <2>2. lapsed' \in BOOLEAN
    BY <1>b, <2>1, Zenon
  <2>3. TypeOK'
    BY <1>a, <1>b, <2>1, <2>2 DEF TypeOK, SenderStates, Slots
  <2> QED BY <1>c, <2>1, <2>3 DEF TypeInv, Busy, Filled
<1> QED BY <1>1, <1>2, <1>3, <1>4, <1>5 DEF Next, ClientStep

\* For any number of senders and any sizes: every variable keeps its type, the batch
\* stays within its size and nothing but envelopes given to Set is ever sent.
THEOREM TypeCorrect == Spec => []TypeOK
<1>1. TypeInv => TypeOK
  BY DEF TypeInv
<1> QED BY <1>1, TypeInit, TypeStep, PTL DEF Spec

-----------------------------------------------------------------------------
(* ArrivesOnce. *)

LEMMA PlacesStep == TypeInv /\ PlacesInv /\ [Next]_vars => PlacesInv'
<1> SUFFICES ASSUME TypeInv, PlacesInv, [Next]_vars PROVE PlacesInv'
  OBVIOUS
<1>a. /\ slot \in [Slots -> Buckets] /\ readIndex \in Nat
      /\ sender \in [Senders -> SenderStates]
      /\ batch \in Seq(1..MaxEnvelopes) /\ arrived \in Seq(1..MaxEnvelopes)
      /\ accepted \in Nat /\ Len(batch) \in Nat /\ Len(arrived) \in Nat
  BY ClientAssumption DEF TypeInv, TypeOK, Slots, SenderStates
<1>b. /\ \A s \in Senders : Busy(s) => sender[s].data \in 1..accepted
      /\ \A i \in Slots : Filled(i) => slot[i].data \in 1..accepted
      /\ \A n \in 1..Len(batch) : batch[n] \in 1..accepted
      /\ \A n \in 1..Len(arrived) : arrived[n] \in 1..accepted
  BY DEF TypeInv
<1>c. accepted + 1 \notin 1..accepted
  BY <1>a
<1>1. ASSUME NEW s \in Senders, SetBegin(s) \/ SetStep(s) PROVE PlacesInv'
  <2>1. /\ \A r \in Senders \ {s} : sender'[r] = sender[r]
        /\ UNCHANGED <<batch, arrived>>
    BY <1>1, SetEffect DEF remoteVars
  <2>2. \A r \in Senders \ {s} : (Busy(r)' <=> Busy(r))
    BY <2>1 DEF Busy
  <2>3. CASE ~Busy(s) /\ Busy(s)' /\ slot' = slot /\ sender'[s].data = accepted + 1
    <3>1. \A i \in Slots : (Filled(i)' <=> Filled(i)) /\ slot'[i] = slot[i]
      BY <2>3 DEF Filled
    <3>2. \A r \in Senders \ {s} : Busy(r)' => sender'[r].data # accepted + 1
      BY <1>b, <1>c, <2>1, <2>2
    <3>3. /\ \A i \in Slots : Filled(i)' => slot'[i].data # accepted + 1
          /\ \A n \in 1..Len(batch) : batch[n] # accepted + 1
          /\ \A n \in 1..Len(arrived) : arrived[n] # accepted + 1
      BY <1>b, <1>c, <3>1
    <3> QED BY <2>1, <2>2, <2>3, <3>1, <3>2, <3>3 DEF PlacesInv
  <2>4. CASE Busy(s) /\ Busy(s)' /\ slot' = slot /\ sender'[s].data = sender[s].data
    <3>1. \A i \in Slots : (Filled(i)' <=> Filled(i)) /\ slot'[i] = slot[i]
      BY <2>4 DEF Filled
    <3>2. \A r \in Senders : (Busy(r)' <=> Busy(r)) /\ sender'[r].data = sender[r].data
      BY <2>1, <2>2, <2>4
    <3> QED BY <2>1, <3>1, <3>2 DEF PlacesInv
  <2>5. CASE /\ Busy(s) /\ ~Busy(s)'
             /\ slot' = [slot EXCEPT ![sender[s].idx] =
                                       [data |-> sender[s].data, seq |-> sender[s].seq]]
    <3> DEFINE k == sender[s].idx
    <3>1. k \in Slots
      BY <1>a DEF SenderStates, Slots
    <3>2. /\ slot'[k].data = sender[s].data
          /\ \A i \in Slots \ {k} : slot'[i] = slot[i]
      BY <1>a, <2>5, <3>1
    <3> HIDE DEF k
    <3>3. \A i \in Slots \ {k} : (Filled(i)' <=> Filled(i))
      BY <3>2 DEF Filled
    <3> QED BY <2>1, <2>2, <2>5, <3>1, <3>2, <3>3 DEF PlacesInv
  <2> QED BY <1>1, <2>3, <2>4, <2>5, SetEffect
<1>2. ASSUME NEW i \in Slots, slot' = [slot EXCEPT ![i] = Empty], UNCHANGED <<sender, arrived>>
      PROVE  /\ \A j \in Slots \ {i} : (Filled(j)' <=> Filled(j)) /\ slot'[j] = slot[j]
             /\ ~Filled(i)'
             /\ \A s \in Senders : (Busy(s)' <=> Busy(s))
  BY <1>2, <1>a DEF Filled, Busy
<1>3. CASE TakeNext
  <2>1. PICK i : Takes(i)
    BY <1>3, TakeEffect
  <2>2. /\ i \in Slots /\ slot' = [slot EXCEPT ![i] = Empty] /\ UNCHANGED <<sender, arrived>>
        /\ batch' = Append(batch, slot[i].data) /\ slot[i].data \in 1..MaxEnvelopes
        /\ Filled(i)
    BY <2>1 DEF Takes, remoteVars
  <2>3. /\ Len(batch') = Len(batch) + 1
        /\ \A n \in 1..(Len(batch) + 1) :
             batch'[n] = IF n = Len(batch) + 1 THEN slot[i].data ELSE batch[n]
    BY <1>a, <2>2, AppendElements
  <2>4. /\ \A j \in Slots \ {i} : (Filled(j)' <=> Filled(j)) /\ slot'[j] = slot[j]
        /\ ~Filled(i)'
        /\ \A s \in Senders : (Busy(s)' <=> Busy(s))
    BY <1>2, <2>2
  <2>5. \A n \in 1..Len(batch') : \/ n \in 1..Len(batch) /\ batch'[n] = batch[n]
                                  \/ n = Len(batch) + 1 /\ batch'[n] = slot[i].data
    BY <1>a, <2>3
  <2>6. /\ \A s, r \in Senders : Busy(s)' /\ Busy(r)' /\ sender'[s].data = sender'[r].data => s = r
        /\ \A j, k \in Slots : Filled(j)' /\ Filled(k)' /\ slot'[j].data = slot'[k].data => j = k
        /\ \A s \in Senders, j \in Slots : Busy(s)' /\ Filled(j)' => sender'[s].data # slot'[j].data
        /\ \A n, m \in 1..Len(arrived') : arrived'[n] = arrived'[m] => n = m
    BY <2>2, <2>4 DEF PlacesInv
  <2>7. /\ \A n, m \in 1..Len(batch') : batch'[n] = batch'[m] => n = m
        /\ \A n \in 1..Len(batch'), m \in 1..Len(arrived') : batch'[n] # arrived'[m]
    <3>1. /\ \A n, m \in 1..Len(batch) : batch[n] = batch[m] => n = m
          /\ \A n \in 1..Len(batch), m \in 1..Len(arrived) : batch[n] # arrived[m]
          /\ \A n \in 1..Len(batch) : slot[i].data # batch[n]
          /\ \A n \in 1..Len(arrived) : slot[i].data # arrived[n]
      BY <2>2 DEF PlacesInv
    <3>2. \A n, m \in 1..Len(batch') : batch'[n] = batch'[m] => n = m
      BY <2>5, <3>1
    <3>3. \A n \in 1..Len(batch'), m \in 1..Len(arrived') : batch'[n] # arrived'[m]
      BY <2>2, <2>5, <3>1
    <3> QED BY <3>2, <3>3
  <2>8. \A s \in Senders : Busy(s)' =>
          /\ \A n \in 1..Len(batch') : sender'[s].data # batch'[n]
          /\ \A n \in 1..Len(arrived') : sender'[s].data # arrived'[n]
    BY <2>2, <2>4, <2>5 DEF PlacesInv
  <2>9. \A j \in Slots : Filled(j)' =>
          /\ \A n \in 1..Len(batch') : slot'[j].data # batch'[n]
          /\ \A n \in 1..Len(arrived') : slot'[j].data # arrived'[n]
    BY <2>2, <2>4, <2>5 DEF PlacesInv
  <2> QED BY <2>6, <2>7, <2>8, <2>9 DEF PlacesInv
<1>4. CASE FindNothing
  <2>1. PICK i \in Slots : slot' = [slot EXCEPT ![i] = Empty] /\ UNCHANGED <<sender, arrived, batch>>
    BY <1>4, NothingEffect DEF remoteVars
  <2>2. /\ \A j \in Slots \ {i} : (Filled(j)' <=> Filled(j)) /\ slot'[j] = slot[j]
        /\ ~Filled(i)'
        /\ \A s \in Senders : (Busy(s)' <=> Busy(s))
    BY <1>2, <2>1
  <2> QED BY <2>1, <2>2 DEF PlacesInv
<1>5. CASE SendBatch
  <2>1. batch' = <<>> /\ UNCHANGED <<slot, sender>>
    BY <1>5, SendEffect DEF diodeVars
  <2>2. /\ \A j \in Slots : (Filled(j)' <=> Filled(j))
        /\ \A s \in Senders : (Busy(s)' <=> Busy(s))
        /\ 1..Len(batch') = {}
    BY <2>1 DEF Filled, Busy
  <2>3. CASE arrived' = arrived
    BY <2>1, <2>2, <2>3 DEF PlacesInv
  <2>4. CASE arrived' = arrived \o batch
    <3>1. /\ Len(arrived') = Len(arrived) + Len(batch)
          /\ \A n \in 1..(Len(arrived) + Len(batch)) :
               arrived'[n] = IF n <= Len(arrived) THEN arrived[n] ELSE batch[n - Len(arrived)]
      BY <1>a, <2>4, ConcatElements
    <3>2. \A n \in 1..Len(arrived') :
            \/ n \in 1..Len(arrived) /\ arrived'[n] = arrived[n]
            \/ n - Len(arrived) \in 1..Len(batch) /\ arrived'[n] = batch[n - Len(arrived)]
      BY <1>a, <3>1
    <3>3. \A n, m \in 1..Len(arrived') : n - Len(arrived) = m - Len(arrived) => n = m
      BY <1>a, <3>1
    <3>4. \A n, m \in 1..Len(arrived') : arrived'[n] = arrived'[m] => n = m
      <4> SUFFICES ASSUME NEW n \in 1..Len(arrived'), NEW m \in 1..Len(arrived'), arrived'[n] = arrived'[m]
                   PROVE  n = m
        OBVIOUS
      <4>1. /\ \A k, l \in 1..Len(batch) : batch[k] = batch[l] => k = l
            /\ \A k, l \in 1..Len(arrived) : arrived[k] = arrived[l] => k = l
            /\ \A k \in 1..Len(batch), l \in 1..Len(arrived) : batch[k] # arrived[l]
        BY DEF PlacesInv
      <4>2. CASE n \in 1..Len(arrived) /\ arrived'[n] = arrived[n]
        <5>1. CASE m \in 1..Len(arrived) /\ arrived'[m] = arrived[m]
          BY <4>1, <4>2, <5>1
        <5>2. CASE m - Len(arrived) \in 1..Len(batch) /\ arrived'[m] = batch[m - Len(arrived)]
          BY <4>1, <4>2, <5>2
        <5> QED BY <3>2, <5>1, <5>2
      <4>3. CASE n - Len(arrived) \in 1..Len(batch) /\ arrived'[n] = batch[n - Len(arrived)]
        <5>1. m - Len(arrived) \in 1..Len(batch) /\ arrived'[m] = batch[m - Len(arrived)]
          BY <3>2, <4>1, <4>3
        <5> QED BY <3>3, <4>1, <4>3, <5>1
      <4> QED BY <3>2, <4>2, <4>3
    <3>5. \A s \in Senders : Busy(s)' =>
            \A n \in 1..Len(arrived') : sender'[s].data # arrived'[n]
      BY <2>1, <2>2, <3>2 DEF PlacesInv
    <3>6. \A j \in Slots : Filled(j)' =>
            \A n \in 1..Len(arrived') : slot'[j].data # arrived'[n]
      BY <2>1, <2>2, <3>2 DEF PlacesInv
    <3> QED BY <2>1, <2>2, <3>4, <3>5, <3>6 DEF PlacesInv
  <2> QED BY <1>5, <2>3, <2>4, SendEffect
<1>6. CASE IntervalLapses \/ UNCHANGED vars
  <2>1. UNCHANGED <<slot, sender, batch, arrived>>
    BY <1>6 DEF IntervalLapses, vars, diodeVars, remoteVars
  <2>2. /\ \A j \in Slots : (Filled(j)' <=> Filled(j))
        /\ \A s \in Senders : (Busy(s)' <=> Busy(s))
    BY <2>1 DEF Filled, Busy
  <2> QED BY <2>1, <2>2 DEF PlacesInv
<1> QED BY <1>1, <1>3, <1>4, <1>5, <1>6 DEF Next, ClientStep

\* For any number of senders and any sizes: no envelope reaches the peer twice, even
\* though concurrent Sends race for the diode and calls of the peer time out (Send,
\* write).
THEOREM NoDuplicates == Spec => []ArrivesOnce
<1>1. Init => PlacesInv
  BY DEF Init, PlacesInv, Busy, Filled, IdleSender, Slots
<1>2. PlacesInv => ArrivesOnce
  BY DEF PlacesInv, ArrivesOnce
<1> QED BY <1>1, <1>2, TypeInit, TypeStep, PlacesStep, PTL DEF Spec

-----------------------------------------------------------------------------
(* DropsAreCountedUnlessOverlapped. *)

LEMMA ReadStep == TypeInv /\ ReadInv /\ [Next]_vars => ReadInv'
<1> SUFFICES ASSUME TypeInv, ReadInv, [Next]_vars PROVE ReadInv'
  OBVIOUS
<1>a. /\ readIndex \in Nat /\ dropped \in Nat /\ lost \in Nat
      /\ batch \in Seq(1..MaxEnvelopes) /\ arrived \in Seq(1..MaxEnvelopes)
      /\ Len(batch) \in Nat /\ Len(arrived) \in Nat
      /\ readIndex = dropped + Len(batch) + Len(arrived) + lost
  BY DEF TypeInv, TypeOK, ReadInv
<1>1. ASSUME UNCHANGED <<readIndex, batch, dropped, arrived, lost>> PROVE ReadInv'
  BY <1>1 DEF ReadInv
<1>2. ASSUME NEW s \in Senders, SetBegin(s) \/ SetStep(s) PROVE ReadInv'
  BY <1>1, <1>2, SetEffect DEF remoteVars
<1>3. CASE TakeNext
  <2>1. PICK i : Takes(i)
    BY <1>3, TakeEffect
  <2>2. /\ batch' = Append(batch, slot[i].data) /\ slot[i].data \in 1..MaxEnvelopes
        /\ slot[i].seq \in Nat /\ dropped' = dropped + (slot[i].seq - readIndex)
        /\ readIndex' = slot[i].seq + 1 /\ UNCHANGED <<arrived, lost>>
    BY <2>1 DEF Takes, remoteVars
  <2>3. Len(batch') = Len(batch) + 1
    BY <1>a, <2>2, AppendElements
  <2>4. readIndex' = dropped' + Len(batch') + Len(arrived) + lost
    <3> DEFINE q == slot[i].seq
               b == Len(batch)
               c == Len(arrived)
    <3>1. /\ q \in Nat /\ b \in Nat /\ c \in Nat /\ dropped' = dropped + (q - readIndex)
          /\ readIndex' = q + 1 /\ Len(batch') = b + 1 /\ readIndex = dropped + b + c + lost
      BY <1>a, <2>2, <2>3
    <3> HIDE DEF q, b, c
    <3>2. q + 1 = (dropped + (q - readIndex)) + (b + 1) + c + lost
      BY <1>a, <3>1
    <3> QED BY <3>1, <3>2 DEF c
  <2> QED BY <2>2, <2>4 DEF ReadInv
<1>4. CASE FindNothing
  BY <1>1, <1>4, NothingEffect DEF remoteVars
<1>5. CASE SendBatch
  <2>1. Len(batch') = 0 /\ UNCHANGED <<readIndex, dropped>>
    BY <1>5, SendEffect
  <2>2. CASE arrived' = arrived \o batch /\ lost' = lost
    <3>1. Len(arrived') = Len(arrived) + Len(batch)
      BY <1>a, <2>2, ConcatElements
    <3> QED BY <1>a, <2>1, <2>2, <3>1 DEF ReadInv
  <2>3. CASE arrived' = arrived /\ lost' = lost + Len(batch)
    BY <1>a, <2>1, <2>3 DEF ReadInv
  <2> QED BY <1>5, <2>2, <2>3, SendEffect
<1>6. CASE IntervalLapses \/ UNCHANGED vars
  BY <1>1, <1>6 DEF IntervalLapses, vars, diodeVars, remoteVars
<1> QED BY <1>2, <1>3, <1>4, <1>5, <1>6 DEF Next, ClientStep

\* No other Set is under way, while none overlapped.
LEMMA BusyIsAlone ==
  ASSUME SerialInv, ~overlapped, NEW s \in Senders, Busy(s)
  PROVE  ~AllIdle /\ Completed = accepted - 1 /\ InTurn(s) /\ \A r \in Senders \ {s} : ~Busy(r)
  BY DEF SerialInv, AllIdle, Completed

LEMMA SerialStep == TypeInv /\ SerialInv /\ [Next]_vars => SerialInv'
<1> SUFFICES ASSUME TypeInv, SerialInv, [Next]_vars, ~overlapped' PROVE SerialInv'
  BY DEF SerialInv
<1>a. /\ slot \in [Slots -> Buckets] /\ readIndex \in Nat /\ writeIndex \in Nat
      /\ sender \in [Senders -> SenderStates] /\ accepted \in Nat
  BY ClientAssumption DEF TypeInv, TypeOK, Slots, SenderStates
<1>b. ~overlapped =>
        /\ \A i \in Slots : Filled(i) => slot[i].data = slot[i].seq + 1 /\ slot[i].seq < Completed
        /\ readIndex <= Completed
        /\ readIndex < Completed =>
             slot[(Completed - 1) % DiodeSize] = [data |-> Completed, seq |-> Completed - 1]
  BY DEF SerialInv
<1>c. \A s \in Senders : Busy(s) => accepted - 1 \in Nat
  BY <1>a DEF TypeInv
<1>d. Completed \in Nat
  BY <1>a, <1>c DEF Completed, AllIdle
<1>1. ASSUME NEW s \in Senders, SetBegin(s) PROVE SerialInv'
  <2>1. ~overlapped /\ AllIdle /\ accepted' = accepted + 1 /\ UNCHANGED <<slot, writeIndex, readIndex>>
    BY <1>1 DEF SetBegin, AllIdle, Busy
  <2>2. writeIndex = accepted /\ Completed = accepted
    BY <2>1 DEF SerialInv, Completed
  <2>3. sender' = [sender EXCEPT ![s] = [pc |-> "bucket", data |-> accepted + 1,
                                         idx |-> writeIndex % DiodeSize, seq |-> writeIndex,
                                         next |-> writeIndex]]
    BY <1>1 DEF SetBegin
  <2>4. /\ sender'[s] = [pc |-> "bucket", data |-> accepted + 1, idx |-> writeIndex % DiodeSize,
                         seq |-> writeIndex, next |-> writeIndex]
        /\ \A r \in Senders \ {s} : sender'[r] = sender[r]
    BY <1>a, <2>3
  <2>5. Busy(s)' /\ ~AllIdle' /\ \A r \in Senders \ {s} : ~Busy(r)'
    BY <2>1, <2>4 DEF Busy, AllIdle
  <2>6. accepted' - 1 = accepted
    BY <1>a, <2>1
  <2>7. Completed' = Completed
    BY <2>2, <2>5, <2>6 DEF Completed
  <2>8. InTurn(s)'
    BY <2>1, <2>2, <2>4, <2>6 DEF InTurn
  <2>9. /\ \A i \in Slots : Filled(i)' => slot'[i].data = slot'[i].seq + 1 /\ slot'[i].seq < Completed'
        /\ readIndex' <= Completed'
        /\ readIndex' < Completed' =>
             slot'[(Completed' - 1) % DiodeSize] = [data |-> Completed', seq |-> Completed' - 1]
    BY <1>b, <2>1, <2>7 DEF Filled
  <2> QED BY <2>5, <2>8, <2>9 DEF SerialInv
<1>2. ASSUME NEW s \in Senders, Busy(s), ~overlapped, InTurn(s)', Busy(s)',
             \A r \in Senders \ {s} : sender'[r] = sender[r],
             UNCHANGED <<slot, readIndex, accepted>>
      PROVE  SerialInv'
  <2>1. ~AllIdle /\ Completed = accepted - 1 /\ \A r \in Senders \ {s} : ~Busy(r)
    BY <1>2, BusyIsAlone
  <2>2. ~AllIdle' /\ \A r \in Senders \ {s} : ~Busy(r)'
    BY <1>2, <2>1 DEF AllIdle, Busy
  <2>3. Completed' = Completed
    BY <1>2, <2>1, <2>2 DEF Completed
  <2>4. /\ \A i \in Slots : Filled(i)' => slot'[i].data = slot'[i].seq + 1 /\ slot'[i].seq < Completed'
        /\ readIndex' <= Completed'
        /\ readIndex' < Completed' =>
             slot'[(Completed' - 1) % DiodeSize] = [data |-> Completed', seq |-> Completed' - 1]
    BY <1>b, <1>2, <2>3 DEF Filled
  <2> QED BY <1>2, <2>2, <2>4 DEF SerialInv
<1>3. ASSUME NEW s \in Senders, SetBucket(s) PROVE SerialInv'
  <2>1. sender[s].pc = "bucket" /\ Busy(s) /\ UNCHANGED <<slot, readIndex, writeIndex, accepted, overlapped>>
    BY <1>3 DEF SetBucket, Busy
  <2>2. InTurn(s)
    BY <2>1, BusyIsAlone
  <2>3. PICK seq \in {sender[s].seq, writeIndex} :
          sender' = [sender EXCEPT ![s].pc = "load", ![s].seq = seq]
    BY <1>3 DEF SetBucket
  <2>4. seq = sender[s].seq
    BY <2>1, <2>2, <2>3 DEF InTurn
  <2>5. /\ sender'[s].pc = "load" /\ sender'[s].seq = seq /\ sender'[s].data = sender[s].data
        /\ sender'[s].idx = sender[s].idx /\ sender'[s].next = sender[s].next
        /\ \A r \in Senders \ {s} : sender'[r] = sender[r]
    BY <1>a, <2>3 DEF SenderStates
  <2>6. InTurn(s)' /\ Busy(s)'
    BY <2>1, <2>2, <2>4, <2>5 DEF InTurn, Busy
  <2> QED BY <1>2, <2>1, <2>5, <2>6
<1>10. ASSUME NEW s \in Senders, SetLoad(s) PROVE SerialInv'
  <2>1. sender[s].pc = "load" /\ Busy(s) /\ UNCHANGED <<slot, readIndex, writeIndex, accepted, overlapped>>
    BY <1>10 DEF SetLoad, Busy
  <2>2. InTurn(s)
    BY <2>1, BusyIsAlone
  <2>3. PICK next \in {sender[s].next, sender[s].seq, writeIndex} :
          sender' = [sender EXCEPT ![s].pc = "advance", ![s].next = next]
    BY <1>10 DEF SetLoad
  <2>4. next = sender[s].next
    BY <2>1, <2>2, <2>3 DEF InTurn
  <2>5. /\ sender'[s].pc = "advance" /\ sender'[s].seq = sender[s].seq
        /\ sender'[s].data = sender[s].data /\ sender'[s].idx = sender[s].idx
        /\ sender'[s].next = next
        /\ \A r \in Senders \ {s} : sender'[r] = sender[r]
    BY <1>a, <2>3 DEF SenderStates
  <2>6. InTurn(s)' /\ Busy(s)'
    BY <2>1, <2>2, <2>4, <2>5 DEF InTurn, Busy
  <2> QED BY <1>2, <2>1, <2>5, <2>6
<1>4. ASSUME NEW s \in Senders, SetAdvance(s) PROVE SerialInv'
  <2>1. sender[s].pc = "advance" /\ Busy(s) /\ UNCHANGED <<slot, readIndex, accepted, overlapped>>
    BY <1>4 DEF SetAdvance, Busy
  <2>2. InTurn(s)
    BY <2>1, BusyIsAlone
  <2>3. writeIndex' = accepted
    <3>1. writeIndex' = sender[s].next + 1
      BY <1>4 DEF SetAdvance
    <3>2. sender[s].next = accepted - 1
      BY <2>2 DEF InTurn
    <3> QED BY <1>a, <3>1, <3>2
  <2>4. sender' = [sender EXCEPT ![s].pc = "store"]
    BY <1>4 DEF SetAdvance
  <2>5. /\ sender'[s].pc = "store" /\ sender'[s].seq = sender[s].seq
        /\ sender'[s].data = sender[s].data /\ sender'[s].idx = sender[s].idx
        /\ sender'[s].next = sender[s].next
        /\ \A r \in Senders \ {s} : sender'[r] = sender[r]
    BY <1>a, <2>4 DEF SenderStates
  <2>6. InTurn(s)' /\ Busy(s)'
    BY <2>1, <2>2, <2>3, <2>5 DEF InTurn, Busy
  <2> QED BY <1>2, <2>1, <2>5, <2>6
<1>5. ASSUME NEW s \in Senders, SetStore(s) PROVE SerialInv'
  <2>1. /\ sender[s].pc = "store" /\ Busy(s)
        /\ UNCHANGED <<writeIndex, readIndex, accepted, overlapped>>
        /\ sender' = [sender EXCEPT ![s] = IdleSender]
        /\ slot' = [slot EXCEPT ![sender[s].idx] = [data |-> sender[s].data, seq |-> sender[s].seq]]
    BY <1>5 DEF SetStore, Busy
  <2>2. Completed = accepted - 1 /\ InTurn(s) /\ \A r \in Senders \ {s} : ~Busy(r)
    BY <2>1, BusyIsAlone
  <2>3. AllIdle'
    BY <1>a, <2>1, <2>2 DEF AllIdle, Busy, IdleSender
  <2>4. Completed' = accepted /\ writeIndex' = accepted /\ accepted - 1 \in Nat
    BY <1>c, <2>1, <2>2, <2>3 DEF Completed, InTurn
  <2> DEFINE k == (accepted - 1) % DiodeSize
             new == [data |-> accepted, seq |-> accepted - 1]
  <2>5. k \in Slots
    BY <2>4, Modulus
  <2>6. slot' = [slot EXCEPT ![k] = new]
    BY <2>1, <2>2 DEF InTurn
  <2>7. new.data = new.seq + 1 /\ new.seq < accepted
    BY <1>a
  <2>8. slot'[k] = new /\ \A i \in Slots \ {k} : slot'[i] = slot[i]
    BY <1>a, <2>5, <2>6
  <2>9. \A i \in Slots \ {k} : Filled(i) => slot[i].data = slot[i].seq + 1 /\ slot[i].seq < accepted
    <3>1. \A i \in Slots : slot[i].seq \in Nat
      BY <1>a DEF Buckets
    <3> QED BY <1>a, <1>b, <2>1, <2>2, <2>4, <3>1
  <2>10. readIndex' <= accepted
    BY <1>a, <1>b, <2>1, <2>2
  <2> HIDE DEF k, new
  <2>11. \A i \in Slots : Filled(i)' => slot'[i].data = slot'[i].seq + 1 /\ slot'[i].seq < accepted
    BY <2>7, <2>8, <2>9 DEF Filled
  <2>12. slot'[(Completed' - 1) % DiodeSize] = [data |-> Completed', seq |-> Completed' - 1]
    BY <2>4, <2>8 DEF k, new
  <2> QED BY <2>1, <2>3, <2>4, <2>10, <2>11, <2>12 DEF SerialInv, AllIdle
<1>6. ASSUME NEW i \in Slots, slot' = [slot EXCEPT ![i] = Empty], ~overlapped,
             UNCHANGED <<sender, accepted, writeIndex>>,
             readIndex' <= Completed,
             readIndex' < Completed =>
               /\ i # (Completed - 1) % DiodeSize
               /\ slot[(Completed - 1) % DiodeSize] = [data |-> Completed, seq |-> Completed - 1]
      PROVE  SerialInv'
  <2>1. AllIdle' = AllIdle /\ Completed' = Completed
    BY <1>6 DEF AllIdle, Completed, Busy
  <2>2. ~Filled(i)' /\ \A j \in Slots \ {i} : slot'[j] = slot[j]
    BY <1>6, <1>a DEF Filled
  <2>3. \A j \in Slots : Filled(j)' => slot'[j].data = slot'[j].seq + 1 /\ slot'[j].seq < Completed
    BY <1>6, <1>b, <2>2 DEF Filled
  <2>4. readIndex' < Completed =>
          slot'[(Completed - 1) % DiodeSize] = [data |-> Completed, seq |-> Completed - 1]
    <3>1. SUFFICES ASSUME readIndex' < Completed
                   PROVE  slot'[(Completed - 1) % DiodeSize]
                            = [data |-> Completed, seq |-> Completed - 1]
      OBVIOUS
    <3>2. Completed - 1 \in Nat
      <4>1. readIndex' \in Nat
        BY TypeStep DEF TypeInv, TypeOK
      <4> QED BY <1>d, <3>1, <4>1
    <3>3. (Completed - 1) % DiodeSize \in Slots \ {i}
      BY <1>6, <3>1, <3>2, Modulus
    <3> QED BY <1>6, <2>2, <3>1, <3>3
  <2>5. /\ \A s, r \in Senders : Busy(s)' /\ Busy(r)' => s = r
        /\ \A s \in Senders : Busy(s)' => InTurn(s)'
        /\ AllIdle' => writeIndex' = accepted'
    BY <1>6, <2>1 DEF SerialInv, Busy, InTurn
  <2> QED BY <1>6, <2>1, <2>3, <2>4, <2>5 DEF SerialInv
<1>7. CASE TakeNext
  <2>1. PICK i : Takes(i)
    BY <1>7, TakeEffect
  <2>2. /\ i \in Slots /\ slot' = [slot EXCEPT ![i] = Empty] /\ Filled(i) /\ slot[i].seq \in Nat
        /\ slot[i].seq >= readIndex /\ readIndex' = slot[i].seq + 1
        /\ UNCHANGED <<sender, accepted, writeIndex, overlapped>>
    BY <2>1 DEF Takes
  <2>3. slot[i].seq < Completed /\ readIndex' <= Completed
    <3>1. slot[i].seq < Completed
      BY <1>b, <2>2
    <3> QED BY <1>d, <2>2, <3>1
  <2>4. ASSUME readIndex' < Completed
        PROVE  /\ i # (Completed - 1) % DiodeSize
               /\ slot[(Completed - 1) % DiodeSize] = [data |-> Completed, seq |-> Completed - 1]
    <3>1. readIndex < Completed
      BY <1>a, <1>d, <2>2, <2>4
    <3>2. slot[(Completed - 1) % DiodeSize] = [data |-> Completed, seq |-> Completed - 1]
      BY <1>b, <2>2, <3>1
    <3>3. slot[i].seq # Completed - 1
      BY <1>d, <2>2, <2>4
    <3> QED BY <3>2, <3>3
  <2> QED BY <1>6, <2>2, <2>3, <2>4
<1>8. CASE FindNothing
  <2>1. PICK i \in Slots : /\ i = readIndex % DiodeSize /\ slot' = [slot EXCEPT ![i] = Empty]
                           /\ ~(Filled(i) /\ slot[i].seq >= readIndex)
                           /\ UNCHANGED <<sender, accepted, writeIndex, overlapped, readIndex>>
    BY <1>8, NothingEffect
  <2>2. ASSUME readIndex < Completed
        PROVE  /\ i # (Completed - 1) % DiodeSize
               /\ slot[(Completed - 1) % DiodeSize] = [data |-> Completed, seq |-> Completed - 1]
    <3>1. slot[(Completed - 1) % DiodeSize] = [data |-> Completed, seq |-> Completed - 1]
      BY <1>b, <2>1, <2>2
    <3>2. Completed - 1 >= readIndex /\ Completed # 0
      BY <1>a, <1>d, <2>2
    <3>3. i # (Completed - 1) % DiodeSize
      BY <2>1, <3>1, <3>2 DEF Filled, Empty
    <3> QED BY <3>1, <3>3
  <2> QED BY <1>6, <1>b, <2>1, <2>2
<1>9. CASE SendBatch \/ IntervalLapses \/ UNCHANGED vars
  <2>1. UNCHANGED <<slot, writeIndex, sender, accepted, overlapped, readIndex>>
    BY <1>9 DEF SendBatch, IntervalLapses, vars, diodeVars
  <2> QED BY <2>1 DEF SerialInv, InTurn, Busy, Filled, AllIdle, Completed
<1> QED
  BY <1>1, <1>3, <1>4, <1>5, <1>7, <1>8, <1>9, <1>10 DEF Next, SetStep, ClientStep

\* For any number of senders and any sizes: as long as no two Sends overlap, once the
\* goroutine has caught up with the diode every envelope that was given to Send is in
\* ingress_dropped, in the batch, with the peer or in a batch that failed; however often
\* the writer lapped the reader (TryNext, Set).
THEOREM DropsAreExact == Spec => []DropsAreCountedUnlessOverlapped
<1>1. Init => ReadInv /\ SerialInv
  BY DEF Init, ReadInv, SerialInv, AllIdle, Completed, Busy, Filled, IdleSender, Slots
<1>2. TypeInv /\ ReadInv /\ SerialInv => DropsAreCountedUnlessOverlapped
  <2> SUFFICES ASSUME TypeInv, ReadInv, SerialInv, ~overlapped, CaughtUp
               PROVE  accepted = dropped + Len(batch) + Len(arrived) + lost
    BY DEF DropsAreCountedUnlessOverlapped, DropsAreCounted
  <2>a. readIndex \in Nat /\ accepted \in Nat
    BY ClientAssumption DEF TypeInv, TypeOK
  <2>1. AllIdle /\ Completed = accepted
    BY DEF CaughtUp, AllIdle, Busy, Completed
  <2>2. /\ readIndex <= accepted
        /\ readIndex < accepted =>
             slot[(accepted - 1) % DiodeSize] = [data |-> accepted, seq |-> accepted - 1]
    BY <2>1 DEF SerialInv
  <2>3. ASSUME readIndex < accepted PROVE FALSE
    <3> DEFINE b == slot[(accepted - 1) % DiodeSize]
    <3>1. accepted - 1 \in Nat /\ accepted # 0 /\ accepted - 1 >= readIndex
      BY <2>a, <2>3
    <3>2. b.data = accepted /\ b.seq = accepted - 1
      BY <2>2, <2>3
    <3>3. b # Empty
      BY <3>1, <3>2 DEF Empty
    <3>4. (accepted - 1) % DiodeSize \in 0..(DiodeSize - 1)
      BY <3>1, Modulus DEF Slots
    <3> QED BY <3>1, <3>2, <3>3, <3>4 DEF CaughtUp, Readable
  <2>4. readIndex = accepted
    BY <2>a, <2>2, <2>3
  <2> QED BY <2>4 DEF ReadInv
<1> QED BY <1>1, <1>2, TypeInit, TypeStep, ReadStep, SerialStep, PTL DEF Spec

-----------------------------------------------------------------------------
(* ArrivesInOrder. *)

LEMMA OrderStep == TypeInv /\ SerialInv /\ OrderInv /\ [Next]_vars => OrderInv'
<1> SUFFICES ASSUME TypeInv, SerialInv, OrderInv, [Next]_vars, ~overlapped' PROVE OrderInv'
  BY DEF OrderInv
<1>a. /\ batch \in Seq(1..MaxEnvelopes) /\ arrived \in Seq(1..MaxEnvelopes) /\ readIndex \in Nat
      /\ Len(batch) \in Nat /\ Len(arrived) \in Nat
  BY DEF TypeInv, TypeOK
<1>b. ~overlapped =>
        /\ \A n \in 1..Len(batch) : batch[n] <= readIndex
        /\ \A n \in 1..Len(arrived) : arrived[n] <= readIndex
        /\ \A n, m \in 1..Len(batch) : n < m => batch[n] < batch[m]
        /\ \A n, m \in 1..Len(arrived) : n < m => arrived[n] < arrived[m]
        /\ \A n \in 1..Len(batch), m \in 1..Len(arrived) : arrived[m] < batch[n]
  BY DEF OrderInv
<1>c. /\ \A n \in 1..Len(batch) : batch[n] \in Nat
      /\ \A n \in 1..Len(arrived) : arrived[n] \in Nat
  <2>1. 1..accepted \subseteq Nat
    BY ClientAssumption DEF TypeInv, TypeOK
  <2> QED BY <2>1 DEF TypeInv
<1>1. ASSUME UNCHANGED <<batch, arrived, readIndex>>, ~overlapped PROVE OrderInv'
  BY <1>1 DEF OrderInv
<1>2. ASSUME NEW s \in Senders, SetBegin(s) \/ SetStep(s) PROVE OrderInv'
  <2>1. UNCHANGED <<batch, arrived, readIndex>>
    BY <1>2, SetEffect DEF remoteVars
  <2>2. ~overlapped
    BY <1>2 DEF SetBegin, SetStep, SetBucket, SetLoad, SetAdvance, SetStore
  <2> QED BY <1>1, <2>1, <2>2
<1>3. CASE TakeNext
  <2>1. PICK i : Takes(i)
    BY <1>3, TakeEffect
  <2>2. /\ i \in Slots /\ Filled(i) /\ slot[i].seq \in Nat /\ slot[i].data \in 1..MaxEnvelopes
        /\ slot[i].seq >= readIndex /\ readIndex' = slot[i].seq + 1
        /\ batch' = Append(batch, slot[i].data)
        /\ UNCHANGED <<arrived, overlapped>>
    BY <2>1 DEF Takes, remoteVars
  <2>3. slot[i].data = readIndex' /\ readIndex' \in Nat /\ readIndex < readIndex'
    <3>1. slot[i].data = slot[i].seq + 1
      BY <2>2 DEF SerialInv
    <3> QED BY <1>a, <2>2, <3>1
  <2>4. /\ Len(batch') = Len(batch) + 1
        /\ \A n \in 1..(Len(batch) + 1) :
             batch'[n] = IF n = Len(batch) + 1 THEN readIndex' ELSE batch[n]
    BY <1>a, <2>2, <2>3, AppendElements
  <2>5. \A n \in 1..Len(batch') : \/ n \in 1..Len(batch) /\ batch'[n] = batch[n]
                                  \/ n = Len(batch) + 1 /\ batch'[n] = readIndex'
    BY <1>a, <2>4
  <2>6. /\ \A n \in 1..Len(batch) : batch[n] < readIndex'
        /\ \A n \in 1..Len(arrived) : arrived[n] < readIndex'
    <3>1. \A x \in Nat : x <= readIndex => x < readIndex'
      BY <1>a, <2>3
    <3> QED BY <1>b, <1>c, <2>2, <3>1
  <2>7. \A n, m \in 1..Len(batch') : n < m => n \in 1..Len(batch)
    BY <1>a, <2>4
  <2>8. \A n, m \in 1..Len(batch') : n < m => batch'[n] < batch'[m]
    BY <1>b, <2>2, <2>5, <2>6, <2>7
  <2>9. /\ \A n \in 1..Len(batch') : batch'[n] <= readIndex'
        /\ \A n \in 1..Len(arrived') : arrived'[n] <= readIndex'
    <3>1. readIndex' <= readIndex' /\ \A x \in Nat : x < readIndex' => x <= readIndex'
      BY <2>3
    <3> QED BY <1>c, <2>2, <2>5, <2>6, <3>1
  <2>10. /\ \A n, m \in 1..Len(arrived') : n < m => arrived'[n] < arrived'[m]
         /\ \A n \in 1..Len(batch'), m \in 1..Len(arrived') : arrived'[m] < batch'[n]
    BY <1>b, <2>2, <2>5, <2>6
  <2> QED BY <2>8, <2>9, <2>10 DEF OrderInv
<1>4. CASE FindNothing
  BY <1>1, <1>4, NothingEffect DEF remoteVars
<1>5. CASE SendBatch
  <2>1. 1..Len(batch') = {} /\ UNCHANGED <<readIndex, overlapped>>
    BY <1>5, SendEffect DEF diodeVars
  <2>2. CASE arrived' = arrived
    BY <1>b, <2>1, <2>2 DEF OrderInv
  <2>3. CASE arrived' = arrived \o batch
    <3>1. /\ Len(arrived') = Len(arrived) + Len(batch)
          /\ \A n \in 1..(Len(arrived) + Len(batch)) :
               arrived'[n] = IF n <= Len(arrived) THEN arrived[n] ELSE batch[n - Len(arrived)]
      BY <1>a, <2>3, ConcatElements
    <3>2. \A n \in 1..Len(arrived') :
            \/ n \in 1..Len(arrived) /\ arrived'[n] = arrived[n]
            \/ n - Len(arrived) \in 1..Len(batch) /\ arrived'[n] = batch[n - Len(arrived)]
      BY <1>a, <3>1
    <3>3. \A n, m \in 1..Len(arrived') : n < m =>
            /\ n - Len(arrived) < m - Len(arrived)
            /\ m \in 1..Len(arrived) => n \in 1..Len(arrived)
      BY <1>a, <3>1
    <3>4. ASSUME NEW n \in 1..Len(arrived'), NEW m \in 1..Len(arrived'), n < m
          PROVE  arrived'[n] < arrived'[m]
      <4>1. CASE m \in 1..Len(arrived) /\ arrived'[m] = arrived[m]
        <5>1. n \in 1..Len(arrived)
          BY <3>3, <3>4, <4>1
        <5>2. arrived'[n] = arrived[n]
          BY <1>a, <3>1, <5>1
        <5> QED BY <1>b, <2>1, <3>4, <4>1, <5>1, <5>2
      <4>2. CASE m - Len(arrived) \in 1..Len(batch) /\ arrived'[m] = batch[m - Len(arrived)]
        <5>1. CASE n \in 1..Len(arrived) /\ arrived'[n] = arrived[n]
          BY <1>b, <2>1, <4>2, <5>1
        <5>2. CASE n - Len(arrived) \in 1..Len(batch) /\ arrived'[n] = batch[n - Len(arrived)]
          BY <1>b, <2>1, <3>3, <3>4, <4>2, <5>2
        <5> QED BY <3>2, <5>1, <5>2
      <4> QED BY <3>2, <4>1, <4>2
    <3>5. \A n \in 1..Len(arrived') : arrived'[n] <= readIndex
      BY <1>b, <2>1, <3>2
    <3> QED BY <2>1, <3>4, <3>5 DEF OrderInv
  <2> QED BY <1>5, <2>2, <2>3, SendEffect
<1>6. CASE IntervalLapses \/ UNCHANGED vars
  BY <1>1, <1>6 DEF IntervalLapses, vars, diodeVars, remoteVars
<1> QED BY <1>2, <1>3, <1>4, <1>5, <1>6 DEF Next, ClientStep

\* For any number of senders and any sizes: as long as no two Sends overlap, the peer
\* receives envelopes in the order of Send.
THEOREM OrderIsKept == Spec => []ArrivesInOrder
<1>1. Init => SerialInv /\ OrderInv
  BY DEF Init, OrderInv, SerialInv, AllIdle, Completed, Busy, Filled, IdleSender, Slots
<1>2. OrderInv => ArrivesInOrder
  BY DEF OrderInv, ArrivesInOrder
<1> QED BY <1>1, <1>2, TypeInit, TypeStep, SerialStep, OrderStep, PTL DEF Spec
=============================================================================
