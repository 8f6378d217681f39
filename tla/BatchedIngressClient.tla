------------------------ MODULE BatchedIngressClient ------------------------
(***************************************************************************)
(* The client through which a log-cache node forwards envelopes to a peer    *)
(* (internal/routing/batched_ingress_client.go): Send puts envelopes in a    *)
(* OneToOne diode, a goroutine takes them out, batches them and sends the    *)
(* batches over gRPC.  The diode and the batcher are the vendored go-diodes  *)
(* and go-batching.                                                          *)
(*                                                                           *)
(* Send is called from gRPC handlers, which run concurrently; the diode has  *)
(* one writer in mind.  Its Set is therefore cut at each access to           *)
(* writeIndex, and a value that the compiled code may keep from an earlier   *)
(* load or load again is either.  An envelope is the number of the Set that brought  *)
(* it.                                                                       *)
(***************************************************************************)
EXTENDS Integers, Sequences

CONSTANTS
  Senders,       \* gRPC handlers that call Send
  DiodeSize,     \* 10000 in the code
  BatchSize,     \* 100 in the code
  MaxEnvelopes   \* bound: envelopes given to Send

ASSUME ClientAssumption ==
  /\ DiodeSize \in Nat \ {0}
  /\ BatchSize \in Nat \ {0}
  /\ MaxEnvelopes \in Nat

VARIABLES
  slot,        \* the diode's buffer: 0..DiodeSize-1 -> bucket
  writeIndex, readIndex,
  sender,      \* where each Send is in Set, and its locals
  client,      \* "poll", or "sending" a batch
  batch,       \* the batcher's batch
  lapsed,      \* the batching interval has passed since the last batch
  dropped,     \* ingress_dropped: envelopes
  failures,    \* log_cache_send_failures: batches
  accepted,    \* history: envelopes given to Set
  arrived,     \* history: envelopes the peer received, in order
  lost,        \* history: envelopes of batches that did not reach the peer
  overlapped   \* history: two Sets ran at the same time

vars == <<slot, writeIndex, readIndex, sender, client, batch, lapsed, dropped, failures,
          accepted, arrived, lost, overlapped>>
diodeVars  == <<slot, writeIndex, sender, accepted, overlapped>>
remoteVars == <<arrived, lost, failures>>

Empty == [data |-> 0, seq |-> 0]
IdleSender == [pc |-> "idle", data |-> 0, idx |-> 0, seq |-> 0, next |-> 0]

Init ==
  /\ slot = [i \in 0..(DiodeSize - 1) |-> Empty]
  /\ writeIndex = 0
  /\ readIndex = 0
  /\ sender = [s \in Senders |-> IdleSender]
  /\ client = "poll"
  /\ batch = <<>>
  /\ lapsed = FALSE
  /\ dropped = 0
  /\ failures = 0
  /\ accepted = 0
  /\ arrived = <<>>
  /\ lost = 0
  /\ overlapped = FALSE

-----------------------------------------------------------------------------
(* Send: one Set of the diode per envelope. *)

SetBegin(s) ==
  /\ sender[s].pc = "idle"
  /\ accepted < MaxEnvelopes
  /\ accepted' = accepted + 1
  /\ overlapped' = (overlapped \/ \E r \in Senders : sender[r].pc # "idle")
  /\ sender' = [sender EXCEPT ![s] = [pc |-> "bucket", data |-> accepted + 1,
                                      idx |-> writeIndex % DiodeSize, seq |-> writeIndex,
                                      next |-> writeIndex]]
  /\ UNCHANGED <<slot, writeIndex, readIndex, client, batch, lapsed, dropped, remoteVars>>

SetBucket(s) ==
  /\ sender[s].pc = "bucket"
  /\ \E seq \in {sender[s].seq, writeIndex} :
       sender' = [sender EXCEPT ![s].pc = "load", ![s].seq = seq]
  /\ UNCHANGED <<slot, writeIndex, readIndex, client, batch, lapsed, dropped, accepted,
                 overlapped, remoteVars>>

\* d.writeIndex++ is a load and a store, between which another Set may run.
SetLoad(s) ==
  /\ sender[s].pc = "load"
  /\ \E next \in {sender[s].next, sender[s].seq, writeIndex} :
       sender' = [sender EXCEPT ![s].pc = "advance", ![s].next = next]
  /\ UNCHANGED <<slot, writeIndex, readIndex, client, batch, lapsed, dropped, accepted,
                 overlapped, remoteVars>>

SetAdvance(s) ==
  /\ sender[s].pc = "advance"
  /\ writeIndex' = sender[s].next + 1
  /\ sender' = [sender EXCEPT ![s].pc = "store"]
  /\ UNCHANGED <<slot, readIndex, client, batch, lapsed, dropped, accepted, overlapped,
                 remoteVars>>

SetStore(s) ==
  /\ sender[s].pc = "store"
  /\ slot' = [slot EXCEPT ![sender[s].idx] = [data |-> sender[s].data, seq |-> sender[s].seq]]
  /\ sender' = [sender EXCEPT ![s] = IdleSender]
  /\ UNCHANGED <<writeIndex, readIndex, client, batch, lapsed, dropped, accepted, overlapped,
                 remoteVars>>

-----------------------------------------------------------------------------
(* The goroutine started by NewBatchedIngressClient. *)

BugPartialBatch(n) == n <= BatchSize
PartialBatch(n) == n < BatchSize

\* TryNext refuses a bucket the reader has already passed.
BugReadStale(bucket) == bucket # Empty
Readable(bucket) == bucket # Empty /\ bucket.seq >= readIndex

\* The envelopes TryNext reports as dropped when the writers lapped the reader.
BugDropOffByOne(bucket) == bucket.seq - readIndex - 1
Skipped(bucket) == bucket.seq - readIndex

\* Where TryNext reads next, after a bucket it returned.
BugNotAdvanced(bucket) == bucket.seq
NextRead(bucket) == bucket.seq + 1

\* TryNext returns an envelope and the batcher's Write appends it; the batch is
\* sent when it is full or the interval has lapsed.
TakeNext ==
  LET i == readIndex % DiodeSize
      next == Append(batch, slot[i].data)
  IN
  /\ client = "poll"
  /\ Readable(slot[i])
  /\ slot' = [slot EXCEPT ![i] = Empty]
  /\ dropped' = dropped + Skipped(slot[i])
  /\ readIndex' = NextRead(slot[i])
  /\ batch' = next
  /\ client' = IF PartialBatch(Len(next)) /\ ~lapsed THEN "poll" ELSE "sending"
  /\ UNCHANGED <<writeIndex, sender, lapsed, accepted, overlapped, remoteVars>>

\* TryNext returns nothing (and forgets a stale bucket): Flush, then sleep.
BugNoFlush == client
AfterFlush == IF lapsed /\ batch # <<>> THEN "sending" ELSE "poll"

FindNothing ==
  LET i == readIndex % DiodeSize IN
  /\ client = "poll"
  /\ ~Readable(slot[i])
  /\ slot' = [slot EXCEPT ![i] = Empty]
  /\ client' = AfterFlush
  /\ UNCHANGED <<writeIndex, readIndex, sender, batch, lapsed, dropped, accepted, overlapped,
                 remoteVars>>

\* write: the batch is given up whatever the outcome.  An error may hide that
\* the peer did receive it, when the answer comes after the 3 second timeout.
BugRetry(error) == IF error THEN batch ELSE <<>>
BatchAfterSend(error) == <<>>

SendBatch ==
  /\ client = "sending"
  /\ \E received, error \in BOOLEAN :
       /\ received \/ error
       /\ arrived' = IF received THEN arrived \o batch ELSE arrived
       /\ lost' = IF received THEN lost ELSE lost + Len(batch)
       /\ failures' = IF error THEN failures + 1 ELSE failures
       /\ batch' = BatchAfterSend(error)
  /\ lapsed' = FALSE
  /\ client' = "poll"
  /\ UNCHANGED <<diodeVars, readIndex, dropped>>

\* time.Since(lastSent) reaches the interval.
IntervalLapses ==
  /\ ~lapsed
  /\ lapsed' = TRUE
  /\ UNCHANGED <<diodeVars, readIndex, client, batch, dropped, remoteVars>>

-----------------------------------------------------------------------------
SetStep(s) == SetBucket(s) \/ SetLoad(s) \/ SetAdvance(s) \/ SetStore(s)
ClientStep == TakeNext \/ FindNothing \/ SendBatch

Next ==
  \/ \E s \in Senders : SetBegin(s) \/ SetStep(s)
  \/ ClientStep
  \/ IntervalLapses

\* Goroutines that can run do run, time passes, and every call of the peer ends
\* (the context has a timeout); nobody is obliged to call Send.
Fairness ==
  /\ \A s \in Senders : WF_vars(SetStep(s))
  /\ WF_vars(ClientStep)
  /\ WF_vars(IntervalLapses)

Spec == Init /\ [][Next]_vars /\ Fairness

-----------------------------------------------------------------------------
(* Properties. *)

Buckets == [data : 0..MaxEnvelopes, seq : Nat]

\* Every variable has the shape the code's declarations give it.
TypeOK ==
  /\ slot \in [0..(DiodeSize - 1) -> Buckets]
  /\ writeIndex \in Nat
  /\ readIndex \in Nat
  /\ sender \in [Senders -> [pc : {"idle", "bucket", "load", "advance", "store"},
                             data : 0..MaxEnvelopes, idx : 0..(DiodeSize - 1), seq : Nat,
                             next : Nat]]
  /\ client \in {"poll", "sending"}
  /\ batch \in Seq(1..MaxEnvelopes) /\ Len(batch) <= BatchSize
  /\ lapsed \in BOOLEAN
  /\ dropped \in Nat
  /\ failures \in Nat
  /\ accepted \in 0..MaxEnvelopes
  /\ arrived \in Seq(1..MaxEnvelopes)
  /\ lost \in Nat
  /\ overlapped \in BOOLEAN

\* No Set is in progress, and no slot holds an envelope that the goroutine has
\* not passed.
CaughtUp ==
  /\ \A s \in Senders : sender[s].pc = "idle"
  /\ \A i \in 0..(DiodeSize - 1) : ~Readable(slot[i])

\* The metric ingress_dropped is the "total number of envelopes dropped": once
\* the goroutine has caught up, every envelope given to Send is counted there
\* or was batched.
DropsAreCounted ==
  CaughtUp => accepted = dropped + Len(batch) + Len(arrived) + lost

\* It is exact as long as no two Sends write to the diode at the same time,
\* however often they lap the reader.
DropsAreCountedUnlessOverlapped == ~overlapped => DropsAreCounted

\* Each envelope reaches the peer at most once, whatever the senders race for
\* and whichever calls time out: batches are not sent again.
ArrivesOnce ==
  \A i, j \in 1..Len(arrived) : i # j => arrived[i] # arrived[j]

\* Without overlapping Sends the peer sees the envelopes in the order of Send.
ArrivesInOrder ==
  ~overlapped => \A i, j \in 1..Len(arrived) : i < j => arrived[i] < arrived[j]

\* An envelope that was put in a batch leaves it, even when no other follows:
\* Flush runs while the diode is empty.
BatchLeaves == batch # <<>> ~> batch = <<>>

\* Unless Sends overlapped, the goroutine catches up with the diode for good
\* when the senders stop: no envelope is left behind in a slot.
CatchesUp == <>[](overlapped \/ CaughtUp)
=============================================================================
