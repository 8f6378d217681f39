------------------------------ MODULE Ingestion ------------------------------
(***************************************************************************)
(* The syslog server process: connections whose messages are converted to    *)
(* envelopes (internal/syslog/server.go) and the nozzle that carries them to *)
(* log-cache (internal/nozzle/nozzle.go).  On the way an envelope passes a   *)
(* channel, a diode, a batch, a channel of batches and one of the writers.   *)
(*                                                                           *)
(* A message is what decides its fate: whether its frame and syntax are      *)
(* good, which header fields it has, what its structured data holds.  An     *)
(* envelope is its number in the order of entering the channel.  A message   *)
(* without a timestamp, which the syntax allows, panics the goroutine of its *)
(* connection; nothing recovers, and the process ends.                       *)
(***************************************************************************)
EXTENDS Integers, Sequences, FiniteSets

CONSTANTS
  Conns, Messages,
  ChannelSize,       \* of Server.envelopes, 100 in the code
  DiodeSize,         \* 100000 in the code
  BatchChannelSize,  \* BATCH_CHANNEL_SIZE, 512: envelopes in a batch, batches in the channel
  Writers,           \* 2 * NumCPU goroutines
  MaxResults         \* bound: results of the parsers

ASSUME IngestionAssumption ==
  /\ ChannelSize \in Nat \ {0} /\ DiodeSize \in Nat \ {0}
  /\ BatchChannelSize \in Nat \ {0} /\ MaxResults \in Nat
  /\ IsFiniteSet(Conns) /\ IsFiniteSet(Writers)

VARIABLES
  listening,
  conn,          \* connection -> what its goroutine does, see ConnStates
  results,       \* history: results the parsers gave to parseListener
  entered,       \* history: envelopes that entered the channel
  ingress, invalidIngress,   \* the server's counters
  envelopes,     \* the channel between server and nozzle
  taken, uncounted, \* of the reader: the envelope rx() gave; whether one it set awaits counting
  slot, writeIndex, readIndex, \* the diode
  missed,        \* envelopes the diode's alert reported
  nozzleIngress, nozzleEgress, nozzleErr, \* the nozzle's counters
  batch, fired,  \* of the batcher: its batch, whether its timer has fired
  batches,       \* the channel of batches
  writer,        \* writer -> the batch it sends
  dropped,       \* history: envelopes of batches the channel had no room for
  failed,        \* history: envelopes of failed calls
  arrived        \* history: batches log-cache received

serverVars == <<listening, conn, results, entered, ingress, invalidIngress>>
readerVars == <<taken, uncounted, nozzleIngress>>
diodeVars == <<slot, writeIndex, readIndex, missed>>
batcherVars == <<batch, fired, batches, dropped>>
writerVars == <<writer, nozzleEgress, nozzleErr, failed, arrived>>
nozzleVars == <<readerVars, diodeVars, batcherVars, writerVars>>
vars == <<serverVars, envelopes, nozzleVars>>

Empty == [data |-> 0, seq |-> 0]

Init ==
  /\ listening = TRUE
  /\ conn = [c \in Conns |-> "none"]
  /\ results = 0 /\ entered = 0 /\ ingress = 0 /\ invalidIngress = 0
  /\ envelopes = <<>>
  /\ taken = <<>> /\ uncounted = 0
  /\ slot = [i \in 0..(DiodeSize - 1) |-> Empty]
  /\ writeIndex = 0 /\ readIndex = 0 /\ missed = 0
  /\ nozzleIngress = 0 /\ nozzleEgress = 0 /\ nozzleErr = 0
  /\ batch = <<>> /\ fired = FALSE
  /\ batches = <<>>
  /\ writer = [w \in Writers |-> <<>>]
  /\ dropped = 0 /\ failed = 0
  /\ arrived = <<>>

-----------------------------------------------------------------------------
(* Conversion.  The elements of structured data are visited in any order; an  *)
(* error of one is an error of the message.                                   *)

\* convertStructuredData: an element is [type, numbers, unit], where numbers says
\* whether the numbers its type needs are there and parse.
ElementConverts(el) ==
  \/ el.type \in {"event", "tags"}
  \/ el.type \in {"counter", "timer"} /\ el.numbers
  \/ el.type = "gauge" /\ el.unit /\ el.numbers

\* convertToEnvelope: a message without a process ID or an application name is an
\* error; one without a timestamp dereferences nil.
Panics(msg) == msg.procID /\ msg.appname /\ ~msg.timestamp

Converts(msg) ==
  /\ msg.procID /\ msg.appname /\ msg.timestamp
  /\ \A el \in msg.data : ElementConverts(el)
  /\ msg.text \/ \E el \in msg.data : el.type # "tags"

-----------------------------------------------------------------------------
(* The server. *)

ConnStates == {"none", "fresh", "reading", "sending", "counting", "panicked"}
In(c, state) == conn[c] = state
Sending(c) == In(c, "sending")
Panicked == \E c \in Conns : In(c, "panicked")

\* Start: each connection has a goroutine of its own; an error of Accept ends the
\* loop for good and closes the listener, and connections go on.
Accept(c) ==
  /\ ~Panicked
  /\ listening /\ In(c, "none")
  /\ conn' = [conn EXCEPT ![c] = "fresh"]
  /\ UNCHANGED <<listening, results, entered, ingress, invalidIngress, envelopes, nozzleVars>>

AcceptFails ==
  /\ ~Panicked
  /\ listening
  /\ listening' = FALSE
  /\ UNCHANGED <<conn, results, entered, ingress, invalidIngress, envelopes, nozzleVars>>

\* What the parser's next message does to its connection.  The parser stops at the
\* first frame or message it cannot parse, and the connection is closed.
Fate(msg) ==
  IF ~msg.parses THEN "none"
  ELSE IF Panics(msg) THEN "panicked"
  ELSE IF Converts(msg) THEN "sending" ELSE "reading"

\* The parser gives a message to parseListener, which counts an invalid one.
Receive(c) ==
  /\ ~Panicked
  /\ In(c, "fresh") \/ In(c, "reading")
  /\ results < MaxResults
  /\ results' = results + 1
  /\ \E msg \in Messages :
       /\ conn' = [conn EXCEPT ![c] = Fate(msg)]
       /\ invalidIngress' = IF Fate(msg) \in {"none", "reading"} THEN invalidIngress + 1
                            ELSE invalidIngress
  /\ UNCHANGED <<listening, entered, ingress, envelopes, nozzleVars>>

\* Sending to the channel blocks while it is full.
BugNoBackpressure == TRUE
BugRoomOffByOne == Len(envelopes) + 1 < ChannelSize
RoomInChannel == Len(envelopes) < ChannelSize

SendEnvelope(c) ==
  /\ ~Panicked
  /\ Sending(c)
  /\ RoomInChannel
  /\ envelopes' = Append(envelopes, entered + 1)
  /\ entered' = entered + 1
  /\ conn' = [conn EXCEPT ![c] = "counting"]
  /\ UNCHANGED <<listening, results, ingress, invalidIngress, nozzleVars>>

\* Only then is the message counted, and the read deadline moved.
CountIngress(c) ==
  /\ ~Panicked
  /\ In(c, "counting")
  /\ ingress' = ingress + 1
  /\ conn' = [conn EXCEPT ![c] = "reading"]
  /\ UNCHANGED <<listening, results, entered, invalidIngress, envelopes, nozzleVars>>

\* The peer closes, or the deadline passes while the server waits for a message.
\* A connection that ends before its first message counts as invalid.
HangUp(c) ==
  /\ ~Panicked
  /\ \/ In(c, "reading") /\ UNCHANGED <<results, invalidIngress>>
     \/ /\ In(c, "fresh") /\ results < MaxResults
        /\ results' = results + 1 /\ invalidIngress' = invalidIngress + 1
  /\ conn' = [conn EXCEPT ![c] = "none"]
  /\ UNCHANGED <<listening, entered, ingress, envelopes, nozzleVars>>

-----------------------------------------------------------------------------
(* The nozzle. *)

\* envelopeReader, the only writer of the diode: it receives an envelope from the
\* server's stream, sets it in the diode and counts it.
ReadStream ==
  /\ ~Panicked
  /\ taken = <<>> /\ uncounted = 0 /\ envelopes # <<>>
  /\ taken' = <<Head(envelopes)>>
  /\ envelopes' = Tail(envelopes)
  /\ UNCHANGED <<serverVars, uncounted, nozzleIngress, diodeVars, batcherVars, writerVars>>

SetDiode ==
  /\ ~Panicked
  /\ taken # <<>>
  /\ slot' = [slot EXCEPT ![writeIndex % DiodeSize] = [data |-> Head(taken), seq |-> writeIndex]]
  /\ writeIndex' = writeIndex + 1
  /\ taken' = <<>> /\ uncounted' = 1
  /\ UNCHANGED <<serverVars, envelopes, nozzleIngress, readIndex, missed, batcherVars, writerVars>>

CountRead ==
  /\ ~Panicked
  /\ uncounted = 1
  /\ nozzleIngress' = nozzleIngress + 1
  /\ uncounted' = 0
  /\ UNCHANGED <<serverVars, envelopes, taken, diodeVars, batcherVars, writerVars>>

Readable(bucket) == bucket # Empty /\ bucket.seq >= readIndex

\* The batcher gives a batch away without waiting; one the channel has no room
\* for is dropped, and no counter says so.
Flush(full) ==
  /\ batch' = <<>>
  /\ fired' = FALSE
  /\ IF Len(batches) < BatchChannelSize
     THEN batches' = Append(batches, full) /\ UNCHANGED dropped
     ELSE dropped' = dropped + Len(full) /\ UNCHANGED batches

\* Whether an iteration of the batcher ends with a flush.
BugFlushOnlyFull(next) == Len(next) >= BatchChannelSize
Flushes(next) == IF fired THEN next # <<>> ELSE Len(next) >= BatchChannelSize

\* An iteration of envelopeBatcher.
Batch ==
  LET i == readIndex % DiodeSize
      next == IF Readable(slot[i]) THEN Append(batch, slot[i].data) ELSE batch
  IN
  /\ ~Panicked
  /\ slot' = [slot EXCEPT ![i] = Empty]
  /\ readIndex' = IF Readable(slot[i]) THEN slot[i].seq + 1 ELSE readIndex
  /\ missed' = IF Readable(slot[i]) THEN missed + slot[i].seq - readIndex ELSE missed
  /\ IF Flushes(next) THEN Flush(next)
     ELSE batch' = next /\ fired' = FALSE /\ UNCHANGED <<batches, dropped>>
  /\ UNCHANGED <<serverVars, envelopes, readerVars, writeIndex, writerVars>>

TimerFires ==
  /\ ~Panicked
  /\ ~fired
  /\ fired' = TRUE
  /\ UNCHANGED <<serverVars, envelopes, readerVars, diodeVars, batch, batches, dropped, writerVars>>

\* envelopeWriter takes a batch, and sends it within 3 seconds.  An error may
\* hide that log-cache did receive it.
TakeBatch(w) ==
  /\ ~Panicked
  /\ writer[w] = <<>> /\ batches # <<>>
  /\ writer' = [writer EXCEPT ![w] = Head(batches)]
  /\ batches' = Tail(batches)
  /\ UNCHANGED <<serverVars, envelopes, readerVars, diodeVars, batch, fired, dropped, nozzleEgress,
                 nozzleErr, failed, arrived>>

BugSendAgain(w, error) == IF error THEN writer[w] ELSE <<>>
AfterSend(w, error) == <<>>

BugCountAlways(w, error) == Len(writer[w])
Egressed(w, error) == IF error THEN 0 ELSE Len(writer[w])

SendBatch(w) ==
  /\ ~Panicked
  /\ writer[w] # <<>>
  /\ \E received, error \in BOOLEAN :
       /\ received \/ error
       /\ arrived' = IF received THEN Append(arrived, writer[w]) ELSE arrived
       /\ nozzleErr' = IF error THEN nozzleErr + 1 ELSE nozzleErr
       /\ nozzleEgress' = nozzleEgress + Egressed(w, error)
       /\ failed' = IF error THEN failed + Len(writer[w]) ELSE failed
       /\ writer' = [writer EXCEPT ![w] = AfterSend(w, error)]
  /\ UNCHANGED <<serverVars, envelopes, readerVars, diodeVars, batcherVars>>

-----------------------------------------------------------------------------
\* The process has ended.
Ended == Panicked /\ UNCHANGED vars

Next ==
  \/ \E c \in Conns :
       Accept(c) \/ Receive(c) \/ SendEnvelope(c) \/ CountIngress(c) \/ HangUp(c)
  \/ AcceptFails
  \/ ReadStream \/ SetDiode \/ CountRead \/ Batch \/ TimerFires
  \/ \E w \in Writers : TakeBatch(w) \/ SendBatch(w)
  \/ Ended

\* While the process runs, goroutines that can run do run; a channel serves blocked
\* senders in the order they came, so that each gets its turn; the timer fires; every
\* call of log-cache ends (its context has a timeout).  No client is obliged to send.
Fairness ==
  /\ \A c \in Conns : SF_vars(SendEnvelope(c)) /\ WF_vars(CountIngress(c))
  /\ WF_vars(ReadStream) /\ WF_vars(SetDiode) /\ WF_vars(CountRead)
  /\ WF_vars(Batch) /\ WF_vars(TimerFires)
  /\ \A w \in Writers : WF_vars(TakeBatch(w)) /\ WF_vars(SendBatch(w))

Spec == Init /\ [][Next]_vars /\ Fairness

-----------------------------------------------------------------------------
(* Properties. *)

\* Every variable has the shape the code's declarations give it, and no buffer
\* outgrows the size it was made with.
TypeOK ==
  /\ listening \in BOOLEAN
  /\ conn \in [Conns -> ConnStates]
  /\ {results, entered, ingress, invalidIngress, missed, nozzleIngress, nozzleEgress, nozzleErr,
      dropped, failed} \subseteq 0..MaxResults
  /\ envelopes \in Seq(1..MaxResults) /\ Len(envelopes) <= ChannelSize
  /\ taken \in Seq(1..MaxResults) /\ Len(taken) + uncounted <= 1 /\ uncounted \in {0, 1}
  /\ slot \in [0..(DiodeSize - 1) -> [data : 0..MaxResults, seq : 0..MaxResults]]
  /\ writeIndex \in 0..MaxResults /\ readIndex \in 0..MaxResults
  /\ batch \in Seq(1..MaxResults) /\ Len(batch) < BatchChannelSize
  /\ fired \in BOOLEAN
  /\ batches \in Seq(Seq(1..MaxResults)) /\ Len(batches) <= BatchChannelSize
  /\ \A w \in Writers : writer[w] \in Seq(1..MaxResults) /\ Len(writer[w]) <= BatchChannelSize

\* The places of envelopes in a family of batches: which batch, and where in it.
Places(family) == UNION {{b} \X (1..Len(family[b])) : b \in DOMAIN family}

\* Every result of a parser is counted once, as ingress or as invalid, unless its
\* connection has not finished with it, or has panicked over it.  An envelope that
\* was counted in, or is about to be, is somewhere between the channel and log-cache,
\* or was counted as egress, reported as missed by the diode, dropped with its batch
\* (the one loss that no counter of the code shows) or part of a failed call, which
\* nozzle_err counts once for the one to BatchChannelSize envelopes it carried.  The
\* diode may hold envelopes it will report as missed once the batcher gets there.
Reconciles ==
  LET unsettled == {c \in Conns : conn[c] \in {"sending", "counting", "panicked"}}
      counting == {c \in Conns : In(c, "counting")}
      inDiode == writeIndex - readIndex
      inBatches == Cardinality(Places(batches))
      inWriters == Cardinality(Places(writer))
  IN
  /\ results = ingress + invalidIngress + Cardinality(unsettled)
  /\ ingress + Cardinality(counting) = Len(envelopes) + Len(taken) + uncounted + nozzleIngress
  /\ nozzleIngress + uncounted =
       inDiode + missed + Len(batch) + inBatches + inWriters + dropped + failed + nozzleEgress
  /\ failed \in nozzleErr..(BatchChannelSize * nozzleErr)

\* Log-cache receives no envelope twice, and those of a batch in the order in
\* which they entered the channel, however the writers overtake each other.
ArrivesOnceInOrder ==
  \A p, q \in Places(arrived) :
    LET first == arrived[p[1]][p[2]]
        other == arrived[q[1]][q[2]]
    IN  /\ p # q => first # other
        /\ p[1] = q[1] /\ p[2] < q[2] => first < other

\* A connection that waits for room in the channel is served: nothing further
\* down the pipeline, not even a log-cache that fails every call, blocks it.  Only a
\* panic over another connection's message, which ends the process, comes before.
SendersServed == \A c \in Conns : Sending(c) ~> (~Sending(c) \/ Panicked)

\* Envelopes are not left behind: those that were accepted reach a writer or are
\* given up, also when no other follows that would fill the batch; unless a panic
\* ends the process, with what it holds.
Drains ==
  <>[](\/ Panicked
       \/ /\ envelopes = <<>> /\ taken = <<>> /\ uncounted = 0 /\ readIndex = writeIndex
          /\ batch = <<>> /\ batches = <<>> /\ \A w \in Writers : writer[w] = <<>>)
=============================================================================
