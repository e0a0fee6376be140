-------------------------- MODULE TelemetryRuntime --------------------------
(***************************************************************************)
(* The upload pipeline of one node: TelemetryRuntime::tick() polls the due *)
(* channels into the ring, flushes the ring with HttpUploader::upload, and *)
(* drains the SQLite backlog with HttpUploader::retry_pending, against a   *)
(* server and a network that may fail at any point and a process that may  *)
(* die at any point.                                                       *)
(*                                                                         *)
(* A tick runs on one thread; pc is where it is.  Only the HTTP exchange   *)
(* takes time: the clock advances while the daemon sleeps or waits.        *)
(* Deadlines are kept as the ticks left until they pass.                   *)
(***************************************************************************)
EXTENDS UploadPolicy, LocalStore, FiniteSets

CONSTANTS Order,            \* the channels in configuration order
          Reads,            \* Reads[ch]: the channel_ids of the samples a read returns
          Readings,         \* Readings[ch]: the value lists a read may return
          MaxBatch,         \* server.max_batch_size, also the ring's capacity
          Backoff,          \* kDelaysSeconds
          StampsPerSecond,  \* reads per second of the system clock
          Unitless,         \* the channel_ids whose driver gives an empty unit
          FailureCodes,     \* HTTP statuses of a failing server, other than 400
          PowerMayFail,     \* whether losses of power are considered
          MaxReads,         \* bound: successful driver reads
          MaxFaults         \* bound: failures of any kind

ASSUME RuntimeAssumption ==
    /\ Order \in Seq(Channel) /\ Order # <<>> /\ {Order[k] : k \in DOMAIN Order} = Channel
    /\ \A ch \in Channel : /\ Len(Reads[ch]) \in Nat
                           /\ Readings[ch] \subseteq [1..Len(Reads[ch]) -> Value]
    /\ MaxBatch \in Nat \ {0} /\ StampsPerSecond \in Nat \ {0}
    /\ PowerMayFail \in BOOLEAN
    /\ Backoff \in Seq(Nat) /\ Backoff # <<>>
    /\ FailureCodes \subseteq Nat \ {0, 200, 202, 400}
    /\ MaxReads \in Nat /\ MaxFaults \in Nat

VARIABLES
    bound,                  \* how many channels, in order, the last configure() bound
    buffer,                 \* buffer_: the ring, oldest sample first
    points,                 \* the server's table
    skipped,                \* history: samples the server passed over, with a 202
    retry_attempt_,         \* saturated at Len(Backoff)
    retry_in,               \* next_retry_at_ - now, or 0
    accepted_upload_count_,
    pc, c,                  \* where the tick is, and the channel dispatch_due looks at
    batch,                  \* samples taken from the ring by maybe_flush
    peeked,                 \* rows read from the store by retry_pending
    post,                   \* the HTTP exchange: [state, status]
    elapsed,                \* ticks since maybe_flush read the clock
    late,                   \* requests the client gave up that may still arrive
    reads, faults,          \* history: driver reads and failures so far
    produced, lost,         \* history: samples read, samples the node gave up
    reading                 \* history: the values each channel returned last

tickVars    == <<pc, c, batch, peeked, post, elapsed>>
backoffVars == <<retry_attempt_, retry_in>>
history     == <<reads, produced, lost, reading>>
vars == <<bound, buffer, policyVars, storeVars, points, skipped, backoffVars,
          accepted_upload_count_, tickVars, late, faults, history>>
-----------------------------------------------------------------------------
(***************************************************************************)
(* A sample: the channel polled, its place in the read, which decides the  *)
(* channel_id the driver puts in it, and when it was read.  format_time    *)
(* keeps whole seconds of the time.                                        *)
(***************************************************************************)
SamplesOf(ch, stamp) ==
    [n \in 1..Len(Reads[ch]) |-> [channel |-> ch, place |-> n, stamp |-> stamp]]

SamplePriority(s) == Sync[s.channel].priority

format_time(stamp) == stamp \div StampsPerSecond

PayloadKey(s) == <<Reads[s.channel][s.place], format_time(s.stamp)>>

Ring == INSTANCE PriorityQueueOps WITH PriorityOf <- SamplePriority

Members(seq) == {seq[k] : k \in DOMAIN seq}

(***************************************************************************)
(* The Worker inserts the samples that are complete.  Those of a node lack *)
(* nothing but, with some configurations, a unit.                          *)
(***************************************************************************)
HasUnit(s) == Reads[s.channel][s.place] \notin Unitless

Server == INSTANCE IngestWorker WITH KeyOf <- PayloadKey, Complete <- HasUnit

TakenIn(request) ==
    /\ Server!handleTelemetry(request)
    /\ skipped' = skipped \cup {s \in Members(request) : ~HasUnit(s)}

Stored      == {rows[k].sample : k \in DOMAIN rows}
Samples(rs) == [k \in DOMAIN rs |-> rs[k].sample]

(***************************************************************************)
(* A sample the server is done with: it has a point for it, or has passed  *)
(* it over.                                                                *)
(***************************************************************************)
Delivered == {s \in produced : \/ s \in skipped
                               \/ \E p \in points : PayloadKey(p) = PayloadKey(s)}

Idle == [state |-> "none", status |-> 0]
Sent == [state |-> "sent", status |-> 0]

(***************************************************************************)
(* The longest age the policy tells apart.                                 *)
(***************************************************************************)
AgeLimit == CHOOSE n \in {Sync[ch].interval : ch \in Channel} :
               \A ch \in Channel : Sync[ch].interval <= n

(***************************************************************************)
(* configure() that fails leaves no uploader behind.                       *)
(***************************************************************************)
Uploading == bound = Len(Order)

Fault == faults < MaxFaults /\ faults' = faults + 1
-----------------------------------------------------------------------------
Init ==
    /\ bound = Len(Order)
    /\ buffer = <<>>
    /\ PolicyInit /\ StoreInit /\ Server!IngestInit /\ skipped = {}
    /\ retry_attempt_ = 0 /\ retry_in = 0 /\ accepted_upload_count_ = 0
    /\ pc = "sleep" /\ c = 1 /\ batch = <<>> /\ peeked = <<>> /\ post = Idle
    /\ elapsed = 0
    /\ late = {}
    /\ reads = 0 /\ faults = 0
    /\ produced = {} /\ lost = {}
    /\ reading = [ch \in Channel |-> <<>>]

\* Mutant: the ring takes one sample more than a batch.
RingCapacityOneMore == MaxBatch + 1

RingCapacity == MaxBatch

reset_backoff_after_success == retry_attempt_' = 0 /\ retry_in' = 0

backoff_delay(attempt) ==
    Backoff[IF attempt < Len(Backoff) THEN attempt ELSE Len(Backoff)]

advance_backoff_after_failure ==
    /\ retry_attempt_' = Younger(retry_attempt_ + 1, Len(Backoff))
    /\ retry_in' = backoff_delay(retry_attempt_ + 1)
-----------------------------------------------------------------------------
(***************************************************************************)
(* tick(): dispatch_due.  Which channels are due is left open (Scheduler   *)
(* decides); a read that returns no sample changes nothing.  A channel the *)
(* last configure() did not bind may be scheduled still, but is not read;  *)
(* tick() does nothing when there is none.                                 *)
(***************************************************************************)
Wake ==
    /\ pc = "sleep" /\ bound > 0
    /\ pc' = "dispatch" /\ c' = 1
    /\ UNCHANGED <<bound, buffer, policyVars, storeVars, points, skipped, backoffVars,
                   accepted_upload_count_, batch, peeked, post, elapsed, late,
                   faults, history>>

NotDue ==
    /\ pc = "dispatch" /\ c <= Len(Order)
    /\ c' = c + 1
    /\ UNCHANGED <<bound, buffer, policyVars, storeVars, points, skipped, backoffVars,
                   accepted_upload_count_, pc, batch, peeked, post, elapsed,
                   late, faults, history>>

(***************************************************************************)
(* poll_channel: every sample of the read is offered to the ring and shown *)
(* to the policy under the id of the polled channel.                       *)
(***************************************************************************)
poll_channel(values) ==
    /\ pc = "dispatch" /\ c <= bound /\ reads < MaxReads
    /\ LET ch  == Order[c]
           new == SamplesOf(ch, reads)
       IN  /\ values \in Readings[ch]
           /\ buffer' = Ring!OfferedAll(buffer, RingCapacity, new)
           /\ on_samples(ch, values)
           /\ produced' = produced \cup Members(new)
           /\ lost' = lost \cup ((Members(buffer) \cup Members(new)) \ Members(buffer'))
           /\ reading' = [reading EXCEPT ![ch] = values]
    /\ reads' = reads + 1
    /\ c' = c + 1
    /\ UNCHANGED <<bound, storeVars, points, skipped, backoffVars,
                   accepted_upload_count_, pc, batch, peeked, post, elapsed, late, faults>>

DispatchDone ==
    /\ pc = "dispatch" /\ c > Len(Order)
    /\ pc' = "flush"
    /\ UNCHANGED <<bound, buffer, policyVars, storeVars, points, skipped, backoffVars,
                   accepted_upload_count_, c, batch, peeked, post, elapsed,
                   late, faults, history>>
-----------------------------------------------------------------------------
\* Mutant: the batch is copied, not dequeued.
LeftInRingAll == buffer

LeftInRing == SubSeq(buffer, MaxBatch + 1, Len(buffer))

(***************************************************************************)
(* maybe_flush, up to the POST.                                            *)
(***************************************************************************)
FlushNeeded == Uploading /\ should_flush(Len(buffer), MaxBatch)

FlushNotNeeded ==
    /\ pc = "flush" /\ ~FlushNeeded
    /\ pc' = "retry"
    /\ UNCHANGED <<bound, buffer, policyVars, storeVars, points, skipped, backoffVars,
                   accepted_upload_count_, c, batch, peeked, post, elapsed,
                   late, faults, history>>

FlushPost ==
    /\ pc = "flush" /\ FlushNeeded
    /\ batch' = SubSeq(buffer, 1, Younger(MaxBatch, Len(buffer)))
    /\ buffer' = LeftInRing
    /\ post' = Sent
    /\ elapsed' = 0
    /\ pc' = "wait"
    /\ UNCHANGED <<bound, policyVars, storeVars, points, skipped, backoffVars,
                   accepted_upload_count_, c, peeked, late, faults, history>>

\* Mutant: a retry waits for another upload to succeed.
BackoffReset == retry_attempt_ = 0

BackoffOver == ~(retry_attempt_ > 0 /\ retry_in > 0)

(***************************************************************************)
(* maybe_retry, up to the POST.  A failing SELECT COUNT reads as "nothing  *)
(* pending", a peek_batch that fails at once as "all accepted"; one that   *)
(* fails later sends the rows read until then.                             *)
(***************************************************************************)
RetryDue == /\ Uploading
            /\ pending_count > 0
            /\ BackoffOver

RetryNotDue ==
    /\ pc = "retry"
    /\ \/ ~RetryDue /\ UNCHANGED faults
       \/ RetryDue /\ Fault
    /\ pc' = "sleep"
    /\ UNCHANGED <<bound, buffer, policyVars, storeVars, points, skipped, backoffVars,
                   accepted_upload_count_, c, batch, peeked, post, elapsed,
                   late, history>>

PeekFails ==
    /\ pc = "retry" /\ RetryDue /\ Fault
    /\ reset_backoff_after_success
    /\ accepted_upload_count_' = accepted_upload_count_ + 1
    /\ pc' = "sleep"
    /\ UNCHANGED <<bound, buffer, policyVars, storeVars, points, skipped, c, batch, peeked,
                   post, elapsed, late, history>>

RetryPost ==
    /\ pc = "retry" /\ RetryDue
    /\ \/ peeked' = peek_batch(MaxBatch) /\ UNCHANGED faults
       \/ /\ Fault
          /\ \E n \in 1..(Len(peek_batch(MaxBatch)) - 1) : peeked' = SubSeq(rows, 1, n)
    /\ post' = Sent
    /\ pc' = "wait"
    /\ UNCHANGED <<bound, buffer, policyVars, storeVars, points, skipped, backoffVars,
                   accepted_upload_count_, c, batch, elapsed, late, history>>
-----------------------------------------------------------------------------
(***************************************************************************)
(* The exchange.  The request carries the batch in hand, or the peeked     *)
(* rows.                                                                   *)
(***************************************************************************)
Request == IF batch # <<>> THEN batch ELSE Samples(peeked)

exchangeFrame == <<bound, buffer, policyVars, storeVars, backoffVars,
                   accepted_upload_count_, pc, c, batch, peeked, elapsed, history>>

ServerAccepts ==
    /\ pc = "wait" /\ post.state = "sent"
    /\ TakenIn(Request)
    /\ post' = [state |-> "answered", status |-> 202]
    /\ UNCHANGED <<exchangeFrame, late, faults>>

ServerFails ==
    /\ pc = "wait" /\ post.state = "sent" /\ Fault
    /\ \E code \in FailureCodes \cup {400} :
          post' = [state |-> "answered", status |-> code]
    /\ UNCHANGED <<exchangeFrame, points, skipped, late>>

(***************************************************************************)
(* The client reports an error (status 0): the request was lost, or is     *)
(* still on its way, or was handled and its answer was lost.               *)
(***************************************************************************)
TransferFails ==
    /\ pc = "wait" /\ Fault
    /\ \/ post.state = "sent" /\ late' \in {late, late \cup {Request}}
       \/ post.state = "answered" /\ post.status # 0 /\ UNCHANGED late
    /\ post' = [state |-> "answered", status |-> 0]
    /\ UNCHANGED <<exchangeFrame, points, skipped>>

(***************************************************************************)
(* A request the client gave up reaches the server after all.              *)
(***************************************************************************)
LateRequest ==
    /\ \E request \in late : /\ TakenIn(request)
                             /\ late' = late \ {request}
    /\ UNCHANGED <<exchangeFrame, post, faults>>

\* Mutant: a client error is not told from success.
interpret_response_lax(status) ==
    CASE status \in {0, 200, 202} -> "accepted"
      [] status = 400             -> "rejected"
      [] OTHER                    -> "transient"

interpret_response(status) ==
    CASE status \in {200, 202} -> "accepted"
      [] status = 400          -> "rejected"
      [] OTHER                 -> "transient"

Answer(result) ==
    /\ pc = "wait" /\ post.state = "answered"
    /\ interpret_response(post.status) = result
    /\ post' = Idle
-----------------------------------------------------------------------------
(***************************************************************************)
(* The rest of HttpUploader::upload and maybe_flush.                       *)
(***************************************************************************)
FlushAccepted ==
    /\ batch # <<>> /\ Answer("accepted")
    /\ mark_flushed(elapsed)
    /\ reset_backoff_after_success
    /\ accepted_upload_count_' = accepted_upload_count_ + 1
    /\ batch' = <<>> /\ elapsed' = 0
    /\ pc' = "retry"
    /\ UNCHANGED <<bound, buffer, storeVars, points, skipped, c, peeked, late,
                   faults, history>>

FlushRejected ==
    /\ batch # <<>> /\ Answer("rejected")
    /\ mark_flushed(elapsed)
    /\ lost' = lost \cup Members(batch)
    /\ batch' = <<>> /\ elapsed' = 0
    /\ pc' = "retry"
    /\ UNCHANGED <<bound, buffer, storeVars, points, skipped, backoffVars,
                   accepted_upload_count_, c, peeked, late, faults,
                   reads, produced, reading>>

\* Mutant: the first sample of the batch is not persisted.
ToPersistTail == Tail(batch)

ToPersist == batch

FlushFailed ==
    /\ batch # <<>> /\ Answer("transient")
    /\ batch' = ToPersist /\ elapsed' = 0
    /\ pc' = "persist"
    /\ UNCHANGED <<bound, buffer, policyVars, storeVars, points, skipped, backoffVars,
                   accepted_upload_count_, c, peeked, late, faults, history>>

(***************************************************************************)
(* persist_all, a row at a time; a row that cannot be written is skipped.  *)
(***************************************************************************)
PersistRow ==
    /\ pc = "persist" /\ batch # <<>>
    /\ \/ /\ StoreEnqueue(Head(batch))
          /\ UNCHANGED <<lost, faults>>
       \/ /\ Fault
          /\ lost' = lost \cup {Head(batch)}
          /\ UNCHANGED storeVars
    /\ batch' = Tail(batch)
    /\ UNCHANGED <<bound, buffer, policyVars, points, skipped, backoffVars,
                   accepted_upload_count_, pc, c, peeked, post, elapsed, late,
                   reads, produced, reading>>

PersistDone ==
    /\ pc = "persist" /\ batch = <<>>
    /\ advance_backoff_after_failure
    /\ pc' = "retry"
    /\ UNCHANGED <<bound, buffer, policyVars, storeVars, points, skipped,
                   accepted_upload_count_, c, batch, peeked, post, elapsed,
                   late, faults, history>>
-----------------------------------------------------------------------------
(***************************************************************************)
(* The rest of HttpUploader::retry_pending and maybe_retry.                *)
(***************************************************************************)
RetryFailed ==
    /\ peeked # <<>>
    /\ Answer("transient") \/ Answer("rejected")
    /\ advance_backoff_after_failure
    /\ peeked' = <<>>
    /\ pc' = "sleep"
    /\ UNCHANGED <<bound, buffer, policyVars, storeVars, points, skipped,
                   accepted_upload_count_, c, batch, elapsed, late, faults,
                   history>>

RetryAccepted ==
    /\ peeked # <<>> /\ Answer("accepted")
    /\ pc' = "ack"
    /\ UNCHANGED <<bound, buffer, policyVars, storeVars, points, skipped, backoffVars,
                   accepted_upload_count_, c, batch, peeked, elapsed, late,
                   faults, history>>

(***************************************************************************)
(* acknowledge() row by row; a DELETE that fails leaves its row behind.    *)
(***************************************************************************)
AckRow ==
    /\ pc = "ack" /\ peeked # <<>>
    /\ \/ acknowledge(Head(peeked).id) /\ UNCHANGED faults
       \/ Fault /\ UNCHANGED storeVars
    /\ peeked' = Tail(peeked)
    /\ UNCHANGED <<bound, buffer, policyVars, points, skipped, backoffVars,
                   accepted_upload_count_, pc, c, batch, post, elapsed, late,
                   history>>

\* Mutant: the retry goes on until the backlog is empty.
AckDoneGoesOn ==
    /\ pc = "ack" /\ peeked = <<>>
    /\ reset_backoff_after_success
    /\ accepted_upload_count_' = accepted_upload_count_ + 1
    /\ pc' = "retry"
    /\ UNCHANGED <<bound, buffer, policyVars, storeVars, points, skipped, c, batch, peeked,
                   post, elapsed, late, faults, history>>

AckDone ==
    /\ pc = "ack" /\ peeked = <<>>
    /\ reset_backoff_after_success
    /\ accepted_upload_count_' = accepted_upload_count_ + 1
    /\ pc' = "sleep"
    /\ UNCHANGED <<bound, buffer, policyVars, storeVars, points, skipped, c, batch, peeked,
                   post, elapsed, late, faults, history>>
-----------------------------------------------------------------------------
(***************************************************************************)
(* configure(), with the same channels: the ring and the policy start      *)
(* afresh, the store is opened again.  It may give up half-way, at the     *)
(* store or at a driver: the channels before that one stay bound.          *)
(***************************************************************************)
Configures ==
    /\ buffer' = <<>>
    /\ Reconfigure
    /\ reset_backoff_after_success
    /\ accepted_upload_count_' = 0
    /\ reading' = [ch \in Channel |-> <<>>]
    /\ c' = 1 /\ batch' = <<>> /\ peeked' = <<>> /\ post' = Idle /\ elapsed' = 0
    /\ UNCHANGED <<points, skipped, reads, produced>>

(***************************************************************************)
(* On SIGHUP, between two ticks; the next tick follows at once.            *)
(***************************************************************************)
Reload ==
    /\ pc = "sleep"
    /\ Configures
    /\ lost' = lost \cup Members(buffer)
    /\ \/ bound' = Len(Order) /\ UNCHANGED faults
       \/ bound' \in 0..(Len(Order) - 1) /\ Fault
    /\ pc' = IF bound' = 0 THEN "sleep" ELSE "dispatch"
    /\ UNCHANGED <<storeVars, late>>

(***************************************************************************)
(* The process dies (or stops: it does not flush on SIGTERM) and is        *)
(* started again.  A configure() that fails then leaves an empty schedule, *)
(* as if no channel were bound.  A request under way may still reach the   *)
(* server.                                                                 *)
(***************************************************************************)
Restarts ==
    /\ Fault
    /\ Configures
    /\ bound' \in {0, Len(Order)}
    /\ pc' = "sleep"
    /\ late' \in IF pc = "wait" /\ post.state = "sent"
                 THEN {late, late \cup {Request}} ELSE {late}

Crash ==
    /\ Restarts
    /\ lost' = lost \cup Members(buffer) \cup Members(batch)
    /\ UNCHANGED storeVars

(***************************************************************************)
(* The machine loses power, and the store what its log had not brought to  *)
(* the disk.  The log may do so at any moment.                             *)
(***************************************************************************)
OnDisk == {synced.rows[k].sample : k \in DOMAIN synced.rows}

PowerLoss ==
    /\ PowerMayFail
    /\ Restarts
    /\ RolledBack
    /\ lost' = lost \cup Members(buffer) \cup Members(batch) \cup (Stored \ OnDisk)

LogReachesDisk ==
    /\ PowerMayFail /\ faults < MaxFaults
    /\ LogSynced
    /\ UNCHANGED <<bound, buffer, policyVars, points, skipped, backoffVars,
                   accepted_upload_count_, tickVars, late, faults, history>>

ClockTicks ==
    /\ pc \in {"sleep", "wait"}
    /\ PolicyAges
    /\ retry_in' = IF retry_in = 0 THEN 0 ELSE retry_in - 1
    /\ elapsed' = IF pc = "wait" /\ batch # <<>> THEN Younger(elapsed + 1, AgeLimit)
                                                ELSE elapsed
    /\ UNCHANGED <<bound, buffer, storeVars, points, skipped, retry_attempt_,
                   accepted_upload_count_, pc, c, batch, peeked, post, late,
                   faults, history>>

(***************************************************************************)
(* What the daemon's thread does by itself.                                *)
(***************************************************************************)
DaemonStep ==
    \/ Wake \/ NotDue \/ DispatchDone
    \/ \E ch \in Channel : \E values \in Readings[ch] : poll_channel(values)
    \/ FlushNotNeeded \/ FlushPost \/ RetryNotDue \/ PeekFails \/ RetryPost
    \/ FlushAccepted \/ FlushRejected \/ FlushFailed \/ PersistRow \/ PersistDone
    \/ RetryFailed \/ RetryAccepted \/ AckRow \/ AckDone

Next ==
    \/ DaemonStep
    \/ ServerAccepts \/ ServerFails \/ TransferFails \/ LateRequest
    \/ Reload \/ Crash \/ PowerLoss \/ LogReachesDisk
    \/ ClockTicks

Spec == Init /\ [][Next]_vars

(***************************************************************************)
(* The daemon's thread runs, a server that does not fail answers, time     *)
(* passes.                                                                 *)
(***************************************************************************)
FairSpec == /\ Spec
            /\ WF_vars(DaemonStep) /\ WF_vars(ServerAccepts)
            /\ SF_vars(ClockTicks)
-----------------------------------------------------------------------------
Sample == UNION {Members(SamplesOf(ch, stamp)) : ch \in Channel, stamp \in 0..MaxReads}

Unlabelled == {s \in Sample : ~HasUnit(s)}

(***************************************************************************)
(* The buffer, the rows, the policy's state and the clocks stay in range,  *)
(* and the server passes over none but samples without a unit.             *)
(***************************************************************************)
TypeOK ==
    /\ PolicyTypeOK
    /\ buffer \in Seq(Sample) /\ Len(buffer) <= MaxBatch
    /\ batch \in Seq(Sample) /\ Len(batch) <= MaxBatch
    /\ rows \in Seq([id : Nat \ {0}, sample : Sample])
    /\ peeked \in Seq([id : Nat \ {0}, sample : Sample]) /\ Len(peeked) <= MaxBatch
    /\ next_id \in Nat \ {0}
    /\ synced \in [rows : Seq([id : Nat \ {0}, sample : Sample]), next_id : Nat \ {0}]
    /\ bound \in 0..Len(Order)
    /\ points \subseteq Sample
    /\ skipped \subseteq Unlabelled
    /\ late \subseteq Seq(Sample)
    /\ retry_attempt_ \in 0..Len(Backoff)
    /\ retry_in \in Nat
    /\ accepted_upload_count_ \in Nat
    /\ pc \in {"sleep", "dispatch", "flush", "wait", "persist", "retry", "ack"}
    /\ c \in 1..(Len(Order) + 1)
    /\ post \in [state : {"none", "sent", "answered"},
                 status : {0, 202, 400} \cup FailureCodes]
    /\ elapsed \in 0..AgeLimit
    /\ reads \in 0..MaxReads /\ faults \in 0..MaxFaults
    /\ produced \subseteq Sample /\ lost \subseteq produced

(***************************************************************************)
(* No silent loss: every sample a driver returned is in the ring, in the   *)
(* batch being uploaded, in SQLite or on the server, unless the node gave  *)
(* it up at one of the places where the code does (overflow, a 400, an     *)
(* INSERT that failed, reload, death of the process), or the server passed *)
(* it over because it has no unit.                                         *)
(***************************************************************************)
NoSilentLoss ==
    produced \subseteq Members(buffer) \cup Members(batch) \cup Stored
                      \cup points \cup skipped \cup lost

(***************************************************************************)
(* The node never holds a sample twice: a flush that failed after the      *)
(* server had stored it, a partial persist or a partial acknowledge does   *)
(* not put a second copy in the ring or in pending_uploads, and what was   *)
(* given up is not kept.                                                   *)
(***************************************************************************)
HeldOnce ==
    /\ Cardinality(Stored) = Len(rows)
    /\ Cardinality(Members(buffer)) = Len(buffer)
    /\ Members(buffer) \cap Members(batch) = {}
    /\ Stored \cap (Members(buffer) \cup Members(batch)) = {}
    /\ lost \cap (Stored \cup Members(buffer) \cup Members(batch)) = {}

(***************************************************************************)
(* SQLite rows are durable: whatever fails or dies, a row only goes when   *)
(* the server has its sample ("On success, delete acknowledged rows") or   *)
(* has passed it over, or in a loss of power before the log brought it to  *)
(* the disk.                                                               *)
(***************************************************************************)
RowsLeaveDelivered ==
    [][\A s \in Stored \ Stored' : \/ s \in Delivered
                                   \/ s \in lost' /\ s \notin OnDisk]_vars

(***************************************************************************)
(* The node keeps the promise of SampleLife: polls, flushes, retries,      *)
(* reloads, deaths and losses of power take a sample from one of its       *)
(* places to the next as SampleLife allows, and no other way.              *)
(***************************************************************************)
Life == INSTANCE SampleLife WITH held <- Members(buffer) \cup Members(batch),
                                 stored <- Stored, delivered <- Delivered

ImplementsLife == Life!Spec

(***************************************************************************)
(* The ring is never left full between ticks, so the next reads find room  *)
(* as long as they fit in it together.                                     *)
(***************************************************************************)
RingHasRoom == Uploading /\ pc = "sleep" => Len(buffer) < MaxBatch

(***************************************************************************)
(* "realtime: upload each sample immediately after enqueue": no tick ends  *)
(* with a realtime sample, or with one that triggered an on_change upload, *)
(* still in the ring.                                                      *)
(***************************************************************************)
UrgentNotHeld ==
    Uploading /\ pc = "sleep" =>
       /\ \A s \in Members(buffer) :
             ~(Sync[s.channel].remote /\ Sync[s.channel].mode = "realtime")
       /\ buffer # <<>> => ~any_pending_realtime_ /\ ~any_pending_on_change_

(***************************************************************************)
(* The two flags should_flush() reads agree with the flags of the          *)
(* channels, in every interleaving of samples, flushes and failures.       *)
(***************************************************************************)
FlagsAgree ==
    /\ any_pending_realtime_ <=> \E ch \in Channel : states[ch].pending_realtime
    /\ any_pending_on_change_ <=> \E ch \in Channel : states[ch].pending_on_change

(***************************************************************************)
(* An on_change channel that measures one quantity and keeps returning the *)
(* same value does not ask for another upload ("Upload only when abs(value *)
(* - last_uploaded) > threshold").  Two quantities of one channel would be *)
(* compared with each other, and a steady pair asks at every read.         *)
(***************************************************************************)
SteadyReadingsQuiet ==
    [][\A ch \in Channel :
          /\ Len(Reads[ch]) <= 1
          /\ pc = "dispatch" /\ reads' # reads /\ Order[c] = ch
          /\ reading[ch] # <<>> /\ reading'[ch] = reading[ch]
          => (states'[ch].pending_on_change => states[ch].pending_on_change)]_vars

(***************************************************************************)
(* tick() makes at most one POST for the ring and one for the backlog,     *)
(* however long the backlog is and however the exchanges end, before the   *)
(* channels are polled again.  StepsLeft bounds the steps left in a tick:  *)
(* each one brings its end closer, or leaves the tick where it is.         *)
(***************************************************************************)
ExchangeLeft == CASE post.state = "sent" -> 3
                  [] post.state = "answered" /\ post.status # 0 -> 2
                  [] OTHER -> 1

StepsLeft ==
    CASE pc = "dispatch"                -> 2 * MaxBatch + 14 + Len(Order) - c
      [] pc = "flush"                   -> 2 * MaxBatch + 12
      [] pc = "wait" /\ batch # <<>>    -> 2 * MaxBatch + 8 + ExchangeLeft
      [] pc = "persist"                 -> Len(batch) + MaxBatch + 7
      [] pc = "retry"                   -> MaxBatch + 6
      [] pc = "wait" /\ batch = <<>>    -> MaxBatch + 2 + ExchangeLeft
      [] pc = "ack"                     -> Len(peeked) + 1
      [] OTHER                          -> 0

TickBounded ==
    [][pc # "sleep" => \/ StepsLeft' \in 0..(StepsLeft - 1)
                       \/ UNCHANGED <<pc, c, batch, peeked, post>>]_vars

(***************************************************************************)
(* The backlog drains: once failures cease, every pending row reaches the  *)
(* server and is deleted, whatever backoff the failures left behind,       *)
(* unless a configure() that failed left the node without an uploader.     *)
(***************************************************************************)
BacklogDrains == rows # <<>> ~> (rows = <<>> \/ ~Uploading)

(***************************************************************************)
(* A batch or realtime sample of a remote channel does not stay in the     *)
(* ring for ever, even when no further sample arrives, with the same       *)
(* exception.                                                              *)
(***************************************************************************)
Uploadable(s) == Sync[s.channel].remote /\ Sync[s.channel].mode # "on_change"

RingDrains ==
    (\E s \in Members(buffer) : Uploadable(s))
       ~> (~Uploading \/ ~(\E s \in Members(buffer) : Uploadable(s)))
-----------------------------------------------------------------------------
(***************************************************************************)
(* What the repository's documents say of the pipeline.                    *)
(***************************************************************************)

(***************************************************************************)
(* docs/specification.md 9.2: on 400 "edge logs and drops batch".          *)
(***************************************************************************)
RejectedBatchDropped ==
    [][interpret_response(post.status) = "rejected" /\ post' = Idle /\ pc = "wait"
       => Members(Request) \cap (Stored' \cup Members(buffer')) = {}]_vars

(***************************************************************************)
(* docs/specification.md 9.2: on 202 "Rows persisted; edge may trim        *)
(* buffer".                                                                *)
(***************************************************************************)
AcceptedMeansPersisted ==
    pc = "wait" /\ post.status = 202 => Members(Request) \subseteq points
=============================================================================
