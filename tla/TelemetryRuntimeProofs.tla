----------------------- MODULE TelemetryRuntimeProofs ------------------------
(***************************************************************************)
(* What the upload pipeline of a node does for every set of channels, ring *)
(* size, backoff table and number of failures: the policy's flags are      *)
(* coherent, the ring is empty when its turn says so, no sample is held    *)
(* twice or lost unaccounted for, the pipeline implements SampleLife, and  *)
(* a tick makes at most two POSTs.                                         *)
(*                                                                         *)
(* The inductive invariant has five parts, each kept by the steps of the   *)
(* others: the types, the policy, where the tick is, where the samples     *)
(* are, and what an answer of the server means.                            *)
(***************************************************************************)
EXTENDS RuntimeLemmas

(***************************************************************************)
(* TypeOK in three parts.                                                  *)
(***************************************************************************)
PlainTypeOK ==
    /\ bound \in 0..Len(Order)
    /\ retry_attempt_ \in 0..Len(Backoff)
    /\ retry_in \in Nat
    /\ accepted_upload_count_ \in Nat
    /\ pc \in {"sleep", "dispatch", "flush", "wait", "persist", "retry", "ack"}
    /\ c \in 1..(Len(Order) + 1)
    /\ post \in [state : {"none", "sent", "answered"},
                 status : {0, 202, 400} \cup FailureCodes]
    /\ elapsed \in 0..AgeLimit
    /\ faults \in 0..MaxFaults

QueueTypeOK ==
    /\ buffer \in Seq(Sample) /\ Len(buffer) <= MaxBatch
    /\ batch \in Seq(Sample) /\ Len(batch) <= MaxBatch
    /\ rows \in Seq(Row)
    /\ peeked \in Seq(Row) /\ Len(peeked) <= MaxBatch
    /\ next_id \in Nat \ {0}
    /\ synced \in [rows : Seq(Row), next_id : Nat \ {0}]
    /\ points \subseteq Sample /\ skipped \subseteq Unlabelled
    /\ late \subseteq Seq(Sample)
    /\ reads \in 0..MaxReads
    /\ produced \subseteq Sample /\ lost \subseteq produced

(***************************************************************************)
(* Where the tick is tells what it has in hand: a batch on its way or      *)
(* being persisted, which left the ring empty; peeked rows on their way or *)
(* being acknowledged; an exchange only while it waits.                    *)
(***************************************************************************)
InHand ==
    /\ pc = "wait" => post.state # "none" /\ (batch = <<>> <=> peeked # <<>>)
    /\ pc # "wait" => post = Idle
    /\ batch # <<>> => pc \in {"wait", "persist"}
    /\ peeked # <<>> => pc \in {"wait", "ack"}
    /\ batch # <<>> \/ pc = "persist" => buffer = <<>>

(***************************************************************************)
(* Between a flush and the next reads nothing in the ring asks for one.    *)
(***************************************************************************)
Flushed ==
    Uploading /\ pc \notin {"dispatch", "flush"} =>
       /\ Len(buffer) < MaxBatch
       /\ buffer # <<>> => ~any_pending_realtime_ /\ ~any_pending_on_change_

(***************************************************************************)
(* A realtime sample in the ring has raised the flag.                      *)
(***************************************************************************)
RealtimeFlagged ==
    \A s \in Members(buffer) : Immediate(s.channel) => any_pending_realtime_

(***************************************************************************)
(* Every place holds samples that were read before, each one once.         *)
(***************************************************************************)
InMemory == Members(buffer) \cup Members(batch)
Disk     == Stored \cup OnDisk

Known ==
    /\ \A s \in produced : s.stamp < reads
    /\ InMemory \cup Disk \cup lost \cup points \subseteq produced
    /\ \A r \in Members(peeked) : r.sample \in produced
    /\ \A request \in late : Members(request) \subseteq produced

Apart ==
    /\ Distinct(buffer) /\ Distinct(batch)
    /\ Members(buffer) \cap Members(batch) = {}
    /\ InMemory \cap Disk = {}
    /\ lost \cap (InMemory \cup Disk) = {}

Table ==
    /\ Distinct(rows) /\ RowsDiffer(Members(rows))
    /\ Distinct(synced.rows) /\ RowsDiffer(Members(synced.rows))
    /\ \A r \in Members(rows) : r.id < next_id
    /\ \A r \in Members(synced.rows) : r.id < synced.next_id
    /\ \A r \in Members(peeked), w \in Members(rows) : w.id = r.id => w = r

(***************************************************************************)
(* A sample that was read is somewhere, or the server has its key or has   *)
(* passed it over, or it was given up.  With the rows on the disk that are *)
(* no longer in the table the server is done.                              *)
(***************************************************************************)
Accounted ==
    /\ produced \subseteq InMemory \cup Stored \cup Delivered \cup lost
    /\ OnDisk \subseteq Stored \cup Delivered

(***************************************************************************)
(* A 202 was only given for what the server is done with.                  *)
(***************************************************************************)
AnswerTrue ==
    /\ pc = "wait" /\ post.status = 202 => Members(Request) \subseteq Delivered
    /\ pc = "ack" => \A r \in Members(peeked) : r.sample \in Delivered

(***************************************************************************)
(* The inductive invariant.                                                *)
(***************************************************************************)
RuntimeInv ==
    /\ PlainTypeOK /\ QueueTypeOK
    /\ PolicyTypeOK /\ FlagsAgree
    /\ InHand /\ Flushed /\ RealtimeFlagged
    /\ Known /\ Apart /\ Table /\ Accounted
    /\ AnswerTrue

-----------------------------------------------------------------------------
(***************************************************************************)
(* The backoff stays within its table, and the age within its limit.       *)
(***************************************************************************)
LEMMA BackoffInTable ==
    /\ PlainTypeOK /\ advance_backoff_after_failure
          => retry_attempt_' \in 0..Len(Backoff) /\ retry_in' \in Nat
    /\ reset_backoff_after_success => retry_attempt_' \in 0..Len(Backoff) /\ retry_in' \in Nat
  <1>1. Len(Backoff) \in Nat \ {0} /\ \A k \in 1..Len(Backoff) : Backoff[k] \in Nat
    BY RuntimeAssumption
  <1>2. \A k \in 0..Len(Backoff) : /\ Younger(k + 1, Len(Backoff)) \in 0..Len(Backoff)
                                   /\ backoff_delay(k + 1) \in Nat
    BY <1>1 DEF Younger, backoff_delay
  <1>3. PlainTypeOK /\ advance_backoff_after_failure
           => retry_attempt_' \in 0..Len(Backoff) /\ retry_in' \in Nat
    BY <1>2 DEF PlainTypeOK, advance_backoff_after_failure
  <1>4. 0 \in 0..Len(Backoff) /\ 0 \in Nat
    BY <1>1
  <1>5. reset_backoff_after_success => retry_attempt_' \in 0..Len(Backoff) /\ retry_in' \in Nat
    BY <1>4, Zenon DEF reset_backoff_after_success
  <1> QED
    BY <1>3, <1>5

(***************************************************************************)
(* The counters, the clocks and the place of the tick stay in range.       *)
(***************************************************************************)
LEMMA PlainStep == PlainTypeOK /\ [Next]_vars => PlainTypeOK'
  <1> SUFFICES ASSUME PlainTypeOK, [Next]_vars PROVE PlainTypeOK'
    OBVIOUS
  <1> USE DEF PlainTypeOK
  <1>0. /\ Len(Order) \in Nat \ {0} /\ MaxFaults \in Nat
        /\ FailureCodes \subseteq Nat /\ AgeLimit \in Nat
    BY RuntimeAssumption, AgeLimitIsLongest
  <1>1. CASE Wake
    BY <1>0, <1>1 DEF Wake, backoffVars
  <1>2. CASE NotDue
    BY <1>0, <1>2 DEF NotDue, backoffVars
  <1>3. CASE DispatchDone
    BY <1>3 DEF DispatchDone, backoffVars
  <1>4. ASSUME NEW ch \in Channel, NEW values \in Readings[ch], poll_channel(values)
        PROVE  PlainTypeOK'
    BY <1>0, <1>4 DEF poll_channel, backoffVars
  <1>5. CASE FlushNotNeeded
    BY <1>5 DEF FlushNotNeeded, backoffVars
  <1>6. CASE FlushPost
    BY <1>0, <1>6 DEF FlushPost, backoffVars, Sent
  <1>7. CASE RetryNotDue
    BY <1>0, <1>7 DEF RetryNotDue, backoffVars, Fault
  <1>8. CASE PeekFails
    BY <1>0, <1>8, BackoffInTable DEF PeekFails, Fault
  <1>9. CASE RetryPost
    BY <1>0, <1>9 DEF RetryPost, backoffVars, Fault, Sent
  <1>10. CASE FlushAccepted
    BY <1>0, <1>10, BackoffInTable DEF FlushAccepted, Answer, Idle
  <1>11. CASE FlushRejected
    BY <1>0, <1>11 DEF FlushRejected, Answer, Idle, backoffVars
  <1>12. CASE FlushFailed
    BY <1>0, <1>12 DEF FlushFailed, Answer, Idle, backoffVars
  <1>13. CASE PersistRow
    BY <1>0, <1>13 DEF PersistRow, Fault, backoffVars
  <1>14. CASE PersistDone
    BY <1>14, BackoffInTable DEF PersistDone
  <1>15. CASE RetryFailed
    BY <1>15, BackoffInTable DEF RetryFailed, Answer, Idle
  <1>16. CASE RetryAccepted
    BY <1>16 DEF RetryAccepted, Answer, Idle, backoffVars
  <1>17. CASE AckRow
    BY <1>0, <1>17 DEF AckRow, Fault, backoffVars
  <1>18. CASE AckDone
    BY <1>18, BackoffInTable DEF AckDone
  <1>19. CASE ServerAccepts
    BY <1>19 DEF ServerAccepts, exchangeFrame, backoffVars
  <1>20. CASE ServerFails
    BY <1>0, <1>20 DEF ServerFails, exchangeFrame, backoffVars, Fault
  <1>21. CASE TransferFails
    BY <1>0, <1>21 DEF TransferFails, exchangeFrame, backoffVars, Fault
  <1>22. CASE LateRequest
    BY <1>22 DEF LateRequest, exchangeFrame, backoffVars
  <1>23. ASSUME Configures
         PROVE  /\ retry_attempt_' \in 0..Len(Backoff) /\ retry_in' \in Nat
                /\ accepted_upload_count_' \in Nat /\ c' \in 1..(Len(Order) + 1)
                /\ post' = Idle /\ elapsed' \in 0..AgeLimit
    BY <1>0, <1>23, BackoffInTable DEF Configures
  <1>24. CASE Reload
    <2>1. Configures
      BY <1>24 DEF Reload
    <2>2. bound' \in 0..Len(Order) /\ faults' \in 0..MaxFaults
      BY <1>0, <1>24 DEF Reload, Fault
    <2>3. pc' \in {"sleep", "dispatch"}
      BY <1>24, Zenon DEF Reload
    <2> QED
      BY <1>23, <2>1, <2>2, <2>3 DEF Idle
  <1>25. CASE Restarts
    BY <1>0, <1>23, <1>25 DEF Restarts, Fault, Idle
  <1>26. CASE LogReachesDisk
    BY <1>26 DEF LogReachesDisk, backoffVars, tickVars
  <1>27. CASE ClockTicks
    BY <1>0, <1>27 DEF ClockTicks, Younger
  <1>28. CASE UNCHANGED vars
    BY <1>28 DEF vars, backoffVars, tickVars
  <1> QED
    BY <1>1, <1>2, <1>3, <1>4, <1>5, <1>6, <1>7, <1>8, <1>9, <1>10, <1>11, <1>12, <1>13,
       <1>14, <1>15, <1>16, <1>17, <1>18, <1>19, <1>20, <1>21, <1>22, <1>24, <1>25, <1>26,
       <1>27, <1>28
    DEF Next, DaemonStep, Crash, PowerLoss

-----------------------------------------------------------------------------
(***************************************************************************)
(* What a poll reads: samples of the channel it looks at, and a value for  *)
(* each of them.                                                           *)
(***************************************************************************)
LEMMA PollReads ==
    ASSUME NEW values, PlainTypeOK, QueueTypeOK, poll_channel(values)
    PROVE  \E ch \in Channel :
              /\ ch = Order[c] /\ values \in Seq(Value) /\ values \in Readings[ch]
              /\ values = <<>> <=> Len(Reads[ch]) = 0
              /\ SamplesOf(ch, reads) \in Seq(Sample) /\ Distinct(SamplesOf(ch, reads))
              /\ \A s \in Members(SamplesOf(ch, reads)) :
                    s.channel = ch /\ s.stamp = reads /\ values # <<>>
  <1>1. PICK ch : ch = Order[c]
    OBVIOUS
  <1>2. c \in 1..Len(Order) /\ reads \in 0..MaxReads /\ reads < MaxReads
    BY RuntimeAssumption DEF PlainTypeOK, QueueTypeOK, poll_channel
  <1>3. ch \in Channel /\ values \in Readings[ch]
    BY <1>1, <1>2, RuntimeAssumption DEF poll_channel
  <1>4. values \in [1..Len(Reads[ch]) -> Value] /\ Len(Reads[ch]) \in Nat
    BY <1>3, RuntimeAssumption
  <1>5. values \in Seq(Value) /\ Len(values) = Len(Reads[ch])
    BY <1>4, FunctionIsSequence
  <1>6. values = <<>> <=> Len(Reads[ch]) = 0
    BY <1>5
  <1>7. PICK t \in 0..MaxReads : t = reads
    BY <1>2
  <1>8. PICK new : new = SamplesOf(ch, t)
    OBVIOUS
  <1>9. /\ new \in Seq(Sample) /\ Distinct(new) /\ Len(new) = Len(Reads[ch])
        /\ \A s \in Members(new) : s.channel = ch /\ s.stamp = t
    BY <1>3, <1>8, ReadIsSamples
  <1>10. ASSUME NEW s \in Members(new) PROVE values # <<>>
    <2>1. DOMAIN new # {} /\ DOMAIN new = 1..Len(new)
      BY <1>9 DEF Members
    <2> QED
      BY <1>5, <1>9, <2>1
  <1> QED
    BY <1>1, <1>3, <1>5, <1>6, <1>7, <1>8, <1>9, <1>10

(***************************************************************************)
(* The only steps that touch the policy.                                   *)
(***************************************************************************)
PolicyStep ==
    \/ \E values : poll_channel(values)
    \/ FlushAccepted \/ FlushRejected \/ Reload \/ Crash \/ PowerLoss \/ ClockTicks

(***************************************************************************)
(* Every other step leaves the policy alone.                               *)
(***************************************************************************)
LEMMA PolicyFrame == [Next]_vars => UNCHANGED policyVars \/ PolicyStep
  <1> SUFFICES ASSUME [Next]_vars, ~PolicyStep PROVE UNCHANGED policyVars
    OBVIOUS
  <1>1. CASE UNCHANGED vars
    BY <1>1 DEF vars
  <1>2. CASE Wake \/ NotDue \/ DispatchDone \/ FlushNotNeeded \/ FlushPost
    BY <1>2, Zenon DEF Wake, NotDue, DispatchDone, FlushNotNeeded, FlushPost
  <1>3. CASE RetryNotDue \/ PeekFails \/ RetryPost \/ FlushFailed
    BY <1>3, Zenon DEF RetryNotDue, PeekFails, RetryPost, FlushFailed
  <1>4. CASE PersistRow \/ PersistDone \/ RetryFailed \/ RetryAccepted \/ AckRow \/ AckDone
    BY <1>4, Zenon DEF PersistRow, PersistDone, RetryFailed, RetryAccepted, AckRow, AckDone
  <1>5. CASE ServerAccepts \/ ServerFails \/ TransferFails \/ LateRequest
    BY <1>5, Zenon DEF ServerAccepts, ServerFails, TransferFails, LateRequest, exchangeFrame
  <1>6. CASE LogReachesDisk
    BY <1>6 DEF LogReachesDisk
  <1> QED
    BY <1>1, <1>2, <1>3, <1>4, <1>5, <1>6, Zenon DEF Next, DaemonStep, PolicyStep

(***************************************************************************)
(* mark_flushed() and clear() leave no flag behind.                        *)
(***************************************************************************)
NoFlags ==
    /\ any_pending_realtime_ = FALSE /\ any_pending_on_change_ = FALSE
    /\ \A ch \in Channel : ~states[ch].pending_realtime /\ ~states[ch].pending_on_change

(***************************************************************************)
(* configure_channel() gives every channel a state without flags.          *)
(***************************************************************************)
LEMMA ConfiguredIsState ==
    /\ DOMAIN Configured = Channel
    /\ \A ch \in Channel : /\ Configured[ch] \in RuntimeState(ch)
                           /\ ~Configured[ch].pending_realtime
                           /\ ~Configured[ch].pending_on_change
  <1>1. \A ch \in Channel : Sync[ch].interval \in Nat
    BY AgeLimitIsLongest
  <1> QED
    BY <1>1 DEF Configured, RuntimeState

(***************************************************************************)
(* clear() and configure_channel() leave no flag behind.                   *)
(***************************************************************************)
LEMMA Reconfigured == Reconfigure => PolicyTypeOK' /\ NoFlags'
  <1> SUFFICES ASSUME Reconfigure PROVE PolicyTypeOK' /\ NoFlags'
    OBVIOUS
  <1>1. PICK st : st = Configured
    OBVIOUS
  <1>2. states' = st /\ any_pending_realtime_' = FALSE /\ any_pending_on_change_' = FALSE
    BY <1>1 DEF Reconfigure
  <1>3. /\ DOMAIN st = Channel
        /\ \A ch \in Channel : /\ st[ch] \in RuntimeState(ch)
                               /\ ~st[ch].pending_realtime /\ ~st[ch].pending_on_change
    BY <1>1, ConfiguredIsState, Zenon
  <1> QED
    BY <1>2, <1>3, Zenon DEF PolicyTypeOK, NoFlags, RuntimeState

(***************************************************************************)
(* mark_flushed() leaves no flag behind.                                   *)
(***************************************************************************)
LEMMA MarkedFlushed ==
    ASSUME NEW ticks \in Nat, PolicyTypeOK, mark_flushed(ticks)
    PROVE  PolicyTypeOK' /\ NoFlags'
  <1>1. ASSUME NEW ch \in Channel
        PROVE  /\ states'[ch] \in RuntimeState(ch)
               /\ ~states'[ch].pending_realtime /\ ~states'[ch].pending_on_change
    <2>1. PICK st \in RuntimeState(ch) : st = states[ch]
      BY DEF PolicyTypeOK
    <2>2. PICK t : t = Younger(ticks, Sync[ch].interval)
      OBVIOUS
    <2>3. t \in 0..Sync[ch].interval
      BY <2>2, AgeLimitIsLongest DEF Younger
    <2>4. states'[ch] = [st EXCEPT !.pending_realtime = FALSE, !.pending_on_change = FALSE, !.age = t]
      BY <2>1, <2>2 DEF mark_flushed
    <2> QED
      BY <2>3, <2>4 DEF RuntimeState
  <1>2. DOMAIN states' = Channel
    BY DEF mark_flushed
  <1> QED
    BY <1>1, <1>2, Zenon DEF PolicyTypeOK, NoFlags, RuntimeState, mark_flushed

(***************************************************************************)
(* The passage of time changes ages only.                                  *)
(***************************************************************************)
LEMMA AgesKeep ==
    ASSUME PolicyTypeOK, FlagsAgree, PolicyAges
    PROVE  PolicyTypeOK' /\ FlagsAgree'
  <1>1. ASSUME NEW ch \in Channel
        PROVE  /\ states'[ch] \in RuntimeState(ch)
               /\ states'[ch].pending_realtime = states[ch].pending_realtime
               /\ states'[ch].pending_on_change = states[ch].pending_on_change
    <2>1. PICK st \in RuntimeState(ch) : st = states[ch]
      BY DEF PolicyTypeOK
    <2>2. PICK t : t = Younger(st.age + 1, Sync[ch].interval)
      OBVIOUS
    <2>3. t \in 0..Sync[ch].interval
      BY <2>2, AgeLimitIsLongest DEF Younger, RuntimeState
    <2>4. states'[ch] = [st EXCEPT !.age = t]
      BY <2>1, <2>2 DEF PolicyAges
    <2> QED
      BY <2>1, <2>3, <2>4 DEF RuntimeState
  <1>2. DOMAIN states' = Channel
    BY DEF PolicyAges
  <1>3. /\ any_pending_realtime_' = any_pending_realtime_
        /\ any_pending_on_change_' = any_pending_on_change_
    BY DEF PolicyAges
  <1>4. PolicyTypeOK'
    BY <1>1, <1>2, <1>3, Zenon DEF PolicyTypeOK, RuntimeState
  <1>5. FlagsAgree'
    BY <1>1, <1>3, Zenon DEF FlagsAgree
  <1> QED
    BY <1>4, <1>5

(***************************************************************************)
(* The flags and the states of the channels, in every step.                *)
(***************************************************************************)
LEMMA PolicyStepKeeps ==
    PlainTypeOK /\ QueueTypeOK /\ PolicyTypeOK /\ FlagsAgree /\ [Next]_vars
       => PolicyTypeOK' /\ FlagsAgree'
  <1> SUFFICES ASSUME PlainTypeOK, QueueTypeOK, PolicyTypeOK, FlagsAgree, [Next]_vars
               PROVE  PolicyTypeOK' /\ FlagsAgree'
    OBVIOUS
  <1>1. NoFlags' => FlagsAgree'
    BY Zenon DEF NoFlags, FlagsAgree
  <1>2. CASE UNCHANGED policyVars
    BY <1>2, Zenon DEF policyVars, PolicyTypeOK, FlagsAgree, RuntimeState
  <1>3. ASSUME NEW values, poll_channel(values) PROVE PolicyTypeOK' /\ FlagsAgree'
    <2>1. PICK ch \in Channel : ch = Order[c] /\ values \in Seq(Value)
      BY <1>3, PollReads
    <2>2. on_samples(ch, values)
      BY <1>3, <2>1 DEF poll_channel
    <2> QED
      BY <2>1, <2>2, OnSamplesKeeps
  <1>4. ASSUME mark_flushed(elapsed) PROVE PolicyTypeOK' /\ FlagsAgree'
    <2>1. elapsed \in Nat
      BY AgeLimitIsLongest DEF PlainTypeOK
    <2>2. PICK ticks \in Nat : ticks = elapsed
      BY <2>1
    <2>3. mark_flushed(ticks)
      BY <1>4, <2>2
    <2> QED
      BY <1>1, <2>3, MarkedFlushed
  <1>5. CASE Reload \/ Crash \/ PowerLoss
    <2>1. Reconfigure
      BY <1>5, Zenon DEF Reload, Crash, PowerLoss, Restarts, Configures
    <2> QED
      BY <1>1, <2>1, Reconfigured
  <1>6. CASE ClockTicks
    <2>1. PolicyAges
      BY <1>6 DEF ClockTicks
    <2> QED
      BY <2>1, AgesKeep
  <1> QED
    BY <1>2, <1>3, <1>4, <1>5, <1>6, PolicyFrame
    DEF PolicyStep, FlushAccepted, FlushRejected

-----------------------------------------------------------------------------
(***************************************************************************)
(* Where the samples are: the part of the invariant that is about them,    *)
(* and the variables it reads.                                             *)
(***************************************************************************)
FlowInv == QueueTypeOK /\ Known /\ Apart /\ Table /\ Accounted

memoryVars == <<buffer, batch, lost>>
readVars   == <<reads, produced>>
queueVars  == <<memoryVars, storeVars, peeked, points, skipped, late, readVars>>

(***************************************************************************)
(* The samples of a table are those of its rows.                           *)
(***************************************************************************)
LEMMA SamplesOfRows ==
    /\ \A rs : {rs[k].sample : k \in DOMAIN rs} = {r.sample : r \in Members(rs)}
    /\ \A rs : Members(Samples(rs)) = {r.sample : r \in Members(rs)}
  <1>1. ASSUME NEW rs
        PROVE  /\ {rs[k].sample : k \in DOMAIN rs} = {r.sample : r \in Members(rs)}
               /\ Members(Samples(rs)) = {r.sample : r \in Members(rs)}
    BY DEF Members, Samples
  <1> QED
    BY <1>1

(***************************************************************************)
(* What the server has, it keeps; and only what it takes in, or a sample   *)
(* it cannot tell from one it has, makes a difference.                     *)
(***************************************************************************)
LEMMA DeliveredGrows ==
    /\ produced \subseteq produced' /\ points \subseteq points' /\ skipped \subseteq skipped'
       => Delivered \subseteq Delivered'
    /\ produced' = produced /\ points' = points /\ skipped' = skipped => Delivered' = Delivered
    /\ Delivered \subseteq produced
    /\ points \subseteq produced => points \subseteq Delivered
  BY DEF Delivered

(***************************************************************************)
(* A step that changes none of those variables keeps that part of the      *)
(* invariant.                                                              *)
(***************************************************************************)
LEMMA FlowFrame == FlowInv /\ UNCHANGED queueVars => FlowInv'
  <1> SUFFICES ASSUME FlowInv, UNCHANGED queueVars PROVE FlowInv'
    OBVIOUS
  <1>1. /\ buffer' = buffer /\ batch' = batch /\ rows' = rows /\ next_id' = next_id
        /\ synced' = synced /\ peeked' = peeked /\ late' = late
        /\ points' = points /\ skipped' = skipped
        /\ reads' = reads /\ produced' = produced /\ lost' = lost
    BY DEF queueVars, memoryVars, readVars, storeVars
  <1>2. InMemory' = InMemory /\ Stored' = Stored /\ OnDisk' = OnDisk /\ Delivered' = Delivered
    BY <1>1 DEF InMemory, Stored, OnDisk, Delivered
  <1>3. QueueTypeOK'
    BY <1>1 DEF FlowInv, QueueTypeOK
  <1>4. Known'
    BY <1>1, <1>2 DEF FlowInv, Known, Disk
  <1>5. Apart'
    BY <1>1, <1>2 DEF FlowInv, Apart, Disk
  <1>6. Table'
    BY <1>1 DEF FlowInv, Table
  <1>7. Accounted'
    BY <1>1, <1>2 DEF FlowInv, Accounted
  <1> QED
    BY <1>3, <1>4, <1>5, <1>6, <1>7 DEF FlowInv

(***************************************************************************)
(* A step that leaves the store and the server alone, and moves samples    *)
(* between the ring, the batch and the ones given up.                      *)
(***************************************************************************)
LEMMA MemoryMoves ==
    ASSUME FlowInv, UNCHANGED <<storeVars, points, skipped, readVars>>,
           late' \subseteq Seq(Sample), \A request \in late' : Members(request) \subseteq produced,
           buffer' \in Seq(Sample), Len(buffer') <= MaxBatch, Distinct(buffer'),
           batch' \in Seq(Sample), Len(batch') <= MaxBatch, Distinct(batch'),
           Members(buffer') \cap Members(batch') = {},
           Members(buffer') \cup Members(batch') \subseteq InMemory,
           lost \subseteq lost', lost' \subseteq lost \cup InMemory,
           lost' \cap (Members(buffer') \cup Members(batch')) = {},
           InMemory \subseteq Members(buffer') \cup Members(batch') \cup lost' \cup Delivered,
           peeked' \in {peeked, <<>>}
    PROVE  FlowInv'
  <1>1. /\ rows' = rows /\ next_id' = next_id /\ synced' = synced
        /\ points' = points /\ skipped' = skipped
        /\ reads' = reads /\ produced' = produced
    BY DEF readVars, storeVars
  <1>2. Stored' = Stored /\ OnDisk' = OnDisk /\ Delivered' = Delivered
    BY <1>1 DEF Stored, OnDisk, Delivered
  <1>3. InMemory' = Members(buffer') \cup Members(batch')
    BY DEF InMemory
  <1>4. Members(peeked') \subseteq Members(peeked) /\ peeked' \in Seq(Row) /\ Len(peeked') <= MaxBatch
    <2>1. CASE peeked' = peeked
      BY <2>1 DEF FlowInv, QueueTypeOK
    <2>2. CASE peeked' = <<>>
      BY <2>2, EmptyQueue, RuntimeAssumption
    <2> QED
      BY <2>1, <2>2
  <1>5. lost' \subseteq produced
    BY DEF FlowInv, Known
  <1>6. QueueTypeOK'
    BY <1>1, <1>4, <1>5 DEF FlowInv, QueueTypeOK
  <1>7. Known'
    BY <1>1, <1>2, <1>3, <1>4, <1>5 DEF FlowInv, Known, Disk
  <1>8. Apart'
    BY <1>1, <1>2, <1>3 DEF FlowInv, Apart, Disk
  <1>9. Table'
    BY <1>1, <1>4 DEF FlowInv, Table
  <1>10. Accounted'
    BY <1>1, <1>2, <1>3 DEF FlowInv, Accounted
  <1> QED
    BY <1>6, <1>7, <1>8, <1>9, <1>10 DEF FlowInv

(***************************************************************************)
(* What is posted are samples that were read.                              *)
(***************************************************************************)
LEMMA RequestKnown ==
    ASSUME QueueTypeOK, Known
    PROVE  /\ Request \in Seq(Sample) /\ Members(Request) \subseteq produced
           /\ batch = <<>> => Members(Request) = {r.sample : r \in Members(peeked)}
  <1>1. CASE batch # <<>>
    BY <1>1 DEF Request, QueueTypeOK, Known, InMemory
  <1>2. CASE batch = <<>>
    <2>1. Request = Samples(peeked) /\ Members(Samples(peeked)) = {r.sample : r \in Members(peeked)}
      BY <1>2, SamplesOfRows DEF Request
    <2>2. Samples(peeked) \in [1..Len(peeked) -> Sample] /\ Len(peeked) \in Nat
      <3>1. PICK q \in Seq(Row) : q = peeked
        BY DEF QueueTypeOK
      <3>2. \A k \in 1..Len(q) : q[k] \in Row /\ q[k].sample \in Sample
        <4>1. \A r \in Row : r.sample \in Sample
          BY DEF Row
        <4> QED
          BY <4>1
      <3>3. DOMAIN q = 1..Len(q) /\ Len(q) \in Nat
        OBVIOUS
      <3> QED
        BY <3>1, <3>2, <3>3 DEF Samples
    <2>3. Samples(peeked) \in Seq(Sample)
      BY <2>2, FunctionIsSequence
    <2> QED
      BY <2>1, <2>3 DEF Known
  <1> QED
    BY <1>1, <1>2

(***************************************************************************)
(* The only status taken for an acceptance is the server's 202.            *)
(***************************************************************************)
LEMMA AcceptedIs202 ==
    ASSUME PlainTypeOK, interpret_response(post.status) = "accepted"
    PROVE  post.status = 202
  <1>1. PICK status : status = post.status
    OBVIOUS
  <1>2. status \in {0, 202, 400} \cup FailureCodes
    BY <1>1 DEF PlainTypeOK
  <1>3. status # 200 /\ (status \in {200, 202} => status = 202)
    BY <1>2, RuntimeAssumption
  <1>4. status \notin {200, 202} => interpret_response(status) # "accepted"
    BY DEF interpret_response
  <1> QED
    BY <1>1, <1>3, <1>4

(***************************************************************************)
(* maybe_flush takes everything from the ring: it never holds more than a  *)
(* batch.                                                                  *)
(***************************************************************************)
LEMMA FlushTakesAll ==
    ASSUME QueueTypeOK, FlushPost
    PROVE  batch' = buffer /\ buffer' = <<>>
  <1>1. PICK q \in Seq(Sample) : q = buffer
    BY DEF QueueTypeOK
  <1>2. Len(q) \in Nat /\ Len(q) <= MaxBatch /\ MaxBatch \in Nat
    BY <1>1, RuntimeAssumption DEF QueueTypeOK
  <1>3. batch' = SubSeq(q, 1, Len(q)) /\ buffer' = SubSeq(q, MaxBatch + 1, Len(q))
    BY <1>1, <1>2 DEF FlushPost, LeftInRing, Younger
  <1>4. SubSeq(q, 1, Len(q)) = q
    BY <1>2
  <1>5. SubSeq(q, MaxBatch + 1, Len(q)) = <<>>
    BY <1>2, SubSeqEmpty
  <1> QED
    BY <1>1, <1>3, <1>4, <1>5

(***************************************************************************)
(* maybe_flush() moves the ring into the batch, and lets the batch go when *)
(* the server has it or has rejected it.                                   *)
(***************************************************************************)
LEMMA FlushKeepsFlow ==
    ASSUME FlowInv, InHand, FlushPost \/ FlushAccepted \/ FlushRejected \/ FlushFailed,
           AnswerTrue, PlainTypeOK
    PROVE  FlowInv'
  <1>0. /\ late \subseteq Seq(Sample) /\ \A request \in late : Members(request) \subseteq produced
        /\ buffer \in Seq(Sample) /\ Len(buffer) <= MaxBatch /\ Distinct(buffer)
        /\ batch \in Seq(Sample) /\ Len(batch) <= MaxBatch /\ Distinct(batch)
        /\ Members(buffer) \cap Members(batch) = {}
        /\ lost \cap (Members(buffer) \cup Members(batch)) = {}
        /\ 0 <= MaxBatch
    BY RuntimeAssumption DEF FlowInv, QueueTypeOK, Known, Apart, InMemory
  <1>1. CASE FlushPost
    <2>1. batch' = buffer /\ buffer' = <<>>
      BY <1>1, FlushTakesAll DEF FlowInv
    <2>2. batch = <<>>
      BY <1>1 DEF InHand, FlushPost
    <2>3. /\ UNCHANGED <<storeVars, points, skipped, readVars>>
          /\ late' = late /\ lost' = lost /\ peeked' = peeked
      BY <1>1 DEF FlushPost, history, readVars
    <2> QED
      BY <1>0, <2>1, <2>2, <2>3, EmptyQueue, MemoryMoves DEF InMemory
  <1>2. CASE FlushAccepted
    <2>1. post.status = 202
      BY <1>2, AcceptedIs202 DEF FlushAccepted, Answer
    <2>2. Members(batch) \subseteq Delivered
      BY <1>2, <2>1 DEF FlushAccepted, Answer, AnswerTrue, Request
    <2>3. UNCHANGED <<storeVars, points, skipped, readVars>> /\ late' = late /\ lost' = lost
          /\ peeked' = peeked /\ batch' = <<>> /\ buffer' = buffer
      BY <1>2 DEF FlushAccepted, history, readVars
    <2> QED
      BY <1>0, <2>2, <2>3, EmptyQueue, MemoryMoves DEF InMemory
  <1>3. CASE FlushRejected
    <2>1. UNCHANGED <<storeVars, points, skipped, readVars>> /\ late' = late
          /\ lost' = lost \cup Members(batch)
          /\ peeked' = peeked /\ batch' = <<>> /\ buffer' = buffer
      BY <1>3 DEF FlushRejected, readVars
    <2> QED
      BY <1>0, <2>1, EmptyQueue, MemoryMoves DEF InMemory
  <1>4. CASE FlushFailed
    <2>1. UNCHANGED queueVars
      BY <1>4 DEF FlushFailed, ToPersist, queueVars, memoryVars, readVars, history
    <2> QED
      BY <2>1, FlowFrame
  <1> QED
    BY <1>1, <1>2, <1>3, <1>4

(***************************************************************************)
(* A poll: the samples read are new, and each one is in the ring or given  *)
(* up, as is whatever it pushed out.                                       *)
(***************************************************************************)
LEMMA PollMoves ==
    ASSUME NEW values, FlowInv, InHand, PlainTypeOK, poll_channel(values)
    PROVE  \E new :
              /\ new = SamplesOf(Order[c], reads) /\ new \in Seq(Sample)
              /\ Members(new) \cap produced = {}
              /\ buffer' \in Seq(Sample) /\ Len(buffer') <= MaxBatch /\ Distinct(buffer')
              /\ Members(buffer') \subseteq Members(buffer) \cup Members(new)
              /\ lost' = lost \cup ((Members(buffer) \cup Members(new)) \ Members(buffer'))
              /\ produced' = produced \cup Members(new) /\ reads' = reads + 1
              /\ \A s \in Members(new) : s.stamp = reads
              /\ batch = <<>> /\ batch' = <<>>
              /\ UNCHANGED <<storeVars, points, skipped, late, peeked>>
  <1>1. PICK ch \in Channel : /\ ch = Order[c]
                              /\ SamplesOf(ch, reads) \in Seq(Sample)
                              /\ Distinct(SamplesOf(ch, reads))
                              /\ \A s \in Members(SamplesOf(ch, reads)) : s.stamp = reads
    BY PollReads DEF FlowInv
  <1>2. PICK new : new = SamplesOf(ch, reads)
    OBVIOUS
  <1>3. PICK q : q = buffer
    OBVIOUS
  <1>4. /\ buffer' = Ring!OfferedAll(q, MaxBatch, new)
        /\ produced' = produced \cup Members(new) /\ reads' = reads + 1
        /\ lost' = lost \cup ((Members(q) \cup Members(new)) \ Members(buffer'))
        /\ batch' = batch /\ UNCHANGED <<storeVars, points, skipped, late, peeked>>
    BY <1>1, <1>2, <1>3 DEF poll_channel, RingCapacity
  <1>5. batch = <<>>
    BY DEF InHand, poll_channel
  <1>6. Members(new) \cap produced = {} /\ Members(q) \subseteq produced
    <2>1. \A s \in Members(new) : s.stamp = reads
      BY <1>1, <1>2
    <2>2. \A s \in produced : s.stamp < reads /\ reads \in Nat
      BY DEF FlowInv, Known, QueueTypeOK
    <2>3. Members(q) \subseteq produced
      BY <1>3 DEF FlowInv, Known, InMemory
    <2> QED
      BY <2>1, <2>2, <2>3
  <1>7. q \in Seq(Sample) /\ Len(q) <= MaxBatch /\ Distinct(q) /\ MaxBatch \in Nat \ {0}
    BY <1>3, RuntimeAssumption DEF FlowInv, QueueTypeOK, Apart
  <1>8. new \in Seq(Sample) /\ Distinct(new) /\ Members(q) \cap Members(new) = {}
    BY <1>1, <1>2, <1>6
  <1>9. /\ Ring!OfferedAll(q, MaxBatch, new) \in Seq(Sample)
        /\ Len(Ring!OfferedAll(q, MaxBatch, new)) <= MaxBatch
        /\ Members(Ring!OfferedAll(q, MaxBatch, new)) \subseteq Members(q) \cup Members(new)
        /\ Distinct(Ring!OfferedAll(q, MaxBatch, new))
    BY <1>7, <1>8, OfferedAllKeeps
  <1>10. PICK r : r = Ring!OfferedAll(q, MaxBatch, new)
    OBVIOUS
  <1>11. /\ buffer' \in Seq(Sample) /\ Len(buffer') <= MaxBatch /\ Distinct(buffer')
         /\ Members(buffer') \subseteq Members(buffer) \cup Members(new)
    BY <1>3, <1>4, <1>9, <1>10
  <1> QED
    BY <1>1, <1>2, <1>3, <1>4, <1>5, <1>6, <1>8, <1>11

(***************************************************************************)
(* So a poll keeps every sample accounted for, and each one in one place.  *)
(***************************************************************************)
LEMMA PollKeepsFlow ==
    ASSUME NEW values, FlowInv, InHand, PlainTypeOK, poll_channel(values)
    PROVE  FlowInv'
  <1>1. PICK new :
              /\ new = SamplesOf(Order[c], reads) /\ new \in Seq(Sample)
              /\ Members(new) \cap produced = {}
              /\ buffer' \in Seq(Sample) /\ Len(buffer') <= MaxBatch /\ Distinct(buffer')
              /\ Members(buffer') \subseteq Members(buffer) \cup Members(new)
              /\ lost' = lost \cup ((Members(buffer) \cup Members(new)) \ Members(buffer'))
              /\ produced' = produced \cup Members(new) /\ reads' = reads + 1
              /\ \A s \in Members(new) : s.stamp = reads
              /\ batch = <<>> /\ batch' = <<>>
              /\ UNCHANGED <<storeVars, points, skipped, late, peeked>>
    BY PollMoves
  <1>2. /\ rows' = rows /\ next_id' = next_id /\ synced' = synced
        /\ points' = points /\ skipped' = skipped
        /\ late' = late /\ peeked' = peeked
    BY <1>1 DEF storeVars
  <1>3. Stored' = Stored /\ OnDisk' = OnDisk /\ Delivered \subseteq Delivered'
    BY <1>1, <1>2 DEF Stored, OnDisk, Delivered
  <1>4. InMemory' = Members(buffer') /\ InMemory = Members(buffer)
    BY <1>1, EmptyQueue DEF InMemory
  <1>5. Members(new) \subseteq Sample
    BY <1>1 DEF Members
  <1>6. InMemory \subseteq produced
    BY DEF FlowInv, Known
  <1>7. QueueTypeOK'
    <2>1. reads < MaxReads /\ MaxReads \in Nat
      BY RuntimeAssumption DEF poll_channel
    <2>2. reads' \in 0..MaxReads
      BY <1>1, <2>1 DEF FlowInv, QueueTypeOK
    <2>3. produced' \subseteq Sample /\ lost' \subseteq produced'
      BY <1>1, <1>4, <1>5, <1>6 DEF FlowInv, QueueTypeOK
    <2> QED
      BY <1>1, <1>2, <2>2, <2>3 DEF FlowInv, QueueTypeOK
  <1>8. Known'
    <2>1. \A s \in produced' : s.stamp < reads'
      <3>1. reads \in Nat /\ \A s \in produced : s.stamp < reads /\ s.stamp \in Nat
        BY SampleShape DEF FlowInv, QueueTypeOK, Known
      <3> QED
        BY <1>1, <3>1
    <2>2. InMemory' \cup Disk' \cup lost' \cup points' \subseteq produced'
      BY <1>1, <1>2, <1>3, <1>4, <1>6 DEF FlowInv, Known, Disk
    <2> QED
      BY <1>1, <1>2, <2>1, <2>2 DEF FlowInv, Known
  <1>9. Apart'
    BY <1>1, <1>3, <1>4, <1>6, EmptyQueue DEF FlowInv, Apart, Known, Disk
  <1>10. Table'
    BY <1>2 DEF FlowInv, Table
  <1>11. Accounted'
    BY <1>1, <1>3, <1>4 DEF FlowInv, Accounted
  <1> QED
    BY <1>7, <1>8, <1>9, <1>10, <1>11 DEF FlowInv

(***************************************************************************)
(* persist_all moves a sample from the batch into a row of its own, or     *)
(* gives it up.                                                            *)
(***************************************************************************)
LEMMA PersistKeepsFlow ==
    ASSUME FlowInv, InHand, PersistRow
    PROVE  FlowInv'
  <1>1. PICK s : s = Head(batch)
    OBVIOUS
  <1>2. /\ batch \in Seq(Sample) /\ batch # <<>> /\ Distinct(batch) /\ pc = "persist"
        /\ Len(batch) <= MaxBatch /\ MaxBatch \in Nat
    BY RuntimeAssumption DEF FlowInv, QueueTypeOK, Apart, PersistRow
  <1>3. /\ batch' \in Seq(Sample) /\ Len(batch') <= MaxBatch /\ Distinct(batch') /\ s \in Sample
        /\ Members(batch) = Members(batch') \cup {s} /\ s \notin Members(batch')
    <2>1. PICK q : q = batch
      OBVIOUS
    <2>2. batch' = Tail(q) /\ q \in Seq(Sample) /\ q # <<>> /\ Distinct(q)
      BY <1>2, <2>1 DEF PersistRow
    <2>3. /\ Tail(q) \in Seq(Sample) /\ Len(Tail(q)) = Len(q) - 1 /\ Len(q) \in Nat \ {0}
          /\ Head(q) \in Sample /\ Members(q) = Members(Tail(q)) \cup {Head(q)}
          /\ Distinct(Tail(q)) /\ Head(q) \notin Members(Tail(q))
      BY <2>2, TailOfQueue
    <2> QED
      BY <1>1, <1>2, <2>1, <2>2, <2>3
  <1>4. /\ buffer = <<>> /\ buffer' = <<>> /\ peeked = <<>> /\ peeked' = <<>>
        /\ points' = points /\ skipped' = skipped /\ late' = late /\ reads' = reads /\ produced' = produced
    BY <1>2 DEF InHand, PersistRow
  <1>5. InMemory = Members(batch) /\ InMemory' = Members(batch')
    BY <1>4, EmptyQueue DEF InMemory
  <1>6. s \in produced /\ s \notin Disk /\ s \notin lost /\ s \in InMemory
    BY <1>3, <1>5 DEF FlowInv, Known, Apart
  <1>7. CASE lost' = lost \cup {s} /\ UNCHANGED storeVars
    <2>1. /\ late' \subseteq Seq(Sample) /\ \A request \in late' : Members(request) \subseteq produced
          /\ UNCHANGED <<storeVars, points, skipped, readVars>>
      BY <1>4, <1>7 DEF FlowInv, QueueTypeOK, Known, readVars
    <2>2. /\ buffer' \in Seq(Sample) /\ Len(buffer') <= MaxBatch /\ Distinct(buffer')
          /\ Members(buffer') = {}
      BY <1>2, <1>4, EmptyQueue
    <2>3. lost' \cap Members(batch') = {}
      BY <1>3, <1>5, <1>7 DEF FlowInv, Apart
    <2> QED
      BY <1>3, <1>4, <1>5, <1>6, <1>7, <2>1, <2>2, <2>3, MemoryMoves
  <1>8. CASE lost' = lost /\ StoreEnqueue(s)
    <2>1. PICK row : row = [id |-> next_id, sample |-> s]
      OBVIOUS
    <2>2. rows' = Append(rows, row) /\ next_id' = next_id + 1 /\ synced' = synced
      BY <1>8, <2>1 DEF StoreEnqueue
    <2>3. row \in Row /\ row.id = next_id /\ row.sample = s /\ next_id \in Nat \ {0}
      BY <1>3, <2>1 DEF FlowInv, QueueTypeOK, Row
    <2>4. PICK q \in Seq(Row) : q = rows
      BY DEF FlowInv, QueueTypeOK
    <2>5. Members(q) \subseteq Row /\ row \notin Members(q)
      <3>1. Members(q) \subseteq Row
        BY DEF Members
      <3>2. \A r \in Members(q) : r.id < next_id /\ r.id \in Nat
        BY <2>4, <3>1 DEF FlowInv, Table, Row
      <3> QED
        BY <2>3, <3>1, <3>2
    <2>6. /\ Append(q, row) \in Seq(Row) /\ Members(Append(q, row)) = Members(q) \cup {row}
          /\ Distinct(Append(q, row))
      <3>1. Distinct(q)
        BY <2>4 DEF FlowInv, Table
      <3> QED
        BY <2>3, <2>5, <3>1, AppendToQueue
    <2>7. rows' \in Seq(Row) /\ Members(rows') = Members(rows) \cup {row} /\ Distinct(rows')
      BY <2>2, <2>4, <2>6
    <2>8. Stored = {r.sample : r \in Members(rows)} /\ Stored' = {r.sample : r \in Members(rows')}
      BY SamplesOfRows DEF Stored
    <2>9. Stored' = Stored \cup {s} /\ OnDisk' = OnDisk /\ Delivered' = Delivered
      <3>1. Stored' = Stored \cup {s}
        BY <2>3, <2>7, <2>8
      <3>2. OnDisk' = OnDisk /\ Delivered' = Delivered
        BY <1>4, <2>2 DEF OnDisk, Delivered
      <3> QED
        BY <3>1, <3>2
    <2>10. QueueTypeOK'
      <3>1. next_id' \in Nat \ {0}
        BY <2>2, <2>3
      <3>2. /\ buffer' \in Seq(Sample) /\ Len(buffer') <= MaxBatch
            /\ peeked' \in Seq(Row) /\ Len(peeked') <= MaxBatch
        BY <1>2, <1>4, EmptyQueue
      <3> QED
        BY <1>3, <1>4, <1>8, <2>2, <2>7, <3>1, <3>2 DEF FlowInv, QueueTypeOK
    <2>11. Known'
      <3>1. Members(peeked') = {}
        BY <1>4, EmptyQueue
      <3> QED
        BY <1>3, <1>4, <1>5, <1>6, <1>8, <2>9, <3>1 DEF FlowInv, Known, Disk
    <2>12. Apart'
      <3>1. Distinct(buffer') /\ Members(buffer') = {}
        BY <1>4, EmptyQueue
      <3> QED
        BY <1>3, <1>4, <1>5, <1>6, <1>8, <2>9, <3>1 DEF FlowInv, Apart, Disk
    <2>13. Table'
      <3>1. \A r \in Members(rows) : r.id < next_id /\ r.id \in Nat /\ r.sample # s
        <4>1. \A r \in Members(rows) : r \in Row /\ r.sample \in Stored
          BY <2>4, <2>5, <2>8
        <4> QED
          BY <1>6, <4>1 DEF FlowInv, Table, Row, Disk
      <3>2. RowsDiffer(Members(rows'))
        BY <2>3, <2>7, <3>1 DEF FlowInv, Table, RowsDiffer
      <3>3. \A r \in Members(rows') : r.id < next_id'
        BY <2>2, <2>3, <2>7, <3>1
      <3>4. Members(peeked') = {}
        BY <1>4, EmptyQueue
      <3> QED
        BY <2>2, <2>7, <3>2, <3>3, <3>4 DEF FlowInv, Table
    <2>14. Accounted'
      BY <1>3, <1>4, <1>5, <1>8, <2>9 DEF FlowInv, Accounted
    <2> QED
      BY <2>10, <2>11, <2>12, <2>13, <2>14 DEF FlowInv
  <1> QED
    BY <1>1, <1>7, <1>8 DEF PersistRow

(***************************************************************************)
(* retry_pending peeks at rows, which stay where they are until the server *)
(* has answered.                                                           *)
(***************************************************************************)
LEMMA PeekKeepsFlow ==
    ASSUME FlowInv, RetryPost
    PROVE  FlowInv'
  <1>1. PICK q \in Seq(Row) : q = rows
    BY DEF FlowInv, QueueTypeOK
  <1>2. Len(q) \in Nat /\ MaxBatch \in Nat
    BY RuntimeAssumption
  <1>3. PICK n \in 0..Len(q) : n <= MaxBatch /\ peeked' = SubSeq(q, 1, n)
    <2> DEFINE most == IF MaxBatch < Len(q) THEN MaxBatch ELSE Len(q)
    <2>1. most \in 0..Len(q) /\ most <= MaxBatch
      BY <1>2
    <2>2. peek_batch(MaxBatch) = SubSeq(q, 1, most)
      BY <1>1 DEF peek_batch
    <2>3. Len(SubSeq(q, 1, most)) = most
      BY <2>1, PrefixOfQueue
    <2>4. CASE peeked' = peek_batch(MaxBatch)
      BY <2>1, <2>2, <2>4
    <2>5. CASE \E k \in 1..(Len(peek_batch(MaxBatch)) - 1) : peeked' = SubSeq(rows, 1, k)
      <3>1. PICK k \in 1..(most - 1) : peeked' = SubSeq(q, 1, k)
        BY <1>1, <2>2, <2>3, <2>5
      <3>2. k \in 0..Len(q) /\ k <= MaxBatch
        BY <1>2, <2>1, <3>1
      <3> QED
        BY <3>1, <3>2
    <2> QED
      BY <2>4, <2>5 DEF RetryPost
  <1>4. peeked' \in Seq(Row) /\ Len(peeked') <= MaxBatch /\ Members(peeked') \subseteq Members(rows)
    BY <1>1, <1>2, <1>3, PrefixOfQueue
  <1>5. /\ buffer' = buffer /\ batch' = batch /\ rows' = rows /\ next_id' = next_id
        /\ synced' = synced /\ points' = points /\ skipped' = skipped /\ late' = late
        /\ reads' = reads /\ produced' = produced /\ lost' = lost
    BY DEF RetryPost, storeVars, history
  <1>6. InMemory' = InMemory /\ Stored' = Stored /\ OnDisk' = OnDisk /\ Delivered' = Delivered
    BY <1>5 DEF InMemory, Stored, OnDisk, Delivered
  <1>7. \A r \in Members(rows) : r.sample \in produced
    <2>1. Stored = {r.sample : r \in Members(rows)}
      BY SamplesOfRows DEF Stored
    <2> QED
      BY <2>1 DEF FlowInv, Known, Disk
  <1>8. QueueTypeOK'
    BY <1>4, <1>5 DEF FlowInv, QueueTypeOK
  <1>9. Known'
    BY <1>4, <1>5, <1>6, <1>7 DEF FlowInv, Known, Disk
  <1>10. Apart'
    BY <1>5, <1>6 DEF FlowInv, Apart, Disk
  <1>11. Table'
    <2>1. \A r \in Members(peeked'), w \in Members(rows) : w.id = r.id => w = r
      BY <1>4 DEF FlowInv, Table, RowsDiffer
    <2> QED
      BY <1>5, <2>1 DEF FlowInv, Table
  <1>12. Accounted'
    BY <1>5, <1>6 DEF FlowInv, Accounted
  <1> QED
    BY <1>8, <1>9, <1>10, <1>11, <1>12 DEF FlowInv

(***************************************************************************)
(* An acknowledgement deletes the row of a sample that is on the server,   *)
(* or nothing.                                                             *)
(***************************************************************************)
LEMMA AckMoves ==
    ASSUME FlowInv, AnswerTrue, AckRow
    PROVE  /\ Members(peeked') \subseteq Members(peeked)
           /\ UNCHANGED <<memoryVars, readVars, points, skipped, late, synced, next_id>>
           /\ peeked' \in Seq(Row) /\ Len(peeked') <= MaxBatch
           /\ rows' \in Seq(Row) /\ Distinct(rows') /\ Members(rows') \subseteq Members(rows)
           /\ \/ Stored' = Stored
              \/ \E s \in Stored \cap Delivered : Stored' = Stored \ {s}
  <1>1. PICK h : h = Head(peeked)
    OBVIOUS
  <1>2. /\ peeked' \in Seq(Row) /\ Len(peeked') <= MaxBatch
        /\ Members(peeked') \subseteq Members(peeked) /\ h \in Members(peeked)
    <2>1. PICK q \in Seq(Row) : q = peeked
      BY DEF FlowInv, QueueTypeOK
    <2>2. peeked' = Tail(q) /\ q # <<>> /\ Len(q) <= MaxBatch /\ MaxBatch \in Nat
      BY <2>1, RuntimeAssumption DEF AckRow, FlowInv, QueueTypeOK
    <2>3. /\ Tail(q) \in Seq(Row) /\ Len(Tail(q)) = Len(q) - 1 /\ Len(q) \in Nat
          /\ Members(q) = Members(Tail(q)) \cup {Head(q)}
      BY <2>2, TailOfQueue
    <2> QED
      BY <1>1, <2>1, <2>2, <2>3
  <1>3. UNCHANGED <<memoryVars, readVars, points, skipped, late, synced, next_id>>
    BY DEF AckRow, memoryVars, readVars, history, acknowledge, storeVars
  <1>4. rows' = rows \/ rows' = Deleted(h.id)
    BY <1>1 DEF AckRow, acknowledge, storeVars
  <1>5. rows \in Seq(Row) /\ Distinct(rows) /\ RowsDiffer(Members(rows))
    BY DEF FlowInv, QueueTypeOK, Table
  <1>6. CASE rows' = rows
    BY <1>2, <1>3, <1>5, <1>6 DEF Stored
  <1>7. CASE rows' = Deleted(h.id)
    <2>1. /\ rows' \in Seq(Row) /\ Distinct(rows')
          /\ Members(rows') = {r \in Members(rows) : r.id # h.id}
      BY <1>5, <1>7, DeletedRow
    <2>2. Stored = {r.sample : r \in Members(rows)} /\ Stored' = {r.sample : r \in Members(rows')}
      BY SamplesOfRows DEF Stored
    <2>3. h.sample \in Delivered
      BY <1>2 DEF AnswerTrue, AckRow
    <2>4. \A w \in Members(rows) : w.id = h.id => w = h
      BY <1>2 DEF FlowInv, Table
    <2>5. CASE h \in Members(rows)
      <3>1. Stored' = Stored \ {h.sample}
        BY <1>5, <2>1, <2>2, <2>4, <2>5 DEF RowsDiffer
      <3>2. h.sample \in Stored \cap Delivered
        BY <2>2, <2>3, <2>5
      <3> QED
        BY <1>2, <1>3, <2>1, <3>1, <3>2
    <2>6. CASE h \notin Members(rows)
      <3>1. Members(rows') = Members(rows)
        BY <2>1, <2>4, <2>6
      <3> QED
        BY <1>2, <1>3, <2>1, <2>2, <3>1
    <2> QED
      BY <2>5, <2>6
  <1> QED
    BY <1>4, <1>6, <1>7

(***************************************************************************)
(* So an acknowledgement loses nothing.                                    *)
(***************************************************************************)
LEMMA AckKeepsFlow ==
    ASSUME FlowInv, AnswerTrue, AckRow
    PROVE  FlowInv'
  <1>1. /\ buffer' = buffer /\ batch' = batch /\ next_id' = next_id
        /\ synced' = synced /\ points' = points /\ skipped' = skipped /\ late' = late
        /\ reads' = reads /\ produced' = produced /\ lost' = lost
    BY AckMoves DEF memoryVars, readVars
  <1>2. /\ Members(peeked') \subseteq Members(peeked)
        /\ peeked' \in Seq(Row) /\ Len(peeked') <= MaxBatch
        /\ rows' \in Seq(Row) /\ Distinct(rows') /\ Members(rows') \subseteq Members(rows)
    BY AckMoves
  <1>3. Stored' \subseteq Stored /\ Stored \subseteq Stored' \cup Delivered
    BY AckMoves
  <1>4. InMemory' = InMemory /\ OnDisk' = OnDisk /\ Delivered' = Delivered
    BY <1>1 DEF InMemory, OnDisk, Delivered
  <1>5. QueueTypeOK'
    BY <1>1, <1>2 DEF FlowInv, QueueTypeOK
  <1>6. Known'
    BY <1>1, <1>2, <1>3, <1>4 DEF FlowInv, Known, Disk
  <1>7. Apart'
    BY <1>1, <1>3, <1>4 DEF FlowInv, Apart, Disk
  <1>8. Table'
    BY <1>1, <1>2 DEF FlowInv, Table, RowsDiffer
  <1>9. Accounted'
    BY <1>1, <1>3, <1>4 DEF FlowInv, Accounted
  <1> QED
    BY <1>5, <1>6, <1>7, <1>8, <1>9 DEF FlowInv

(***************************************************************************)
(* A request taken in by the server, in time or late, only adds to what it *)
(* has.                                                                    *)
(***************************************************************************)
LEMMA TakenInKeepsFlow ==
    ASSUME NEW request, FlowInv, TakenIn(request),
           request \in Seq(Sample), Members(request) \subseteq produced,
           late' \subseteq late, UNCHANGED <<memoryVars, storeVars, peeked, readVars>>
    PROVE  /\ FlowInv'
           /\ points \subseteq points' /\ skipped \subseteq skipped'
           /\ Members(request) \subseteq Delivered'
  <1>1. PICK after : after = Server!Inserted(request)
    OBVIOUS
  <1>2. points' = after /\ skipped' = skipped \cup {s \in Members(request) : ~HasUnit(s)}
    BY <1>1 DEF TakenIn, Server!handleTelemetry
  <1>3. /\ points \subseteq points' /\ skipped \subseteq skipped'
        /\ points' \subseteq points \cup Members(request)
        /\ \A s \in Members(request) :
              s \in skipped' \/ \E p \in points' : PayloadKey(p) = PayloadKey(s)
    BY <1>1, <1>2, InsertedHolds
  <1>4. /\ buffer' = buffer /\ batch' = batch /\ rows' = rows /\ next_id' = next_id
        /\ synced' = synced /\ peeked' = peeked
        /\ reads' = reads /\ produced' = produced /\ lost' = lost
    BY DEF memoryVars, readVars, storeVars
  <1>5. /\ InMemory' = InMemory /\ Stored' = Stored /\ OnDisk' = OnDisk
        /\ Delivered \subseteq Delivered'
    BY <1>3, <1>4 DEF InMemory, Stored, OnDisk, Delivered
  <1>6. Members(request) \subseteq Delivered'
    BY <1>3, <1>4 DEF Delivered
  <1>7. points' \subseteq produced
    BY <1>3 DEF FlowInv, Known
  <1>8. QueueTypeOK'
    <2>1. Members(request) \subseteq Sample
      BY DEF Members
    <2>2. skipped' \subseteq Unlabelled
      BY <1>2, <2>1 DEF FlowInv, QueueTypeOK, Unlabelled
    <2> QED
      BY <1>4, <1>7, <2>2 DEF FlowInv, QueueTypeOK
  <1>9. Known'
    BY <1>4, <1>5, <1>7 DEF FlowInv, Known, Disk
  <1>10. Apart'
    BY <1>4, <1>5 DEF FlowInv, Apart, Disk
  <1>11. Table'
    BY <1>4 DEF FlowInv, Table
  <1>12. Accounted'
    BY <1>4, <1>5 DEF FlowInv, Accounted
  <1> QED
    BY <1>3, <1>6, <1>8, <1>9, <1>10, <1>11, <1>12 DEF FlowInv

(***************************************************************************)
(* A request under way may be left behind, by a timeout or by the death of *)
(* the process.                                                            *)
(***************************************************************************)
LEMMA LateIsKnown ==
    ASSUME FlowInv, late' \in {late, late \cup {Request}}
    PROVE  late' \subseteq Seq(Sample) /\ \A request \in late' : Members(request) \subseteq produced
  <1>1. Request \in Seq(Sample) /\ Members(Request) \subseteq produced
    BY RequestKnown DEF FlowInv
  <1> QED
    BY <1>1 DEF FlowInv, QueueTypeOK, Known

(***************************************************************************)
(* The exchange with the server, whether it is answered, fails or is       *)
(* overtaken by a timeout, takes nothing from the node or from the server. *)
(***************************************************************************)
LEMMA ExchangeKeepsFlow ==
    ASSUME FlowInv, ServerAccepts \/ ServerFails \/ TransferFails \/ LateRequest
    PROVE  FlowInv' /\ Delivered \subseteq Delivered'
  <1>1. UNCHANGED <<memoryVars, storeVars, peeked, readVars>>
    BY DEF ServerAccepts, ServerFails, TransferFails, LateRequest, exchangeFrame, history,
           memoryVars, readVars
  <1>2. produced' = produced
    BY <1>1 DEF readVars
  <1>3. CASE ServerAccepts
    <2>1. Request \in Seq(Sample) /\ Members(Request) \subseteq produced
      BY RequestKnown DEF FlowInv
    <2>2. TakenIn(Request) /\ late' \subseteq late
      BY <1>3 DEF ServerAccepts
    <2>3. PICK request : request = Request
      OBVIOUS
    <2>4. FlowInv' /\ points \subseteq points' /\ skipped \subseteq skipped'
      BY <1>1, <2>1, <2>2, <2>3, TakenInKeepsFlow
    <2> QED
      BY <1>2, <2>4, DeliveredGrows
  <1>4. CASE ServerFails
    <2>1. UNCHANGED queueVars
      BY <1>1, <1>4 DEF ServerFails, queueVars
    <2> QED
      BY <2>1, FlowFrame, DeliveredGrows DEF queueVars, readVars
  <1>5. CASE TransferFails
    <2>1. late' \in {late, late \cup {Request}} /\ points' = points /\ skipped' = skipped
      BY <1>5 DEF TransferFails
    <2>2. /\ buffer' = buffer /\ batch' = batch /\ lost' = lost /\ peeked' = peeked
          /\ UNCHANGED <<storeVars, points, skipped, readVars>>
      BY <1>1, <2>1 DEF memoryVars
    <2>3. /\ buffer \in Seq(Sample) /\ Len(buffer) <= MaxBatch /\ Distinct(buffer)
          /\ batch \in Seq(Sample) /\ Len(batch) <= MaxBatch /\ Distinct(batch)
          /\ Members(buffer) \cap Members(batch) = {}
          /\ lost \cap (Members(buffer) \cup Members(batch)) = {}
      BY DEF FlowInv, QueueTypeOK, Apart, InMemory
    <2>4. FlowInv'
      BY <2>1, <2>2, <2>3, LateIsKnown, MemoryMoves DEF InMemory
    <2> QED
      BY <1>2, <2>1, <2>4, DeliveredGrows
  <1>6. CASE LateRequest
    <2>1. PICK request \in late : TakenIn(request) /\ late' = late \ {request}
      BY <1>6 DEF LateRequest
    <2>2. request \in Seq(Sample) /\ Members(request) \subseteq produced
      BY <2>1 DEF FlowInv, QueueTypeOK, Known
    <2>3. late' \subseteq late
      BY <2>1
    <2>4. FlowInv' /\ points \subseteq points' /\ skipped \subseteq skipped'
      BY <1>1, <2>1, <2>2, <2>3, TakenInKeepsFlow
    <2> QED
      BY <1>2, <2>4, DeliveredGrows
  <1> QED
    BY <1>3, <1>4, <1>5, <1>6

(***************************************************************************)
(* configure() empties the memory; the store is as the death, or the loss  *)
(* of power, left it.                                                      *)
(***************************************************************************)
LEMMA ReloadKeepsFlow ==
    ASSUME FlowInv, InHand, Reload \/ Crash \/ PowerLoss
    PROVE  FlowInv'
  <1>1. /\ buffer' = <<>> /\ batch' = <<>> /\ peeked' = <<>>
        /\ points' = points /\ skipped' = skipped
        /\ reads' = reads /\ produced' = produced
    BY DEF Reload, Crash, PowerLoss, Restarts, Configures
  <1>2. late' \in {late, late \cup {Request}}
    BY Zenon DEF Reload, Crash, PowerLoss, Restarts
  <1>3. late' \subseteq Seq(Sample) /\ \A request \in late' : Members(request) \subseteq produced
    BY <1>2, LateIsKnown
  <1>4. /\ buffer' \in Seq(Sample) /\ Len(buffer') <= MaxBatch /\ Distinct(buffer')
        /\ batch' \in Seq(Sample) /\ Len(batch') <= MaxBatch /\ Distinct(batch')
        /\ peeked' \in Seq(Row) /\ Len(peeked') <= MaxBatch
        /\ Members(buffer') = {} /\ Members(batch') = {} /\ Members(peeked') = {}
    BY <1>1, EmptyQueue, RuntimeAssumption
  <1>5. CASE Reload \/ Crash
    <2>1. lost' = lost \cup InMemory /\ UNCHANGED storeVars
      <3>1. CASE Reload
        <4>1. batch = <<>>
          BY <3>1 DEF Reload, InHand
        <4> QED
          BY <3>1, <4>1, EmptyQueue DEF Reload, InMemory
      <3>2. CASE Crash
        BY <3>2 DEF Crash, InMemory
      <3> QED
        BY <1>5, <3>1, <3>2
    <2>2. UNCHANGED <<storeVars, points, skipped, readVars>>
      BY <1>1, <2>1 DEF readVars
    <2> QED
      BY <1>1, <1>3, <1>4, <2>1, <2>2, MemoryMoves
  <1>6. CASE PowerLoss
    <2>1. /\ rows' = synced.rows /\ next_id' = synced.next_id /\ synced' = synced
          /\ lost' = lost \cup InMemory \cup (Stored \ OnDisk)
      BY <1>6 DEF PowerLoss, RolledBack, InMemory
    <2>2. Stored' = OnDisk /\ OnDisk' = OnDisk /\ Delivered' = Delivered /\ InMemory' = {}
      BY <1>1, <1>4, <2>1 DEF Stored, OnDisk, Delivered, InMemory
    <2>3. QueueTypeOK'
      BY <1>1, <1>3, <1>4, <2>1 DEF FlowInv, QueueTypeOK, Known, Disk
    <2>4. Known'
      BY <1>1, <1>3, <1>4, <2>1, <2>2 DEF FlowInv, Known, Disk
    <2>5. Apart'
      BY <1>1, <1>4, <2>1, <2>2 DEF FlowInv, Apart, Disk
    <2>6. Table'
      BY <1>4, <2>1 DEF FlowInv, Table
    <2>7. Accounted'
      BY <1>1, <2>1, <2>2 DEF FlowInv, Accounted
    <2> QED
      BY <2>3, <2>4, <2>5, <2>6, <2>7 DEF FlowInv
  <1> QED
    BY <1>5, <1>6

(***************************************************************************)
(* The log reaches the disk.                                               *)
(***************************************************************************)
LEMMA SyncKeepsFlow ==
    ASSUME FlowInv, LogReachesDisk
    PROVE  FlowInv'
  <1>1. /\ buffer' = buffer /\ batch' = batch /\ rows' = rows /\ next_id' = next_id
        /\ peeked' = peeked /\ points' = points /\ skipped' = skipped /\ late' = late
        /\ reads' = reads /\ produced' = produced /\ lost' = lost
        /\ synced' = [rows |-> rows, next_id |-> next_id]
    BY DEF LogReachesDisk, LogSynced, tickVars, history
  <1>2. /\ synced'.rows = rows /\ synced'.next_id = next_id
        /\ synced' \in [rows : Seq(Row), next_id : Nat \ {0}]
    BY <1>1 DEF FlowInv, QueueTypeOK
  <1>3. InMemory' = InMemory /\ Stored' = Stored /\ OnDisk' = Stored /\ Delivered' = Delivered
    BY <1>1, <1>2 DEF InMemory, Stored, OnDisk, Delivered
  <1>4. QueueTypeOK'
    BY <1>1, <1>2 DEF FlowInv, QueueTypeOK
  <1>5. Known'
    BY <1>1, <1>3 DEF FlowInv, Known, Disk
  <1>6. Apart'
    BY <1>1, <1>3 DEF FlowInv, Apart, Disk
  <1>7. Table'
    BY <1>1, <1>2 DEF FlowInv, Table
  <1>8. Accounted'
    BY <1>1, <1>3 DEF FlowInv, Accounted
  <1> QED
    BY <1>4, <1>5, <1>6, <1>7, <1>8 DEF FlowInv

(***************************************************************************)
(* The steps that move no sample.                                          *)
(***************************************************************************)
Bookkeeping ==
    \/ Wake \/ NotDue \/ DispatchDone \/ FlushNotNeeded \/ RetryNotDue \/ PeekFails
    \/ PersistDone \/ RetryAccepted \/ AckDone \/ ClockTicks \/ UNCHANGED vars

(***************************************************************************)
(* They leave the queues, the store and the server alone.                  *)
(***************************************************************************)
LEMMA BookkeepingFrame == Bookkeeping => UNCHANGED queueVars
  <1> USE DEF queueVars, memoryVars, readVars, history
  <1>1. Wake \/ NotDue \/ DispatchDone \/ FlushNotNeeded => UNCHANGED queueVars
    BY DEF Wake, NotDue, DispatchDone, FlushNotNeeded
  <1>2. RetryNotDue \/ PeekFails \/ PersistDone => UNCHANGED queueVars
    BY DEF RetryNotDue, PeekFails, PersistDone
  <1>3. RetryAccepted \/ AckDone \/ ClockTicks \/ UNCHANGED vars => UNCHANGED queueVars
    BY DEF RetryAccepted, AckDone, ClockTicks, vars, tickVars
  <1> QED
    BY <1>1, <1>2, <1>3 DEF Bookkeeping

(***************************************************************************)
(* Every step keeps the samples where the invariant says they are.         *)
(***************************************************************************)
LEMMA FlowStep ==
    FlowInv /\ InHand /\ PlainTypeOK /\ AnswerTrue /\ [Next]_vars => FlowInv'
  <1> SUFFICES ASSUME FlowInv, InHand, PlainTypeOK, AnswerTrue, [Next]_vars PROVE FlowInv'
    OBVIOUS
  <1>1. CASE Bookkeeping
    BY <1>1, BookkeepingFrame, FlowFrame
  <1>2. ASSUME NEW values, poll_channel(values) PROVE FlowInv'
    BY <1>2, PollKeepsFlow
  <1>3. CASE FlushPost \/ FlushAccepted \/ FlushRejected \/ FlushFailed
    BY <1>3, FlushKeepsFlow
  <1>4. CASE PersistRow
    BY <1>4, PersistKeepsFlow
  <1>5. CASE RetryPost
    BY <1>5, PeekKeepsFlow
  <1>6. CASE RetryFailed
    <2>1. /\ buffer' = buffer /\ batch' = batch /\ lost' = lost /\ peeked' = <<>> /\ late' = late
          /\ UNCHANGED <<storeVars, points, skipped, readVars>>
      BY <1>6 DEF RetryFailed, history, readVars
    <2>2. /\ buffer \in Seq(Sample) /\ Len(buffer) <= MaxBatch /\ Distinct(buffer)
          /\ batch \in Seq(Sample) /\ Len(batch) <= MaxBatch /\ Distinct(batch)
          /\ Members(buffer) \cap Members(batch) = {}
          /\ lost \cap (Members(buffer) \cup Members(batch)) = {}
          /\ late \subseteq Seq(Sample) /\ \A request \in late : Members(request) \subseteq produced
      BY DEF FlowInv, QueueTypeOK, Known, Apart, InMemory
    <2> QED
      BY <2>1, <2>2, MemoryMoves DEF InMemory
  <1>7. CASE AckRow
    BY <1>7, AckKeepsFlow
  <1>8. CASE ServerAccepts \/ ServerFails \/ TransferFails \/ LateRequest
    BY <1>8, ExchangeKeepsFlow
  <1>9. CASE Reload \/ Crash \/ PowerLoss
    BY <1>9, ReloadKeepsFlow
  <1>10. CASE LogReachesDisk
    BY <1>10, SyncKeepsFlow
  <1> QED
    BY <1>1, <1>2, <1>3, <1>4, <1>5, <1>6, <1>7, <1>8, <1>9, <1>10, Zenon
    DEF Next, DaemonStep, Bookkeeping

(***************************************************************************)
(* Nothing is ever taken back from the server, and no read is forgotten.   *)
(***************************************************************************)
LEMMA DeliveredStays ==
    FlowInv /\ InHand /\ PlainTypeOK /\ AnswerTrue /\ [Next]_vars => Delivered \subseteq Delivered'
  <1> SUFFICES ASSUME FlowInv, InHand, PlainTypeOK, AnswerTrue, [Next]_vars
               PROVE  Delivered \subseteq Delivered'
    OBVIOUS
  <1>1. CASE Bookkeeping
    BY <1>1, BookkeepingFrame, DeliveredGrows DEF queueVars, readVars
  <1>2. ASSUME NEW values, poll_channel(values) PROVE Delivered \subseteq Delivered'
    <2>1. produced \subseteq produced' /\ points' = points /\ skipped' = skipped
      BY <1>2 DEF poll_channel
    <2> QED
      BY <2>1, DeliveredGrows
  <1>3. CASE FlushPost \/ FlushAccepted \/ FlushRejected \/ FlushFailed \/ PersistRow
    <2>1. produced' = produced /\ points' = points /\ skipped' = skipped
      BY <1>3 DEF FlushPost, FlushAccepted, FlushRejected, FlushFailed, PersistRow, history
    <2> QED
      BY <2>1, DeliveredGrows
  <1>4. CASE RetryPost \/ RetryFailed \/ AckRow \/ LogReachesDisk
    <2>1. produced' = produced /\ points' = points /\ skipped' = skipped
      BY <1>4 DEF RetryPost, RetryFailed, AckRow, LogReachesDisk, history
    <2> QED
      BY <2>1, DeliveredGrows
  <1>5. CASE ServerAccepts \/ ServerFails \/ TransferFails \/ LateRequest
    BY <1>5, ExchangeKeepsFlow
  <1>6. CASE Reload \/ Crash \/ PowerLoss
    <2>1. produced' = produced /\ points' = points /\ skipped' = skipped
      BY <1>6 DEF Reload, Crash, PowerLoss, Restarts, Configures
    <2> QED
      BY <2>1, DeliveredGrows
  <1> QED
    BY <1>1, <1>2, <1>3, <1>4, <1>5, <1>6, Zenon DEF Next, DaemonStep, Bookkeeping
-----------------------------------------------------------------------------
(***************************************************************************)
(* What the tick has in hand, step by step.                                *)
(***************************************************************************)
LEMMA InHandStep ==
    FlowInv /\ InHand /\ [Next]_vars => InHand'
  <1> SUFFICES ASSUME FlowInv, InHand, [Next]_vars PROVE InHand'
    OBVIOUS
  <1> USE DEF InHand
  <1>1. CASE Wake
    BY <1>1 DEF Wake
  <1>2. CASE NotDue
    BY <1>2 DEF NotDue
  <1>3. CASE DispatchDone
    BY <1>3 DEF DispatchDone
  <1>4. ASSUME NEW values, poll_channel(values) PROVE InHand'
    BY <1>4 DEF poll_channel
  <1>5. CASE FlushNotNeeded
    BY <1>5 DEF FlushNotNeeded
  <1>6. CASE FlushPost
    <2>1. batch' = buffer /\ buffer' = <<>>
      BY <1>6, FlushTakesAll DEF FlowInv
    <2>2. buffer # <<>>
      BY <1>6, EmptyQueue DEF FlushPost, FlushNeeded, should_flush, FlowInv, QueueTypeOK
    <2>3. post' = Sent /\ pc' = "wait" /\ peeked' = peeked /\ pc = "flush"
      BY <1>6 DEF FlushPost
    <2> QED
      BY <2>1, <2>2, <2>3 DEF Sent
  <1>7. CASE RetryNotDue
    BY <1>7 DEF RetryNotDue
  <1>8. CASE PeekFails
    BY <1>8 DEF PeekFails
  <1>9. CASE RetryPost
    <2>1. peeked' # <<>>
      <3>1. PICK q \in Seq(Row) : q = rows
        BY DEF FlowInv, QueueTypeOK
      <3>2. Len(q) \in Nat \ {0} /\ MaxBatch \in Nat \ {0}
        BY <1>9, <3>1, RuntimeAssumption DEF RetryPost, RetryDue, pending_count
      <3> DEFINE most == IF MaxBatch < Len(q) THEN MaxBatch ELSE Len(q)
      <3>3. most \in 1..Len(q) /\ \A n \in 1..Len(q) : Len(SubSeq(q, 1, n)) = n
        BY <3>2, PrefixOfQueue
      <3>4. peek_batch(MaxBatch) = SubSeq(q, 1, most)
        BY <3>1 DEF peek_batch
      <3>5. \E n \in 1..Len(q) : peeked' = SubSeq(q, 1, n)
        <4>1. CASE peeked' = peek_batch(MaxBatch)
          BY <3>3, <3>4, <4>1
        <4>2. CASE \E n \in 1..(Len(peek_batch(MaxBatch)) - 1) : peeked' = SubSeq(rows, 1, n)
          <5>1. \A n \in 1..(most - 1) : n \in 1..Len(q)
            BY <3>2, <3>3
          <5>2. Len(peek_batch(MaxBatch)) = most
            BY <3>3, <3>4
          <5> QED
            BY <3>1, <4>2, <5>1, <5>2
        <4> QED
          BY <1>9, <4>1, <4>2 DEF RetryPost
      <3>6. Len(peeked') # 0
        BY <3>3, <3>5
      <3> QED
        BY <3>6, EmptyQueue
    <2>2. post' = Sent /\ pc' = "wait" /\ batch' = batch /\ pc = "retry"
      BY <1>9 DEF RetryPost
    <2> QED
      BY <2>1, <2>2 DEF Sent
  <1>10. CASE FlushAccepted
    BY <1>10 DEF FlushAccepted, Answer
  <1>11. CASE FlushRejected
    BY <1>11 DEF FlushRejected, Answer
  <1>12. CASE FlushFailed
    BY <1>12 DEF FlushFailed, Answer, ToPersist
  <1>13. CASE PersistRow
    BY <1>13 DEF PersistRow
  <1>14. CASE PersistDone
    BY <1>14 DEF PersistDone
  <1>15. CASE RetryFailed
    BY <1>15 DEF RetryFailed, Answer
  <1>16. CASE RetryAccepted
    BY <1>16 DEF RetryAccepted, Answer
  <1>17. CASE AckRow
    BY <1>17 DEF AckRow
  <1>18. CASE AckDone
    BY <1>18 DEF AckDone
  <1>19. CASE ServerAccepts
    BY <1>19 DEF ServerAccepts, exchangeFrame
  <1>20. CASE ServerFails
    BY <1>20 DEF ServerFails, exchangeFrame
  <1>21. CASE TransferFails
    BY <1>21 DEF TransferFails, exchangeFrame
  <1>22. CASE LateRequest
    BY <1>22 DEF LateRequest, exchangeFrame
  <1>23. CASE Reload \/ Crash \/ PowerLoss
    <2>1. /\ buffer' = <<>> /\ batch' = <<>> /\ peeked' = <<>> /\ post' = Idle
          /\ pc' \in {"sleep", "dispatch"}
      BY <1>23, Zenon DEF Reload, Crash, PowerLoss, Restarts, Configures
    <2> QED
      BY <2>1
  <1>24. CASE LogReachesDisk
    BY <1>24 DEF LogReachesDisk, tickVars
  <1>25. CASE ClockTicks
    BY <1>25 DEF ClockTicks
  <1>26. CASE UNCHANGED vars
    BY <1>26 DEF vars, tickVars
  <1> QED
    BY <1>1, <1>2, <1>3, <1>4, <1>5, <1>6, <1>7, <1>8, <1>9, <1>10, <1>11, <1>12, <1>13,
       <1>14, <1>15, <1>16, <1>17, <1>18, <1>19, <1>20, <1>21, <1>22, <1>23, <1>24, <1>25,
       <1>26, Zenon
    DEF Next, DaemonStep

(***************************************************************************)
(* The steps that leave the ring, the flags and the channels bound alone,  *)
(* and do not come from reading or flushing.                               *)
(***************************************************************************)
LEMMA RingFrame ==
    [Next]_vars =>
       \/ \E values : poll_channel(values)
       \/ FlushNotNeeded \/ FlushPost \/ FlushAccepted \/ FlushRejected
       \/ Reload \/ Crash \/ PowerLoss
       \/ /\ UNCHANGED <<bound, buffer, any_pending_realtime_, any_pending_on_change_>>
          /\ pc' \in {"dispatch", "flush"} \/ pc \notin {"dispatch", "flush"}
  <1> DEFINE frame == /\ UNCHANGED <<bound, buffer, any_pending_realtime_, any_pending_on_change_>>
                      /\ pc' \in {"dispatch", "flush"} \/ pc \notin {"dispatch", "flush"}
  <1> USE DEF policyVars
  <1>1. Wake \/ NotDue \/ DispatchDone => frame
    BY DEF Wake, NotDue, DispatchDone
  <1>2. RetryNotDue \/ PeekFails \/ RetryPost => frame
    BY DEF RetryNotDue, PeekFails, RetryPost
  <1>3. FlushFailed \/ PersistRow \/ PersistDone => frame
    BY DEF FlushFailed, PersistRow, PersistDone, Answer
  <1>4. RetryFailed \/ RetryAccepted \/ AckRow \/ AckDone => frame
    BY DEF RetryFailed, RetryAccepted, AckRow, AckDone, Answer
  <1>5. ServerAccepts \/ ServerFails \/ TransferFails \/ LateRequest => frame
    BY DEF ServerAccepts, ServerFails, TransferFails, LateRequest, exchangeFrame
  <1>6. LogReachesDisk \/ ClockTicks \/ UNCHANGED vars => frame
    BY DEF LogReachesDisk, ClockTicks, PolicyAges, vars, tickVars
  <1> QED
    BY <1>1, <1>2, <1>3, <1>4, <1>5, <1>6, Zenon DEF Next, DaemonStep

(***************************************************************************)
(* A tick that goes on past maybe_flush leaves nothing urgent in the ring. *)
(***************************************************************************)
LEMMA FlushedStep ==
    PlainTypeOK /\ FlowInv /\ PolicyTypeOK /\ InHand /\ Flushed /\ RealtimeFlagged
       /\ [Next]_vars => Flushed' /\ RealtimeFlagged'
  <1> SUFFICES ASSUME PlainTypeOK, FlowInv, PolicyTypeOK, InHand, Flushed, RealtimeFlagged,
                      [Next]_vars
               PROVE  Flushed' /\ RealtimeFlagged'
    OBVIOUS
  <1>1. ASSUME buffer' = <<>> PROVE Flushed' /\ RealtimeFlagged'
    <2>1. Members(buffer') = {} /\ Len(buffer') < MaxBatch
      BY <1>1, EmptyQueue, RuntimeAssumption
    <2> QED
      BY <1>1, <2>1 DEF Flushed, RealtimeFlagged
  <1>2. ASSUME NEW values, poll_channel(values) PROVE Flushed' /\ RealtimeFlagged'
    <2>1. Flushed'
      BY <1>2 DEF poll_channel, Flushed
    <2>2. PICK ch \in Channel : /\ ch = Order[c] /\ values \in Seq(Value)
                                /\ \A s \in Members(SamplesOf(ch, reads)) :
                                      s.channel = ch /\ values # <<>>
      BY <1>2, PollReads DEF FlowInv
    <2>3. Members(buffer') \subseteq Members(buffer) \cup Members(SamplesOf(ch, reads))
      BY <1>2, <2>2, PollMoves
    <2>4. on_samples(ch, values)
      BY <1>2, <2>2 DEF poll_channel
    <2>5. any_pending_realtime_' <=> any_pending_realtime_ \/ (values # <<>> /\ Immediate(ch))
      BY <2>2, <2>4, OnSamplesKeeps
    <2>6. RealtimeFlagged'
      <3> SUFFICES ASSUME NEW s \in Members(buffer'), Immediate(s.channel)
                   PROVE  any_pending_realtime_'
        BY DEF RealtimeFlagged
      <3>1. CASE s \in Members(buffer)
        BY <2>5, <3>1 DEF RealtimeFlagged
      <3>2. CASE s \in Members(SamplesOf(ch, reads))
        BY <2>2, <2>5, <3>2
      <3> QED
        BY <2>3, <3>1, <3>2
    <2> QED
      BY <2>1, <2>6
  <1>3. CASE FlushNotNeeded
    <2>1. /\ bound' = bound /\ buffer' = buffer
          /\ any_pending_realtime_' = any_pending_realtime_
          /\ any_pending_on_change_' = any_pending_on_change_
      BY <1>3 DEF FlushNotNeeded, policyVars
    <2>2. ASSUME Uploading
          PROVE  /\ Len(buffer) < MaxBatch
                 /\ buffer # <<>> => ~any_pending_realtime_ /\ ~any_pending_on_change_
      <3>1. Len(buffer) \in Nat /\ MaxBatch \in Nat \ {0} /\ (Len(buffer) = 0 <=> buffer = <<>>)
        BY RuntimeAssumption, EmptyQueue DEF FlowInv, QueueTypeOK
      <3>2. ~should_flush(Len(buffer), MaxBatch)
        BY <1>3, <2>2 DEF FlushNotNeeded, FlushNeeded
      <3>3. Len(buffer) # 0 => ~Full(Len(buffer), MaxBatch) /\ ~Urgent
        BY <3>2, Zenon DEF should_flush
      <3>4. Len(buffer) # 0 => Len(buffer) < MaxBatch
        BY <3>1, <3>3 DEF Full
      <3> QED
        BY <3>1, <3>3, <3>4 DEF Urgent
    <2> QED
      BY <2>1, <2>2 DEF Flushed, RealtimeFlagged, Uploading
  <1>4. CASE FlushPost
    <2>1. buffer' = <<>>
      BY <1>4, FlushTakesAll DEF FlowInv
    <2> QED
      BY <1>1, <2>1
  <1>5. CASE FlushAccepted \/ FlushRejected
    <2>1. buffer' = <<>>
      BY <1>5 DEF FlushAccepted, FlushRejected, InHand
    <2> QED
      BY <1>1, <2>1
  <1>6. CASE Reload \/ Crash \/ PowerLoss
    <2>1. buffer' = <<>>
      BY <1>6 DEF Reload, Crash, PowerLoss, Restarts, Configures
    <2> QED
      BY <1>1, <2>1
  <1>7. CASE /\ UNCHANGED <<bound, buffer, any_pending_realtime_, any_pending_on_change_>>
             /\ pc' \in {"dispatch", "flush"} \/ pc \notin {"dispatch", "flush"}
    BY <1>7 DEF Flushed, RealtimeFlagged, Uploading
  <1> QED
    BY <1>2, <1>3, <1>4, <1>5, <1>6, <1>7, RingFrame

(***************************************************************************)
(* An acceptance stands for samples the server has, until the tick has     *)
(* acted on it.                                                            *)
(***************************************************************************)
LEMMA AnswerStep ==
    FlowInv /\ InHand /\ PlainTypeOK /\ AnswerTrue /\ [Next]_vars => AnswerTrue'
  <1> SUFFICES ASSUME FlowInv, InHand, PlainTypeOK, AnswerTrue, [Next]_vars PROVE AnswerTrue'
    OBVIOUS
  <1>1. Delivered \subseteq Delivered'
    BY DeliveredStays
  <1>2. ASSUME pc' \notin {"wait", "ack"} PROVE AnswerTrue'
    BY <1>2 DEF AnswerTrue
  <1>3. ASSUME pc' = pc, post' = post, batch' = batch, peeked' = peeked PROVE AnswerTrue'
    BY <1>1, <1>3 DEF AnswerTrue, Request
  <1>4. ASSUME pc' = "wait", post'.status # 202 PROVE AnswerTrue'
    BY <1>4 DEF AnswerTrue
  <1>5. CASE Wake \/ NotDue \/ DispatchDone \/ FlushNotNeeded
    BY <1>2, <1>5 DEF Wake, NotDue, DispatchDone, FlushNotNeeded
  <1>6. ASSUME NEW values, poll_channel(values) PROVE AnswerTrue'
    BY <1>2, <1>6 DEF poll_channel
  <1>7. CASE FlushPost \/ RetryPost
    BY <1>4, <1>7 DEF FlushPost, RetryPost, Sent
  <1>8. CASE RetryNotDue \/ PeekFails \/ RetryFailed \/ AckDone
    BY <1>2, <1>8 DEF RetryNotDue, PeekFails, RetryFailed, AckDone
  <1>9. CASE FlushAccepted \/ FlushRejected \/ FlushFailed \/ PersistRow \/ PersistDone
    BY <1>2, <1>9 DEF FlushAccepted, FlushRejected, FlushFailed, PersistRow, PersistDone
  <1>10. CASE RetryAccepted
    <2>1. post.status = 202
      BY <1>10, AcceptedIs202 DEF RetryAccepted, Answer
    <2>2. Members(Request) \subseteq Delivered /\ batch = <<>>
      BY <1>10, <2>1 DEF RetryAccepted, Answer, AnswerTrue, InHand
    <2>3. \A r \in Members(peeked) : r.sample \in Delivered
      BY <2>2, RequestKnown DEF FlowInv
    <2> QED
      BY <1>1, <1>10, <2>3 DEF RetryAccepted, AnswerTrue
  <1>11. CASE AckRow
    <2>1. Members(peeked') \subseteq Members(peeked)
      BY <1>11, AckMoves
    <2>2. pc = "ack" /\ pc' = "ack"
      BY <1>11 DEF AckRow
    <2> QED
      BY <1>1, <2>1, <2>2 DEF AnswerTrue
  <1>12. CASE ServerAccepts
    <2>1. Request \in Seq(Sample) /\ Members(Request) \subseteq produced
      BY RequestKnown DEF FlowInv
    <2>2. /\ TakenIn(Request) /\ late' \subseteq late
          /\ UNCHANGED <<memoryVars, storeVars, peeked, readVars>>
      BY <1>12 DEF ServerAccepts, exchangeFrame, history, memoryVars, readVars
    <2>3. PICK request : request = Request
      OBVIOUS
    <2>4. Members(request) \subseteq Delivered'
      BY <2>1, <2>2, <2>3, TakenInKeepsFlow
    <2>5. Request' = Request /\ pc' = "wait"
      BY <1>12 DEF ServerAccepts, exchangeFrame, Request
    <2> QED
      BY <2>3, <2>4, <2>5 DEF AnswerTrue
  <1>13. CASE ServerFails
    <2>1. \A code \in FailureCodes \cup {400} : code # 202
      BY RuntimeAssumption
    <2> QED
      BY <1>4, <1>13, <2>1 DEF ServerFails, exchangeFrame
  <1>14. CASE TransferFails
    BY <1>4, <1>14 DEF TransferFails, exchangeFrame
  <1>15. CASE LateRequest
    BY <1>3, <1>15 DEF LateRequest, exchangeFrame
  <1>16. CASE Reload \/ Crash \/ PowerLoss
    <2>1. pc' \in {"sleep", "dispatch"}
      BY <1>16, Zenon DEF Reload, Crash, PowerLoss, Restarts
    <2> QED
      BY <1>2, <2>1
  <1>17. CASE LogReachesDisk
    BY <1>3, <1>17 DEF LogReachesDisk, tickVars
  <1>18. CASE ClockTicks
    BY <1>3, <1>18 DEF ClockTicks
  <1>19. CASE UNCHANGED vars
    BY <1>3, <1>19 DEF vars, tickVars
  <1> QED
    BY <1>5, <1>6, <1>7, <1>8, <1>9, <1>10, <1>11, <1>12, <1>13, <1>14, <1>15, <1>16, <1>17,
       <1>18, <1>19, Zenon
    DEF Next, DaemonStep

-----------------------------------------------------------------------------
(***************************************************************************)
(* The invariant holds when the daemon has started.                        *)
(***************************************************************************)
LEMMA InitEstablishes == Init => RuntimeInv
  <1> SUFFICES ASSUME Init PROVE RuntimeInv
    OBVIOUS
  <1>1. /\ buffer = <<>> /\ batch = <<>> /\ rows = <<>> /\ peeked = <<>> /\ next_id = 1
        /\ synced = [rows |-> <<>>, next_id |-> 1] /\ points = {} /\ skipped = {} /\ late = {} /\ reads = 0
        /\ produced = {} /\ lost = {} /\ pc = "sleep" /\ post = Idle
    BY DEF Init, StoreInit, Server!IngestInit
  <1>2. synced.rows = <<>> /\ synced.next_id = 1
    BY <1>1
  <1>3. /\ Members(buffer) = {} /\ Members(batch) = {} /\ Members(rows) = {}
        /\ Members(synced.rows) = {} /\ Members(peeked) = {}
        /\ Distinct(buffer) /\ Distinct(batch) /\ Distinct(rows) /\ Distinct(synced.rows)
    BY <1>1, <1>2, EmptyQueue
  <1>4. Stored = {} /\ OnDisk = {} /\ InMemory = {}
    <2>1. /\ Stored = {r.sample : r \in Members(rows)}
          /\ OnDisk = {r.sample : r \in Members(synced.rows)}
      BY SamplesOfRows DEF Stored, OnDisk
    <2> QED
      BY <1>3, <2>1 DEF InMemory
  <1>5. PlainTypeOK
    <2>1. Len(Order) \in Nat /\ MaxFaults \in Nat /\ Len(Backoff) \in Nat /\ AgeLimit \in Nat
      BY RuntimeAssumption, AgeLimitIsLongest
    <2> QED
      BY <2>1 DEF Init, PlainTypeOK, Idle
  <1>6. QueueTypeOK
    BY <1>1, EmptyQueue, RuntimeAssumption DEF QueueTypeOK
  <1>7. PolicyTypeOK /\ FlagsAgree
    <2>1. /\ states = Configured /\ any_pending_realtime_ = FALSE
          /\ any_pending_on_change_ = FALSE
      BY DEF Init, PolicyInit
    <2> QED
      BY <2>1, ConfiguredIsState, Zenon DEF PolicyTypeOK, FlagsAgree
  <1>8. InHand /\ AnswerTrue
    BY <1>1 DEF InHand, AnswerTrue
  <1>9. Flushed /\ RealtimeFlagged
    BY <1>1, <1>3, EmptyQueue, RuntimeAssumption DEF Flushed, RealtimeFlagged
  <1>10. Known /\ Apart /\ Table /\ Accounted
    BY <1>1, <1>3, <1>4 DEF Known, Apart, Table, Accounted, Disk, RowsDiffer
  <1> QED
    BY <1>5, <1>6, <1>7, <1>8, <1>9, <1>10 DEF RuntimeInv

(***************************************************************************)
(* Every step of the daemon, the server, the network and the failures      *)
(* keeps it.                                                               *)
(***************************************************************************)
LEMMA StepPreserves == RuntimeInv /\ [Next]_vars => RuntimeInv'
  <1> SUFFICES ASSUME RuntimeInv, [Next]_vars PROVE RuntimeInv'
    OBVIOUS
  <1>1. PlainTypeOK'
    BY PlainStep DEF RuntimeInv
  <1>2. PolicyTypeOK' /\ FlagsAgree'
    BY PolicyStepKeeps DEF RuntimeInv
  <1>3. FlowInv
    BY DEF RuntimeInv, FlowInv
  <1>4. FlowInv'
    BY <1>3, FlowStep DEF RuntimeInv
  <1>5. InHand'
    BY <1>3, InHandStep DEF RuntimeInv
  <1>6. Flushed' /\ RealtimeFlagged'
    BY <1>3, FlushedStep DEF RuntimeInv
  <1>7. AnswerTrue'
    BY <1>3, AnswerStep DEF RuntimeInv
  <1> QED
    BY <1>1, <1>2, <1>4, <1>5, <1>6, <1>7 DEF RuntimeInv, FlowInv

(***************************************************************************)
(* The invariant of the pipeline holds in every state.                     *)
(***************************************************************************)
LEMMA InvHolds == Spec => []RuntimeInv
  BY InitEstablishes, StepPreserves, PTL DEF Spec
-----------------------------------------------------------------------------
(***************************************************************************)
(* The ring, the batch, the rows and the policy's state stay what they are *)
(* declared to be, and the ring and a batch within max_batch_size.         *)
(***************************************************************************)
THEOREM TypeCorrect == Spec => []TypeOK
  <1>1. RuntimeInv => TypeOK
    BY DEF RuntimeInv, PlainTypeOK, QueueTypeOK, TypeOK, Row
  <1> QED
    BY <1>1, InvHolds, PTL

(***************************************************************************)
(* on_sample(), mark_flushed() and clear() keep the two flags that         *)
(* should_flush() reads in agreement with the flags of the channels.       *)
(***************************************************************************)
THEOREM PolicyFlagsAgree == Spec => []FlagsAgree
  <1>1. RuntimeInv => FlagsAgree
    BY DEF RuntimeInv
  <1> QED
    BY <1>1, InvHolds, PTL

(***************************************************************************)
(* maybe_flush() never leaves a full ring behind.                          *)
(***************************************************************************)
THEOREM RoomAfterTick == Spec => []RingHasRoom
  <1>1. RuntimeInv => RingHasRoom
    BY DEF RuntimeInv, Flushed, RingHasRoom
  <1> QED
    BY <1>1, InvHolds, PTL

(***************************************************************************)
(* maybe_flush() sends a realtime sample, and one that set off an          *)
(* on_change upload, in the tick that read it.                             *)
(***************************************************************************)
THEOREM UrgentSentInTick == Spec => []UrgentNotHeld
  <1>1. RuntimeInv => UrgentNotHeld
    <2> SUFFICES ASSUME RuntimeInv, Uploading, pc = "sleep"
                 PROVE  /\ \A s \in Members(buffer) :
                              ~(Sync[s.channel].remote /\ Sync[s.channel].mode = "realtime")
                        /\ buffer # <<>> => ~any_pending_realtime_ /\ ~any_pending_on_change_
      BY DEF UrgentNotHeld
    <2>1. buffer # <<>> => ~any_pending_realtime_ /\ ~any_pending_on_change_
      BY DEF RuntimeInv, Flushed
    <2>2. \A s \in Members(buffer) : Immediate(s.channel) => any_pending_realtime_
      BY DEF RuntimeInv, RealtimeFlagged
    <2>3. \A s \in Members(buffer) : buffer # <<>>
      BY EmptyQueue
    <2> QED
      BY <2>1, <2>2, <2>3 DEF Immediate
  <1> QED
    BY <1>1, InvHolds, PTL

(***************************************************************************)
(* persist_all(), acknowledge() and the flushes never put a sample in two  *)
(* places of the node.                                                     *)
(***************************************************************************)
THEOREM SampleHeldOnce == Spec => []HeldOnce
  <1>1. RuntimeInv => HeldOnce
    <2> SUFFICES ASSUME RuntimeInv PROVE HeldOnce
      OBVIOUS
    <2>1. Cardinality(Members(buffer)) = Len(buffer)
      BY MembersCounted DEF RuntimeInv, QueueTypeOK, Apart
    <2>2. Cardinality(Stored) = Len(rows)
      <3>1. PICK q \in Seq(Row) : q = rows
        BY DEF RuntimeInv, QueueTypeOK
      <3>2. DOMAIN q = 1..Len(q) /\ Len(q) \in Nat
        OBVIOUS
      <3>3. \A k \in 1..Len(q) : q[k] \in Members(q) /\ q[k].sample \in Sample
        <4>1. \A r \in Row : r.sample \in Sample
          BY DEF Row
        <4> QED
          BY <4>1 DEF Members
      <3>4. Samples(q) = [k \in 1..Len(q) |-> q[k].sample]
        BY <3>2 DEF Samples
      <3>5. Samples(q) \in [1..Len(q) -> Sample]
        BY <3>3, <3>4
      <3>6. Samples(q) \in Seq(Sample) /\ Len(Samples(q)) = Len(q)
        BY <3>2, <3>5, FunctionIsSequence
      <3>7. Distinct(Samples(q))
        <4>1. Distinct(q) /\ RowsDiffer(Members(q))
          BY <3>1 DEF RuntimeInv, Table
        <4> QED
          BY <3>2, <3>3, <3>4, <4>1 DEF Distinct, RowsDiffer
      <3>8. Cardinality(Members(Samples(q))) = Len(q)
        BY <3>6, <3>7, MembersCounted
      <3>9. Stored = Members(Samples(q))
        BY <3>1, SamplesOfRows DEF Stored
      <3> QED
        BY <3>1, <3>8, <3>9
    <2>3. /\ Members(buffer) \cap Members(batch) = {}
          /\ Stored \cap (Members(buffer) \cup Members(batch)) = {}
          /\ lost \cap (Stored \cup Members(buffer) \cup Members(batch)) = {}
      BY DEF RuntimeInv, Apart, InMemory, Disk
    <2> QED
      BY <2>1, <2>2, <2>3 DEF HeldOnce
  <1> QED
    BY <1>1, InvHolds, PTL

(***************************************************************************)
(* A node whose samples can be told apart by what the server stores them   *)
(* under: every series and second at most once.  format_time() and the     *)
(* channel_ids of the drivers decide that.                                 *)
(***************************************************************************)
KeysDiffer == \A s, t \in Sample : PayloadKey(s) = PayloadKey(t) => s = t

(***************************************************************************)
(* No failure of the server, the network, SQLite or the process makes a    *)
(* sample disappear: it is in memory, in a row, at the server, or counted  *)
(* among those given up or passed over; where two samples share their key, *)
(* the server has one of them for both.                                    *)
(***************************************************************************)
NoneUnaccounted ==
    produced \subseteq Members(buffer) \cup Members(batch) \cup Stored \cup Delivered \cup lost

(***************************************************************************)
(* Every sample read is accounted for in every state: poll_channel(),      *)
(* maybe_flush(), persist_all() and retry_pending() hand it on or count it *)
(* as given up, in every configuration.                                    *)
(***************************************************************************)
THEOREM NoSampleUnaccounted == Spec => []NoneUnaccounted
  <1>1. RuntimeInv => NoneUnaccounted
    BY DEF RuntimeInv, Accounted, InMemory, NoneUnaccounted
  <1> QED
    BY <1>1, InvHolds, PTL

(***************************************************************************)
(* Where no two samples share their key, the server has a sample that left *)
(* the node itself, and not another one in its place, unless it passed the *)
(* sample over for want of a unit.                                         *)
(***************************************************************************)
THEOREM NoSampleLost == Spec => [](KeysDiffer => NoSilentLoss)
  <1>1. RuntimeInv => (KeysDiffer => NoSilentLoss)
    <2> SUFFICES ASSUME RuntimeInv, KeysDiffer PROVE NoSilentLoss
      OBVIOUS
    <2>1. produced \subseteq Members(buffer) \cup Members(batch) \cup Stored \cup Delivered \cup lost
      BY DEF RuntimeInv, Accounted, InMemory
    <2>2. produced \subseteq Sample /\ points \subseteq Sample
      BY DEF RuntimeInv, QueueTypeOK
    <2>3. Delivered \subseteq points \cup skipped
      BY <2>2 DEF KeysDiffer, Delivered
    <2> QED
      BY <2>1, <2>3 DEF NoSilentLoss
  <1> QED
    BY <1>1, InvHolds, PTL

-----------------------------------------------------------------------------
(***************************************************************************)
(* persist_all() takes one sample of the batch at a time: into a row, or,  *)
(* when the INSERT fails, among those given up.                            *)
(***************************************************************************)
LEMMA PersistMoves ==
    ASSUME FlowInv, InHand, PersistRow
    PROVE  /\ Delivered' = Delivered
           /\ \E s \in InMemory :
                 /\ InMemory' = InMemory \ {s}
                 /\ \/ Stored' = Stored \cup {s} /\ lost' = lost
                    \/ Stored' = Stored /\ lost' = lost \cup {s}
  <1>1. PICK q \in Seq(Sample) : q = batch /\ q # <<>> /\ Distinct(q)
    BY DEF FlowInv, QueueTypeOK, Apart, PersistRow
  <1>2. /\ Head(q) \in Sample /\ Members(q) = Members(Tail(q)) \cup {Head(q)}
        /\ Head(q) \notin Members(Tail(q))
    BY <1>1, TailOfQueue
  <1>3. PICK s : s = Head(q)
    OBVIOUS
  <1>4. batch' = Tail(q) /\ Members(batch) = Members(batch') \cup {s} /\ s \notin Members(batch')
    BY <1>1, <1>2, <1>3 DEF PersistRow
  <1>5. buffer = <<>> /\ buffer' = <<>> /\ points' = points /\ skipped' = skipped /\ produced' = produced
    BY DEF InHand, PersistRow
  <1>6. s \in InMemory /\ InMemory' = InMemory \ {s}
    BY <1>4, <1>5, EmptyQueue DEF InMemory
  <1>7. Delivered' = Delivered
    BY <1>5, DeliveredGrows
  <1>8. CASE lost' = lost \cup {s} /\ UNCHANGED storeVars
    BY <1>6, <1>7, <1>8 DEF storeVars, Stored
  <1>9. CASE lost' = lost /\ StoreEnqueue(s)
    <2>1. PICK row : row = [id |-> next_id, sample |-> s]
      OBVIOUS
    <2>2. row \in Row /\ row.sample = s
      BY <1>2, <1>3, <2>1 DEF FlowInv, QueueTypeOK, Row
    <2>3. PICK t \in Seq(Row) : t = rows
      BY DEF FlowInv, QueueTypeOK
    <2>4. Members(Append(t, row)) = Members(t) \cup {row}
      BY <2>2, AppendToQueue
    <2>5. Members(rows') = Members(rows) \cup {row}
      BY <1>9, <2>1, <2>3, <2>4 DEF StoreEnqueue
    <2>6. Stored = {r.sample : r \in Members(rows)} /\ Stored' = {r.sample : r \in Members(rows')}
      BY SamplesOfRows DEF Stored
    <2>7. Stored' = Stored \cup {s}
      BY <2>2, <2>5, <2>6
    <2> QED
      BY <1>6, <1>7, <1>9, <2>7
  <1> QED
    BY <1>1, <1>3, <1>8, <1>9 DEF PersistRow

(***************************************************************************)
(* The steps that leave the rows alone.                                    *)
(***************************************************************************)
LEMMA RowsFrame ==
    [Next]_vars => \/ rows' = rows
                   \/ PersistRow \/ AckRow \/ PowerLoss
  <1> USE DEF storeVars
  <1>1. ASSUME NEW values, poll_channel(values) PROVE rows' = rows
    BY <1>1 DEF poll_channel
  <1>2. Bookkeeping => rows' = rows
    BY BookkeepingFrame DEF queueVars
  <1>3. FlushPost \/ FlushAccepted \/ FlushRejected \/ FlushFailed => rows' = rows
    BY DEF FlushPost, FlushAccepted, FlushRejected, FlushFailed
  <1>4. RetryPost \/ RetryFailed \/ Reload \/ Crash \/ LogReachesDisk => rows' = rows
    BY DEF RetryPost, RetryFailed, Reload, Crash, LogReachesDisk, LogSynced
  <1>5. ServerAccepts \/ ServerFails \/ TransferFails \/ LateRequest => rows' = rows
    BY DEF ServerAccepts, ServerFails, TransferFails, LateRequest, exchangeFrame
  <1> QED
    BY <1>1, <1>2, <1>3, <1>4, <1>5, Zenon DEF Next, DaemonStep, Bookkeeping

(***************************************************************************)
(* A loss of power leaves what the log had brought to the disk.            *)
(***************************************************************************)
LEMMA PowerLossMoves ==
    PowerLoss => /\ InMemory' = {} /\ Stored' = OnDisk /\ Delivered' = Delivered
                 /\ lost' = lost \cup InMemory \cup (Stored \ OnDisk)
  <1> SUFFICES ASSUME PowerLoss
               PROVE  /\ InMemory' = {} /\ Stored' = OnDisk /\ Delivered' = Delivered
                      /\ lost' = lost \cup InMemory \cup (Stored \ OnDisk)
    OBVIOUS
  <1>1. /\ buffer' = <<>> /\ batch' = <<>> /\ points' = points /\ skipped' = skipped /\ produced' = produced
        /\ rows' = synced.rows
        /\ lost' = lost \cup Members(buffer) \cup Members(batch) \cup (Stored \ OnDisk)
    BY DEF PowerLoss, Restarts, Configures, RolledBack
  <1> QED
    BY <1>1, EmptyQueue, DeliveredGrows DEF InMemory, Stored, OnDisk

(***************************************************************************)
(* acknowledge(), a reload, the death of the process: a row that goes was  *)
(* delivered.  A loss of power takes only rows that were not on the disk,  *)
(* and counts them as given up.                                            *)
(***************************************************************************)
THEOREM RowsKeptUntilDelivered == Spec => RowsLeaveDelivered
  <1> DEFINE Kept == \A s \in Stored \ Stored' : \/ s \in Delivered
                                                 \/ s \in lost' /\ s \notin OnDisk
  <1>1. RuntimeInv /\ [Next]_vars => [Kept]_vars
    <2> SUFFICES ASSUME RuntimeInv, [Next]_vars PROVE Kept
      OBVIOUS
    <2>1. FlowInv /\ InHand /\ AnswerTrue
      BY DEF RuntimeInv, FlowInv
    <2>2. CASE rows' = rows
      BY <2>2 DEF Stored
    <2>3. CASE PersistRow
      BY <2>1, <2>3, PersistMoves
    <2>4. CASE AckRow
      BY <2>1, <2>4, AckMoves
    <2>5. CASE PowerLoss
      BY <2>5, PowerLossMoves
    <2> QED
      BY <2>2, <2>3, <2>4, <2>5, RowsFrame
  <1> QED
    BY <1>1, InvHolds, PTL DEF Spec, RowsLeaveDelivered

-----------------------------------------------------------------------------
(***************************************************************************)
(* Where a sample is, as SampleLife sees it.  A step that changes none of  *)
(* it is a stutter there.                                                  *)
(***************************************************************************)
Still == InMemory' = InMemory /\ Stored' = Stored /\ Delivered' = Delivered /\ lost' = lost

(***************************************************************************)
(* Such a step leaves the variables of SampleLife unchanged.               *)
(***************************************************************************)
LEMMA StillIsStutter == Still => UNCHANGED Life!lifeVars
  BY DEF Still, InMemory, Life!lifeVars

(***************************************************************************)
(* The steps of a tick and of the exchange that take no sample from its    *)
(* place.  FlushPost is one of them: what leaves the ring is in the batch. *)
(***************************************************************************)
LEMMA StillSteps ==
    ASSUME FlowInv, InHand,
           \/ Bookkeeping \/ FlushPost \/ FlushFailed \/ RetryPost \/ RetryFailed
           \/ ServerFails \/ TransferFails \/ LogReachesDisk
    PROVE  Still
  <1>1. rows' = rows /\ points' = points /\ skipped' = skipped /\ produced' = produced /\ lost' = lost
    <2> USE DEF storeVars, history
    <2>1. CASE Bookkeeping
      BY <2>1, BookkeepingFrame DEF queueVars, memoryVars, readVars
    <2>2. CASE FlushPost \/ FlushFailed \/ RetryPost \/ RetryFailed
      BY <2>2 DEF FlushPost, FlushFailed, RetryPost, RetryFailed
    <2>3. CASE ServerFails \/ TransferFails \/ LogReachesDisk
      BY <2>3 DEF ServerFails, TransferFails, exchangeFrame, LogReachesDisk, LogSynced
    <2> QED
      BY <2>1, <2>2, <2>3
  <1>2. Stored' = Stored /\ Delivered' = Delivered
    BY <1>1, DeliveredGrows DEF Stored
  <1>3. CASE FlushPost
    <2>1. batch' = buffer /\ buffer' = <<>> /\ batch = <<>>
      BY <1>3, FlushTakesAll DEF FlowInv, InHand, FlushPost
    <2> QED
      BY <1>1, <1>2, <2>1, EmptyQueue DEF Still, InMemory
  <1>4. CASE ~FlushPost
    <2>1. buffer' = buffer /\ batch' = batch
      <3>1. CASE Bookkeeping
        BY <3>1, BookkeepingFrame DEF queueVars, memoryVars
      <3>2. CASE FlushFailed \/ RetryPost \/ RetryFailed
        BY <3>2 DEF FlushFailed, ToPersist, RetryPost, RetryFailed
      <3>3. CASE ServerFails \/ TransferFails \/ LogReachesDisk
        BY <3>3 DEF ServerFails, TransferFails, exchangeFrame, LogReachesDisk, tickVars
      <3> QED
        BY <1>4, <3>1, <3>2, <3>3
    <2> QED
      BY <1>1, <1>2, <2>1 DEF Still, InMemory
  <1> QED
    BY <1>3, <1>4

(***************************************************************************)
(* poll_channel() is a Read: what it returns is new, and it is held, or    *)
(* given up for want of room, as is what it pushed out.                    *)
(***************************************************************************)
LEMMA PollIsRead ==
    ASSUME NEW values, RuntimeInv, poll_channel(values)
    PROVE  Life!Read
  <1>0. FlowInv /\ InHand /\ PlainTypeOK
    BY DEF RuntimeInv, FlowInv
  <1>1. PICK new :
              /\ Members(new) \cap produced = {}
              /\ Members(buffer') \subseteq Members(buffer) \cup Members(new)
              /\ lost' = lost \cup ((Members(buffer) \cup Members(new)) \ Members(buffer'))
              /\ produced' = produced \cup Members(new)
              /\ batch = <<>> /\ batch' = <<>>
              /\ UNCHANGED <<storeVars, points, skipped>>
    BY <1>0, PollMoves
  <1>2. InMemory' = Members(buffer') /\ InMemory = Members(buffer)
    BY <1>1, EmptyQueue DEF InMemory
  <1>3. /\ Stored' = Stored /\ Delivered \subseteq Delivered'
        /\ Delivered' \ Delivered \subseteq Members(new)
        /\ Delivered \subseteq produced
    BY <1>1 DEF storeVars, Stored, Delivered
  <1>4. InMemory \cup Stored \cup lost \subseteq produced /\ lost \cap InMemory = {}
    BY <1>0 DEF FlowInv, Known, Disk, Apart
  <1>5. InMemory \subseteq InMemory' \cup lost' /\ lost \subseteq lost' /\ InMemory' \cap lost' = {}
    BY <1>1, <1>2, <1>4
  <1>6. (InMemory' \cup lost') \ (InMemory \cup lost) = Members(new)
    BY <1>1, <1>2, <1>4
  <1>7. ((InMemory' \cup lost') \ (InMemory \cup lost))
           \cap (InMemory \cup Stored \cup Delivered \cup lost) = {}
    BY <1>1, <1>3, <1>4, <1>6
  <1>8. Delivered' \ Delivered \subseteq (InMemory' \cup lost') \ (InMemory \cup lost)
    BY <1>3, <1>6
  <1> QED
    BY <1>3, <1>5, <1>7, <1>8 DEF Life!Read, Life!Known, InMemory

(***************************************************************************)
(* A request the server takes in, in time or late, is a Deliver.           *)
(***************************************************************************)
LEMMA TakenInIsDeliver ==
    ASSUME RuntimeInv, ServerAccepts \/ LateRequest
    PROVE  Life!Deliver
  <1>1. FlowInv
    BY DEF RuntimeInv, FlowInv
  <1>2. /\ buffer' = buffer /\ batch' = batch /\ rows' = rows /\ lost' = lost
        /\ produced' = produced
    BY DEF ServerAccepts, LateRequest, exchangeFrame, storeVars, history
  <1>3. InMemory' = InMemory /\ Stored' = Stored
    BY <1>2 DEF InMemory, Stored
  <1>4. Delivered \subseteq Delivered'
    BY <1>1, ExchangeKeepsFlow
  <1>5. Delivered' \subseteq InMemory \cup Stored \cup Delivered \cup lost
    <2>1. Delivered' \subseteq produced
      BY <1>2 DEF Delivered
    <2> QED
      BY <1>1, <2>1 DEF FlowInv, Accounted
  <1> QED
    BY <1>2, <1>3, <1>4, <1>5 DEF Life!Deliver, Life!Known, InMemory

(***************************************************************************)
(* A batch is let go on a 202 because the server has it, and on a 400, a   *)
(* reload or the death of the process it is given up.                      *)
(***************************************************************************)
LEMMA LettingGo ==
    ASSUME RuntimeInv
    PROVE  /\ FlushAccepted => Life!Release
           /\ FlushRejected \/ Reload \/ Crash => Life!GiveUp
  <1>0. InHand /\ AnswerTrue /\ PlainTypeOK /\ Members(buffer) \cap Members(batch) = {}
    BY DEF RuntimeInv, Apart
  <1>1. ASSUME FlushAccepted PROVE Life!Release
    <2>1. post.status = 202
      BY <1>0, <1>1, AcceptedIs202 DEF FlushAccepted, Answer
    <2>2. Members(batch) \subseteq Delivered
      BY <1>0, <1>1, <2>1 DEF FlushAccepted, Answer, AnswerTrue, Request
    <2>3. /\ batch' = <<>> /\ buffer' = buffer /\ rows' = rows /\ lost' = lost
          /\ points' = points /\ skipped' = skipped /\ produced' = produced
      BY <1>1 DEF FlushAccepted, storeVars, history
    <2>4. Stored' = Stored /\ Delivered' = Delivered /\ InMemory' = Members(buffer)
      BY <2>3, DeliveredGrows, EmptyQueue DEF Stored, InMemory
    <2>5. InMemory' \subseteq InMemory /\ InMemory \ InMemory' \subseteq Delivered
      BY <2>2, <2>4 DEF InMemory
    <2> QED
      BY <2>3, <2>4, <2>5 DEF Life!Release, InMemory
  <1>2. ASSUME rows' = rows, points' = points /\ skipped' = skipped, produced' = produced,
               InMemory' \subseteq InMemory, lost' = lost \cup (InMemory \ InMemory')
        PROVE  Life!GiveUp
    <2>1. Stored' = Stored /\ Delivered' = Delivered
      BY <1>2, DeliveredGrows DEF Stored
    <2> QED
      BY <1>2, <2>1 DEF Life!GiveUp, InMemory
  <1>3. ASSUME FlushRejected PROVE Life!GiveUp
    <2>1. /\ batch' = <<>> /\ buffer' = buffer /\ rows' = rows /\ points' = points /\ skipped' = skipped
          /\ produced' = produced /\ lost' = lost \cup Members(batch)
      BY <1>3 DEF FlushRejected, storeVars
    <2>2. InMemory' = Members(buffer)
      BY <2>1, EmptyQueue DEF InMemory
    <2>3. InMemory' \subseteq InMemory /\ InMemory \ InMemory' = Members(batch)
      BY <1>0, <2>2 DEF InMemory
    <2> QED
      BY <1>2, <2>1, <2>3
  <1>4. ASSUME Reload \/ Crash PROVE Life!GiveUp
    <2>1. /\ batch' = <<>> /\ buffer' = <<>> /\ rows' = rows /\ points' = points /\ skipped' = skipped
          /\ produced' = produced
      BY <1>4 DEF Reload, Crash, Restarts, Configures, storeVars
    <2>2. InMemory' = {}
      BY <2>1, EmptyQueue DEF InMemory
    <2>3. lost' = lost \cup InMemory
      <3>1. CASE Reload
        <4>1. batch = <<>>
          BY <1>0, <3>1 DEF Reload, InHand
        <4> QED
          BY <3>1, <4>1, EmptyQueue DEF Reload, InMemory
      <3>2. CASE Crash
        BY <3>2 DEF Crash, InMemory
      <3> QED
        BY <1>4, <3>1, <3>2
    <2> QED
      BY <1>2, <2>1, <2>2, <2>3
  <1> QED
    BY <1>1, <1>3, <1>4

(***************************************************************************)
(* The node starts as SampleLife does, and each of its steps is one of     *)
(* SampleLife's, or moves no sample.                                       *)
(***************************************************************************)
LEMMA InitRefines == Init => Life!Init
  <1> SUFFICES ASSUME Init PROVE Life!Init
    OBVIOUS
  <1>1. buffer = <<>> /\ batch = <<>> /\ rows = <<>> /\ produced = {} /\ lost = {}
    BY DEF Init, StoreInit
  <1> QED
    BY <1>1, EmptyQueue DEF Life!Init, Stored, Delivered

(***************************************************************************)
(* Every step of the node is a step of SampleLife or a stutter.            *)
(***************************************************************************)
LEMMA StepRefines == RuntimeInv /\ [Next]_vars => [Life!Next]_(Life!lifeVars)
  <1> SUFFICES ASSUME RuntimeInv, [Next]_vars PROVE [Life!Next]_(Life!lifeVars)
    OBVIOUS
  <1>0. FlowInv /\ InHand /\ AnswerTrue
    BY DEF RuntimeInv, FlowInv
  <1>1. CASE \/ Bookkeeping \/ FlushPost \/ FlushFailed \/ RetryPost \/ RetryFailed
             \/ ServerFails \/ TransferFails \/ LogReachesDisk
    BY <1>0, <1>1, StillSteps, StillIsStutter
  <1>2. ASSUME NEW values, poll_channel(values) PROVE Life!Next
    BY <1>2, PollIsRead DEF Life!Next
  <1>3. CASE ServerAccepts \/ LateRequest
    BY <1>3, TakenInIsDeliver DEF Life!Next
  <1>4. CASE FlushAccepted \/ FlushRejected \/ Reload \/ Crash
    BY <1>4, LettingGo DEF Life!Next
  <1>5. CASE PersistRow
    <2>1. PICK s \in InMemory :
             /\ InMemory' = InMemory \ {s}
             /\ \/ Stored' = Stored \cup {s} /\ lost' = lost
                \/ Stored' = Stored /\ lost' = lost \cup {s}
      BY <1>0, <1>5, PersistMoves
    <2>2. Delivered' = Delivered
      BY <1>0, <1>5, PersistMoves
    <2>3. CASE Stored' = Stored \cup {s} /\ lost' = lost
      <3>1. Life!Store
        BY <2>1, <2>2, <2>3 DEF Life!Store, InMemory
      <3> QED
        BY <3>1 DEF Life!Next
    <2>4. CASE Stored' = Stored /\ lost' = lost \cup {s}
      <3>1. InMemory' \subseteq InMemory /\ lost' = lost \cup (InMemory \ InMemory')
        BY <2>1, <2>4
      <3>2. Life!GiveUp
        BY <2>2, <2>4, <3>1 DEF Life!GiveUp, InMemory
      <3> QED
        BY <3>2 DEF Life!Next
    <2> QED
      BY <2>1, <2>3, <2>4
  <1>6. CASE AckRow
    <2>1. /\ buffer' = buffer /\ batch' = batch /\ lost' = lost
          /\ produced' = produced /\ points' = points /\ skipped' = skipped
      BY <1>0, <1>6, AckMoves DEF memoryVars, readVars
    <2>2. InMemory' = InMemory /\ Delivered' = Delivered
      BY <2>1, DeliveredGrows DEF InMemory
    <2>3. CASE Stored' = Stored
      BY <2>1, <2>2, <2>3, StillIsStutter DEF Still
    <2>4. CASE \E s \in Stored \cap Delivered : Stored' = Stored \ {s}
      <3>1. Life!Forget
        BY <2>1, <2>2, <2>4 DEF Life!Forget, InMemory
      <3> QED
        BY <3>1 DEF Life!Next
    <2> QED
      BY <1>0, <1>6, <2>3, <2>4, AckMoves
  <1>7. CASE PowerLoss
    <2>1. /\ InMemory' = {} /\ Stored' = OnDisk /\ Delivered' = Delivered
          /\ lost' = lost \cup InMemory \cup (Stored \ Stored')
      BY <1>7, PowerLossMoves
    <2>2. Stored' \ Stored \subseteq Delivered
      BY <1>0, <2>1 DEF FlowInv, Accounted
    <2>3. Life!PowerLoss
      BY <2>1, <2>2 DEF Life!PowerLoss, InMemory
    <2> QED
      BY <2>3 DEF Life!Next
  <1> QED
    BY <1>1, <1>2, <1>3, <1>4, <1>5, <1>6, <1>7, Zenon DEF Next, DaemonStep, Bookkeeping

(***************************************************************************)
(* The upload pipeline implements SampleLife, for every configuration and  *)
(* every number of failures: polls, flushes, retries, reloads, deaths and  *)
(* losses of power take a sample from place to place only as SampleLife    *)
(* allows.                                                                 *)
(***************************************************************************)
THEOREM RuntimeImplementsLife == Spec => ImplementsLife
  BY InvHolds, InitRefines, StepRefines, PTL DEF Spec, ImplementsLife, Life!Spec

-----------------------------------------------------------------------------
(***************************************************************************)
(* A channel that measures one quantity: poll_channel() shows every sample *)
(* of a read to the policy under the same channel, so that two quantities  *)
(* would each be compared with the other.                                  *)
(***************************************************************************)
OneQuantity(ch) == Len(Reads[ch]) <= 1

(***************************************************************************)
(* The last reading of a watched channel is within the threshold of the    *)
(* value the policy remembers.                                             *)
(***************************************************************************)
Remembered(ch) ==
    Watched(ch) /\ OneQuantity(ch) /\ reading[ch] # <<>> =>
       /\ Len(reading[ch]) = 1
       /\ states[ch].has_uploaded_value
       /\ Distance(reading[ch][1], states[ch].last_uploaded_value) <= Sync[ch].threshold

ReadingsRemembered ==
    /\ DOMAIN reading = Channel
    /\ \A ch \in Channel : Remembered(ch)

(***************************************************************************)
(* The policy remembers a reading from the poll that returned it until the *)
(* next configure(): the flushes and the clock leave it alone.             *)
(***************************************************************************)
LEMMA MemoryKept ==
    PolicyTypeOK /\ [Next]_vars =>
       \/ \E values : poll_channel(values)
       \/ reading' = [ch \in Channel |-> <<>>]
       \/ /\ reading' = reading /\ reads' = reads
          /\ \A ch \in Channel :
                /\ states'[ch].has_uploaded_value = states[ch].has_uploaded_value
                /\ states'[ch].last_uploaded_value = states[ch].last_uploaded_value
  <1> DEFINE kept == \A ch \in Channel :
                        /\ states'[ch].has_uploaded_value = states[ch].has_uploaded_value
                        /\ states'[ch].last_uploaded_value = states[ch].last_uploaded_value
  <1> SUFFICES ASSUME PolicyTypeOK, [Next]_vars,
                      ~\E values : poll_channel(values), ~(Reload \/ Crash \/ PowerLoss)
               PROVE  reading' = reading /\ reads' = reads /\ kept
    BY DEF Reload, Crash, PowerLoss, Restarts, Configures
  <1>1. reading' = reading /\ reads' = reads
    <2> USE DEF history
    <2>1. CASE Wake \/ NotDue \/ DispatchDone \/ FlushNotNeeded \/ FlushPost
      BY <2>1 DEF Wake, NotDue, DispatchDone, FlushNotNeeded, FlushPost
    <2>2. CASE RetryNotDue \/ PeekFails \/ RetryPost \/ FlushFailed \/ FlushAccepted \/ FlushRejected
      BY <2>2 DEF RetryNotDue, PeekFails, RetryPost, FlushFailed, FlushAccepted, FlushRejected
    <2>3. CASE PersistRow \/ PersistDone \/ RetryFailed \/ RetryAccepted \/ AckRow \/ AckDone
      BY <2>3 DEF PersistRow, PersistDone, RetryFailed, RetryAccepted, AckRow, AckDone
    <2>4. CASE ServerAccepts \/ ServerFails \/ TransferFails \/ LateRequest
      BY <2>4 DEF ServerAccepts, ServerFails, TransferFails, LateRequest, exchangeFrame
    <2>5. CASE LogReachesDisk \/ ClockTicks \/ UNCHANGED vars
      BY <2>5 DEF LogReachesDisk, ClockTicks, vars
    <2> QED
      BY <2>1, <2>2, <2>3, <2>4, <2>5, Zenon DEF Next, DaemonStep
  <1>2. ASSUME mark_flushed(elapsed) PROVE kept
    <2> SUFFICES ASSUME NEW ch \in Channel
                 PROVE  /\ states'[ch].has_uploaded_value = states[ch].has_uploaded_value
                        /\ states'[ch].last_uploaded_value = states[ch].last_uploaded_value
      OBVIOUS
    <2>1. PICK st \in RuntimeState(ch) : st = states[ch]
      BY DEF PolicyTypeOK
    <2>2. PICK t : t = Younger(elapsed, Sync[ch].interval)
      OBVIOUS
    <2>3. states'[ch] = [st EXCEPT !.pending_realtime = FALSE, !.pending_on_change = FALSE, !.age = t]
      BY <1>2, <2>1, <2>2 DEF mark_flushed
    <2> QED
      BY <2>1, <2>3 DEF RuntimeState
  <1>3. ASSUME PolicyAges PROVE kept
    <2> SUFFICES ASSUME NEW ch \in Channel
                 PROVE  /\ states'[ch].has_uploaded_value = states[ch].has_uploaded_value
                        /\ states'[ch].last_uploaded_value = states[ch].last_uploaded_value
      OBVIOUS
    <2>1. PICK st \in RuntimeState(ch) : st = states[ch]
      BY DEF PolicyTypeOK
    <2>2. PICK t : t = Younger(st.age + 1, Sync[ch].interval)
      OBVIOUS
    <2>3. states'[ch] = [st EXCEPT !.age = t]
      BY <1>3, <2>1, <2>2 DEF PolicyAges
    <2> QED
      BY <2>1, <2>3 DEF RuntimeState
  <1>4. UNCHANGED policyVars => kept
    BY DEF policyVars
  <1>5. kept
    BY <1>2, <1>3, <1>4, PolicyFrame, Zenon DEF PolicyStep, FlushAccepted, FlushRejected, ClockTicks
  <1> QED
    BY <1>1, <1>5

(***************************************************************************)
(* After a read of one value, that value is within the threshold of the    *)
(* one remembered; and a value that was so before does not trigger.        *)
(***************************************************************************)
LEMMA OneValueRemembered ==
    ASSUME NEW ch \in Channel, NEW st \in RuntimeState(ch), NEW v \in Value, Watched(ch)
    PROVE  LET after == AfterSample(st, ch, v)
           IN  /\ after.has_uploaded_value
               /\ Distance(v, after.last_uploaded_value) <= Sync[ch].threshold
               /\ (/\ st.has_uploaded_value
                   /\ Distance(v, st.last_uploaded_value) <= Sync[ch].threshold
                   /\ after.pending_on_change)
                  => st.pending_on_change
  <1>1. Sync[ch].threshold \in Nat /\ v \in Int
    BY SyncAssumption DEF SyncConfig
  <1>2. st.last_uploaded_value \in Int
    <2>1. st.last_uploaded_value \in Value \cup {0}
      BY DEF RuntimeState
    <2>2. Value \subseteq Int
      BY SyncAssumption, Zenon
    <2>3. 0 \in Int
      OBVIOUS
    <2> QED
      BY <2>1, <2>2, <2>3, Zenon
  <1>3. PICK after : after = AfterSample(st, ch, v)
    OBVIOUS
  <1>4. /\ after.pending_on_change <=> st.pending_on_change \/ Triggers(st, ch, v)
        /\ after.has_uploaded_value <=> st.has_uploaded_value \/ Triggers(st, ch, v)
        /\ after.last_uploaded_value = IF Triggers(st, ch, v) THEN v ELSE st.last_uploaded_value
    BY <1>3, AfterSampleIs
  <1>5. Distance(v, v) = 0 /\ Distance(v, st.last_uploaded_value) \in Int
    BY <1>1, <1>2 DEF Distance
  <1>6. Distance(v, v) <= Sync[ch].threshold
    BY <1>1, <1>5
  <1>7. Distance(v, st.last_uploaded_value) > Sync[ch].threshold
           <=> ~(Distance(v, st.last_uploaded_value) <= Sync[ch].threshold)
    BY <1>1, <1>5
  <1>8. Triggers(st, ch, v)
           <=> \/ ~st.has_uploaded_value
               \/ ~(Distance(v, st.last_uploaded_value) <= Sync[ch].threshold)
    BY <1>7, Zenon DEF Triggers, Watched
  <1> QED
    BY <1>3, <1>4, <1>6, <1>8, Zenon

(***************************************************************************)
(* A poll: what it shows to the policy, and what the channel remembers.    *)
(***************************************************************************)
LEMMA PollRemembers ==
    ASSUME RuntimeInv, ReadingsRemembered, NEW values, poll_channel(values)
    PROVE  /\ ReadingsRemembered'
           /\ \A ch \in Channel :
                 /\ OneQuantity(ch)
                 /\ Order[c] = ch /\ reading[ch] # <<>> /\ reading'[ch] = reading[ch]
                 /\ states'[ch].pending_on_change
                 => states[ch].pending_on_change
  <1>1. PolicyTypeOK /\ PlainTypeOK /\ QueueTypeOK
    BY DEF RuntimeInv
  <1>2. PICK ch \in Channel : ch = Order[c] /\ values \in Seq(Value)
    BY <1>1, PollReads
  <1>3. on_samples(ch, values) /\ reading' = [reading EXCEPT ![ch] = values] /\ values \in Readings[ch]
    BY <1>2 DEF poll_channel
  <1>4. /\ \A d \in Channel : d # ch => states'[d] = states[d]
        /\ Len(values) = 1 => states'[ch] = AfterSample(states[ch], ch, values[1])
        /\ ~Watched(ch) /\ states'[ch].pending_on_change => states[ch].pending_on_change
    BY <1>1, <1>2, <1>3, OnSamplesKeeps
  <1>5. /\ DOMAIN reading' = Channel /\ reading'[ch] = values
        /\ \A d \in Channel : d # ch => reading'[d] = reading[d]
    BY <1>3 DEF ReadingsRemembered
  <1>6. OneQuantity(ch) => Len(values) = 1 \/ values = <<>>
    <2>1. values \in [1..Len(Reads[ch]) -> Value] /\ Len(Reads[ch]) \in Nat
      BY <1>3, RuntimeAssumption
    <2>2. Len(values) = Len(Reads[ch])
      BY <1>2, <2>1
    <2>3. Len(values) <= 1 => Len(values) = 1 \/ values = <<>>
      <3>1. Len(values) \in Nat /\ (values # <<>> => Len(values) \in Nat \ {0})
        BY <1>2, EmptySeq
      <3>2. \A n \in Nat \ {0} : n <= 1 => n = 1
        OBVIOUS
      <3> QED
        BY <3>1, <3>2, Zenon
    <2> QED
      BY <2>2, <2>3, Zenon DEF OneQuantity
  <1>7. PICK st \in RuntimeState(ch) : st = states[ch]
    BY <1>1 DEF PolicyTypeOK
  <1>8. Remembered(ch)'
    <2> SUFFICES ASSUME Watched(ch), OneQuantity(ch), values # <<>>
                 PROVE  /\ Len(values) = 1 /\ states'[ch].has_uploaded_value
                        /\ Distance(values[1], states'[ch].last_uploaded_value) <= Sync[ch].threshold
      BY <1>5, Zenon DEF Remembered, Watched, OneQuantity
    <2>1. Len(values) = 1 /\ values[1] \in Value
      BY <1>2, <1>6
    <2>2. states'[ch] = AfterSample(st, ch, values[1])
      BY <1>4, <1>7, <2>1
    <2> QED
      BY <2>1, <2>2, OneValueRemembered
  <1>9. ASSUME NEW d \in Channel, d # ch PROVE Remembered(d)'
    BY <1>4, <1>5, <1>9, Zenon DEF ReadingsRemembered, Remembered, Watched, OneQuantity
  <1>10. ReadingsRemembered'
    BY <1>5, <1>8, <1>9, Zenon DEF ReadingsRemembered
  <1>11. ASSUME OneQuantity(ch), reading[ch] # <<>>, values = reading[ch], states'[ch].pending_on_change
         PROVE  states[ch].pending_on_change
    <2>1. CASE Watched(ch)
      <3>1. /\ Len(values) = 1 /\ states[ch].has_uploaded_value
            /\ Distance(values[1], states[ch].last_uploaded_value) <= Sync[ch].threshold
        BY <1>11, <2>1, Zenon DEF ReadingsRemembered, Remembered
      <3>2. values[1] \in Value /\ states'[ch] = AfterSample(st, ch, values[1])
        BY <1>2, <1>4, <1>7, <3>1
      <3> QED
        BY <1>7, <1>11, <2>1, <3>1, <3>2, OneValueRemembered
    <2> QED
      BY <1>4, <1>11, <2>1
  <1> QED
    BY <1>2, <1>5, <1>10, <1>11, Zenon

(***************************************************************************)
(* on_sample() does not ask for another upload of a reading that repeats   *)
(* the last one, whatever flushes, failures and timeouts lie between them, *)
(* on every channel that measures one quantity, whatever the others read.  *)
(***************************************************************************)
THEOREM SteadyChannelsQuiet == Spec => SteadyReadingsQuiet
  <1> DEFINE Quiet == \A ch \in Channel :
                         /\ Len(Reads[ch]) <= 1
                         /\ pc = "dispatch" /\ reads' # reads /\ Order[c] = ch
                         /\ reading[ch] # <<>> /\ reading'[ch] = reading[ch]
                         => (states'[ch].pending_on_change => states[ch].pending_on_change)
  <1>1. Init => ReadingsRemembered
    BY Zenon DEF Init, ReadingsRemembered, Remembered
  <1>2. RuntimeInv /\ ReadingsRemembered /\ [Next]_vars => ReadingsRemembered' /\ Quiet
    <2> SUFFICES ASSUME RuntimeInv, ReadingsRemembered, [Next]_vars
                 PROVE  ReadingsRemembered' /\ Quiet
      OBVIOUS
    <2>1. ASSUME NEW values, poll_channel(values) PROVE ReadingsRemembered' /\ Quiet
      BY <2>1, PollRemembers, Zenon DEF OneQuantity
    <2>2. CASE reading' = [ch \in Channel |-> <<>>]
      <3>1. ReadingsRemembered'
        BY <2>2, Zenon DEF ReadingsRemembered, Remembered
      <3>2. Quiet
        BY <2>2
      <3> QED
        BY <3>1, <3>2
    <2>3. CASE /\ reading' = reading /\ reads' = reads
               /\ \A ch \in Channel :
                     /\ states'[ch].has_uploaded_value = states[ch].has_uploaded_value
                     /\ states'[ch].last_uploaded_value = states[ch].last_uploaded_value
      <3>1. ReadingsRemembered'
        BY <2>3, Zenon DEF ReadingsRemembered, Remembered, Watched, OneQuantity
      <3> QED
        BY <2>3, <3>1
    <2> QED
      BY <2>1, <2>2, <2>3, MemoryKept DEF RuntimeInv
  <1>3. RuntimeInv /\ ReadingsRemembered /\ [Next]_vars => [Quiet]_vars
    BY <1>2
  <1> QED
    BY <1>1, <1>2, <1>3, InvHolds, PTL DEF Spec, SteadyReadingsQuiet
-----------------------------------------------------------------------------
(***************************************************************************)
(* What a tick has left at each of its places, from what it has in hand.   *)
(***************************************************************************)
Countdown ==
    /\ c \in 1..(Len(Order) + 1)
    /\ Len(batch) \in 0..MaxBatch /\ Len(peeked) \in 0..MaxBatch
    /\ ExchangeLeft \in 1..3
    /\ pc \in {"sleep", "dispatch", "flush", "wait", "persist", "retry", "ack"}
    /\ pc = "sleep" => StepsLeft = 0
    /\ pc = "dispatch" => StepsLeft = 2 * MaxBatch + 14 + Len(Order) - c
    /\ pc = "flush" => StepsLeft = 2 * MaxBatch + 12
    /\ pc = "wait" /\ batch # <<>> => StepsLeft = 2 * MaxBatch + 8 + ExchangeLeft
    /\ pc = "persist" => StepsLeft = Len(batch) + MaxBatch + 7
    /\ pc = "retry" => StepsLeft = MaxBatch + 6
    /\ pc = "wait" /\ batch = <<>> => StepsLeft = MaxBatch + 2 + ExchangeLeft
    /\ pc = "ack" => StepsLeft = Len(peeked) + 1

(***************************************************************************)
(* The invariant of the pipeline gives these values their ranges.          *)
(***************************************************************************)
LEMMA InvCountsDown == RuntimeInv => Countdown
  <1> SUFFICES ASSUME RuntimeInv PROVE Countdown
    OBVIOUS
  <1>1. /\ MaxBatch \in Nat \ {0} /\ Len(Order) \in Nat /\ c \in 1..(Len(Order) + 1)
        /\ pc \in {"sleep", "dispatch", "flush", "wait", "persist", "retry", "ack"}
    BY RuntimeAssumption DEF RuntimeInv, PlainTypeOK
  <1>2. Len(batch) \in 0..MaxBatch /\ Len(peeked) \in 0..MaxBatch
    BY <1>1 DEF RuntimeInv, QueueTypeOK
  <1>3. ExchangeLeft \in 1..3
    BY DEF ExchangeLeft
  <1>4. CASE pc \in {"sleep", "dispatch", "flush"}
    BY <1>1, <1>2, <1>3, <1>4 DEF Countdown, StepsLeft
  <1>5. CASE pc = "wait" /\ batch # <<>>
    BY <1>1, <1>2, <1>3, <1>5 DEF Countdown, StepsLeft
  <1>6. CASE pc = "wait" /\ batch = <<>>
    BY <1>1, <1>2, <1>3, <1>6 DEF Countdown, StepsLeft
  <1>7. CASE pc \in {"persist", "retry", "ack"}
    BY <1>1, <1>2, <1>3, <1>7 DEF Countdown, StepsLeft
  <1> QED
    BY <1>1, <1>4, <1>5, <1>6, <1>7

(***************************************************************************)
(* tick() ends, after at most one POST for the ring and one for the        *)
(* backlog: for every schedule, batch size and length of the backlog.      *)
(***************************************************************************)
THEOREM TickIsBounded == Spec => TickBounded
  <1> DEFINE Stays == UNCHANGED <<pc, c, batch, peeked, post>>
             Closer == pc # "sleep" => \/ StepsLeft' \in 0..(StepsLeft - 1)
                                       \/ Stays
  <1>1. RuntimeInv /\ RuntimeInv' /\ [Next]_vars => [Closer]_vars
    <2> SUFFICES ASSUME RuntimeInv, RuntimeInv', Next, pc # "sleep"
                 PROVE  StepsLeft' \in 0..(StepsLeft - 1) \/ Stays
      OBVIOUS
    <2>c. MaxBatch \in Nat \ {0} /\ Len(Order) \in Nat /\ Countdown
      BY RuntimeAssumption, InvCountsDown
    <2>d. Countdown'
      <3>1. RuntimeInv' => Countdown'
        BY InvCountsDown, PTL
      <3> QED
        BY <3>1
    <2>h. InHand /\ InHand'
      BY DEF RuntimeInv
    <2>1. CASE NotDue
      BY <2>c, <2>d, <2>1 DEF NotDue, Countdown
    <2>2. ASSUME NEW values, poll_channel(values) PROVE StepsLeft' \in 0..(StepsLeft - 1)
      BY <2>c, <2>d, <2>2 DEF poll_channel, Countdown
    <2>3. CASE DispatchDone
      BY <2>c, <2>d, <2>3 DEF DispatchDone, Countdown
    <2>4. CASE FlushNotNeeded
      BY <2>c, <2>d, <2>4 DEF FlushNotNeeded, Countdown
    <2>5. CASE FlushPost
      <3>1. pc = "flush" /\ pc' = "wait"
        BY <2>5 DEF FlushPost
      <3>2. /\ StepsLeft = 2 * MaxBatch + 12
            /\ \/ StepsLeft' = 2 * MaxBatch + 8 + ExchangeLeft'
               \/ StepsLeft' = MaxBatch + 2 + ExchangeLeft'
        BY <2>c, <2>d, <3>1 DEF Countdown
      <3> QED
        BY <2>c, <2>d, <3>2 DEF Countdown
    <2>17. CASE RetryPost
      <3>1. pc = "retry" /\ pc' = "wait" /\ batch' = <<>>
        BY <2>h, <2>17 DEF RetryPost, InHand
      <3>2. /\ StepsLeft = MaxBatch + 6 /\ StepsLeft' = MaxBatch + 2 + ExchangeLeft'
            /\ ExchangeLeft' \in 1..3
        BY <2>c, <2>d, <3>1, Zenon DEF Countdown
      <3>3. \A m \in Nat, e \in 1..3 : \A before, after :
               before = m + 6 /\ after = m + 2 + e => after \in 0..(before - 1)
        OBVIOUS
      <3>4. MaxBatch \in Nat
        BY <2>c
      <3> QED
        BY <3>2, <3>3, <3>4, Zenon
    <2>6. CASE RetryNotDue \/ PeekFails
      BY <2>c, <2>d, <2>6 DEF RetryNotDue, PeekFails, Countdown
    <2>7. CASE FlushAccepted \/ FlushRejected \/ FlushFailed
      BY <2>c, <2>d, <2>7
      DEF FlushAccepted, FlushRejected, FlushFailed, Answer, Countdown
    <2>8. CASE PersistRow
      <3>1. Len(batch') = Len(batch) - 1
        BY <2>8 DEF PersistRow, RuntimeInv, QueueTypeOK
      <3>2. pc = "persist" /\ pc' = "persist"
        BY <2>8 DEF PersistRow
      <3> QED
        BY <2>c, <2>d, <3>1, <3>2 DEF Countdown
    <2>9. CASE PersistDone
      BY <2>c, <2>d, <2>9 DEF PersistDone, Countdown
    <2>10. CASE RetryFailed \/ RetryAccepted
      BY <2>c, <2>d, <2>h, <2>10 DEF RetryFailed, RetryAccepted, Answer, Countdown, InHand
    <2>11. CASE AckRow
      <3>1. Len(peeked') = Len(peeked) - 1
        BY <2>11 DEF AckRow, RuntimeInv, QueueTypeOK
      <3>2. pc = "ack" /\ pc' = "ack"
        BY <2>11 DEF AckRow
      <3> QED
        BY <2>c, <2>d, <3>1, <3>2 DEF Countdown
    <2>12. CASE AckDone
      BY <2>c, <2>d, <2>12 DEF AckDone, Countdown
    <2>13. CASE ServerAccepts \/ ServerFails \/ TransferFails
      <3>1. /\ pc = "wait" /\ pc' = pc /\ batch' = batch
            /\ ExchangeLeft' < ExchangeLeft
        <4>1. 0 \notin FailureCodes
          BY RuntimeAssumption
        <4> QED
          BY <2>13, <4>1
          DEF ServerAccepts, ServerFails, TransferFails, exchangeFrame, ExchangeLeft
      <3> QED
        BY <2>c, <2>d, <3>1 DEF Countdown
    <2>14. CASE Crash \/ PowerLoss
      <3>1. pc' = "sleep"
        BY <2>14 DEF Crash, PowerLoss, Restarts
      <3>2. StepsLeft' = 0
        BY <2>d, <3>1 DEF Countdown
      <3> QED
        BY <2>c, <3>2 DEF Countdown
    <2>15. CASE LateRequest \/ LogReachesDisk \/ ClockTicks
      BY <2>15 DEF LateRequest, LogReachesDisk, ClockTicks, exchangeFrame, tickVars
    <2>16. ~Wake /\ ~Reload
      BY DEF Wake, Reload
    <2> QED
      BY <2>1, <2>2, <2>3, <2>4, <2>5, <2>17, <2>6, <2>7, <2>8, <2>9, <2>10, <2>11,
         <2>12, <2>13, <2>14, <2>15, <2>16, Zenon
      DEF Next, DaemonStep
  <1> QED
    BY <1>1, InvHolds, PTL DEF Spec, TickBounded
=============================================================================
