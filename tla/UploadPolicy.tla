---------------------------- MODULE UploadPolicy ----------------------------
(***************************************************************************)
(* When buffered samples are sent (sync/upload_policy.cpp).  Clock         *)
(* readings are kept as ages: age is now - last_flush, saturated at        *)
(* remote_interval, the only value it is compared with.                    *)
(***************************************************************************)
EXTENDS Integers, Sequences

CONSTANTS Channel,          \* channel ids
          Sync,             \* Sync[ch]: [mode, remote, interval, threshold, priority]
          Value             \* readings, for on_change channels

SyncConfig == [mode : {"batch", "realtime", "on_change"}, remote : BOOLEAN,
               interval : Nat, threshold : Nat, priority : 0..2]

ASSUME SyncAssumption == Sync \in [Channel -> SyncConfig] /\ Value \subseteq Int

VARIABLES states,                \* channels_: the runtime state of each channel
          any_pending_realtime_,
          any_pending_on_change_

policyVars == <<states, any_pending_realtime_, any_pending_on_change_>>

RuntimeState(ch) ==
    [pending_realtime : BOOLEAN, pending_on_change : BOOLEAN,
     has_uploaded_value : BOOLEAN, last_uploaded_value : Value \cup {0},
     age : 0..Sync[ch].interval]

Younger(a, b) == IF a < b THEN a ELSE b

(***************************************************************************)
(* clear() followed by configure_channel() for every channel.              *)
(***************************************************************************)
Configured ==
    [ch \in Channel |-> [pending_realtime |-> FALSE, pending_on_change |-> FALSE,
                         has_uploaded_value |-> FALSE, last_uploaded_value |-> 0,
                         age |-> 0]]

PolicyInit ==
    /\ states = Configured
    /\ any_pending_realtime_ = FALSE
    /\ any_pending_on_change_ = FALSE

Reconfigure ==
    /\ states' = Configured
    /\ any_pending_realtime_' = FALSE
    /\ any_pending_on_change_' = FALSE

(***************************************************************************)
(* on_sample() for one value, on the state of its channel.                 *)
(***************************************************************************)
Distance(a, b) == IF a < b THEN b - a ELSE a - b

Triggers(st, ch, v) ==
    /\ Sync[ch].remote /\ Sync[ch].mode = "on_change"
    /\ \/ ~st.has_uploaded_value
       \/ Distance(v, st.last_uploaded_value) > Sync[ch].threshold

\* Mutant: the value that triggered is not remembered.
AfterSampleForgetful(st, ch, v) ==
    [st EXCEPT
       !.pending_realtime    = @ \/ (Sync[ch].remote /\ Sync[ch].mode = "realtime"),
       !.pending_on_change   = @ \/ Triggers(st, ch, v),
       !.has_uploaded_value  = @ \/ Triggers(st, ch, v)]

AfterSample(st, ch, v) ==
    [st EXCEPT
       !.pending_realtime    = @ \/ (Sync[ch].remote /\ Sync[ch].mode = "realtime"),
       !.pending_on_change   = @ \/ Triggers(st, ch, v),
       !.has_uploaded_value  = @ \/ Triggers(st, ch, v),
       !.last_uploaded_value = IF Triggers(st, ch, v) THEN v ELSE @]

(***************************************************************************)
(* on_sample() for each value of a read in turn: poll_channel passes the   *)
(* id of the polled channel for all of them.                               *)
(***************************************************************************)
on_samples(ch, values) ==
    LET after[n \in 0..Len(values)] ==
          IF n = 0 THEN states[ch] ELSE AfterSample(after[n - 1], ch, values[n])
    IN  /\ states' = [states EXCEPT ![ch] = after[Len(values)]]
        /\ any_pending_realtime_' =
              \/ any_pending_realtime_
              \/ values # <<>> /\ Sync[ch].remote /\ Sync[ch].mode = "realtime"
        /\ any_pending_on_change_' =
              \/ any_pending_on_change_
              \/ \E n \in 1..Len(values) : Triggers(after[n - 1], ch, values[n])

\* Mutant: the ring counts as full one sample too late.
FullTooLate(buffered, max_batch) == max_batch > 0 /\ buffered > max_batch

Full(buffered, max_batch) == max_batch > 0 /\ buffered >= max_batch

\* Mutant: realtime samples do not ask for a flush.
UrgentOnChangeOnly == any_pending_on_change_

Urgent == any_pending_realtime_ \/ any_pending_on_change_

\* Mutant: the test of the destination is inverted.
IntervalOverLocal(ch) ==
    /\ ~Sync[ch].remote /\ Sync[ch].mode = "batch"
    /\ states[ch].age >= Sync[ch].interval

IntervalOver(ch) ==
    /\ Sync[ch].remote /\ Sync[ch].mode = "batch"
    /\ states[ch].age >= Sync[ch].interval

should_flush(buffered, max_batch) ==
    /\ buffered # 0
    /\ Full(buffered, max_batch) \/ Urgent \/ \E ch \in Channel : IntervalOver(ch)

\* Mutant: the flags of the channels are cleared, the two summary flags stay.
mark_flushed_channels(ticks) ==
    /\ UNCHANGED <<any_pending_realtime_, any_pending_on_change_>>
    /\ states' = [ch \in Channel |->
                    [states[ch] EXCEPT !.pending_realtime = FALSE,
                                       !.pending_on_change = FALSE,
                                       !.age = Younger(ticks, Sync[ch].interval)]]

(***************************************************************************)
(* mark_flushed(now), some ticks after that now was read.                  *)
(***************************************************************************)
mark_flushed(ticks) ==
    /\ any_pending_realtime_' = FALSE
    /\ any_pending_on_change_' = FALSE
    /\ states' = [ch \in Channel |->
                    [states[ch] EXCEPT !.pending_realtime = FALSE,
                                       !.pending_on_change = FALSE,
                                       !.age = Younger(ticks, Sync[ch].interval)]]

PolicyAges ==
    /\ states' = [ch \in Channel |->
                    [states[ch] EXCEPT !.age = Younger(@ + 1, Sync[ch].interval)]]
    /\ UNCHANGED <<any_pending_realtime_, any_pending_on_change_>>

PolicyTypeOK ==
    /\ \A ch \in Channel : states[ch] \in RuntimeState(ch)
    /\ DOMAIN states = Channel
    /\ any_pending_realtime_ \in BOOLEAN
    /\ any_pending_on_change_ \in BOOLEAN
=============================================================================
