------------------------------ MODULE Scheduler ------------------------------
(***************************************************************************)
(* The polling schedule (telemetry/scheduler.cpp).  Time is the steady     *)
(* clock in ticks; it also advances while dispatch_due runs, because poll  *)
(* callbacks read sensors.                                                 *)
(***************************************************************************)
EXTENDS Integers, Sequences

CONSTANTS Rates,            \* sample_rate_hz values, as <<numerator, denominator>>
          TicksPerSecond,   \* resolution of the clock
          MaxChannels,      \* bound: schedule entries
          MaxNow,           \* bound: clock readings
          MaxConfigures     \* bound: configure calls (start and reloads)

ASSUME TickAssumption  == TicksPerSecond \in Nat \ {0}
ASSUME RateAssumption  == Rates \subseteq Nat \X Nat
ASSUME BoundAssumption == /\ MaxChannels \in Nat
                          /\ MaxNow \in Nat
                          /\ MaxConfigures \in Nat

VARIABLES now,              \* the steady clock
          channels_,        \* [period, next_deadline] per entry, in configuration order
          pc,               \* "idle", or the part of dispatch_due being run
          t, c, next,       \* locals of dispatch_due: its now, the channel, its next slot
          polled,           \* history: channels polled by the last dispatch
          base,             \* history: the clock when configure ran
          configures        \* history: configure calls so far

vars == <<now, channels_, pc, t, c, next, polled, base, configures>>

(***************************************************************************)
(* 1 / hz seconds, truncated to ticks; a second when hz is not a positive  *)
(* finite number (denominator 0: not finite).                              *)
(***************************************************************************)
period_from_hz(hz) ==
    IF hz[1] = 0 \/ hz[2] = 0 THEN TicksPerSecond
    ELSE (TicksPerSecond * hz[2]) \div hz[1]

\* Mutant: the first deadline lies a period in the past.
FirstDeadlinePast(period) == now - period

FirstDeadline(period) == now

Init ==
    /\ now = 0
    /\ channels_ = <<>>
    /\ pc = "idle"
    /\ t = 0 /\ c = 1 /\ next = 0
    /\ polled = {}
    /\ base = 0
    /\ configures = 0

(***************************************************************************)
(* Every entry is due at once after start-up and after a reload.           *)
(***************************************************************************)
configure(rates) ==
    /\ pc = "idle" /\ configures < MaxConfigures
    /\ channels_' = [k \in 1..Len(rates) |->
                       [period |-> period_from_hz(rates[k]),
                        next_deadline |-> FirstDeadline(period_from_hz(rates[k]))]]
    /\ base' = now
    /\ configures' = configures + 1
    /\ polled' = {}
    /\ UNCHANGED <<now, pc, t, c, next>>

(***************************************************************************)
(* dispatch_due reads the clock once.                                      *)
(***************************************************************************)
DispatchStart ==
    /\ pc = "idle"
    /\ t' = now
    /\ c' = 1
    /\ polled' = {}
    /\ pc' = "channel"
    /\ UNCHANGED <<now, channels_, next, base, configures>>

SkipChannel ==
    /\ pc = "channel" /\ c <= Len(channels_)
    /\ channels_[c].next_deadline > t
    /\ c' = c + 1
    /\ UNCHANGED <<now, channels_, pc, t, next, polled, base, configures>>

PollChannel ==
    /\ pc = "channel" /\ c <= Len(channels_)
    /\ channels_[c].next_deadline <= t
    /\ polled' = polled \cup {c}
    /\ next' = channels_[c].next_deadline + channels_[c].period
    /\ pc' = "advance"
    /\ UNCHANGED <<now, channels_, t, c, base, configures>>

\* Mutant: missed slots are caught up with.
SlotNeverMissed == FALSE

SlotMissed == next <= t

\* Mutant: the slot is not advanced.
SameSlot == next

FollowingSlot == next + channels_[c].period

\* Mutant: the next slot is counted from the clock reading.
DeadlineFromNow == t + channels_[c].period

\* Mutant: a slot too many is skipped.
DeadlineTwoOn == next + channels_[c].period

(***************************************************************************)
(* The slot found, or one period on when it did not move forward.          *)
(***************************************************************************)
NewDeadline == IF next <= channels_[c].next_deadline
               THEN t + channels_[c].period ELSE next

(***************************************************************************)
(* Skip the slots that are already past.                                   *)
(***************************************************************************)
SkipSlot ==
    /\ pc = "advance" /\ SlotMissed
    /\ next' = FollowingSlot
    /\ UNCHANGED <<now, channels_, pc, t, c, polled, base, configures>>

SetDeadline ==
    /\ pc = "advance" /\ ~SlotMissed
    /\ channels_' = [channels_ EXCEPT ![c].next_deadline = NewDeadline]
    /\ c' = c + 1
    /\ pc' = "channel"
    /\ UNCHANGED <<now, t, next, polled, base, configures>>

DispatchReturn ==
    /\ pc = "channel" /\ c > Len(channels_)
    /\ pc' = "idle"
    /\ UNCHANGED <<now, channels_, t, c, next, polled, base, configures>>

Dispatching == \/ SkipChannel \/ PollChannel \/ SkipSlot \/ SetDeadline
               \/ DispatchReturn

ClockAdvances ==
    /\ now < MaxNow
    /\ now' = now + 1
    /\ UNCHANGED <<channels_, pc, t, c, next, polled, base, configures>>

RateLists == UNION {[1..n -> Rates] : n \in 0..MaxChannels}

Next ==
    \/ \E rates \in RateLists : configure(rates)
    \/ DispatchStart
    \/ Dispatching
    \/ ClockAdvances

Spec == Init /\ [][Next]_vars

(***************************************************************************)
(* The service thread keeps running inside dispatch_due.                   *)
(***************************************************************************)
FairSpec == Spec /\ WF_vars(Dispatching)
-----------------------------------------------------------------------------
(***************************************************************************)
(* Deadlines, clock readings and the locals of dispatch_due stay in their  *)
(* ranges.                                                                 *)
(***************************************************************************)
TypeOK ==
    /\ now \in Nat
    /\ channels_ \in Seq([period : Nat, next_deadline : Nat])
    /\ pc \in {"idle", "channel", "advance"}
    /\ t \in Nat /\ next \in Nat
    /\ c \in Nat \ {0}
    /\ polled \subseteq DOMAIN channels_
    /\ base \in Nat /\ configures \in Nat

(***************************************************************************)
(* next_deadline(): the earliest deadline, or none (the empty set).        *)
(***************************************************************************)
next_deadline ==
    LET deadlines == {channels_[k].next_deadline : k \in DOMAIN channels_} IN
    {d \in deadlines : \A e \in deadlines : d <= e}

(***************************************************************************)
(* No catch-up storm ("Missed deadlines skip catch-up"): once dispatch_due *)
(* has passed a channel, its deadline lies after the clock reading the     *)
(* dispatch started from, however many slots were missed, so when it       *)
(* returns next_deadline() does too and the loop does not spin.            *)
(***************************************************************************)
NoCatchUpStorm ==
    /\ pc # "idle" =>
         \A k \in DOMAIN channels_ : k < c => channels_[k].next_deadline > t
    /\ pc = "channel" /\ c > Len(channels_) => \A d \in next_deadline : d > t

(***************************************************************************)
(* Missing slots never silences a channel: its next deadline is at most    *)
(* one period away from the present.                                       *)
(***************************************************************************)
NoSlotOverskipped ==
    /\ \A k \in DOMAIN channels_ :
          channels_[k].next_deadline <= now + channels_[k].period
    /\ pc = "advance" => next <= t + channels_[c].period

(***************************************************************************)
(* Late polls do not make the schedule drift: every deadline stays a whole *)
(* number of periods after the configure call that set the schedule up.    *)
(***************************************************************************)
NoDrift ==
    \A k \in DOMAIN channels_ :
       channels_[k].period # 0 =>
          (channels_[k].next_deadline - base) % channels_[k].period = 0

(***************************************************************************)
(* dispatch_due returns: the loop that skips missed slots terminates.      *)
(***************************************************************************)
DispatchReturns == pc # "idle" ~> pc = "idle"
=============================================================================
