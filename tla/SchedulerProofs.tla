-------------------------- MODULE SchedulerProofs ---------------------------
(***************************************************************************)
(* Proofs about Scheduler for every set of rates, every clock resolution   *)
(* and every number of channels: a dispatch never leaves a passed deadline *)
(* behind, and never moves one further than a period away.                 *)
(***************************************************************************)
EXTENDS Scheduler, SequenceTheorems, TLAPS

(***************************************************************************)
(* What a dispatch in progress knows of its locals: it started from a      *)
(* clock reading that is not ahead of the clock, and the channel being     *)
(* advanced was due and has not been given its new deadline yet.           *)
(***************************************************************************)
DispatchInProgress ==
    /\ pc # "idle" => t <= now
    /\ pc = "advance" => /\ c \in DOMAIN channels_
                         /\ channels_[c].next_deadline <= t

(***************************************************************************)
(* The inductive invariant.                                                *)
(***************************************************************************)
PassedChannels ==
    pc # "idle" => \A k \in DOMAIN channels_ : k < c => channels_[k].next_deadline > t

SchedulerInv ==
    /\ TypeOK
    /\ DispatchInProgress
    /\ PassedChannels
    /\ NoSlotOverskipped

(***************************************************************************)
(* A rate gives a whole, non-negative number of ticks.                     *)
(***************************************************************************)
LEMMA PeriodIsNat == \A hz \in Rates : period_from_hz(hz) \in Nat
  <1> SUFFICES ASSUME NEW hz \in Rates PROVE period_from_hz(hz) \in Nat
    OBVIOUS
  <1>1. hz[1] \in Nat /\ hz[2] \in Nat
    BY RateAssumption
  <1>2. TicksPerSecond * hz[2] \in Nat
    BY <1>1, TickAssumption
  <1>3. hz[1] # 0 => (TicksPerSecond * hz[2]) \div hz[1] \in Nat
    BY <1>1, <1>2
  <1> QED
    BY <1>1, <1>3, TickAssumption DEF period_from_hz

(***************************************************************************)
(* An empty schedule satisfies the invariant.                              *)
(***************************************************************************)
LEMMA InitEstablishes == Init => SchedulerInv
  BY DEF Init, SchedulerInv, TypeOK, DispatchInProgress, PassedChannels,
         NoSlotOverskipped

(***************************************************************************)
(* Every step of configure and of dispatch_due preserves the invariant.    *)
(***************************************************************************)
LEMMA StepPreserves == SchedulerInv /\ [Next]_vars => SchedulerInv'
  <1> SUFFICES ASSUME SchedulerInv, [Next]_vars PROVE SchedulerInv'
    OBVIOUS
  <1> USE DEF SchedulerInv
  <1>0. \A k \in DOMAIN channels_ : /\ k \in Nat \ {0}
                                    /\ channels_[k].period \in Nat
                                    /\ channels_[k].next_deadline \in Nat
    <2>1. channels_ \in Seq([period : Nat, next_deadline : Nat])
      BY DEF TypeOK
    <2>2. DOMAIN channels_ = 1..Len(channels_) /\ Len(channels_) \in Nat
      BY <2>1
    <2>3. \A k \in 1..Len(channels_) :
             channels_[k] \in [period : Nat, next_deadline : Nat]
      BY <2>1, ElementOfSeq, Zenon
    <2> QED
      BY <2>2, <2>3
  <1>1. ASSUME NEW rates \in RateLists, configure(rates) PROVE SchedulerInv'
    <2>1. PICK n \in Nat : rates \in [1..n -> Rates]
      BY <1>1, BoundAssumption DEF RateLists
    <2>2. Len(rates) = n
      BY <2>1
    <2>3. /\ \A k \in 1..n : period_from_hz(rates[k]) \in Nat
          /\ now \in Nat
      BY <2>1, PeriodIsNat DEF TypeOK
    <2>4. /\ channels_' \in Seq([period : Nat, next_deadline : Nat])
          /\ \A k \in DOMAIN channels_' :
                /\ channels_'[k].period \in Nat
                /\ channels_'[k].next_deadline = now
      BY <1>1, <2>2, <2>3 DEF configure, FirstDeadline
    <2>5. TypeOK'
      BY <1>1, <2>4 DEF configure, TypeOK
    <2>6. DispatchInProgress' /\ PassedChannels'
      BY <1>1 DEF configure, DispatchInProgress, PassedChannels
    <2>7. NoSlotOverskipped'
      BY <1>1, <2>3, <2>4 DEF configure, NoSlotOverskipped
    <2> QED
      BY <2>5, <2>6, <2>7
  <1>2. CASE DispatchStart
    BY <1>0, <1>2
    DEF DispatchStart, TypeOK, DispatchInProgress, PassedChannels, NoSlotOverskipped
  <1>3. CASE SkipChannel
    <2>1. TypeOK' /\ DispatchInProgress' /\ NoSlotOverskipped'
      BY <1>3 DEF SkipChannel, TypeOK, DispatchInProgress, NoSlotOverskipped
    <2>2. PassedChannels'
      BY <1>0, <1>3 DEF SkipChannel, TypeOK, PassedChannels
    <2> QED
      BY <2>1, <2>2
  <1>4. CASE PollChannel
    <2>1. c \in DOMAIN channels_
      BY <1>4 DEF PollChannel, TypeOK
    <2>2. TypeOK'
      <3>1. channels_[c].next_deadline + channels_[c].period \in Nat
        BY <1>0, <2>1
      <3>2. polled \cup {c} \subseteq DOMAIN channels_
        BY <2>1 DEF TypeOK
      <3> QED
        BY <1>4, <3>1, <3>2, SMTT(20) DEF PollChannel, TypeOK
    <2>3. DispatchInProgress' /\ PassedChannels'
      BY <1>4, <2>1 DEF PollChannel, DispatchInProgress, PassedChannels
    <2>4. /\ channels_[c].next_deadline <= t
          /\ channels_[c].next_deadline \in Nat /\ channels_[c].period \in Nat
          /\ t \in Nat
          /\ next' = channels_[c].next_deadline + channels_[c].period
      BY <1>0, <1>4, <2>1 DEF PollChannel, TypeOK
    <2>5. next' <= t + channels_[c].period
      BY <2>4
    <2>6. NoSlotOverskipped'
      BY <1>4, <2>5 DEF PollChannel, NoSlotOverskipped
    <2> QED
      BY <2>2, <2>3, <2>6
  <1>5. CASE SkipSlot
    <2>1. c \in DOMAIN channels_
      BY <1>5 DEF SkipSlot, DispatchInProgress
    <2>2. TypeOK'
      BY <1>0, <1>5, <2>1 DEF SkipSlot, FollowingSlot, TypeOK
    <2>3. DispatchInProgress' /\ PassedChannels'
      BY <1>5 DEF SkipSlot, DispatchInProgress, PassedChannels
    <2>4. next + channels_[c].period <= t + channels_[c].period
      <3>1. next \in Nat /\ t \in Nat /\ next <= t
        BY <1>5 DEF SkipSlot, SlotMissed, TypeOK
      <3>2. channels_[c].period \in Nat
        BY <1>0, <2>1
      <3> QED
        BY <3>1, <3>2
    <2>5. NoSlotOverskipped'
      BY <1>5, <2>4 DEF SkipSlot, FollowingSlot, NoSlotOverskipped
    <2> QED
      BY <2>2, <2>3, <2>5
  <1>6. CASE SetDeadline
    <2>1. /\ c \in DOMAIN channels_
          /\ channels_[c].next_deadline <= t
          /\ t <= now
          /\ t < next /\ next <= t + channels_[c].period
          /\ t \in Nat /\ now \in Nat /\ next \in Nat
      BY <1>6 DEF SetDeadline, SlotMissed, DispatchInProgress, NoSlotOverskipped, TypeOK
    <2>2. NewDeadline = next
      BY <1>0, <2>1 DEF NewDeadline
    <2>3. channels_' = [channels_ EXCEPT ![c].next_deadline = next]
      BY <1>6, <2>2 DEF SetDeadline
    <2>4. channels_ \in Seq([period : Nat, next_deadline : Nat])
      BY DEF TypeOK
    <2>5. channels_[c] \in [period : Nat, next_deadline : Nat]
      BY <2>1, <2>4, ElementOfSeq, LenProperties, Zenon
    <2>6. [channels_[c] EXCEPT !.next_deadline = next]
             \in [period : Nat, next_deadline : Nat]
      BY <2>1, <2>5
    <2>7. channels_' = [channels_ EXCEPT ![c] =
                          [channels_[c] EXCEPT !.next_deadline = next]]
      BY <2>3
    <2>8. /\ channels_' \in Seq([period : Nat, next_deadline : Nat])
          /\ DOMAIN channels_' = DOMAIN channels_
      BY <2>1, <2>4, <2>6, <2>7
    <2>9. \A k \in DOMAIN channels_ :
             /\ channels_'[k].period = channels_[k].period
             /\ channels_'[k].next_deadline =
                   IF k = c THEN next ELSE channels_[k].next_deadline
      BY <2>1, <2>3, <2>4
    <2>10. TypeOK'
      <3>1. polled' \subseteq DOMAIN channels_'
        BY <1>6, <2>8 DEF SetDeadline, TypeOK
      <3>2. c' \in Nat \ {0}
        BY <1>6 DEF SetDeadline, TypeOK
      <3> QED
        BY <1>6, <2>8, <3>1, <3>2, SMTT(20) DEF SetDeadline, TypeOK
    <2>11. DispatchInProgress'
      BY <1>6 DEF SetDeadline, DispatchInProgress
    <2>12. PassedChannels'
      BY <1>0, <1>6, <2>1, <2>8, <2>9 DEF SetDeadline, PassedChannels
    <2>13. NoSlotOverskipped'
      <3>1. now' = now /\ pc' = "channel"
        BY <1>6 DEF SetDeadline
      <3>2. \A k \in DOMAIN channels_ :
               channels_'[k].next_deadline <= now + channels_'[k].period
        <4> SUFFICES ASSUME NEW k \in DOMAIN channels_
                     PROVE  channels_'[k].next_deadline <= now + channels_'[k].period
          OBVIOUS
        <4>1. channels_[k].period \in Nat
          BY <1>0
        <4>2. channels_[k].next_deadline <= now + channels_[k].period
          BY DEF NoSlotOverskipped
        <4>3. CASE k = c
          BY <2>1, <2>9, <4>1, <4>3
        <4>4. CASE k # c
          BY <2>9, <4>2, <4>4
        <4> QED
          BY <4>3, <4>4
      <3> QED
        BY <2>8, <3>1, <3>2 DEF NoSlotOverskipped
    <2> QED
      BY <2>10, <2>11, <2>12, <2>13
  <1>7. CASE DispatchReturn
    BY <1>7 DEF DispatchReturn, TypeOK, DispatchInProgress, PassedChannels,
                NoSlotOverskipped
  <1>8. CASE ClockAdvances
    <2>1. now \in Nat /\ now' = now + 1
      BY <1>8 DEF ClockAdvances, TypeOK
    <2>2. TypeOK'
      BY <1>8 DEF ClockAdvances, TypeOK
    <2>3. DispatchInProgress' /\ PassedChannels'
      BY <1>8, <2>1 DEF ClockAdvances, TypeOK, DispatchInProgress, PassedChannels
    <2>4. \A k \in DOMAIN channels_ :
             channels_[k].next_deadline <= (now + 1) + channels_[k].period
      BY <1>0, <2>1 DEF NoSlotOverskipped
    <2>5. NoSlotOverskipped'
      BY <1>8, <2>1, <2>4 DEF ClockAdvances, NoSlotOverskipped
    <2> QED
      BY <2>2, <2>3, <2>5
  <1>9. CASE UNCHANGED vars
    BY <1>9 DEF vars, TypeOK, DispatchInProgress, PassedChannels, NoSlotOverskipped
  <1> QED
    BY <1>1, <1>2, <1>3, <1>4, <1>5, <1>6, <1>7, <1>8, <1>9 DEF Next, Dispatching

(***************************************************************************)
(* The invariant holds in every reachable state.                           *)
(***************************************************************************)
THEOREM SchedulerInvHolds == Spec => []SchedulerInv
  BY InitEstablishes, StepPreserves, PTL DEF Spec

(***************************************************************************)
(* A dispatch leaves no passed deadline behind, however late it runs and   *)
(* however long its polls take, and next_deadline() agrees.                *)
(***************************************************************************)
THEOREM SchedulerNoCatchUpStorm == Spec => []NoCatchUpStorm
  <1>1. SchedulerInv => NoCatchUpStorm
    <2> SUFFICES ASSUME SchedulerInv PROVE NoCatchUpStorm
      OBVIOUS
    <2>1. ASSUME pc = "channel", c > Len(channels_), NEW d \in next_deadline
          PROVE  d > t
      <3>1. PICK k \in DOMAIN channels_ : d = channels_[k].next_deadline
        BY <2>1 DEF next_deadline
      <3>2. k < c
        BY <2>1 DEF SchedulerInv, TypeOK
      <3> QED
        BY <2>1, <3>1, <3>2 DEF SchedulerInv, PassedChannels
    <2> QED
      BY <2>1 DEF NoCatchUpStorm, SchedulerInv, PassedChannels
  <1> QED
    BY <1>1, SchedulerInvHolds, PTL

(***************************************************************************)
(* Missing slots never silences a channel: its next deadline is at most    *)
(* one period away.                                                        *)
(***************************************************************************)
THEOREM SchedulerNoSlotOverskipped == Spec => []NoSlotOverskipped
  <1>1. SchedulerInv => NoSlotOverskipped
    BY DEF SchedulerInv
  <1> QED
    BY <1>1, SchedulerInvHolds, PTL

(***************************************************************************)
(* Deadlines, clock readings and locals stay in their ranges.              *)
(***************************************************************************)
THEOREM SchedulerTypeOK == Spec => []TypeOK
  <1>1. SchedulerInv => TypeOK
    BY DEF SchedulerInv
  <1> QED
    BY <1>1, SchedulerInvHolds, PTL
-----------------------------------------------------------------------------
(***************************************************************************)
(* Division with remainder by a period.                                    *)
(***************************************************************************)
LEMMA DivMod ==
    ASSUME NEW p \in Nat \ {0}, NEW x \in Int
    PROVE  x = p * (x \div p) + (x % p) /\ x \div p \in Int /\ x % p \in 0..(p - 1)
  BY SMT

(***************************************************************************)
(* The only multiple of a period between zero and the period is zero.      *)
(***************************************************************************)
LEMMA SmallMultiple ==
    ASSUME NEW p \in Nat \ {0}, NEW a \in Int, NEW r \in 0..(p - 1), p * a = r
    PROVE  r = 0
  <1>1. a <= 0
    <2> SUFFICES ASSUME a >= 1 PROVE FALSE
      BY SMT
    <2>1. p * a >= p
      BY Z3
    <2> QED
      BY <2>1
  <1>2. a >= 0
    <2> SUFFICES ASSUME a <= -1 PROVE FALSE
      BY SMT
    <2>1. p * a <= -p
      BY Z3
    <2> QED
      BY <2>1
  <1> QED
    BY <1>1, <1>2

(***************************************************************************)
(* Multiplication distributes over subtraction.                            *)
(***************************************************************************)
LEMMA Distributes ==
    ASSUME NEW p \in Int, NEW k \in Int, NEW d \in Int
    PROVE  p * k - p * d = p * (k - d)
  BY SMT

(***************************************************************************)
(* A multiple of a period leaves no remainder.                             *)
(***************************************************************************)
LEMMA MultipleMod ==
    ASSUME NEW p \in Nat \ {0}, NEW k \in Int
    PROVE  (p * k) % p = 0
  <1>1. PICK d \in Int, r \in 0..(p - 1) : p * k = p * d + r /\ r = (p * k) % p
    <2>1. p * k \in Int
      OBVIOUS
    <2> QED
      BY <2>1, DivMod
  <1>2. p * (k - d) = r /\ k - d \in Int
    BY <1>1, Distributes
  <1> QED
    BY <1>1, <1>2, SmallMultiple

(***************************************************************************)
(* Moving on by a whole period keeps the remainder zero.                   *)
(***************************************************************************)
LEMMA PeriodOn ==
    ASSUME NEW p \in Nat \ {0}, NEW x \in Int, x % p = 0
    PROVE  (x + p) % p = 0
  <1>1. x = p * (x \div p) /\ x \div p \in Int
    BY DivMod
  <1>2. x + p = p * (x \div p + 1) /\ x \div p + 1 \in Int
    BY <1>1
  <1>3. (p * (x \div p + 1)) % p = 0
    BY <1>2, MultipleMod
  <1> QED
    BY <1>2, <1>3

(***************************************************************************)
(* NoDrift is inductive once it also covers the slot dispatch_due is       *)
(* looking for.                                                            *)
(***************************************************************************)
OnGrid(x, p) == p # 0 => (x - base) % p = 0

DriftInv ==
    /\ SchedulerInv
    /\ \A k \in DOMAIN channels_ : OnGrid(channels_[k].next_deadline, channels_[k].period)
    /\ pc = "advance" => OnGrid(next, channels_[c].period)

(***************************************************************************)
(* A slot a period after one on the grid is on the grid.                   *)
(***************************************************************************)
LEMMA GridOn ==
    ASSUME NEW x \in Nat, NEW p \in Nat, base \in Nat, OnGrid(x, p)
    PROVE  OnGrid(x + p, p)
  <1> SUFFICES ASSUME p # 0 PROVE ((x + p) - base) % p = 0
    BY DEF OnGrid
  <1>1. (x - base) % p = 0 /\ x - base \in Int
    BY DEF OnGrid
  <1>2. ((x - base) + p) % p = 0
    BY <1>1, PeriodOn
  <1>3. (x - base) + p = (x + p) - base
    OBVIOUS
  <1> QED
    BY <1>2, <1>3

(***************************************************************************)
(* Every step preserves it: configure starts a grid, PollChannel and       *)
(* SkipSlot move along it, SetDeadline stores the slot found.              *)
(***************************************************************************)
LEMMA StepPreservesDrift == DriftInv /\ [Next]_vars => DriftInv'
  <1> SUFFICES ASSUME DriftInv, [Next]_vars PROVE DriftInv'
    OBVIOUS
  <1>1. SchedulerInv /\ SchedulerInv'
    BY StepPreserves DEF DriftInv
  <1>2. /\ base \in Nat /\ next \in Nat
        /\ \A k \in DOMAIN channels_ :
              channels_[k].period \in Nat /\ channels_[k].next_deadline \in Nat
    <2>1. channels_ \in Seq([period : Nat, next_deadline : Nat])
      BY <1>1 DEF SchedulerInv, TypeOK
    <2>2. \A k \in 1..Len(channels_) :
             channels_[k] \in [period : Nat, next_deadline : Nat]
      BY <2>1, ElementOfSeq, Zenon
    <2>3. DOMAIN channels_ = 1..Len(channels_)
      BY <2>1
    <2> QED
      BY <1>1, <2>2, <2>3 DEF SchedulerInv, TypeOK
  <1>3. pc = "advance" => c \in DOMAIN channels_
    BY <1>1 DEF SchedulerInv, DispatchInProgress
  <1>4. ASSUME NEW rates \in RateLists, configure(rates) PROVE DriftInv'
    <2>1. \A k \in DOMAIN channels_' : /\ channels_'[k].next_deadline = base'
                                       /\ channels_'[k].period \in Nat
      <3>1. channels_' \in Seq([period : Nat, next_deadline : Nat])
        BY <1>1 DEF SchedulerInv, TypeOK
      <3>2. \A k \in 1..Len(channels_') :
               channels_'[k] \in [period : Nat, next_deadline : Nat]
        BY <3>1, ElementOfSeq, Zenon
      <3>3. DOMAIN channels_' = 1..Len(channels_')
        BY <3>1
      <3> QED
        BY <1>4, <3>2, <3>3 DEF configure, FirstDeadline
    <2>2. base' \in Nat /\ pc' # "advance"
      BY <1>1, <1>4 DEF configure, SchedulerInv, TypeOK
    <2>3. \A p \in Nat : p # 0 => (base' - base') % p = 0
      <3>1. base' - base' = 0
        <4>1. \A n \in Nat : n - n = 0
          OBVIOUS
        <4> QED
          BY <2>2, <4>1, Zenon
      <3>2. \A p \in Nat : p # 0 => 0 % p = 0
        BY SMT
      <3> QED
        BY <3>1, <3>2
    <2> QED
      BY <1>1, <2>1, <2>2, <2>3 DEF DriftInv, OnGrid
  <1>5. CASE PollChannel
    <2>1. c \in DOMAIN channels_
      BY <1>1, <1>5 DEF PollChannel, SchedulerInv, TypeOK
    <2>2. OnGrid(channels_[c].next_deadline + channels_[c].period, channels_[c].period)
      BY <1>2, <2>1, GridOn DEF DriftInv
    <2> QED
      BY <1>1, <1>5, <2>2 DEF PollChannel, DriftInv, OnGrid
  <1>6. CASE SkipSlot
    <2>1. OnGrid(next + channels_[c].period, channels_[c].period)
      BY <1>2, <1>3, <1>6, GridOn DEF SkipSlot, DriftInv
    <2> QED
      BY <1>1, <1>6, <2>1 DEF SkipSlot, FollowingSlot, DriftInv, OnGrid
  <1>7. CASE SetDeadline
    <2>1. /\ c \in DOMAIN channels_
          /\ channels_[c].next_deadline <= t
          /\ t < next
          /\ t \in Nat
      BY <1>1, <1>7
      DEF SetDeadline, SlotMissed, SchedulerInv, DispatchInProgress, TypeOK
    <2>2. NewDeadline = next
      BY <1>2, <2>1 DEF NewDeadline
    <2>3. channels_' = [channels_ EXCEPT ![c].next_deadline = next]
      BY <1>7, <2>2 DEF SetDeadline
    <2>4. channels_ \in Seq([period : Nat, next_deadline : Nat])
      BY <1>1 DEF SchedulerInv, TypeOK
    <2>5. /\ DOMAIN channels_' = DOMAIN channels_
          /\ \A k \in DOMAIN channels_ :
                /\ channels_'[k].period = channels_[k].period
                /\ channels_'[k].next_deadline =
                      IF k = c THEN next ELSE channels_[k].next_deadline
      BY <2>1, <2>3, <2>4
    <2>6. OnGrid(next, channels_[c].period)
      BY <1>7 DEF SetDeadline, DriftInv
    <2> QED
      BY <1>1, <1>7, <2>5, <2>6 DEF SetDeadline, DriftInv, OnGrid
  <1>8. CASE DispatchStart \/ SkipChannel \/ DispatchReturn \/ ClockAdvances
    BY <1>1, <1>8
    DEF DispatchStart, SkipChannel, DispatchReturn, ClockAdvances, DriftInv, OnGrid
  <1>9. CASE UNCHANGED vars
    BY <1>1, <1>9 DEF vars, DriftInv, OnGrid
  <1> QED
    BY <1>4, <1>5, <1>6, <1>7, <1>8, <1>9 DEF Next, Dispatching

(***************************************************************************)
(* However late the polls are, every deadline stays a whole number of      *)
(* periods after the configure call.                                       *)
(***************************************************************************)
THEOREM SchedulerNoDrift == Spec => []NoDrift
  <1>1. Init => DriftInv
    BY InitEstablishes DEF Init, DriftInv, OnGrid
  <1>2. DriftInv => NoDrift
    BY DEF DriftInv, NoDrift, OnGrid
  <1> QED
    BY <1>1, <1>2, StepPreservesDrift, PTL DEF Spec
=============================================================================
