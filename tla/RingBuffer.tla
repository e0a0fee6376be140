----------------------------- MODULE RingBuffer -----------------------------
(***************************************************************************)
(* The ring of telemetry samples (telemetry/ring_buffer.cpp), one action   *)
(* per loop iteration of an operation.  Every operation runs under mutex_; *)
(* pc says which part of an operation its holder is in, "idle" that nobody *)
(* holds it.                                                               *)
(***************************************************************************)
EXTENDS Naturals, Sequences, FiniteSets

CONSTANTS Sample,           \* the samples drivers produce
          PriorityOf(_),    \* their priority: 0 low, 1 normal, 2 critical
          Capacity,         \* capacity_
          NoSample,         \* nullopt, and the content of an unused slot
          MaxArrivals       \* bound: enqueue calls in a behaviour

ASSUME CapacityAssumption == Capacity \in Nat \ {0}
ASSUME PriorityAssumption == \A s \in Sample : PriorityOf(s) \in 0..2
ASSUME NoSampleAssumption == NoSample \notin Sample
ASSUME BoundAssumption    == MaxArrivals \in Nat

VARIABLES slots, head, size, drop_count,
          pc, arg,          \* the operation in progress and its sample
          i, drop_offset, drop_priority,   \* locals of enqueue
          ret,              \* what the last operation returned
          arrived, taken    \* history: samples offered, samples dequeued

state   == <<slots, head, size, drop_count>>
locals  == <<arg, i, drop_offset, drop_priority>>
history == <<arrived, taken>>
vars    == <<state, pc, locals, ret, history>>

(***************************************************************************)
(* The slot of the resident at an offset from the oldest one.              *)
(***************************************************************************)
Slot(h, offset) == (h + offset) % Capacity

\* Mutant: the first free slot is taken to lie one further on.
FreeSlotOneFurther == Slot(head, size + 1)

FreeSlot == Slot(head, size)

\* Mutant: the head moves on without wrapping.
NextHeadNoWrap == head + 1

NextHead == Slot(head, 1)

\* Mutant: a loop does not advance.
SameOffset == i

NextOffset == i + 1

\* Mutant: a drop is not counted.
DropUncounted == UNCHANGED drop_count

CountDrop == drop_count' = drop_count + 1

Init ==
    /\ slots = [k \in 0..(Capacity - 1) |-> NoSample]
    /\ head = 0 /\ size = 0 /\ drop_count = 0
    /\ pc = "idle" /\ arg = NoSample
    /\ i = 0 /\ drop_offset = 0 /\ drop_priority = 0
    /\ ret = NoSample
    /\ arrived = 0 /\ taken = 0
-----------------------------------------------------------------------------
(***************************************************************************)
(* enqueue with room left.                                                 *)
(***************************************************************************)
EnqueueWithRoom(s) ==
    /\ pc = "idle" /\ arrived < MaxArrivals
    /\ size < Capacity
    /\ slots' = [slots EXCEPT ![FreeSlot] = s]
    /\ size' = size + 1
    /\ ret' = "retained"
    /\ arrived' = arrived + 1
    /\ UNCHANGED <<head, drop_count, pc, locals, taken>>

(***************************************************************************)
(* enqueue into a full ring looks for the resident to drop, starting with  *)
(* the oldest.                                                             *)
(***************************************************************************)
EnqueueFull(s) ==
    /\ pc = "idle" /\ arrived < MaxArrivals
    /\ size >= Capacity
    /\ arg' = s
    /\ i' = 1
    /\ drop_offset' = 0
    /\ drop_priority' = PriorityOf(slots[head])
    /\ pc' = "scan"
    /\ arrived' = arrived + 1
    /\ UNCHANGED <<state, ret, taken>>

\* Mutant: ties go to the youngest.
LowerOrEqual(k) == PriorityOf(slots[Slot(head, k)]) <= drop_priority

Lower(k) == PriorityOf(slots[Slot(head, k)]) < drop_priority

ScanStep ==
    /\ pc = "scan" /\ i < size
    /\ drop_offset' = IF Lower(i) THEN i ELSE drop_offset
    /\ drop_priority' = IF Lower(i) THEN PriorityOf(slots[Slot(head, i)])
                                    ELSE drop_priority
    /\ i' = NextOffset
    /\ UNCHANGED <<state, pc, arg, ret, history>>

\* Mutant: the newcomer is never turned away.
OutrankedNever == FALSE

(***************************************************************************)
(* Every resident is more important than the newcomer.                     *)
(***************************************************************************)
Outranked == PriorityOf(arg) < drop_priority

RejectIncoming ==
    /\ pc = "scan" /\ i >= size
    /\ Outranked
    /\ CountDrop
    /\ ret' = "dropped"
    /\ pc' = "idle"
    /\ UNCHANGED <<slots, head, size, locals, history>>

EvictHead ==
    /\ pc = "scan" /\ i >= size
    /\ ~Outranked
    /\ drop_offset = 0
    /\ head' = NextHead
    /\ size' = size - 1
    /\ CountDrop
    /\ pc' = "append"
    /\ UNCHANGED <<slots, locals, ret, history>>

(***************************************************************************)
(* remove_at_offset closes the gap one slot at a time.                     *)
(***************************************************************************)
StartShift ==
    /\ pc = "scan" /\ i >= size
    /\ ~Outranked
    /\ drop_offset # 0
    /\ i' = drop_offset
    /\ pc' = "shift"
    /\ UNCHANGED <<state, arg, drop_offset, drop_priority, ret, history>>

ShiftStep ==
    /\ pc = "shift" /\ i + 1 < size
    /\ slots' = [slots EXCEPT ![Slot(head, i)] = slots[Slot(head, i + 1)]]
    /\ i' = NextOffset
    /\ UNCHANGED <<head, size, drop_count, pc, arg, drop_offset, drop_priority,
                   ret, history>>

ShiftDone ==
    /\ pc = "shift" /\ i + 1 >= size
    /\ size' = size - 1
    /\ CountDrop
    /\ pc' = "append"
    /\ UNCHANGED <<slots, head, locals, ret, history>>

AppendIncoming ==
    /\ pc = "append"
    /\ slots' = [slots EXCEPT ![FreeSlot] = arg]
    /\ size' = size + 1
    /\ ret' = "retained"
    /\ pc' = "idle"
    /\ UNCHANGED <<head, drop_count, locals, history>>

DequeueEmpty ==
    /\ pc = "idle" /\ size = 0
    /\ ret' = NoSample
    /\ UNCHANGED <<state, pc, locals, history>>

\* Mutant: the youngest sample leaves first.
DequeueYoungest ==
    /\ pc = "idle" /\ size # 0
    /\ ret' = slots[Slot(head, size - 1)]
    /\ size' = size - 1
    /\ taken' = taken + 1
    /\ UNCHANGED <<slots, head, drop_count, pc, locals, arrived>>

Dequeue ==
    /\ pc = "idle" /\ size # 0
    /\ ret' = slots[head]
    /\ head' = NextHead
    /\ size' = size - 1
    /\ taken' = taken + 1
    /\ UNCHANGED <<slots, drop_count, pc, locals, arrived>>

(***************************************************************************)
(* What the holder of mutex_ does until it releases it.                    *)
(***************************************************************************)
Proceed ==
    \/ ScanStep \/ RejectIncoming \/ EvictHead \/ StartShift
    \/ ShiftStep \/ ShiftDone \/ AppendIncoming

Next ==
    \/ \E s \in Sample : EnqueueWithRoom(s) \/ EnqueueFull(s)
    \/ Proceed
    \/ DequeueEmpty \/ Dequeue

Spec == Init /\ [][Next]_vars

(***************************************************************************)
(* A thread inside an operation keeps running.                             *)
(***************************************************************************)
FairSpec == Spec /\ WF_vars(Proceed)
-----------------------------------------------------------------------------
(***************************************************************************)
(* The indices and counters of the ring, and the locals of an enqueue,     *)
(* stay in their ranges.                                                   *)
(***************************************************************************)
TypeOK ==
    /\ slots \in [0..(Capacity - 1) -> Sample \cup {NoSample}]
    /\ head \in 0..(Capacity - 1)
    /\ size \in 0..Capacity
    /\ drop_count \in Nat
    /\ pc \in {"idle", "scan", "shift", "append"}
    /\ arg \in Sample \cup {NoSample}
    /\ i \in 0..Capacity
    /\ drop_offset \in 0..(Capacity - 1)
    /\ drop_priority \in 0..2
    /\ ret \in Sample \cup {NoSample, "retained", "dropped"}
    /\ arrived \in Nat
    /\ taken \in Nat

(***************************************************************************)
(* The queue the ring stands for.  Once an operation has decided to        *)
(* evict, the newcomer already counts as queued: while the gap is being    *)
(* closed it stands at offset i, and no longer holds a resident.           *)
(***************************************************************************)
QueueLength == IF pc = "append" THEN size + 1 ELSE size

QueueAt(k) ==
    IF (pc = "append" /\ k = size + 1) \/ (pc = "shift" /\ k = size)
    THEN arg
    ELSE slots[Slot(head, IF pc = "shift" /\ k > i THEN k ELSE k - 1)]

Queue == [k \in 1..QueueLength |-> QueueAt(k)]

Abstract == INSTANCE BoundedPriorityQueue WITH
    queue <- Queue,
    drop_count <- IF pc = "shift" THEN drop_count + 1 ELSE drop_count,
    ret <- IF pc \in {"shift", "append"} THEN "retained" ELSE ret

(***************************************************************************)
(* The ring implements the bounded priority queue: the circular indexing,  *)
(* the scan for the victim and the shift that closes its gap never lose,   *)
(* duplicate or reorder a resident other than the dropped one.             *)
(***************************************************************************)
ImplementsQueue == Abstract!Spec

(***************************************************************************)
(* Every resident is a sample that was enqueued: enqueue, dequeue and the  *)
(* shift never expose a slot that was not written.                         *)
(***************************************************************************)
ResidentsAreSamples ==
    \A k \in 0..(size - 1) : slots[Slot(head, k)] \in Sample

(***************************************************************************)
(* What an enqueue in progress knows: the scan holds the oldest of the     *)
(* lowest-priority residents it has passed, and the ring is full until the *)
(* victim is gone, so the newcomer always finds a free slot.               *)
(***************************************************************************)
EnqueueInProgress ==
    /\ pc # "idle" => arg \in Sample
    /\ pc = "scan" =>
          /\ size = Capacity
          /\ i \in 1..Capacity
          /\ drop_offset < i
          /\ drop_priority = PriorityOf(slots[Slot(head, drop_offset)])
          /\ \A k \in 0..(i - 1) : drop_priority <= PriorityOf(slots[Slot(head, k)])
          /\ \A k \in 0..(drop_offset - 1) :
                drop_priority < PriorityOf(slots[Slot(head, k)])
    /\ pc = "shift" => size = Capacity /\ i \in 1..(Capacity - 1)
    /\ pc = "append" => size = Capacity - 1

(***************************************************************************)
(* drop_count accounts for every sample that was offered to the buffer and *)
(* neither stays in it nor was handed out by dequeue, whatever mixture of  *)
(* evictions and refusals happened ("Number of samples dropped due to      *)
(* overflow since construction").                                          *)
(***************************************************************************)
DropsAccounted ==
    arrived = taken + drop_count + size + (IF pc = "idle" THEN 0 ELSE 1)

(***************************************************************************)
(* An overflow never trades importance away: whatever the order of the     *)
(* arrivals, the number of residents of priority p or more falls only when *)
(* dequeue hands one out ("the lowest-priority resident sample is dropped  *)
(* first").                                                                *)
(***************************************************************************)
AtLeast(q, p) == {k \in DOMAIN q : PriorityOf(q[k]) >= p}

ImportanceKept ==
    [][\A p \in 0..2 :
          taken' = taken =>
             Cardinality(AtLeast(Queue, p)) <= Cardinality(AtLeast(Queue', p))]_vars

(***************************************************************************)
(* Every step of an enqueue brings its end closer, so that it holds mutex_ *)
(* for no more than 2 * Capacity + 2 steps whatever the ring contains: one *)
(* pass of the scan and one of the shift.  Work bounds the steps left.     *)
(***************************************************************************)
Work == CASE pc = "scan"   -> (Capacity - i) + Capacity + 3
          [] pc = "shift"  -> (Capacity - i) + 2
          [] pc = "append" -> 1
          [] OTHER         -> 0

EnqueueBounded == [][pc # "idle" => Work' \in 0..(Work - 1)]_vars

(***************************************************************************)
(* An operation that enters the buffer leaves it: the scan and the shift   *)
(* terminate, so a waiting caller gets the mutex.                          *)
(***************************************************************************)
OperationReturns == pc # "idle" ~> pc = "idle"
=============================================================================
