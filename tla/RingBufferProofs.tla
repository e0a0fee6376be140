-------------------------- MODULE RingBufferProofs --------------------------
(***************************************************************************)
(* Proofs about RingBuffer for every capacity, sample set and priority     *)
(* assignment: its invariants, that it implements the bounded priority     *)
(* queue, and that an enqueue ends after two passes over the ring.         *)
(***************************************************************************)
EXTENDS RingBuffer, SequenceTheorems, FiniteSetTheorems, TLAPS

(***************************************************************************)
(* The index computation (head_ + offset) % capacity_ wraps at most once.  *)
(***************************************************************************)
LEMMA SlotWraps ==
    ASSUME NEW h \in 0..(Capacity - 1), NEW k \in 0..Capacity
    PROVE  Slot(h, k) = IF h + k < Capacity THEN h + k ELSE h + k - Capacity
  BY CapacityAssumption, SMT DEF Slot

(***************************************************************************)
(* What the rest of the proof uses of the circular indexing: slots exist,  *)
(* different offsets have different slots, and advancing head_ by one      *)
(* shifts every offset by one.                                             *)
(***************************************************************************)
LEMMA SlotFacts ==
    ASSUME NEW h \in 0..(Capacity - 1)
    PROVE  /\ \A k \in 0..Capacity : Slot(h, k) \in 0..(Capacity - 1)
           /\ Slot(h, 0) = h
           /\ \A j, k \in 0..(Capacity - 1) : Slot(h, j) = Slot(h, k) => j = k
           /\ \A k \in 0..(Capacity - 1) : Slot(Slot(h, 1), k) = Slot(h, k + 1)
           /\ Slot(h, Capacity) = h
  <1>1. \A k \in 0..Capacity :
           Slot(h, k) = IF h + k < Capacity THEN h + k ELSE h + k - Capacity
    BY SlotWraps
  <1>2. \A k \in 0..Capacity : Slot(h, k) \in 0..(Capacity - 1)
    BY <1>1, CapacityAssumption
  <1>3. \A k \in 0..Capacity : Slot(Slot(h, 1), k) =
           IF Slot(h, 1) + k < Capacity THEN Slot(h, 1) + k
                                        ELSE Slot(h, 1) + k - Capacity
    BY <1>2, SlotWraps, CapacityAssumption
  <1>4. 1 \in 0..Capacity
    BY CapacityAssumption
  <1>5. \A k \in 0..(Capacity - 1) : Slot(Slot(h, 1), k) = Slot(h, k + 1)
    BY <1>1, <1>3, <1>4, CapacityAssumption
  <1> QED
    BY <1>1, <1>2, <1>5, CapacityAssumption

(***************************************************************************)
(* The inductive invariant.                                                *)
(***************************************************************************)
RingInv ==
    /\ TypeOK
    /\ ResidentsAreSamples
    /\ EnqueueInProgress
    /\ DropsAccounted

(***************************************************************************)
(* An empty ring, as the constructor leaves it, satisfies the invariant.   *)
(***************************************************************************)
LEMMA InitEstablishes == Init => RingInv
  BY CapacityAssumption
  DEF Init, RingInv, TypeOK, ResidentsAreSamples, EnqueueInProgress, DropsAccounted

(***************************************************************************)
(* Writing the first free slot keeps the residents and adds one.           *)
(***************************************************************************)
LEMMA WriteFreeSlot ==
    ASSUME TypeOK, ResidentsAreSamples, size < Capacity, NEW s \in Sample,
           slots' = [slots EXCEPT ![Slot(head, size)] = s]
    PROVE  /\ slots' \in [0..(Capacity - 1) -> Sample \cup {NoSample}]
           /\ slots'[Slot(head, size)] = s
           /\ \A k \in 0..(size - 1) : slots'[Slot(head, k)] = slots[Slot(head, k)]
           /\ \A k \in 0..size : slots'[Slot(head, k)] \in Sample
  <1>s. /\ \A k \in 0..Capacity : Slot(head, k) \in 0..(Capacity - 1)
        /\ \A j, k \in 0..(Capacity - 1) : Slot(head, j) = Slot(head, k) => j = k
    BY SlotFacts DEF TypeOK
  <1>1. Slot(head, size) \in 0..(Capacity - 1)
    BY <1>s DEF TypeOK
  <1>2. \A k \in 0..(size - 1) : /\ Slot(head, k) \in 0..(Capacity - 1)
                                 /\ Slot(head, k) # Slot(head, size)
    <2>1. /\ size \in 0..(Capacity - 1)
          /\ \A k \in 0..(size - 1) : /\ k \in 0..(Capacity - 1) /\ k # size
                                     /\ k \in 0..Capacity
      BY CapacityAssumption DEF TypeOK
    <2> QED
      BY <1>s, <2>1
  <1>3. slots'[Slot(head, size)] = s
    BY <1>1 DEF TypeOK
  <1>4. \A k \in 0..(size - 1) : slots'[Slot(head, k)] = slots[Slot(head, k)]
    BY <1>2 DEF TypeOK
  <1>5. \A k \in 0..size : k \in 0..(size - 1) \/ k = size
    BY CapacityAssumption DEF TypeOK
  <1>6. \A k \in 0..size : slots'[Slot(head, k)] \in Sample
    BY <1>3, <1>4, <1>5 DEF ResidentsAreSamples
  <1>7. slots' \in [0..(Capacity - 1) -> Sample \cup {NoSample}]
    BY <1>1 DEF TypeOK
  <1> QED
    BY <1>3, <1>4, <1>6, <1>7

(***************************************************************************)
(* Closing the gap by one slot: offset i takes its successor's sample.     *)
(***************************************************************************)
LEMMA ShiftOneSlot ==
    ASSUME RingInv, ShiftStep
    PROVE  /\ slots' \in [0..(Capacity - 1) -> Sample \cup {NoSample}]
           /\ slots'[Slot(head, i)] = slots[Slot(head, i + 1)]
           /\ \A k \in 0..(Capacity - 1) :
                 k # i => slots'[Slot(head, k)] = slots[Slot(head, k)]
           /\ \A k \in 0..(size - 1) : slots'[Slot(head, k)] \in Sample
  <1> USE CapacityAssumption
  <1>1. /\ i \in 0..(Capacity - 1) /\ i + 1 \in 0..(Capacity - 1)
        /\ i + 1 \in 0..(size - 1) /\ head \in 0..(Capacity - 1)
        /\ size = Capacity
        /\ slots \in [0..(Capacity - 1) -> Sample \cup {NoSample}]
        /\ slots' = [slots EXCEPT ![Slot(head, i)] = slots[Slot(head, i + 1)]]
    BY DEF RingInv, TypeOK, EnqueueInProgress, ShiftStep, NextOffset
  <1>s. /\ \A k \in 0..Capacity : Slot(head, k) \in 0..(Capacity - 1)
        /\ \A j, k \in 0..(Capacity - 1) : Slot(head, j) = Slot(head, k) => j = k
    BY <1>1, SlotFacts
  <1>2. \A k \in 0..(Capacity - 1) : Slot(head, k) \in 0..(Capacity - 1)
    BY <1>s
  <1>3. \A k \in 0..(Capacity - 1) : k # i => Slot(head, k) # Slot(head, i)
    BY <1>1, <1>s
  <1>4. slots[Slot(head, i + 1)] \in Sample
    BY <1>1 DEF RingInv, ResidentsAreSamples
  <1>5. slots'[Slot(head, i)] = slots[Slot(head, i + 1)]
    BY <1>1, <1>2
  <1>6. \A k \in 0..(Capacity - 1) :
           k # i => slots'[Slot(head, k)] = slots[Slot(head, k)]
    BY <1>1, <1>2, <1>3
  <1>7. \A k \in 0..(size - 1) : slots'[Slot(head, k)] \in Sample
    BY <1>1, <1>4, <1>5, <1>6 DEF RingInv, ResidentsAreSamples
  <1>8. slots' \in [0..(Capacity - 1) -> Sample \cup {NoSample}]
    BY <1>1, <1>2, <1>4
  <1> QED
    BY <1>5, <1>6, <1>7, <1>8

(***************************************************************************)
(* Advancing head_ past the oldest resident keeps all the others.          *)
(***************************************************************************)
LEMMA AdvanceHead ==
    ASSUME TypeOK, ResidentsAreSamples, size # 0
    PROVE  /\ Slot(head, 1) \in 0..(Capacity - 1)
           /\ Slot(head, 0) = head
           /\ slots[head] \in Sample
           /\ \A k \in 0..(Capacity - 1) : Slot(Slot(head, 1), k) = Slot(head, k + 1)
           /\ \A k \in 0..((size - 1) - 1) : slots[Slot(Slot(head, 1), k)] \in Sample
  <1> USE CapacityAssumption DEF TypeOK
  <1>s. /\ \A k \in 0..Capacity : Slot(head, k) \in 0..(Capacity - 1)
        /\ Slot(head, 0) = head
        /\ \A k \in 0..(Capacity - 1) : Slot(Slot(head, 1), k) = Slot(head, k + 1)
    BY SlotFacts
  <1>1. /\ Slot(head, 1) \in 0..(Capacity - 1)
        /\ Slot(head, 0) = head
        /\ \A k \in 0..(Capacity - 1) : Slot(Slot(head, 1), k) = Slot(head, k + 1)
    BY <1>s
  <1>2. slots[head] \in Sample
    BY <1>1 DEF ResidentsAreSamples
  <1>3. \A k \in 0..((size - 1) - 1) : k \in 0..(Capacity - 1) /\ k + 1 \in 0..(size - 1)
    OBVIOUS
  <1>4. \A k \in 0..((size - 1) - 1) : slots[Slot(Slot(head, 1), k)] \in Sample
    BY <1>1, <1>3 DEF ResidentsAreSamples
  <1> QED
    BY <1>1, <1>2, <1>4

(***************************************************************************)
(* Every step of enqueue and dequeue preserves the invariant: one case per *)
(* action, one step per conjunct it can disturb.                           *)
(***************************************************************************)
LEMMA StepPreserves == RingInv /\ [Next]_vars => RingInv'
  <1> SUFFICES ASSUME RingInv, [Next]_vars PROVE RingInv'
    OBVIOUS
  <1> USE CapacityAssumption DEF RingInv, state, locals, history, FreeSlot, NextHead,
      NextOffset, CountDrop, Outranked
  <1>1. ASSUME NEW s \in Sample, EnqueueWithRoom(s) PROVE RingInv'
    <2>1. /\ slots' \in [0..(Capacity - 1) -> Sample \cup {NoSample}]
          /\ \A k \in 0..size : slots'[Slot(head, k)] \in Sample
      BY <1>1, WriteFreeSlot DEF EnqueueWithRoom
    <2>2. TypeOK'
      BY <1>1, <2>1 DEF EnqueueWithRoom, TypeOK
    <2>3. ResidentsAreSamples'
      <3>1. head' = head /\ size' = size + 1 /\ (size + 1) - 1 = size
        BY <1>1 DEF EnqueueWithRoom, TypeOK
      <3> QED
        BY <2>1, <3>1 DEF ResidentsAreSamples
    <2>4. EnqueueInProgress' /\ DropsAccounted'
      BY <1>1 DEF EnqueueWithRoom, TypeOK, EnqueueInProgress, DropsAccounted
    <2> QED
      BY <2>2, <2>3, <2>4
  <1>2. ASSUME NEW s \in Sample, EnqueueFull(s) PROVE RingInv'
    <2>1. slots[head] \in Sample /\ Slot(head, 0) = head
      BY <1>2, AdvanceHead DEF EnqueueFull, TypeOK
    <2>2. PriorityOf(slots[head]) \in 0..2
      BY <2>1, PriorityAssumption
    <2>3. TypeOK'
      BY <1>2, <2>2 DEF EnqueueFull, TypeOK
    <2>4. ResidentsAreSamples'
      BY <1>2 DEF EnqueueFull, ResidentsAreSamples
    <2>5. EnqueueInProgress'
      BY <1>2, <2>1, <2>2 DEF EnqueueFull, EnqueueInProgress, TypeOK
    <2>6. DropsAccounted'
      BY <1>2 DEF EnqueueFull, TypeOK, DropsAccounted
    <2> QED
      BY <2>3, <2>4, <2>5, <2>6
  <1>3. CASE ScanStep
    <2>1. /\ i \in 1..(Capacity - 1) /\ size = Capacity
          /\ slots' = slots /\ head' = head /\ size' = size
      BY <1>3 DEF ScanStep, EnqueueInProgress, TypeOK
    <2>2. \A k \in 0..(Capacity - 1) : PriorityOf(slots[Slot(head, k)]) \in 0..2
      BY <2>1, PriorityAssumption DEF ResidentsAreSamples
    <2>3. PriorityOf(slots[Slot(head, i)]) \in 0..2
      BY <2>1, <2>2
    <2>4. TypeOK'
      BY <1>3, <2>1, <2>3 DEF ScanStep, TypeOK
    <2>5. ResidentsAreSamples'
      BY <2>1 DEF ResidentsAreSamples
    <2>6. EnqueueInProgress'
      BY <1>3, <2>1, <2>2, <2>3, SMTT(30) DEF ScanStep, EnqueueInProgress, Lower, TypeOK
    <2>7. DropsAccounted'
      BY <1>3 DEF ScanStep, DropsAccounted
    <2> QED
      BY <2>4, <2>5, <2>6, <2>7
  <1>4. CASE RejectIncoming
    BY <1>4 DEF RejectIncoming, TypeOK, ResidentsAreSamples, EnqueueInProgress,
                DropsAccounted
  <1>5. CASE EvictHead
    <2>1. size = Capacity
      BY <1>5 DEF EvictHead, EnqueueInProgress
    <2>2. /\ Slot(head, 1) \in 0..(Capacity - 1)
          /\ \A k \in 0..((size - 1) - 1) : slots[Slot(Slot(head, 1), k)] \in Sample
      BY <2>1, AdvanceHead
    <2>3. TypeOK'
      BY <1>5, <2>1, <2>2 DEF EvictHead, TypeOK
    <2>4. ResidentsAreSamples'
      BY <1>5, <2>2 DEF EvictHead, ResidentsAreSamples
    <2>5. EnqueueInProgress' /\ DropsAccounted'
      BY <1>5, <2>1 DEF EvictHead, TypeOK, EnqueueInProgress, DropsAccounted
    <2> QED
      BY <2>3, <2>4, <2>5
  <1>6. CASE StartShift
    BY <1>6 DEF StartShift, TypeOK, ResidentsAreSamples, EnqueueInProgress,
                DropsAccounted
  <1>7. CASE ShiftStep
    <2>1. /\ slots' \in [0..(Capacity - 1) -> Sample \cup {NoSample}]
          /\ \A k \in 0..(size - 1) : slots'[Slot(head, k)] \in Sample
      BY <1>7, ShiftOneSlot
    <2>2. TypeOK'
      BY <1>7, <2>1 DEF ShiftStep, TypeOK
    <2>3. ResidentsAreSamples'
      BY <1>7, <2>1 DEF ShiftStep, ResidentsAreSamples
    <2>4. EnqueueInProgress' /\ DropsAccounted'
      BY <1>7 DEF ShiftStep, TypeOK, EnqueueInProgress, DropsAccounted
    <2> QED
      BY <2>2, <2>3, <2>4
  <1>8. CASE ShiftDone
    <2>1. ResidentsAreSamples'
      <3> SUFFICES ASSUME NEW k \in 0..(size' - 1)
                   PROVE  slots'[Slot(head', k)] \in Sample
        BY DEF ResidentsAreSamples
      <3>1. slots' = slots /\ head' = head /\ k \in 0..(size - 1)
        BY <1>8 DEF ShiftDone, TypeOK
      <3> QED
        BY <3>1 DEF ResidentsAreSamples
    <2>2. TypeOK' /\ EnqueueInProgress' /\ DropsAccounted'
      BY <1>8 DEF ShiftDone, TypeOK, EnqueueInProgress, DropsAccounted
    <2> QED
      BY <2>1, <2>2
  <1>9. CASE AppendIncoming
    <2>1. size = Capacity - 1 /\ size < Capacity /\ arg \in Sample
      BY <1>9 DEF AppendIncoming, EnqueueInProgress
    <2>2. /\ slots' \in [0..(Capacity - 1) -> Sample \cup {NoSample}]
          /\ \A k \in 0..size : slots'[Slot(head, k)] \in Sample
      BY <1>9, <2>1, WriteFreeSlot DEF AppendIncoming
    <2>3. TypeOK'
      BY <1>9, <2>1, <2>2 DEF AppendIncoming, TypeOK
    <2>4. ResidentsAreSamples'
      <3>1. head' = head /\ size' = size + 1 /\ (size + 1) - 1 = size
        BY <1>9 DEF AppendIncoming, TypeOK
      <3> QED
        BY <2>2, <3>1 DEF ResidentsAreSamples
    <2>5. EnqueueInProgress' /\ DropsAccounted'
      BY <1>9 DEF AppendIncoming, TypeOK, EnqueueInProgress, DropsAccounted
    <2> QED
      BY <2>3, <2>4, <2>5
  <1>10. CASE DequeueEmpty
    BY <1>10 DEF DequeueEmpty, TypeOK, ResidentsAreSamples, EnqueueInProgress,
                 DropsAccounted
  <1>11. CASE Dequeue
    <2>1. /\ Slot(head, 1) \in 0..(Capacity - 1)
          /\ slots[head] \in Sample
          /\ \A k \in 0..((size - 1) - 1) : slots[Slot(Slot(head, 1), k)] \in Sample
      BY <1>11, AdvanceHead DEF Dequeue
    <2>2. TypeOK'
      BY <1>11, <2>1 DEF Dequeue, TypeOK
    <2>3. ResidentsAreSamples'
      BY <1>11, <2>1 DEF Dequeue, ResidentsAreSamples
    <2>4. EnqueueInProgress' /\ DropsAccounted'
      BY <1>11 DEF Dequeue, TypeOK, EnqueueInProgress, DropsAccounted
    <2> QED
      BY <2>2, <2>3, <2>4
  <1>12. CASE UNCHANGED vars
    BY <1>12 DEF vars, TypeOK, ResidentsAreSamples, EnqueueInProgress, DropsAccounted
  <1> QED
    BY <1>1, <1>2, <1>3, <1>4, <1>5, <1>6, <1>7, <1>8, <1>9, <1>10, <1>11, <1>12
    DEF Next, Proceed

(***************************************************************************)
(* The invariant holds in every reachable state, for every capacity, every *)
(* set of samples and every number of arrivals.                            *)
(***************************************************************************)
THEOREM RingInvHolds == Spec => []RingInv
  BY InitEstablishes, StepPreserves, PTL DEF Spec

(***************************************************************************)
(* The indices of ring_buffer.cpp stay inside the ring, and the scan's and *)
(* the shift's locals stay inside it too.                                  *)
(***************************************************************************)
THEOREM RingTypeOK == Spec => []TypeOK
  <1>1. RingInv => TypeOK
    BY DEF RingInv
  <1> QED
    BY <1>1, RingInvHolds, PTL

(***************************************************************************)
(* No operation exposes a slot that was never written.                     *)
(***************************************************************************)
THEOREM RingResidentsAreSamples == Spec => []ResidentsAreSamples
  <1>1. RingInv => ResidentsAreSamples
    BY DEF RingInv
  <1> QED
    BY <1>1, RingInvHolds, PTL

(***************************************************************************)
(* The scan of a full ring holds the oldest of the least important         *)
(* residents it has passed, and a newcomer always finds a free slot.       *)
(***************************************************************************)
THEOREM RingEnqueueInProgress == Spec => []EnqueueInProgress
  <1>1. RingInv => EnqueueInProgress
    BY DEF RingInv
  <1> QED
    BY <1>1, RingInvHolds, PTL

(***************************************************************************)
(* drop_count accounts for every sample that neither stays in the ring nor *)
(* was handed out, whatever mixture of evictions and refusals happened.    *)
(***************************************************************************)
THEOREM RingDropsAccounted == Spec => []DropsAccounted
  <1>1. RingInv => DropsAccounted
    BY DEF RingInv
  <1> QED
    BY <1>1, RingInvHolds, PTL

-----------------------------------------------------------------------------
(***************************************************************************)
(* The mapped queue is a sequence of samples within the capacity.          *)
(***************************************************************************)
QueueShape ==
    /\ QueueLength \in 0..Capacity
    /\ Queue \in [1..QueueLength -> Sample]
    /\ Queue \in Seq(Sample)
    /\ Len(Queue) = QueueLength

(***************************************************************************)
(* RingInv gives the mapped queue that shape.                              *)
(***************************************************************************)
LEMMA QueueHasShape == RingInv => QueueShape
  <1> SUFFICES ASSUME RingInv PROVE QueueShape
    OBVIOUS
  <1> USE CapacityAssumption DEF RingInv
  <1>1. QueueLength \in 0..Capacity
    BY DEF QueueLength, TypeOK, EnqueueInProgress
  <1>2. \A k \in 1..QueueLength : QueueAt(k) \in Sample
    BY DEF QueueLength, QueueAt, TypeOK, EnqueueInProgress, ResidentsAreSamples
  <1>3. Queue \in [1..QueueLength -> Sample]
    BY <1>2 DEF Queue
  <1>4. Queue \in Seq(Sample) /\ Len(Queue) = QueueLength
    BY <1>1, <1>3
  <1> QED
    BY <1>1, <1>3, <1>4 DEF QueueShape

(***************************************************************************)
(* The ring the constructor leaves stands for the empty queue.             *)
(***************************************************************************)
LEMMA InitRefines == Init => Abstract!Init
  BY CapacityAssumption DEF Init, Abstract!Init, Queue, QueueLength

(***************************************************************************)
(* Between operations, and while the scan runs, the mapped queue is the    *)
(* window of residents.                                                    *)
(***************************************************************************)
LEMMA QueueIsWindow ==
    ASSUME RingInv, pc \in {"idle", "scan"}
    PROVE  /\ QueueLength = size
           /\ \A k \in 1..size : Queue[k] = slots[Slot(head, k - 1)]
  BY DEF QueueLength, Queue, QueueAt

(***************************************************************************)
(* When the scan has passed every resident, drop_offset is the victim.     *)
(***************************************************************************)
LEMMA ScanFindsVictim ==
    ASSUME RingInv, pc = "scan", i >= size
    PROVE  /\ QueueLength = Capacity
           /\ Queue \in Seq(Sample) /\ Len(Queue) = Capacity
           /\ drop_offset + 1 \in 1..Capacity
           /\ PriorityOf(Queue[drop_offset + 1]) = drop_priority
           /\ Abstract!IsVictim(Queue, drop_offset + 1)
  <1>1. /\ size = Capacity /\ i = Capacity /\ drop_offset \in 0..(Capacity - 1)
        /\ drop_priority = PriorityOf(slots[Slot(head, drop_offset)])
        /\ \A k \in 0..(Capacity - 1) : drop_priority <= PriorityOf(slots[Slot(head, k)])
        /\ \A k \in 0..(drop_offset - 1) : drop_priority < PriorityOf(slots[Slot(head, k)])
    BY CapacityAssumption DEF RingInv, TypeOK, EnqueueInProgress
  <1>2. /\ QueueLength = Capacity
        /\ \A k \in 1..Capacity : Queue[k] = slots[Slot(head, k - 1)]
    BY <1>1, QueueIsWindow
  <1>3. Queue \in Seq(Sample) /\ Len(Queue) = Capacity
    BY <1>2, QueueHasShape DEF QueueShape
  <1>4. drop_offset + 1 \in 1..Capacity /\ (drop_offset + 1) - 1 = drop_offset
    BY <1>1, CapacityAssumption
  <1>5. PriorityOf(Queue[drop_offset + 1]) = drop_priority
    BY <1>1, <1>2, <1>4
  <1>6. \A k \in 1..Capacity : k - 1 \in 0..(Capacity - 1)
    BY CapacityAssumption
  <1>7. \A k \in 1..Capacity : drop_priority <= PriorityOf(Queue[k])
    BY <1>1, <1>2, <1>6
  <1>8. \A k \in 1..drop_offset : k \in 1..Capacity /\ k - 1 \in 0..(drop_offset - 1)
    BY <1>1, CapacityAssumption
  <1>9. \A k \in 1..drop_offset : drop_priority < PriorityOf(Queue[k])
    BY <1>1, <1>2, <1>8
  <1> QED
    BY <1>2, <1>3, <1>4, <1>5, <1>7, <1>9 DEF Abstract!IsVictim

(***************************************************************************)
(* Every step of the ring maps to a step of the queue, or to none: the     *)
(* decision to evict is the queue's replacement, and the shift and the     *)
(* append that follow it change nothing a caller could see.                *)
(***************************************************************************)
LEMMA StepRefines ==
    RingInv /\ RingInv' /\ [Next]_vars => [Abstract!Next]_(Abstract!vars)
  <1> SUFFICES ASSUME RingInv, RingInv', [Next]_vars
               PROVE  [Abstract!Next]_(Abstract!vars)
    OBVIOUS
  <1> USE CapacityAssumption DEF state, locals, history, FreeSlot, NextHead,
      NextOffset, CountDrop, Outranked
  <1>s. QueueShape /\ QueueShape'
    <2>1. RingInv' => QueueShape'
      BY QueueHasShape, PTL
    <2> QED
      BY <2>1, QueueHasShape
  <1>q. /\ QueueLength \in 0..Capacity
        /\ Queue \in Seq(Sample) /\ Len(Queue) = QueueLength
        /\ size \in 0..Capacity /\ i \in 0..Capacity /\ head \in 0..(Capacity - 1)
        /\ drop_offset \in 0..(Capacity - 1) /\ drop_count \in Nat
    BY <1>s DEF RingInv, TypeOK, QueueShape
  <1>r. /\ QueueLength' \in 0..Capacity
        /\ Queue' \in Seq(Sample) /\ Len(Queue') = QueueLength'
    BY <1>s DEF QueueShape
  <1>1. ASSUME NEW s \in Sample, EnqueueWithRoom(s)
        PROVE  Abstract!PutWithRoom(s)
    <2>1. QueueLength = size /\ QueueLength' = size + 1
      BY <1>1 DEF EnqueueWithRoom, QueueLength
    <2>2. /\ slots'[Slot(head, size)] = s
          /\ \A k \in 0..(size - 1) : slots'[Slot(head, k)] = slots[Slot(head, k)]
      BY <1>1, WriteFreeSlot DEF EnqueueWithRoom, RingInv
    <2>3. \A k \in 1..(size + 1) : Queue'[k] = slots'[Slot(head, k - 1)]
      BY <1>1, <2>1 DEF EnqueueWithRoom, Queue, QueueAt
    <2>4. \A k \in 1..size : Queue[k] = slots[Slot(head, k - 1)]
      BY <1>1, <2>1 DEF EnqueueWithRoom, Queue, QueueAt
    <2>5. \A k \in 1..size : Queue'[k] = Queue[k]
      BY <1>q, <2>2, <2>3, <2>4
    <2>6. Queue'[size + 1] = s
      BY <1>q, <2>2, <2>3
    <2>7. Queue' = Append(Queue, s)
      BY <1>q, <1>r, <2>1, <2>5, <2>6
    <2> QED
      BY <1>1, <1>q, <2>1, <2>7 DEF EnqueueWithRoom, Abstract!PutWithRoom
  <1>2. ASSUME NEW s \in Sample, EnqueueFull(s)
        PROVE  UNCHANGED Abstract!vars
    BY <1>2 DEF EnqueueFull, Abstract!vars, Queue, QueueLength, QueueAt
  <1>3. CASE ScanStep
    BY <1>3 DEF ScanStep, Abstract!vars, Queue, QueueLength, QueueAt
  <1>4. CASE RejectIncoming
    <2>1. arg \in Sample /\ PriorityOf(arg) \in 0..2 /\ drop_priority \in 0..2
      BY <1>4, PriorityAssumption
      DEF RejectIncoming, RingInv, EnqueueInProgress, TypeOK
    <2>2. /\ Len(Queue) = Capacity
          /\ \A k \in 1..Capacity : drop_priority <= PriorityOf(Queue[k])
      BY <1>4, ScanFindsVictim DEF RejectIncoming, Abstract!IsVictim
    <2>3. \A k \in 1..Capacity : PriorityOf(Queue[k]) \in 0..2
      BY <1>q, <2>2, PriorityAssumption, ElementOfSeq
    <2>4. \A k \in 1..Capacity : PriorityOf(arg) < PriorityOf(Queue[k])
      BY <1>4, <2>1, <2>2, <2>3 DEF RejectIncoming
    <2>5. Queue' = Queue
      BY <1>4 DEF RejectIncoming, Queue, QueueLength, QueueAt
    <2>6. Abstract!PutRefused(arg)
      BY <1>4, <2>2, <2>4, <2>5 DEF RejectIncoming, Abstract!PutRefused
    <2> QED
      BY <2>1, <2>6 DEF Abstract!Next
  <1>5. CASE EvictHead
    <2>1. /\ arg \in Sample /\ Len(Queue) = Capacity /\ QueueLength = Capacity
          /\ Abstract!IsVictim(Queue, 1)
          /\ PriorityOf(Queue[1]) = drop_priority
      <3>1. pc = "scan" /\ i >= size /\ drop_offset + 1 = 1
        BY <1>5 DEF EvictHead
      <3> QED
        BY <3>1, ScanFindsVictim DEF RingInv, EnqueueInProgress
    <2>2. PriorityOf(Queue[1]) <= PriorityOf(arg)
      BY <1>5, <2>1, PriorityAssumption DEF EvictHead, RingInv, TypeOK
    <2>3. /\ size = Capacity /\ head' = Slot(head, 1) /\ slots' = slots
          /\ arg' = arg /\ pc' = "append" /\ size' = Capacity - 1
          /\ QueueLength' = Capacity
      BY <1>5, <1>q, <2>1 DEF EvictHead, QueueLength
    <2>4. /\ \A k \in 1..Capacity : Queue[k] = slots[Slot(head, k - 1)]
          /\ \A k \in 0..(Capacity - 1) : Slot(head', k) = Slot(head, k + 1)
      BY <1>5, <1>q, <2>3, QueueIsWindow, SlotFacts DEF EvictHead
    <2>5. \A k \in 1..Capacity :
             Queue'[k] = IF k = Capacity THEN arg ELSE Queue[k + 1]
      <3> SUFFICES ASSUME NEW k \in 1..Capacity
                   PROVE  Queue'[k] = IF k = Capacity THEN arg ELSE Queue[k + 1]
        OBVIOUS
      <3>1. CASE k = Capacity
        BY <3>1, <2>3 DEF Queue, QueueAt
      <3>2. CASE k # Capacity
        <4>1. Queue'[k] = slots[Slot(head', k - 1)]
          BY <3>2, <2>3 DEF Queue, QueueAt
        <4>2. /\ k - 1 \in 0..(Capacity - 1) /\ (k - 1) + 1 = k
              /\ k + 1 \in 1..Capacity /\ (k + 1) - 1 = k
          BY <3>2
        <4> QED
          BY <3>2, <4>1, <4>2, <2>4
      <3> QED
        BY <3>1, <3>2
    <2>6. Queue' = Abstract!Replace(Queue, 1, arg)
      BY <1>r, <2>1, <2>3, <2>5 DEF Abstract!Replace
    <2>7. Abstract!PutReplacing(arg)
      BY <1>5, <2>1, <2>2, <2>3, <2>6 DEF EvictHead, Abstract!PutReplacing
    <2> QED
      BY <2>1, <2>7 DEF Abstract!Next
  <1>6. CASE StartShift
    <2>1. /\ arg \in Sample /\ Len(Queue) = Capacity /\ QueueLength = Capacity
          /\ drop_offset + 1 \in 1..Capacity
          /\ Abstract!IsVictim(Queue, drop_offset + 1)
          /\ PriorityOf(Queue[drop_offset + 1]) = drop_priority
      BY <1>6, ScanFindsVictim DEF StartShift, RingInv, EnqueueInProgress
    <2>2. PriorityOf(Queue[drop_offset + 1]) <= PriorityOf(arg)
      BY <1>6, <2>1, PriorityAssumption DEF StartShift, RingInv, TypeOK
    <2>3. /\ size = Capacity /\ head' = head /\ slots' = slots /\ size' = size
          /\ arg' = arg /\ pc' = "shift" /\ i' = drop_offset
          /\ QueueLength' = Capacity
      BY <1>6, <2>1 DEF StartShift, QueueLength
    <2>4. \A k \in 1..Capacity : Queue[k] = slots[Slot(head, k - 1)]
      BY <1>6, <2>3, QueueIsWindow DEF StartShift
    <2>5. \A k \in 1..Capacity :
             Queue'[k] = IF k = Capacity THEN arg
                         ELSE IF k < drop_offset + 1 THEN Queue[k] ELSE Queue[k + 1]
      <3> SUFFICES ASSUME NEW k \in 1..Capacity
                   PROVE  Queue'[k] = IF k = Capacity THEN arg
                                      ELSE IF k < drop_offset + 1 THEN Queue[k]
                                                                  ELSE Queue[k + 1]
        OBVIOUS
      <3>1. CASE k = Capacity
        BY <3>1, <2>3 DEF Queue, QueueAt
      <3>2. CASE k # Capacity
        <4>1. Queue'[k] = slots[Slot(head, IF k > drop_offset THEN k ELSE k - 1)]
          BY <3>2, <2>3 DEF Queue, QueueAt
        <4>2. k + 1 \in 1..Capacity /\ (k + 1) - 1 = k
          BY <3>2
        <4> QED
          BY <3>2, <4>1, <4>2, <1>q, <2>4
      <3> QED
        BY <3>1, <3>2
    <2>6. Queue' = Abstract!Replace(Queue, drop_offset + 1, arg)
      BY <1>r, <2>1, <2>3, <2>5 DEF Abstract!Replace
    <2>7. Abstract!PutReplacing(arg)
      BY <1>6, <2>1, <2>2, <2>3, <2>6 DEF StartShift, Abstract!PutReplacing
    <2> QED
      BY <2>1, <2>7 DEF Abstract!Next
  <1>7. CASE ShiftStep
    <2>1. /\ slots'[Slot(head, i)] = slots[Slot(head, i + 1)]
          /\ \A k \in 0..(Capacity - 1) :
                k # i => slots'[Slot(head, k)] = slots[Slot(head, k)]
      BY <1>7, ShiftOneSlot
    <2>2. /\ size = Capacity /\ pc = "shift" /\ pc' = "shift" /\ i + 1 < Capacity
          /\ head' = head /\ size' = size /\ arg' = arg /\ i' = i + 1
          /\ drop_count' = drop_count /\ ret' = ret
          /\ QueueLength = Capacity /\ QueueLength' = Capacity
      BY <1>7 DEF ShiftStep, RingInv, EnqueueInProgress, QueueLength
    <2>3. ASSUME NEW k \in 1..Capacity PROVE QueueAt(k)' = QueueAt(k)
      <3>1. CASE k = Capacity
        BY <3>1, <2>2 DEF QueueAt
      <3>2. CASE k # Capacity /\ k > i + 1
        BY <3>2, <1>q, <2>1, <2>2 DEF QueueAt
      <3>3. CASE k # Capacity /\ k = i + 1
        BY <3>3, <1>q, <2>1, <2>2 DEF QueueAt
      <3>4. CASE k # Capacity /\ k < i + 1
        BY <3>4, <1>q, <2>1, <2>2 DEF QueueAt
      <3> QED
        BY <3>1, <3>2, <3>3, <3>4, <1>q
    <2>4. Queue' = Queue
      BY <2>2, <2>3 DEF Queue
    <2> QED
      BY <2>2, <2>4 DEF Abstract!vars
  <1>8. CASE ShiftDone
    <2>1. /\ size = Capacity /\ i = Capacity - 1 /\ pc = "shift" /\ pc' = "append"
          /\ head' = head /\ size' = Capacity - 1 /\ arg' = arg /\ slots' = slots
          /\ drop_count' = drop_count + 1 /\ ret' = ret
          /\ QueueLength = Capacity /\ QueueLength' = Capacity
      BY <1>8 DEF ShiftDone, RingInv, EnqueueInProgress, QueueLength
    <2>2. ASSUME NEW k \in 1..Capacity PROVE QueueAt(k)' = QueueAt(k)
      BY <2>1 DEF QueueAt
    <2>3. Queue' = Queue
      BY <2>1, <2>2 DEF Queue
    <2> QED
      BY <2>1, <2>3 DEF Abstract!vars
  <1>9. CASE AppendIncoming
    <2>1. /\ size = Capacity - 1 /\ size < Capacity /\ arg \in Sample
          /\ pc = "append" /\ pc' = "idle"
          /\ head' = head /\ size' = Capacity /\ ret' = "retained"
          /\ drop_count' = drop_count
          /\ QueueLength = Capacity /\ QueueLength' = Capacity
      BY <1>9 DEF AppendIncoming, RingInv, EnqueueInProgress, QueueLength
    <2>2. /\ slots'[Slot(head, size)] = arg
          /\ \A k \in 0..(size - 1) : slots'[Slot(head, k)] = slots[Slot(head, k)]
      BY <1>9, <2>1, WriteFreeSlot DEF AppendIncoming, RingInv
    <2>3. ASSUME NEW k \in 1..Capacity PROVE QueueAt(k)' = QueueAt(k)
      <3>1. CASE k = Capacity
        BY <3>1, <2>1, <2>2 DEF QueueAt
      <3>2. CASE k # Capacity
        BY <3>2, <2>1, <2>2 DEF QueueAt
      <3> QED
        BY <3>1, <3>2
    <2>4. Queue' = Queue
      BY <2>1, <2>3 DEF Queue
    <2> QED
      BY <2>1, <2>4 DEF Abstract!vars
  <1>10. CASE DequeueEmpty
    <2>1. Queue = <<>> /\ Queue' = Queue
      BY <1>10, <1>q DEF DequeueEmpty, Queue, QueueLength, QueueAt
    <2>2. Abstract!GetNothing
      BY <1>10, <2>1 DEF DequeueEmpty, Abstract!GetNothing
    <2> QED
      BY <2>2 DEF Abstract!Next
  <1>11. CASE Dequeue
    <2>1. /\ size # 0 /\ QueueLength = size /\ QueueLength' = size - 1
          /\ head' = Slot(head, 1) /\ slots' = slots
      BY <1>11 DEF Dequeue, QueueLength
    <2>2. /\ \A k \in 1..size : Queue[k] = slots[Slot(head, k - 1)]
          /\ \A k \in 1..(size - 1) : Queue'[k] = slots[Slot(head', k - 1)]
      BY <1>11, <2>1, QueueIsWindow DEF Dequeue, Queue, QueueAt
    <2>3. /\ Slot(head, 0) = head
          /\ \A k \in 0..(Capacity - 1) : Slot(head', k) = Slot(head, k + 1)
      BY <1>q, <2>1, SlotFacts
    <2>4. Queue # <<>> /\ Head(Queue) = slots[head]
      BY <1>q, <2>1, <2>2, <2>3
    <2>5. \A k \in 1..(size - 1) : Queue'[k] = Queue[k + 1]
      <3> SUFFICES ASSUME NEW k \in 1..(size - 1) PROVE Queue'[k] = Queue[k + 1]
        OBVIOUS
      <3>1. /\ k - 1 \in 0..(Capacity - 1) /\ (k - 1) + 1 = k
            /\ k + 1 \in 1..size /\ (k + 1) - 1 = k
        BY <1>q
      <3> QED
        BY <3>1, <2>2, <2>3
    <2>6. Queue' = Tail(Queue)
      <3>1. /\ Tail(Queue) \in Seq(Sample) /\ Len(Tail(Queue)) = size - 1
            /\ \A k \in 1..(size - 1) : Tail(Queue)[k] = Queue[k + 1]
        BY <1>q, <2>1, <2>4, HeadTailProperties
      <3> QED
        BY <3>1, <1>r, <2>1, <2>5, SeqEqual
    <2>7. Abstract!Get
      BY <1>11, <2>4, <2>6 DEF Dequeue, Abstract!Get
    <2> QED
      BY <2>7 DEF Abstract!Next
  <1>12. CASE UNCHANGED vars
    BY <1>12 DEF vars, Abstract!vars, Queue, QueueLength, QueueAt
  <1> QED
    BY <1>1, <1>2, <1>3, <1>4, <1>5, <1>6, <1>7, <1>8, <1>9, <1>10, <1>11, <1>12
    DEF Next, Proceed, Abstract!Next

(***************************************************************************)
(* The ring of ring_buffer.cpp implements the bounded priority queue, for  *)
(* every capacity: no combination of wrap-around, scan and shift loses,    *)
(* duplicates or reorders a sample other than the one an overflow drops.   *)
(***************************************************************************)
THEOREM RingImplementsQueue == Spec => ImplementsQueue
  BY RingInvHolds, InitRefines, StepRefines, PTL
  DEF Spec, ImplementsQueue, Abstract!Spec

-----------------------------------------------------------------------------
(***************************************************************************)
(* The ring gets shorter only when dequeue takes a sample.                 *)
(***************************************************************************)
LEMMA OnlyDequeueShortens ==
    RingInv /\ [Next]_vars /\ taken' = taken => QueueLength <= QueueLength'
  <1> SUFFICES ASSUME RingInv, [Next]_vars, taken' = taken PROVE QueueLength <= QueueLength'
    OBVIOUS
  <1>1. size \in Nat /\ taken \in Nat
    BY CapacityAssumption DEF RingInv, TypeOK
  <1> USE DEF QueueLength, state, locals, history
  <1>2. ASSUME NEW s \in Sample, EnqueueWithRoom(s) \/ EnqueueFull(s)
        PROVE  QueueLength <= QueueLength'
    BY <1>1, <1>2 DEF EnqueueWithRoom, EnqueueFull
  <1>3. CASE ScanStep \/ RejectIncoming \/ EvictHead \/ StartShift
    BY <1>1, <1>3 DEF ScanStep, RejectIncoming, EvictHead, StartShift
  <1>4. CASE ShiftStep \/ ShiftDone \/ AppendIncoming
    BY <1>1, <1>4 DEF ShiftStep, ShiftDone, AppendIncoming
  <1>5. CASE DequeueEmpty \/ UNCHANGED vars
    BY <1>1, <1>5 DEF DequeueEmpty, vars
  <1>6. CASE Dequeue
    BY <1>1, <1>6 DEF Dequeue
  <1> QED
    BY <1>2, <1>3, <1>4, <1>5, <1>6 DEF Next, Proceed

(***************************************************************************)
(* The positions of a queue are finitely many.                             *)
(***************************************************************************)
LEMMA AtLeastFinite ==
    ASSUME NEW q \in Seq(Sample), NEW p
    PROVE  AtLeast(q, p) \subseteq 1..Len(q) /\ IsFiniteSet(AtLeast(q, p))
  <1>1. Len(q) \in Nat /\ DOMAIN q = 1..Len(q)
    OBVIOUS
  <1>2. IsFiniteSet(1..Len(q))
    BY <1>1, FS_Interval
  <1>3. AtLeast(q, p) \subseteq 1..Len(q)
    BY <1>1 DEF AtLeast
  <1> QED
    BY <1>2, <1>3, FS_Subset

(***************************************************************************)
(* A sample more does no harm.                                             *)
(***************************************************************************)
LEMMA AppendKeepsImportance ==
    ASSUME NEW q \in Seq(Sample), NEW s \in Sample, NEW p \in 0..2
    PROVE  Cardinality(AtLeast(q, p)) <= Cardinality(AtLeast(Append(q, s), p))
  <1>1. PICK r : r = Append(q, s)
    OBVIOUS
  <1>2. r \in Seq(Sample) /\ Len(r) = Len(q) + 1 /\ \A k \in 1..Len(q) : r[k] = q[k]
    BY <1>1
  <1>3. AtLeast(q, p) \subseteq AtLeast(r, p)
    BY <1>2 DEF AtLeast
  <1>4. IsFiniteSet(AtLeast(r, p))
    BY <1>2, AtLeastFinite
  <1> QED
    BY <1>1, <1>3, <1>4, FS_Subset

(***************************************************************************)
(* Nor does the exchange of a resident for a sample that is at least as    *)
(* important: the others move down by one, and the newcomer stands in for  *)
(* the resident that left.                                                 *)
(***************************************************************************)
LEMMA ReplaceKeepsImportance ==
    ASSUME NEW q \in Seq(Sample), NEW v \in 1..Len(q), NEW s \in Sample, NEW p \in 0..2,
           PriorityOf(q[v]) <= PriorityOf(s)
    PROVE  Cardinality(AtLeast(q, p)) <= Cardinality(AtLeast(Abstract!Replace(q, v, s), p))
  <1>1. PICK N \in Nat : N = Len(q)
    OBVIOUS
  <1>2. PICK r : r = Abstract!Replace(q, v, s)
    OBVIOUS
  <1>3. /\ DOMAIN q = 1..N /\ DOMAIN r = 1..N
        /\ \A k \in 1..N : q[k] \in Sample /\ PriorityOf(q[k]) \in 0..2
        /\ v \in 1..N
    BY <1>1, <1>2, PriorityAssumption DEF Abstract!Replace
  <1>4. \A k \in 1..N : r[k] = IF k = N THEN s ELSE IF k < v THEN q[k] ELSE q[k + 1]
    BY <1>1, <1>2 DEF Abstract!Replace
  <1> DEFINE moved(k) == IF k = v THEN N ELSE IF k < v THEN k ELSE k - 1
             f == [k \in AtLeast(q, p) |-> moved(k)]
  <1>5. \A k \in 1..N : /\ moved(k) \in 1..N
                        /\ k # v => r[moved(k)] = q[k]
                        /\ k = v => r[moved(k)] = s
    <2> SUFFICES ASSUME NEW k \in 1..N
                 PROVE  /\ moved(k) \in 1..N
                        /\ k # v => r[moved(k)] = q[k]
                        /\ k = v => r[moved(k)] = s
      OBVIOUS
    <2>1. CASE k = v
      BY <1>3, <1>4, <2>1
    <2>2. CASE k < v
      BY <1>3, <1>4, <2>2
    <2>3. CASE k > v
      <3>1. k - 1 \in 1..N /\ k - 1 # N /\ ~(k - 1 < v) /\ (k - 1) + 1 = k
        BY <1>3, <2>3
      <3>2. r[k - 1] = q[k]
        BY <1>4, <3>1
      <3> QED
        BY <1>3, <2>3, <3>1, <3>2
    <2> QED
      BY <1>3, <2>1, <2>2, <2>3
  <1>6. \A j, k \in 1..N : moved(j) = moved(k) => j = k
    BY <1>3
  <1>7. PriorityOf(s) \in 0..2
    BY PriorityAssumption
  <1>8. \A k \in AtLeast(q, p) : k \in 1..N /\ moved(k) \in AtLeast(r, p)
    <2> SUFFICES ASSUME NEW k \in AtLeast(q, p)
                 PROVE  k \in 1..N /\ moved(k) \in AtLeast(r, p)
      OBVIOUS
    <2>1. k \in 1..N /\ PriorityOf(q[k]) >= p
      BY <1>3 DEF AtLeast
    <2>2. moved(k) \in 1..N
      BY <1>5, <2>1
    <2>3. CASE k = v
      <3>1. PriorityOf(s) >= p /\ r[moved(k)] = s
        BY <1>3, <1>5, <1>7, <2>1, <2>3
      <3> QED
        BY <1>3, <2>1, <2>2, <3>1 DEF AtLeast
    <2>4. CASE k # v
      <3>1. r[moved(k)] = q[k]
        BY <1>5, <2>1, <2>4
      <3> QED
        BY <1>3, <2>1, <2>2, <3>1 DEF AtLeast
    <2> QED
      BY <2>3, <2>4
  <1>9. f \in Injection(AtLeast(q, p), AtLeast(r, p))
    <2>1. f \in [AtLeast(q, p) -> AtLeast(r, p)]
      BY <1>8
    <2>2. \A j, k \in AtLeast(q, p) : f[j] = f[k] => j = k
      BY <1>6, <1>8
    <2> HIDE DEF f
    <2> QED
      BY <2>1, <2>2 DEF Injection, IsInjective
  <1>10. IsFiniteSet(AtLeast(r, p))
    <2>1. AtLeast(r, p) \subseteq 1..N /\ IsFiniteSet(1..N)
      BY <1>3, FS_Interval DEF AtLeast
    <2> QED
      BY <2>1, FS_Subset
  <1> HIDE DEF f
  <1> QED
    BY <1>2, <1>9, <1>10, FS_Injection

(***************************************************************************)
(* enqueue() never lowers the number of residents of a priority or more:   *)
(* the victim of an overflow is never more important than the newcomer.    *)
(***************************************************************************)
THEOREM RingImportanceKept == Spec => ImportanceKept
  <1> DEFINE Kept == \A p \in 0..2 :
                        taken' = taken =>
                           Cardinality(AtLeast(Queue, p)) <= Cardinality(AtLeast(Queue', p))
  <1>1. RingInv /\ RingInv' /\ [Next]_vars => [Kept]_vars
    <2> SUFFICES ASSUME RingInv, RingInv', [Next]_vars, NEW p \in 0..2, taken' = taken
                 PROVE  Cardinality(AtLeast(Queue, p)) <= Cardinality(AtLeast(Queue', p))
      OBVIOUS
    <2>1. QueueShape /\ QueueShape'
      <3>1. RingInv' => QueueShape'
        BY QueueHasShape, PTL
      <3> QED
        BY <3>1, QueueHasShape
    <2>2. PICK q \in Seq(Sample) : q = Queue
      BY <2>1 DEF QueueShape
    <2>3. Len(q) <= Len(Queue') /\ Len(q) \in Nat /\ Len(Queue') \in Nat
      BY <2>1, <2>2, OnlyDequeueShortens DEF QueueShape
    <2>4. Cardinality(AtLeast(q, p)) \in Nat
      BY AtLeastFinite, FS_CardinalityType
    <2>5. CASE Queue' = q
      BY <2>2, <2>4, <2>5
    <2>6. ASSUME NEW s \in Sample, Abstract!PutWithRoom(s)
          PROVE  Cardinality(AtLeast(Queue, p)) <= Cardinality(AtLeast(Queue', p))
      <3>1. Queue' = Append(q, s)
        BY <2>2, <2>6 DEF Abstract!PutWithRoom
      <3> QED
        BY <2>2, <2>6, <3>1, AppendKeepsImportance
    <2>7. ASSUME NEW s \in Sample, Abstract!PutReplacing(s)
          PROVE  Cardinality(AtLeast(Queue, p)) <= Cardinality(AtLeast(Queue', p))
      <3>1. PICK v \in 1..Len(q) : /\ PriorityOf(q[v]) <= PriorityOf(s)
                                   /\ Queue' = Abstract!Replace(q, v, s)
        BY <2>2, <2>7 DEF Abstract!PutReplacing
      <3> QED
        BY <2>2, <2>7, <3>1, ReplaceKeepsImportance
    <2>8. ASSUME NEW s \in Sample, Abstract!PutRefused(s) PROVE Queue' = q
      BY <2>2, <2>8 DEF Abstract!PutRefused
    <2>9. ~Abstract!Get
      <3>1. ASSUME Abstract!Get PROVE FALSE
        <4>1. q # <<>> /\ Queue' = Tail(q)
          BY <2>2, <3>1 DEF Abstract!Get
        <4>2. Len(Tail(q)) = Len(q) - 1
          BY <4>1
        <4> QED
          BY <2>3, <4>1, <4>2
      <3> QED
        BY <3>1
    <2>10. Abstract!GetNothing => Queue' = q
      BY <2>2 DEF Abstract!GetNothing
    <2>11. UNCHANGED Abstract!vars => Queue' = q
      BY <2>2 DEF Abstract!vars
    <2> QED
      BY <2>5, <2>6, <2>7, <2>8, <2>9, <2>10, <2>11, StepRefines DEF Abstract!Next
  <1> QED
    BY <1>1, RingInvHolds, PTL DEF Spec, ImportanceKept

(***************************************************************************)
(* enqueue() at capacity ends after one pass of the scan and one of the    *)
(* shift, for every capacity and whatever the priorities of the residents. *)
(***************************************************************************)
THEOREM RingEnqueueBounded == Spec => EnqueueBounded
  <1> DEFINE Closer == pc # "idle" => Work' \in 0..(Work - 1)
  <1>1. RingInv /\ [Next]_vars => [Closer]_vars
    <2> SUFFICES ASSUME RingInv, Next, pc # "idle"
                 PROVE  Work' \in 0..(Work - 1)
      OBVIOUS
    <2> USE CapacityAssumption
    <2>1. /\ Capacity \in Nat /\ i \in 0..Capacity /\ drop_offset \in 0..(Capacity - 1)
          /\ pc \in {"scan", "shift", "append"}
          /\ pc = "shift" => i \in 1..(Capacity - 1)
          /\ pc = "scan" => size = Capacity
      BY DEF RingInv, TypeOK, EnqueueInProgress
    <2>2. CASE ScanStep
      BY <2>1, <2>2 DEF ScanStep, NextOffset, Work, state
    <2>3. CASE RejectIncoming
      BY <2>1, <2>3 DEF RejectIncoming, Work
    <2>4. CASE EvictHead
      BY <2>1, <2>4 DEF EvictHead, Work
    <2>5. CASE StartShift
      BY <2>1, <2>5 DEF StartShift, Work
    <2>6. CASE ShiftStep
      BY <2>1, <2>6 DEF ShiftStep, NextOffset, Work
    <2>7. CASE ShiftDone
      BY <2>1, <2>7 DEF ShiftDone, Work
    <2>8. CASE AppendIncoming
      BY <2>1, <2>8 DEF AppendIncoming, Work
    <2> QED
      BY <2>2, <2>3, <2>4, <2>5, <2>6, <2>7, <2>8
      DEF Next, Proceed, EnqueueWithRoom, EnqueueFull, DequeueEmpty, Dequeue
  <1> QED
    BY <1>1, RingInvHolds, PTL DEF Spec, EnqueueBounded
=============================================================================
