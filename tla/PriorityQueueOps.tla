-------------------------- MODULE PriorityQueueOps --------------------------
(***************************************************************************)
(* What one overflow of the in-memory telemetry buffer may do to the queue *)
(* of resident samples (oldest first), as relations on sequences.  These   *)
(* operators have no state of their own: BoundedPriorityQueue turns them   *)
(* into the abstract specification that RingBuffer implements, and         *)
(* TelemetryRuntime uses them for its buffer.                              *)
(***************************************************************************)
EXTENDS Naturals, Sequences

CONSTANT PriorityOf(_)      \* the priority of a sample: 0 low, 1 normal, 2 critical

(***************************************************************************)
(* Position v of q holds the sample an overflow drops: no resident has a   *)
(* lower priority, and every older resident has a higher one.              *)
(***************************************************************************)
IsVictim(q, v) ==
    /\ v \in 1..Len(q)
    /\ \A k \in 1..Len(q) : PriorityOf(q[v]) <= PriorityOf(q[k])
    /\ \A k \in 1..(v - 1) : PriorityOf(q[v]) < PriorityOf(q[k])

(***************************************************************************)
(* q without position v, and with s as its new youngest member.            *)
(***************************************************************************)
Replace(q, v, s) ==
    [k \in 1..Len(q) |-> IF k = Len(q) THEN s
                         ELSE IF k < v THEN q[k] ELSE q[k + 1]]

(***************************************************************************)
(* q after s is offered to a queue of the given capacity.                  *)
(***************************************************************************)
Offered(q, capacity, s) ==
    IF Len(q) < capacity THEN Append(q, s)
    ELSE IF \A k \in 1..Len(q) : PriorityOf(s) < PriorityOf(q[k]) THEN q
    ELSE Replace(q, CHOOSE v \in 1..Len(q) : IsVictim(q, v), s)

(***************************************************************************)
(* q after every member of arrivals is offered to it in turn.              *)
(***************************************************************************)
OfferedAll(q, capacity, arrivals) ==
    LET after[n \in 0..Len(arrivals)] ==
          IF n = 0 THEN q ELSE Offered(after[n - 1], capacity, arrivals[n])
    IN  after[Len(arrivals)]
=============================================================================
