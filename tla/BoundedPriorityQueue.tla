------------------------ MODULE BoundedPriorityQueue ------------------------
(***************************************************************************)
(* What the in-memory telemetry buffer promises: a FIFO of at most         *)
(* Capacity samples that, when it is full, gives up its oldest sample of   *)
(* lowest priority to a newcomer that is at least as important, turns a    *)
(* less important newcomer away, and counts every sample it gives up.      *)
(* RingBuffer implements it.                                               *)
(***************************************************************************)
EXTENDS PriorityQueueOps

CONSTANTS Sample,           \* the samples drivers produce
          Capacity,         \* the most samples resident at once
          NoSample          \* what dequeue returns on an empty buffer

VARIABLES queue,            \* resident samples, oldest first
          drop_count,       \* samples given up since construction
          ret               \* what the last operation returned

vars == <<queue, drop_count, ret>>

Init == queue = <<>> /\ drop_count = 0 /\ ret = NoSample

PutWithRoom(s) ==
    /\ Len(queue) < Capacity
    /\ queue' = Append(queue, s)
    /\ ret' = "retained"
    /\ UNCHANGED drop_count

PutReplacing(s) ==
    /\ Len(queue) = Capacity
    /\ \E v \in 1..Capacity :
          /\ IsVictim(queue, v)
          /\ PriorityOf(queue[v]) <= PriorityOf(s)
          /\ queue' = Replace(queue, v, s)
    /\ drop_count' = drop_count + 1
    /\ ret' = "retained"

PutRefused(s) ==
    /\ Len(queue) = Capacity
    /\ \A k \in 1..Capacity : PriorityOf(s) < PriorityOf(queue[k])
    /\ drop_count' = drop_count + 1
    /\ ret' = "dropped"
    /\ UNCHANGED queue

Get ==
    /\ queue # <<>>
    /\ ret' = Head(queue)
    /\ queue' = Tail(queue)
    /\ UNCHANGED drop_count

GetNothing ==
    /\ queue = <<>>
    /\ ret' = NoSample
    /\ UNCHANGED <<queue, drop_count>>

Next ==
    \/ \E s \in Sample : PutWithRoom(s) \/ PutReplacing(s) \/ PutRefused(s)
    \/ Get
    \/ GetNothing

Spec == Init /\ [][Next]_vars
=============================================================================
