------------------------------ MODULE MCWorker ------------------------------
(***************************************************************************)
(* Requests of one node: a complete one next to an incomplete sample; one  *)
(* that repeats its key with another value and brings a later point; one   *)
(* with a null; and two that are refused.                                  *)
(***************************************************************************)
EXTENDS Worker

Reading(timestamp, value) ==
    [node_id |-> "pi", channel_id |-> "soil", timestamp |-> timestamp, value |-> value,
     complete |-> TRUE, null |-> FALSE]

Post(samples) == [bearer |-> TRUE, valid |-> TRUE, node_id |-> "pi", samples |-> samples]

MCRequests ==
    {Post(<<Reading(1, 20), [Reading(3, 20) EXCEPT !.complete = FALSE]>>),
     Post(<<Reading(1, 21), Reading(2, 21)>>),
     Post(<<[Reading(2, 0) EXCEPT !.null = TRUE]>>),
     [Post(<<>>) EXCEPT !.bearer = FALSE],
     [Post(<<>>) EXCEPT !.valid = FALSE]}
=============================================================================
