---------------------------- MODULE MCRingBuffer ----------------------------
(***************************************************************************)
(* A ring of three slots and four samples: two of the same low priority,   *)
(* so that ties are told apart, one normal and one critical.               *)
(***************************************************************************)
EXTENDS RingBuffer, TLC

CONSTANTS low1, low2, normal, critical

MCSample == {low1, low2, normal, critical}

MCPriorityOf(s) == (low1 :> 0 @@ low2 :> 0 @@ normal :> 1 @@ critical :> 2)[s]
=============================================================================
