----------------------------- MODULE SampleLife -----------------------------
(***************************************************************************)
(* What a node promises about a sample, whatever fails: from the moment a  *)
(* driver returns it, it is held in memory or stored on the disk, until it *)
(* is delivered to the server or given up.  Delivered means answered for:  *)
(* what the server does with it is its own affair.  The node stores only   *)
(* what it held; it lets go of a held or stored sample only when it is     *)
(* delivered, or by giving it up.  Only a loss of power takes a stored     *)
(* sample from an undelivered state, or brings one back.                   *)
(***************************************************************************)
VARIABLES held, stored, delivered, lost         \* sets of samples

lifeVars == <<held, stored, delivered, lost>>

Known == held \cup stored \cup delivered \cup lost

Init == held = {} /\ stored = {} /\ delivered = {} /\ lost = {}

(***************************************************************************)
(* A driver is read: new samples are held, and held or new ones may be     *)
(* given up for want of room.  The server may have a new one already, when *)
(* it cannot tell it from one read before.                                 *)
(***************************************************************************)
Read ==
    /\ held \subseteq held' \cup lost'
    /\ lost \subseteq lost' /\ held' \cap lost' = {}
    /\ LET new == (held' \cup lost') \ (held \cup lost) IN
       /\ new \cap Known = {}
       /\ delivered' \ delivered \subseteq new /\ delivered \subseteq delivered'
    /\ UNCHANGED stored

(***************************************************************************)
(* The server has taken samples.  It may be the last to learn of them: a   *)
(* request given up by the node may still arrive.                          *)
(***************************************************************************)
Deliver ==
    /\ delivered \subseteq delivered' /\ delivered' \subseteq Known
    /\ UNCHANGED <<held, stored, lost>>

Release ==
    /\ held' \subseteq held /\ held \ held' \subseteq delivered
    /\ UNCHANGED <<stored, delivered, lost>>

GiveUp ==
    /\ held' \subseteq held /\ lost' = lost \cup (held \ held')
    /\ UNCHANGED <<stored, delivered>>

Store ==
    \E s \in held : /\ held' = held \ {s} /\ stored' = stored \cup {s}
                    /\ UNCHANGED <<delivered, lost>>

Forget ==
    \E s \in stored \cap delivered : /\ stored' = stored \ {s}
                                     /\ UNCHANGED <<held, delivered, lost>>

(***************************************************************************)
(* Memory is gone, and the disk is as it was some time ago.                *)
(***************************************************************************)
PowerLoss ==
    /\ held' = {}
    /\ stored' \ stored \subseteq delivered
    /\ lost' = lost \cup held \cup (stored \ stored')
    /\ UNCHANGED delivered

Next == Read \/ Deliver \/ Release \/ GiveUp \/ Store \/ Forget \/ PowerLoss

Spec == Init /\ [][Next]_lifeVars
=============================================================================
