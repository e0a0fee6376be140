------------------------- MODULE MCTelemetryRuntime -------------------------
(***************************************************************************)
(* Small nodes for TelemetryRuntime.  One clock tick stands for a second   *)
(* of remote_interval and of the backoff table, which is cut to two steps. *)
(***************************************************************************)
EXTENDS TelemetryRuntime

MCBackoff == <<1, 2>>

Batch(interval, priority) ==
    [mode |-> "batch", remote |-> TRUE, interval |-> interval, threshold |-> 0,
     priority |-> priority]
Realtime == [Batch(1, 2) EXCEPT !.mode = "realtime"]
OnChange == [Batch(1, 1) EXCEPT !.mode = "on_change", !.threshold = 1]

(***************************************************************************)
(* A critical realtime channel and a low-priority batch channel.           *)
(***************************************************************************)
MixedChannel  == {"door", "soil"}
MixedSync     == [ch \in MixedChannel |->
                    IF ch = "door" THEN Realtime ELSE Batch(2, 0)]
MixedOrder    == <<"door", "soil">>
MixedReads    == [ch \in MixedChannel |-> <<ch>>]
MixedReadings == [ch \in MixedChannel |-> {<<0>>}]

(***************************************************************************)
(* The same two, and two on_change channels with a threshold of 1: a probe *)
(* of one quantity, and a BME280, whose steady temperature and humidity    *)
(* are further apart than that.  The node is quick to send, to keep the    *)
(* ages few.                                                               *)
(***************************************************************************)
FourChannel  == {"door", "soil", "probe", "climate"}
FourSync     == [ch \in FourChannel |-> CASE ch = "door" -> Realtime
                                           [] ch = "soil" -> Batch(1, 0)
                                           [] OTHER       -> OnChange]
FourOrder    == <<"door", "soil", "probe", "climate">>
FourReads    == [ch \in FourChannel |->
                   IF ch = "climate" THEN <<"temperature", "humidity">> ELSE <<ch>>]
FourReadings == [ch \in FourChannel |-> CASE ch = "probe"   -> {<<2>>}
                                           [] ch = "climate" -> {<<0, 2>>}
                                           [] OTHER          -> {<<0>>}]

(***************************************************************************)
(* One realtime channel.                                                   *)
(***************************************************************************)
OneChannel  == {"door"}
OneSync     == [ch \in OneChannel |-> Realtime]
OneOrder    == <<"door">>
OneReads    == [ch \in OneChannel |-> <<"door">>]
OneReadings == [ch \in OneChannel |-> {<<0>>}]
=============================================================================
