--------------------------- MODULE MCEdgeService ----------------------------
(***************************************************************************)
(* Configuration files: complete ones, and one change at a time, chosen so *)
(* that each kind of check, each default and each point where configure()  *)
(* can give up decides once.                                               *)
(***************************************************************************)
EXTENDS EdgeService

Ch(id, rate, driver, parameters) ==
    [malformed |-> {}, id |-> id, driver |-> driver, rate |-> Value(rate),
     interval |-> Absent, threshold |-> Absent, parameters |-> parameters,
     listed |-> FALSE, destinations |-> <<>>, priority |-> "absent", mode |-> "absent"]

Good ==
    [file |-> "mapping", malformed |-> {}, version |-> Value(1),
     node_id |-> "text", api_key_file |-> "text",
     url |-> "text", timeout |-> Value(10), batch |-> Absent,
     path |-> "text", megabytes |-> Absent, hours |-> Value(24),
     channels |-> <<Ch("a", 1, "sim", "channel_id")>>]

Two(second) == [Good EXCEPT !.channels = <<Ch("a", 2, "bme280", "bus"), second>>]

Other == Ch("b", 1, "sim", "channel_id")

Loading ==
    {Good,
     [Good EXCEPT !.channels = <<>>],
     [Good EXCEPT !.url = "absent", !.path = "absent", !.batch = Value(2)],
     Two(Other),
     Two([Other EXCEPT !.parameters = "absent"]),
     Two([Other EXCEPT !.driver = "fake-bme280", !.interval = Value(2),
                       !.threshold = Value(0), !.priority = "critical",
                       !.listed = TRUE, !.destinations = <<"remote">>,
                       !.mode = "on_change"])}

Refused ==
    {[Good EXCEPT !.file = "missing"],
     [Good EXCEPT !.malformed = {"channels"}, !.batch = Value(1)],
     [Good EXCEPT !.node_id = "empty", !.timeout = Junk],
     [Good EXCEPT !.batch = Value(0)],
     [Good EXCEPT !.channels[1].priority = "other", !.channels[1].mode = "junk"]}

Throwing ==
    {[Good EXCEPT !.hours = Junk],
     [Good EXCEPT !.channels[1].parameters = "junk", !.channels[1].mode = "other"]}

MCDocuments == Loading \cup Refused \cup Throwing
=============================================================================
