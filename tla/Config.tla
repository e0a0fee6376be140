------------------------------- MODULE Config -------------------------------
(***************************************************************************)
(* load_config() (core/config.cpp): what it makes of a configuration file. *)
(* The checks run in a fixed order and the first that does not pass        *)
(* decides: it reports an error, or it throws, when a conversion as<T>()   *)
(* meets a node it cannot convert.                                         *)
(***************************************************************************)
EXTENDS Integers, Sequences, FiniteSetsExt

CONSTANT Documents          \* the contents the file may have

(***************************************************************************)
(* An optional number: absent, a value, or something that does not         *)
(* convert.  A text is absent, "empty" (or not a scalar) or "text"; of a   *)
(* driver the name is kept, of the parameters which driver they suit.  An  *)
(* absent section has all its fields absent; one that is not the mapping   *)
(* or sequence expected is in the set malformed.                           *)
(***************************************************************************)
Absent   == [is |-> "absent", n |-> 0]
Junk     == [is |-> "junk", n |-> 0]
Value(n) == [is |-> "value", n |-> n]

IsNumber(x) == x.is \in {"absent", "junk", "value"} /\ x.n \in Int
Text == {"absent", "empty", "text"}

IsChannel(ch) ==
    /\ ch.malformed \subseteq {"channel", "sync", "destinations"}
    /\ {ch.id, ch.driver} \subseteq STRING
    /\ IsNumber(ch.rate) /\ IsNumber(ch.interval) /\ IsNumber(ch.threshold)
    /\ ch.parameters \in {"absent", "channel_id", "bus", "junk"}
    /\ ch.listed \in BOOLEAN
    /\ ch.destinations \in Seq({"local", "remote", "other", "junk"})
    /\ ch.priority \in {"absent", "low", "normal", "critical", "other", "junk"}
    /\ ch.mode \in {"absent", "batch", "realtime", "on_change", "other", "junk"}

ASSUME DocumentAssumption ==
    \A d \in Documents :
       /\ d.file \in {"missing", "too_large", "unreadable", "not_yaml", "not_mapping",
                      "mapping"}
       /\ d.malformed \subseteq {"node", "server", "local_storage", "channels"}
       /\ {d.node_id, d.api_key_file, d.url, d.path} \subseteq Text
       /\ \A x \in {d.version, d.timeout, d.batch, d.megabytes, d.hours} : IsNumber(x)
       /\ d.channels \in Seq({d.channels[k] : k \in DOMAIN d.channels})
       /\ \A k \in DOMAIN d.channels : IsChannel(d.channels[k])

-----------------------------------------------------------------------------
SupportedVersion == 1
DefaultBatch     == 500
DefaultInterval  == 60

(***************************************************************************)
(* The checks: "pass", "fail" or "throw".                                  *)
(***************************************************************************)
Passes(condition) == IF condition THEN "pass" ELSE "fail"

required_text(x) == Passes(x = "text")

optional_text(x) == Passes(x # "empty")

\* Mutant: zero passes for positive.
positive_or_zero(x) ==
    CASE x.is = "absent" -> "pass"
      [] x.is = "junk"   -> "throw"
      [] x.is = "value"  -> Passes(x.n >= 0)

positive(x) ==
    CASE x.is = "absent" -> "pass"
      [] x.is = "junk"   -> "throw"
      [] x.is = "value"  -> Passes(x.n > 0)

version(x) ==
    CASE x.is = "absent" -> "fail"
      [] x.is = "junk"   -> "throw"
      [] x.is = "value"  -> Passes(x.n = SupportedVersion)

one_of(word) ==
    CASE word = "junk"  -> "throw"
      [] word = "other" -> "fail"
      [] OTHER          -> "pass"

wellformed(section, malformed) == Passes(section \notin malformed)

\* The checks of a function, in order: the first that does not pass decides.
verdict(checks) ==
    LET failed == {k \in DOMAIN checks : checks[k] # "pass"}
    IN  IF failed = {} THEN "pass" ELSE checks[Min(failed)]

parse_server(d) ==
    verdict(<<wellformed("server", d.malformed), optional_text(d.url), positive(d.timeout),
              positive(d.batch)>>)

parse_local_storage(d) ==
    verdict(<<wellformed("local_storage", d.malformed), optional_text(d.path),
              positive(d.megabytes), positive(d.hours)>>)

destinations(ch) ==
    verdict([k \in DOMAIN ch.destinations |-> one_of(ch.destinations[k])])

parse_channel(ch) ==
    verdict(<<wellformed("channel", ch.malformed), Passes(ch.id # ""),
              Passes(ch.driver \notin {"absent", "empty"}),
              Passes(ch.rate.is # "absent"), positive(ch.rate), one_of(ch.parameters),
              wellformed("sync", ch.malformed), wellformed("destinations", ch.malformed),
              destinations(ch), positive(ch.interval), one_of(ch.priority), one_of(ch.mode),
              one_of(ch.threshold.is)>>)

parse_channels(d) ==
    IF "channels" \in d.malformed THEN "fail"
    ELSE verdict([k \in DOMAIN d.channels |-> parse_channel(d.channels[k])])

load_config[d \in Documents] ==
    IF d.file # "mapping" THEN "fail"
    ELSE verdict(<<version(d.version), wellformed("node", d.malformed),
                   required_text(d.node_id), required_text(d.api_key_file),
                   parse_server(d), parse_local_storage(d), parse_channels(d)>>)

(***************************************************************************)
(* The configuration an accepted document stands for.  A store is always   *)
(* configured, and destinations that are listed replace the default of     *)
(* both.                                                                   *)
(***************************************************************************)
Or(x, default) == IF x.is = "value" THEN x.n ELSE default

OrWord(x, default) == IF x = "absent" THEN default ELSE x

Listed(ch, destination) == \E k \in DOMAIN ch.destinations : ch.destinations[k] = destination

goes_to(ch, destination) == ch.listed => Listed(ch, destination)

Parsed(d) ==
    [url |-> d.url = "text", path |-> OrWord(d.path, "default"),
     max_batch_size |-> Or(d.batch, DefaultBatch),
     channels |-> [k \in DOMAIN d.channels |->
        [id       |-> d.channels[k].id,
         driver   |-> d.channels[k].driver,
         parameters |-> d.channels[k].parameters,
         rate     |-> d.channels[k].rate.n,
         local    |-> goes_to(d.channels[k], "local"),
         remote   |-> goes_to(d.channels[k], "remote"),
         interval |-> Or(d.channels[k].interval, DefaultInterval),
         priority |-> OrWord(d.channels[k].priority, "normal"),
         mode     |-> OrWord(d.channels[k].mode, "batch")]]]
=============================================================================
