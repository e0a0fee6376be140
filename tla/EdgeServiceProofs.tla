------------------------- MODULE EdgeServiceProofs --------------------------
(***************************************************************************)
(* Proofs about EdgeService for every set of configuration files: whatever *)
(* is loaded, refused or thrown at, whichever drivers and stores fail and  *)
(* whenever signals arrive, the daemon runs with a usable configuration    *)
(* and uploads only when it was configured as a whole.                     *)
(***************************************************************************)
EXTENDS EdgeService, BasicLemmas

(***************************************************************************)
(* What the checks of load_config() promise of a configuration.            *)
(***************************************************************************)
UsableChannel(ch) ==
    /\ ch.id \in STRING /\ ch.id # ""
    /\ ch.rate \in Nat /\ ch.rate > 0
    /\ ch.interval > 0
    /\ ch.priority \in {"low", "normal", "critical"}
    /\ ch.mode \in {"batch", "realtime", "on_change"}

Usable(c) ==
    /\ c.url \in BOOLEAN
    /\ c.max_batch_size > 0 /\ c.path \in {"text", "default"}
    /\ Len(c.channels) \in Nat /\ DOMAIN c.channels = 1..Len(c.channels)
    /\ \A n \in DOMAIN c.channels : UsableChannel(c.channels[n])

Accepted == {d \in Documents : load_config[d] = "pass"}
-----------------------------------------------------------------------------
(***************************************************************************)
(* The smallest of a set of natural numbers is one of them.                *)
(***************************************************************************)
LEMMA MinIsMember ==
    ASSUME NEW S, S \subseteq Nat, S # {}
    PROVE  Min(S) \in S
  BY LeastElement DEF Min

(***************************************************************************)
(* A list of checks passes only when each of them does.                    *)
(***************************************************************************)
LEMMA VerdictPasses ==
    ASSUME NEW checks, DOMAIN checks \subseteq Nat, verdict(checks) = "pass",
           NEW k \in DOMAIN checks
    PROVE  checks[k] = "pass"
  <1> DEFINE failed == {j \in DOMAIN checks : checks[j] # "pass"}
  <1>1. failed # {} => Min(failed) \in failed
    BY MinIsMember
  <1> QED
    BY <1>1 DEF verdict

(***************************************************************************)
(* A number that passes for positive is absent or positive.                *)
(***************************************************************************)
LEMMA PositivePasses ==
    ASSUME NEW x, IsNumber(x), positive(x) = "pass"
    PROVE  x.is = "absent" \/ (x.is = "value" /\ x.n \in Nat /\ x.n > 0)
  BY DEF IsNumber, positive, Passes

(***************************************************************************)
(* A channel that parse_channels() passes is one the scheduler, the policy *)
(* and the ring can work with.                                             *)
(***************************************************************************)
LEMMA ChannelIsUsable ==
    ASSUME NEW d \in Documents, parse_channels(d) = "pass", NEW n \in DOMAIN d.channels
    PROVE  UsableChannel(Parsed(d).channels[n])
  <1> DEFINE ch == d.channels[n]
             checks == <<wellformed("channel", ch.malformed), Passes(ch.id # ""),
                         Passes(ch.driver \notin {"absent", "empty"}),
                         Passes(ch.rate.is # "absent"), positive(ch.rate), one_of(ch.parameters),
                         wellformed("sync", ch.malformed),
                         wellformed("destinations", ch.malformed),
                         destinations(ch), positive(ch.interval), one_of(ch.priority),
                         one_of(ch.mode), one_of(ch.threshold.is)>>
             verdicts == [k \in DOMAIN d.channels |-> parse_channel(d.channels[k])]
  <1>1. IsChannel(ch) /\ DOMAIN d.channels \subseteq Nat
    <2>1. \E S : d.channels \in Seq(S)
      BY DocumentAssumption
    <2>2. DOMAIN d.channels \subseteq Nat
      BY <2>1
    <2>3. IsChannel(d.channels[n])
      BY DocumentAssumption, Zenon
    <2> QED
      BY <2>2, <2>3
  <1>2. parse_channel(ch) = "pass"
    <2>1. verdict(verdicts) = "pass"
      BY DEF parse_channels
    <2>2. DOMAIN verdicts = DOMAIN d.channels /\ verdicts[n] = parse_channel(ch)
      OBVIOUS
    <2> HIDE DEF verdicts
    <2>3. verdicts[n] = "pass"
      BY <1>1, <2>1, <2>2, VerdictPasses
    <2> QED
      BY <2>2, <2>3
  <1>3. /\ Passes(ch.id # "") = "pass" /\ Passes(ch.rate.is # "absent") = "pass"
        /\ positive(ch.rate) = "pass" /\ positive(ch.interval) = "pass"
        /\ one_of(ch.priority) = "pass" /\ one_of(ch.mode) = "pass"
    <2>1. verdict(checks) = "pass"
      BY <1>2 DEF parse_channel
    <2>2. DOMAIN checks = 1..13
      OBVIOUS
    <2>3. /\ checks[2] = Passes(ch.id # "") /\ checks[4] = Passes(ch.rate.is # "absent")
          /\ checks[5] = positive(ch.rate) /\ checks[10] = positive(ch.interval)
          /\ checks[11] = one_of(ch.priority) /\ checks[12] = one_of(ch.mode)
      OBVIOUS
    <2> HIDE DEF checks
    <2>4. ASSUME NEW k \in 1..13 PROVE checks[k] = "pass"
      <3>1. DOMAIN checks \subseteq Nat
        BY <2>2
      <3> QED
        BY <2>1, <2>2, <3>1, VerdictPasses
    <2>5. /\ checks[2] = "pass" /\ checks[4] = "pass" /\ checks[5] = "pass"
          /\ checks[10] = "pass" /\ checks[11] = "pass" /\ checks[12] = "pass"
      BY <2>4
    <2> QED
      BY <2>3, <2>5, Zenon
  <1>4. ch.id # "" /\ ch.rate.is # "absent"
    BY <1>3 DEF Passes
  <1>5. ch.rate.n \in Nat /\ ch.rate.n > 0
    BY <1>1, <1>3, <1>4, PositivePasses DEF IsChannel
  <1>6. Or(ch.interval, DefaultInterval) > 0
    <2>1. IsNumber(ch.interval) /\ positive(ch.interval) = "pass"
      BY <1>1, <1>3 DEF IsChannel
    <2> HIDE DEF ch
    <2> QED
      BY <2>1, PositivePasses DEF Or, DefaultInterval
  <1>7. /\ OrWord(ch.priority, "normal") \in {"low", "normal", "critical"}
        /\ OrWord(ch.mode, "batch") \in {"batch", "realtime", "on_change"}
    BY <1>1, <1>3 DEF IsChannel, one_of, OrWord
  <1>8. ch.id \in STRING
    BY <1>1 DEF IsChannel
  <1> HIDE DEF ch
  <1>9. /\ Parsed(d).channels[n].id = ch.id /\ Parsed(d).channels[n].rate = ch.rate.n
        /\ Parsed(d).channels[n].interval = Or(ch.interval, DefaultInterval)
        /\ Parsed(d).channels[n].priority = OrWord(ch.priority, "normal")
        /\ Parsed(d).channels[n].mode = OrWord(ch.mode, "batch")
    BY DEF Parsed, ch
  <1> QED
    BY <1>4, <1>5, <1>6, <1>7, <1>8, <1>9 DEF UsableChannel

(***************************************************************************)
(* What load_config() accepts is usable.                                   *)
(***************************************************************************)
LEMMA AcceptedIsUsable ==
    ASSUME NEW d \in Accepted
    PROVE  Usable(Parsed(d))
  <1> DEFINE checks == <<version(d.version), wellformed("node", d.malformed),
                         required_text(d.node_id), required_text(d.api_key_file),
                         parse_server(d), parse_local_storage(d), parse_channels(d)>>
             server == <<wellformed("server", d.malformed), optional_text(d.url),
                         positive(d.timeout), positive(d.batch)>>
             storage == <<wellformed("local_storage", d.malformed), optional_text(d.path),
                          positive(d.megabytes), positive(d.hours)>>
  <1>1. d \in Documents /\ verdict(checks) = "pass"
    BY DEF Accepted, load_config
  <1>2. parse_server(d) = "pass" /\ parse_local_storage(d) = "pass" /\ parse_channels(d) = "pass"
    <2>1. /\ DOMAIN checks = 1..7 /\ checks[5] = parse_server(d)
          /\ checks[6] = parse_local_storage(d) /\ checks[7] = parse_channels(d)
      OBVIOUS
    <2> HIDE DEF checks
    <2>2. \A k \in 1..7 : checks[k] = "pass"
      BY <1>1, <2>1, VerdictPasses
    <2> QED
      BY <2>1, <2>2
  <1>3. positive(d.batch) = "pass"
    <2>1. verdict(server) = "pass" /\ DOMAIN server = 1..4 /\ server[4] = positive(d.batch)
      BY <1>2 DEF parse_server
    <2> HIDE DEF server
    <2> QED
      BY <2>1, VerdictPasses
  <1>4. optional_text(d.path) = "pass"
    <2>1. verdict(storage) = "pass" /\ DOMAIN storage = 1..4
          /\ storage[2] = optional_text(d.path)
      BY <1>2 DEF parse_local_storage
    <2> HIDE DEF storage
    <2> QED
      BY <2>1, VerdictPasses
  <1>5. IsNumber(d.batch) /\ d.path \in Text
    BY <1>1, DocumentAssumption
  <1>6. Parsed(d).max_batch_size > 0
    <2>1. Or(d.batch, DefaultBatch) > 0
      BY <1>3, <1>5, PositivePasses DEF Or, DefaultBatch
    <2> QED
      BY <2>1 DEF Parsed
  <1>7. Parsed(d).path \in {"text", "default"} /\ Parsed(d).url \in BOOLEAN
    <2>1. OrWord(d.path, "default") \in {"text", "default"}
      BY <1>4, <1>5 DEF optional_text, Passes, OrWord, Text
    <2> QED
      BY <2>1 DEF Parsed
  <1>8. /\ Len(Parsed(d).channels) \in Nat
        /\ DOMAIN Parsed(d).channels = 1..Len(Parsed(d).channels)
        /\ DOMAIN Parsed(d).channels = DOMAIN d.channels
    <2>1. PICK S : d.channels \in Seq(S)
      BY <1>1, DocumentAssumption
    <2>2. Len(d.channels) \in Nat /\ DOMAIN d.channels = 1..Len(d.channels)
      BY <2>1
    <2>3. DOMAIN Parsed(d).channels = DOMAIN d.channels
      BY DEF Parsed
    <2> QED
      BY <2>2, <2>3
  <1> QED
    BY <1>1, <1>2, <1>6, <1>7, <1>8, ChannelIsUsable DEF Usable

(***************************************************************************)
(* load_config() reports success or an error, or throws.                   *)
(***************************************************************************)
Verdict == {"pass", "fail", "throw"}

(***************************************************************************)
(* The checks of a section, taken together, end in one of the three.       *)
(***************************************************************************)
LEMMA VerdictIsVerdict ==
    ASSUME NEW checks, DOMAIN checks \subseteq Nat, \A k \in DOMAIN checks : checks[k] \in Verdict
    PROVE  verdict(checks) \in Verdict
  <1> DEFINE failed == {j \in DOMAIN checks : checks[j] # "pass"}
  <1>1. failed # {} => Min(failed) \in failed
    BY MinIsMember
  <1> QED
    BY <1>1 DEF verdict, Verdict

(***************************************************************************)
(* So does each check of a single field.                                   *)
(***************************************************************************)
LEMMA CheckIsVerdict ==
    /\ \A c \in BOOLEAN : Passes(c) \in Verdict
    /\ \A word : one_of(word) \in Verdict
    /\ \A x : IsNumber(x) => positive(x) \in Verdict /\ version(x) \in Verdict
  BY DEF Verdict, Passes, one_of, positive, version, IsNumber

(***************************************************************************)
(* So does parse_channels(), whatever the list holds.                      *)
(***************************************************************************)
LEMMA ChannelsVerdict ==
    ASSUME NEW d \in Documents
    PROVE  parse_channels(d) \in Verdict
  <1> DEFINE verdicts == [k \in DOMAIN d.channels |-> parse_channel(d.channels[k])]
  <1>1. DOMAIN d.channels \subseteq Nat
    <2>1. \E S : d.channels \in Seq(S)
      BY DocumentAssumption
    <2> QED
      BY <2>1
  <1>2. ASSUME NEW n \in DOMAIN d.channels PROVE parse_channel(d.channels[n]) \in Verdict
    <2>1. PICK ch : ch = d.channels[n]
      OBVIOUS
    <2>2. IsChannel(ch)
      BY <2>1, DocumentAssumption, Zenon
    <2>3. destinations(ch) \in Verdict
      <3> DEFINE each == [k \in DOMAIN ch.destinations |-> one_of(ch.destinations[k])]
      <3>1. DOMAIN ch.destinations \subseteq Nat
        BY <2>2 DEF IsChannel
      <3>2. DOMAIN each \subseteq Nat /\ \A k \in DOMAIN each : each[k] \in Verdict
        BY <3>1, CheckIsVerdict
      <3>3. verdict(each) \in Verdict
        <4> HIDE DEF each
        <4> QED
          BY <3>2, VerdictIsVerdict
      <3> QED
        BY <3>3 DEF destinations
    <2> DEFINE checks == <<wellformed("channel", ch.malformed), Passes(ch.id # ""),
                           Passes(ch.driver \notin {"absent", "empty"}),
                           Passes(ch.rate.is # "absent"), positive(ch.rate),
                           one_of(ch.parameters), wellformed("sync", ch.malformed),
                           wellformed("destinations", ch.malformed), destinations(ch),
                           positive(ch.interval), one_of(ch.priority), one_of(ch.mode),
                           one_of(ch.threshold.is)>>
    <2>4. /\ wellformed("channel", ch.malformed) \in Verdict
          /\ wellformed("sync", ch.malformed) \in Verdict
          /\ wellformed("destinations", ch.malformed) \in Verdict
      BY DEF wellformed, Passes, Verdict
    <2>5. /\ Passes(ch.id # "") \in Verdict /\ Passes(ch.rate.is # "absent") \in Verdict
          /\ Passes(ch.driver \notin {"absent", "empty"}) \in Verdict
      BY DEF Passes, Verdict
    <2>6. positive(ch.rate) \in Verdict /\ positive(ch.interval) \in Verdict
      BY <2>2, CheckIsVerdict DEF IsChannel
    <2>7. checks \in Seq(Verdict)
      <3>1. /\ one_of(ch.parameters) \in Verdict /\ one_of(ch.priority) \in Verdict
            /\ one_of(ch.mode) \in Verdict /\ one_of(ch.threshold.is) \in Verdict
        BY CheckIsVerdict
      <3>2. \A v1, v2, v3, v4, v5, v6, v7, v8, v9, v10, v11, v12, v13 \in Verdict :
               <<v1, v2, v3, v4, v5, v6, v7, v8, v9, v10, v11, v12, v13>> \in Seq(Verdict)
        OBVIOUS
      <3> QED
        BY <2>3, <2>4, <2>5, <2>6, <3>1, <3>2, Zenon
    <2>8. verdict(checks) \in Verdict
      <3> HIDE DEF checks
      <3>1. DOMAIN checks \subseteq Nat /\ \A k \in DOMAIN checks : checks[k] \in Verdict
        BY <2>7
      <3> QED
        BY <3>1, VerdictIsVerdict
    <2> QED
      BY <2>1, <2>8 DEF parse_channel
  <1>3. verdict(verdicts) \in Verdict
    <2>1. DOMAIN verdicts \subseteq Nat /\ \A k \in DOMAIN verdicts : verdicts[k] \in Verdict
      BY <1>1, <1>2
    <2> HIDE DEF verdicts
    <2> QED
      BY <2>1, VerdictIsVerdict
  <1> QED
    BY <1>3 DEF parse_channels, Verdict

(***************************************************************************)
(* And so does load_config(), for every document.                          *)
(***************************************************************************)
LEMMA LoadConfigVerdict ==
    ASSUME NEW d \in Documents
    PROVE  load_config[d] \in Verdict
  <1>1. ASSUME NEW checks \in Seq(Verdict) PROVE verdict(checks) \in Verdict
    <2>1. DOMAIN checks \subseteq Nat /\ \A k \in DOMAIN checks : checks[k] \in Verdict
      OBVIOUS
    <2> QED
      BY <2>1, VerdictIsVerdict
  <1>2. /\ IsNumber(d.version) /\ IsNumber(d.timeout) /\ IsNumber(d.batch)
        /\ IsNumber(d.megabytes) /\ IsNumber(d.hours)
    BY DocumentAssumption
  <1>3. /\ wellformed("node", d.malformed) \in Verdict
        /\ wellformed("server", d.malformed) \in Verdict
        /\ wellformed("local_storage", d.malformed) \in Verdict
    BY DEF wellformed, Passes, Verdict
  <1>4. /\ required_text(d.node_id) \in Verdict /\ required_text(d.api_key_file) \in Verdict
        /\ optional_text(d.url) \in Verdict /\ optional_text(d.path) \in Verdict
    BY DEF required_text, optional_text, Passes, Verdict
  <1>5. parse_server(d) \in Verdict
    <2>1. <<wellformed("server", d.malformed), optional_text(d.url), positive(d.timeout),
            positive(d.batch)>> \in Seq(Verdict)
      BY <1>2, <1>3, <1>4, CheckIsVerdict
    <2> QED
      BY <1>1, <2>1 DEF parse_server
  <1>6. parse_local_storage(d) \in Verdict
    <2>1. <<wellformed("local_storage", d.malformed), optional_text(d.path),
            positive(d.megabytes), positive(d.hours)>> \in Seq(Verdict)
      BY <1>2, <1>3, <1>4, CheckIsVerdict
    <2> QED
      BY <1>1, <2>1 DEF parse_local_storage
  <1>7. <<version(d.version), wellformed("node", d.malformed),
          required_text(d.node_id), required_text(d.api_key_file),
          parse_server(d), parse_local_storage(d), parse_channels(d)>> \in Seq(Verdict)
    BY <1>2, <1>3, <1>4, <1>5, <1>6, ChannelsVerdict, CheckIsVerdict
  <1> QED
    BY <1>1, <1>7 DEF load_config, Verdict
-----------------------------------------------------------------------------
(***************************************************************************)
(* What is held, and what is about to be applied, came from a file that    *)
(* load_config() accepted.                                                 *)
(***************************************************************************)
Applicable == {Parsed(d) : d \in Accepted}

Configurations ==
    /\ loaded \in {None} \cup Applicable /\ config_ \in {None} \cup Applicable
    /\ pc = "apply" => loaded \in Applicable

Entry == [id : STRING, period : Nat, due_in : Nat]

(***************************************************************************)
(* The inductive invariant.                                                *)
(***************************************************************************)
ServiceInv ==
    /\ TypeOK /\ UploaderMeansConfigured
    /\ Configurations
    /\ schedule \in Seq(Entry)

(***************************************************************************)
(* The process starts in the invariant.                                    *)
(***************************************************************************)
LEMMA InitEstablishes == Init => ServiceInv
  <1> SUFFICES ASSUME Init PROVE ServiceInv
    OBVIOUS
  <1>1. TypeOK
    <2>1. /\ {uploader_, store_open_, g_running, g_reload, handlers} \subseteq BOOLEAN
          /\ {term, asked, spun} \subseteq BOOLEAN
      BY DEF Init
    <2> QED
      BY <2>1 DEF Init, TypeOK, Ids
  <1>2. UploaderMeansConfigured
    BY DEF Init, UploaderMeansConfigured
  <1>3. Configurations /\ schedule \in Seq(Entry)
    BY DEF Init, Configurations
  <1> QED
    BY <1>1, <1>2, <1>3 DEF ServiceInv

(***************************************************************************)
(* A step that leaves the configuration and the runtime alone.             *)
(***************************************************************************)
LEMMA RuntimeUnchanged ==
    ASSUME ServiceInv, UNCHANGED <<config_, runtimeVars>>,
           file' \in Documents, sleep_in' \in Nat,
           {g_running, g_reload, handlers, term, asked, spun}' \subseteq BOOLEAN,
           pc' \in {"main", "start", "daemonize", "install", "while", "consume", "reload",
                   "apply", "loop", "wake", "sleep", "exited"},
           loaded' \in {None} \cup Applicable,
           pc' = "apply" => loaded' \in Applicable
    PROVE  ServiceInv'
  <1> USE DEF ServiceInv, runtimeVars
  <1>1. Configurations'
    BY DEF Configurations
  <1>2. TypeOK'
    <2>1. Applicable \subseteq {Parsed(d) : d \in Documents}
      BY DEF Applicable, Accepted
    <2> QED
      BY <2>1 DEF TypeOK, Ids
  <1>3. UploaderMeansConfigured'
    BY DEF UploaderMeansConfigured, Ids, Period
  <1> QED
    BY <1>1, <1>2, <1>3

(***************************************************************************)
(* A schedule made from a configuration: an entry per channel, due now,    *)
(* with a whole number of ticks for its period.                            *)
(***************************************************************************)
LEMMA ScheduledIsSchedule ==
    ASSUME NEW c \in Applicable
    PROVE  /\ Scheduled(c) \in Seq(Entry) /\ Len(Scheduled(c)) = Len(c.channels)
           /\ \A n \in DOMAIN Scheduled(c) :
                 /\ n \in DOMAIN c.channels
                 /\ Scheduled(c)[n].id = c.channels[n].id
                 /\ Scheduled(c)[n].period = Period(c.channels[n])
                 /\ Scheduled(c)[n].due_in \in 0..Scheduled(c)[n].period
  <1>1. Usable(c)
    BY AcceptedIsUsable DEF Applicable
  <1>2. ASSUME NEW n \in DOMAIN c.channels
        PROVE  c.channels[n].id \in STRING /\ Period(c.channels[n]) \in Nat
    <2>1. c.channels[n].id \in STRING /\ c.channels[n].rate \in Nat /\ c.channels[n].rate > 0
      BY <1>1 DEF Usable, UsableChannel
    <2> QED
      BY <2>1, ClockAssumption DEF Period
  <1>3. Len(c.channels) \in Nat /\ DOMAIN c.channels = 1..Len(c.channels)
    BY <1>1 DEF Usable
  <1>4. \A n \in DOMAIN c.channels :
           /\ Scheduled(c)[n] = [id |-> c.channels[n].id, period |-> Period(c.channels[n]),
                                 due_in |-> 0]
           /\ Scheduled(c)[n] \in Entry
    BY <1>2 DEF Scheduled, Entry
  <1>5. DOMAIN Scheduled(c) = DOMAIN c.channels
    BY DEF Scheduled
  <1>6. Scheduled(c) \in [1..Len(c.channels) -> Entry]
    <2>1. Scheduled(c) = [n \in DOMAIN c.channels |-> Scheduled(c)[n]]
      BY DEF Scheduled
    <2> QED
      BY <1>3, <1>4, <2>1
  <1>7. Scheduled(c) \in Seq(Entry) /\ Len(Scheduled(c)) = Len(c.channels)
    BY <1>3, <1>6, FunctionIsSequence
  <1>8. ASSUME NEW n \in DOMAIN Scheduled(c)
        PROVE  /\ n \in DOMAIN c.channels
               /\ Scheduled(c)[n].id = c.channels[n].id
               /\ Scheduled(c)[n].period = Period(c.channels[n])
               /\ Scheduled(c)[n].due_in \in 0..Scheduled(c)[n].period
    <2>1. n \in DOMAIN c.channels /\ Period(c.channels[n]) \in Nat
      BY <1>2, <1>5
    <2>2. Scheduled(c)[n] = [id |-> c.channels[n].id, period |-> Period(c.channels[n]),
                             due_in |-> 0]
      BY <1>4, <2>1
    <2>3. /\ Scheduled(c)[n].id = c.channels[n].id
          /\ Scheduled(c)[n].period = Period(c.channels[n])
          /\ Scheduled(c)[n].due_in = 0
      BY <2>2
    <2> QED
      BY <2>1, <2>3
  <1> QED
    BY <1>7, <1>8

(***************************************************************************)
(* TelemetryRuntime::configure(), whether it succeeds or gives up at the   *)
(* store or at some driver.                                                *)
(***************************************************************************)
LEMMA ConfigurePreserves ==
    ASSUME ServiceInv, NEW c \in Applicable, configure(c), config_' = c
    PROVE  /\ UploaderMeansConfigured'
           /\ channels_' \subseteq Ids(c)
           /\ schedule' \in Seq(Entry)
           /\ \A n \in DOMAIN schedule' : schedule'[n].due_in \in 0..schedule'[n].period
           /\ uploader_' \in BOOLEAN /\ store_open_' \in BOOLEAN
  <1>1. PICK o \in Outcomes(c) :
          /\ channels_' = {c.channels[n].id : n \in Bound(c, o)}
          /\ schedule' = IF Succeeds(c, o) THEN Scheduled(c) ELSE schedule
          /\ uploader_' = UploaderSet(c, o)
          /\ store_open_' = o.opens
    BY DEF configure
  <1>2. Bound(c, o) \subseteq DOMAIN c.channels /\ o.opens \in BOOLEAN
    BY DEF Bound, Outcomes
  <1>3. channels_' \subseteq Ids(c)
    BY <1>1, <1>2 DEF Ids
  <1>4. uploader_' \in BOOLEAN
    BY <1>1, AcceptedIsUsable DEF UploaderSet, Applicable, Usable
  <1>5. /\ schedule' \in Seq(Entry)
        /\ \A n \in DOMAIN schedule' : schedule'[n].due_in \in 0..schedule'[n].period
    BY <1>1, ScheduledIsSchedule DEF ServiceInv, TypeOK
  <1>6. ASSUME uploader_'
        PROVE  /\ channels_' = Ids(c)
               /\ Len(schedule') = Len(c.channels)
               /\ \A n \in DOMAIN schedule' : /\ schedule'[n].id = c.channels[n].id
                                              /\ schedule'[n].period = Period(c.channels[n])
    <2>1. Succeeds(c, o)
      BY <1>1, <1>6 DEF UploaderSet
    <2>2. channels_' = Ids(c)
      BY <1>1, <2>1 DEF Succeeds, Ids
    <2> QED
      BY <1>1, <2>1, <2>2, ScheduledIsSchedule
  <1>7. UploaderMeansConfigured'
    BY <1>6 DEF UploaderMeansConfigured, Ids, Period
  <1> QED
    BY <1>1, <1>2, <1>3, <1>4, <1>5, <1>7

(***************************************************************************)
(* A step that only moves deadlines, none of them beyond a period.         *)
(***************************************************************************)
LEMMA DeadlinesMove ==
    ASSUME ServiceInv, NEW due \in [DOMAIN schedule -> Nat],
           \A n \in DOMAIN schedule : due[n] \in 0..schedule[n].period,
           schedule' = [n \in DOMAIN schedule |-> [schedule[n] EXCEPT !.due_in = due[n]]],
           UNCHANGED <<config_, loaded, channels_, uploader_, store_open_, file>>,
           sleep_in' \in Nat,
           {g_running, g_reload, handlers, term, asked, spun}' \subseteq BOOLEAN,
           pc' \in {"main", "start", "daemonize", "install", "while", "consume", "reload",
                   "apply", "loop", "wake", "sleep", "exited"},
           pc' = "apply" => pc = "apply"
    PROVE  ServiceInv'
  <1> USE DEF ServiceInv
  <1>1. /\ Len(schedule) \in Nat /\ DOMAIN schedule = 1..Len(schedule)
        /\ \A n \in DOMAIN schedule : schedule[n] \in Entry
    OBVIOUS
  <1>2. \A n \in DOMAIN schedule : [schedule[n] EXCEPT !.due_in = due[n]] \in Entry
    BY <1>1 DEF Entry
  <1>3. schedule' \in Seq(Entry) /\ Len(schedule') = Len(schedule)
    BY <1>1, <1>2
  <1>4. \A n \in DOMAIN schedule' : /\ n \in DOMAIN schedule
                                    /\ schedule'[n].id = schedule[n].id
                                    /\ schedule'[n].period = schedule[n].period
                                    /\ schedule'[n].due_in \in 0..schedule'[n].period
    BY <1>1 DEF Entry
  <1>5. UploaderMeansConfigured'
    BY <1>3, <1>4 DEF UploaderMeansConfigured, Ids, Period
  <1>6. TypeOK'
    BY <1>4 DEF TypeOK, Ids
  <1> QED
    BY <1>3, <1>5, <1>6 DEF Configurations

(***************************************************************************)
(* The earliest deadline is a number of ticks.                             *)
(***************************************************************************)
LEMMA NextWakeIsNat ==
    ASSUME schedule \in Seq(Entry), schedule # <<>>
    PROVE  NextWake \in Nat
  <1>1. {schedule[n].due_in : n \in DOMAIN schedule} \subseteq Nat
    <2>1. \A n \in DOMAIN schedule : schedule[n] \in Entry
      OBVIOUS
    <2>2. \A n \in DOMAIN schedule : schedule[n].due_in \in Nat
      BY <2>1 DEF Entry
    <2> QED
      BY <2>2
  <1>2. {schedule[n].due_in : n \in DOMAIN schedule} # {}
    <2>1. 1 \in DOMAIN schedule
      OBVIOUS
    <2> QED
      BY <2>1
  <1> QED
    BY <1>1, <1>2, MinIsMember DEF NextWake

(***************************************************************************)
(* Every step of the process, of the clock, of the signals and of the      *)
(* operator preserves the invariant.                                       *)
(***************************************************************************)
LEMMA StepPreserves == ServiceInv /\ [Next]_vars => ServiceInv'
  <1> SUFFICES ASSUME ServiceInv, [Next]_vars PROVE ServiceInv'
    OBVIOUS
  <1> DEFINE PC == {"main", "start", "daemonize", "install", "while", "consume", "reload",
                    "apply", "loop", "wake", "sleep", "exited"}
  <1>1. /\ file \in Documents /\ sleep_in \in Nat /\ pc \in PC
        /\ loaded \in {None} \cup Applicable
        /\ {g_running, g_reload, handlers, term, asked, spun} \subseteq BOOLEAN
    BY DEF ServiceInv, TypeOK, Configurations
  <1>2. ASSUME UNCHANGED <<file, loaded, config_, runtimeVars, flags, handlers, sleep_in, history>>,
               pc' \in PC \ {"apply"}
        PROVE  ServiceInv'
    BY <1>1, <1>2, RuntimeUnchanged DEF flags, history
  <1>3. CASE \/ MainRefuses \/ daemonize \/ InstallFails \/ LoopCheck \/ NoReloadAsked
             \/ LoopGoesOn \/ WakeUp
    BY <1>2, <1>3 DEF MainRefuses, daemonize, InstallFails, LoopCheck, NoReloadAsked, LoopGoesOn,
                      WakeUp
  <1>4. CASE StartResetsFlags \/ install_signal_handlers \/ ConsumeReload
    <2>1. /\ UNCHANGED <<file, loaded, config_, runtimeVars, sleep_in>> /\ pc' \in PC \ {"apply"}
          /\ {g_running, g_reload, handlers, term, asked, spun}' \subseteq BOOLEAN
      BY <1>1, <1>4 DEF StartResetsFlags, install_signal_handlers, ConsumeReload, flags, history
    <2> QED
      BY <1>1, <2>1, RuntimeUnchanged
  <1>5. CASE ReloadReads
    <2>1. /\ UNCHANGED <<file, config_, runtimeVars, flags, handlers, sleep_in, history>>
          /\ load_config[file] \in Verdict
      BY <1>1, <1>5, LoadConfigVerdict DEF ReloadReads
    <2>2. load_config[file] = "pass" => Parsed(file) \in Applicable
      BY <1>1 DEF Applicable, Accepted
    <2>3. /\ pc' \in PC /\ loaded' \in {None} \cup Applicable
          /\ pc' = "apply" => loaded' \in Applicable
      BY <1>5, <2>1, <2>2 DEF ReloadReads, Verdict
    <2> QED
      BY <1>1, <2>1, <2>3, RuntimeUnchanged DEF flags, history
  <1>6. CASE MainConfigures \/ ReloadApplies
    <2>1. PICK c \in Applicable : configure(c) /\ config_' = c /\ pc' \in PC \ {"apply"}
      <3>1. CASE MainConfigures
        BY <1>1, <3>1 DEF MainConfigures, Applicable, Accepted
      <3>2. CASE ReloadApplies
        BY <3>2 DEF ReloadApplies, ServiceInv, Configurations
      <3> QED
        BY <1>6, <3>1, <3>2
    <2>2. /\ UNCHANGED <<file, flags, handlers, sleep_in, history>>
          /\ loaded' \in {None} \cup Applicable
      BY <1>1, <1>6 DEF MainConfigures, ReloadApplies, FlagAfterReload, flags
    <2>3. /\ UploaderMeansConfigured' /\ channels_' \subseteq Ids(c)
          /\ schedule' \in Seq(Entry)
          /\ \A n \in DOMAIN schedule' : schedule'[n].due_in \in 0..schedule'[n].period
          /\ uploader_' \in BOOLEAN /\ store_open_' \in BOOLEAN
      BY <2>1, ConfigurePreserves
    <2>4. Configurations'
      BY <2>1, <2>2 DEF Configurations
    <2>5. TypeOK'
      <3>1. Applicable \subseteq {Parsed(d) : d \in Documents}
        BY DEF Applicable, Accepted
      <3>2. channels_' \subseteq Ids(config_)'
        BY <2>1, <2>3 DEF Ids
      <3> QED
        BY <1>1, <2>1, <2>2, <2>3, <3>1, <3>2 DEF TypeOK, flags, history
    <2> QED
      BY <2>3, <2>4, <2>5 DEF ServiceInv
  <1>7. CASE LoopHeartbeat \/ LoopSleeps
    <2>1. sleep_in' \in Nat
      <3>1. CASE LoopHeartbeat
        BY <3>1, ClockAssumption DEF LoopHeartbeat
      <3>2. CASE LoopSleeps
        BY <3>2, ClockAssumption, NextWakeIsNat DEF LoopSleeps, ServiceInv
      <3> QED
        BY <1>7, <3>1, <3>2
    <2>2. /\ UNCHANGED <<file, loaded, config_, runtimeVars, flags, handlers, term, asked>>
          /\ spun' = FALSE /\ pc' = "sleep"
      BY <1>7 DEF LoopHeartbeat, LoopSleeps
    <2> QED
      BY <1>1, <2>1, <2>2, RuntimeUnchanged DEF flags
  <1>8. CASE LoopTick
    <2>1. /\ UNCHANGED <<file, loaded, config_, channels_, uploader_, store_open_, flags,
                         handlers, sleep_in, term, asked>>
          /\ spun' \in BOOLEAN /\ pc' = "wake"
      BY <1>8 DEF LoopTick
    <2>2. CASE UNCHANGED schedule
      BY <1>1, <2>1, <2>2, RuntimeUnchanged DEF flags, runtimeVars
    <2>3. CASE schedule' # schedule
      <3>1. PICK left \in [Due -> UNION {1..schedule[n].period : n \in Due}] :
              /\ \A n \in Due : left[n] <= schedule[n].period
              /\ schedule' = [n \in DOMAIN schedule |->
                                IF n \in Due THEN [schedule[n] EXCEPT !.due_in = left[n]]
                                             ELSE schedule[n]]
        BY <1>8, <2>3 DEF LoopTick
      <3> DEFINE due == [n \in DOMAIN schedule |->
                           IF n \in Due THEN left[n] ELSE schedule[n].due_in]
      <3>2. \A n \in DOMAIN schedule :
               schedule[n] \in Entry /\ schedule[n].due_in \in 0..schedule[n].period
        BY DEF ServiceInv, TypeOK
      <3>3. \A n \in Due : left[n] \in 0..schedule[n].period
        <4>1. \A n \in Due : left[n] \in Nat /\ schedule[n].period \in Nat
          BY <3>1, <3>2 DEF Due, Entry
        <4> QED
          BY <3>1, <4>1
      <3>4. \A n \in DOMAIN schedule : due[n] \in 0..schedule[n].period
        BY <3>2, <3>3
      <3>5. due \in [DOMAIN schedule -> Nat]
        BY <3>2, <3>4 DEF Entry
      <3>6. \A n \in DOMAIN schedule :
               schedule[n] = [schedule[n] EXCEPT !.due_in = schedule[n].due_in]
        BY <3>2 DEF Entry
      <3>7. schedule' = [n \in DOMAIN schedule |-> [schedule[n] EXCEPT !.due_in = due[n]]]
        BY <3>1, <3>6
      <3> HIDE DEF due
      <3> QED
        BY <1>1, <2>1, <3>4, <3>5, <3>7, DeadlinesMove DEF flags
    <2> QED
      BY <2>2, <2>3
  <1>9. CASE ClockTicks
    <2> DEFINE due == [n \in DOMAIN schedule |-> Less(schedule[n].due_in)]
    <2>1. \A n \in DOMAIN schedule :
             schedule[n] \in Entry /\ schedule[n].due_in \in 0..schedule[n].period
      BY DEF ServiceInv, TypeOK
    <2>2. \A n \in DOMAIN schedule : due[n] \in 0..schedule[n].period
      BY <2>1 DEF Less, Entry
    <2>3. due \in [DOMAIN schedule -> Nat]
      BY <2>1, <2>2 DEF Entry
    <2>4. schedule' = [n \in DOMAIN schedule |-> [schedule[n] EXCEPT !.due_in = due[n]]]
      BY <1>9 DEF ClockTicks
    <2>5. /\ UNCHANGED <<file, loaded, config_, channels_, uploader_, store_open_, flags, handlers,
                         pc, history>>
          /\ sleep_in' \in Nat
      BY <1>1, <1>9 DEF ClockTicks, Less
    <2> HIDE DEF due
    <2> QED
      BY <1>1, <2>2, <2>3, <2>4, <2>5, DeadlinesMove DEF flags, history
  <1>10. CASE SigTerm \/ SigHup \/ EditFile
    <2>1. /\ UNCHANGED <<loaded, config_, runtimeVars, sleep_in>> /\ file' \in Documents
          /\ pc' \in {pc, "exited"}
          /\ {g_running, g_reload, handlers, term, asked, spun}' \subseteq BOOLEAN
      BY <1>1, <1>10 DEF SigTerm, SigHup, EditFile, flags
    <2>2. pc' = "apply" => loaded' \in Applicable
      BY <2>1 DEF ServiceInv, Configurations
    <2> QED
      BY <1>1, <2>1, <2>2, RuntimeUnchanged
  <1>11. CASE UNCHANGED vars
    <2>1. pc' = "apply" => loaded' \in Applicable
      BY <1>11 DEF vars, ServiceInv, Configurations
    <2> QED
      BY <1>1, <1>11, <2>1, RuntimeUnchanged DEF vars, flags, history
  <1> QED
    BY <1>3, <1>4, <1>5, <1>6, <1>7, <1>8, <1>9, <1>10, <1>11 DEF Next, ThreadStep

(***************************************************************************)
(* The invariant of the daemon holds in every state.                       *)
(***************************************************************************)
LEMMA InvHolds == Spec => []ServiceInv
  BY InitEstablishes, StepPreserves, PTL DEF Spec
-----------------------------------------------------------------------------
(***************************************************************************)
(* The process, its schedule and its flags stay well formed; no deadline   *)
(* is more than a period away (Scheduler, EdgeService::loop).              *)
(***************************************************************************)
THEOREM TypeCorrect == Spec => []TypeOK
  <1>1. ServiceInv => TypeOK
    BY DEF ServiceInv
  <1> QED
    BY <1>1, InvHolds, PTL

(***************************************************************************)
(* TelemetryRuntime::configure() that fails half-way, at any channel and   *)
(* after any history of reloads, leaves no uploader: what uploads is bound *)
(* and scheduled as its configuration says.                                *)
(***************************************************************************)
THEOREM UploadsWhenConfigured == Spec => []UploaderMeansConfigured
  <1>1. ServiceInv => UploaderMeansConfigured
    BY DEF ServiceInv
  <1> QED
    BY <1>1, InvHolds, PTL

(***************************************************************************)
(* The checks of load_config() suffice for what the scheduler, the policy  *)
(* and the ring divide by, index with and rely on: any file, however it is *)
(* edited, is refused or gives a usable configuration.                     *)
(***************************************************************************)
THEOREM ConfigurationUsable == Spec => []HeldIsUsable
  <1>1. ServiceInv => HeldIsUsable
    <2> SUFFICES ASSUME ServiceInv, config_ # None PROVE HeldIsUsable
      BY DEF HeldIsUsable
    <2>1. Usable(config_)
      BY AcceptedIsUsable DEF ServiceInv, Configurations, Applicable
    <2> QED
      BY <2>1 DEF Usable, UsableChannel, HeldIsUsable
  <1> QED
    BY <1>1, InvHolds, PTL
=============================================================================
