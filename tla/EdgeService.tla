---------------------------- MODULE EdgeService -----------------------------
(***************************************************************************)
(* The life of the daemon process: main(), Service::start() and its loop   *)
(* (core/service.cpp), EdgeService (daemon_main.cpp), and what             *)
(* TelemetryRuntime::configure() leaves behind when it fails half-way.     *)
(* Signals arrive between any two steps.  Polling and uploading within a   *)
(* tick are Scheduler's and TelemetryRuntime's; here a tick only moves the *)
(* deadlines of the schedule, kept as ticks left until they pass.          *)
(***************************************************************************)
EXTENDS Config

CONSTANTS ClockHz,          \* ticks per second
          Heartbeat,        \* ticks of the sleep without channels
          Nap               \* ticks of the sleep without a deadline

ASSUME ClockAssumption == {ClockHz, Heartbeat, Nap} \subseteq Nat \ {0}

VARIABLES
    file,                   \* the configuration file
    loaded,                 \* result of load_config that reload() is about to apply
    config_,                \* EdgeService::config_
    channels_,              \* ids bound to a driver by the last configure()
    schedule,               \* the scheduler's entries: [id, period, due_in]
    uploader_, store_open_, \* whether they are set
    g_running, g_reload,
    handlers,               \* sigaction() has been called
    pc,
    sleep_in,               \* ticks left of the current sleep
    term,                   \* history: SIGTERM or SIGINT was handled
    asked,                  \* history: SIGHUP handled since the file last changed
    spun                    \* history: the last loop() had no channel to poll and did not sleep

runtimeVars == <<channels_, schedule, uploader_, store_open_>>
flags       == <<g_running, g_reload>>
history     == <<term, asked, spun>>
vars == <<file, loaded, config_, runtimeVars, flags, handlers, pc, sleep_in, history>>

Exited == pc = "exited"

None == [channels |-> <<>>]
-----------------------------------------------------------------------------
(***************************************************************************)
(* The drivers the linker keeps (kForceLinkDrivers), and how the           *)
(* configure() of one may end.  Whether a sensor answers is up to the      *)
(* hardware.                                                               *)
(***************************************************************************)
Registered == {"sim", "bme280"}

DriverConfigures(ch) ==
    CASE ch.driver \notin Registered                              -> {FALSE}
      [] ch.driver = "sim"                          -> {ch.parameters = "channel_id"}
      [] ch.driver = "bme280" /\ ch.parameters # "bus" -> {FALSE}
      [] ch.driver = "bme280" /\ ch.parameters = "bus" -> BOOLEAN

(***************************************************************************)
(* How configure() may go: whether the store opens, and which drivers let  *)
(* themselves be configured.                                               *)
(***************************************************************************)
Outcomes(cfg) ==
    {o \in [opens : BOOLEAN, driver : [DOMAIN cfg.channels -> BOOLEAN]] :
       \A n \in DOMAIN cfg.channels : o.driver[n] \in DriverConfigures(cfg.channels[n])}

Bound(cfg, o) ==
    {n \in DOMAIN cfg.channels : o.opens /\ \A m \in 1..n : o.driver[m]}

Ids(cfg) == {cfg.channels[n].id : n \in DOMAIN cfg.channels}

Succeeds(cfg, o) == o.opens /\ Bound(cfg, o) = DOMAIN cfg.channels

Period(ch) == ClockHz \div ch.rate

\* Mutant: the first deadlines lie two periods ahead.
ScheduledLate(cfg) ==
    [n \in DOMAIN cfg.channels |->
       [id |-> cfg.channels[n].id, period |-> Period(cfg.channels[n]),
        due_in |-> 2 * Period(cfg.channels[n])]]

Scheduled(cfg) ==
    [n \in DOMAIN cfg.channels |->
       [id |-> cfg.channels[n].id, period |-> Period(cfg.channels[n]), due_in |-> 0]]

\* Mutant: the uploader of the previous configuration survives a failure.
UploaderKept(cfg, o) == uploader_ \/ (Succeeds(cfg, o) /\ cfg.url)

UploaderSet(cfg, o) == Succeeds(cfg, o) /\ cfg.url

(***************************************************************************)
(* TelemetryRuntime::configure(cfg).  It gives up at the store, or at the  *)
(* first channel whose driver is unknown or throws: the channels before it *)
(* stay bound, the schedule stays that of the last successful configure,   *)
(* and there is no uploader.                                               *)
(***************************************************************************)
configure(cfg) ==
    \E o \in Outcomes(cfg) :
       /\ channels_' = {cfg.channels[n].id : n \in Bound(cfg, o)}
       /\ schedule' = IF Succeeds(cfg, o) THEN Scheduled(cfg) ELSE schedule
       /\ uploader_' = UploaderSet(cfg, o)
       /\ store_open_' = o.opens
-----------------------------------------------------------------------------
Init ==
    /\ file \in Documents /\ loaded = None /\ config_ = None
    /\ channels_ = {} /\ schedule = <<>>
    /\ uploader_ = FALSE /\ store_open_ = FALSE
    /\ g_running = TRUE /\ g_reload = FALSE
    /\ handlers = FALSE
    /\ pc = "main"
    /\ sleep_in = 0
    /\ term = FALSE /\ asked = FALSE /\ spun = FALSE

(***************************************************************************)
(* main(): a file that does not load ends the process, by return or by the *)
(* exception; a configure() that fails does not.                           *)
(***************************************************************************)
MainRefuses ==
    /\ pc = "main" /\ load_config[file] # "pass"
    /\ pc' = "exited"
    /\ UNCHANGED <<file, loaded, config_, runtimeVars, flags, handlers, sleep_in, history>>

MainConfigures ==
    /\ pc = "main" /\ load_config[file] = "pass"
    /\ config_' = Parsed(file)
    /\ configure(Parsed(file))
    /\ pc' = "start"
    /\ UNCHANGED <<file, loaded, flags, handlers, sleep_in, history>>

(***************************************************************************)
(* start() resets the flags before it installs the handlers.  In between   *)
(* daemonize() forks, unless the service runs in the foreground; what is   *)
(* followed here is the child, which exits when a system call fails.       *)
(***************************************************************************)
StartResetsFlags ==
    /\ pc = "start"
    /\ g_running' = TRUE /\ g_reload' = FALSE
    /\ pc' = "daemonize"
    /\ UNCHANGED <<file, loaded, config_, runtimeVars, handlers, sleep_in, history>>

daemonize ==
    /\ pc = "daemonize"
    /\ pc' \in {"install", "exited"}
    /\ UNCHANGED <<file, loaded, config_, runtimeVars, flags, handlers, sleep_in, history>>

install_signal_handlers ==
    /\ pc = "install"
    /\ handlers' = TRUE
    /\ pc' = "while"
    /\ UNCHANGED <<file, loaded, config_, runtimeVars, flags, sleep_in, history>>

InstallFails ==
    /\ pc = "install"
    /\ pc' = "exited"
    /\ UNCHANGED <<file, loaded, config_, runtimeVars, flags, handlers, sleep_in, history>>

\* Mutant: the loop goes on while a reload is asked for.
KeepsRunningForReload == g_running \/ g_reload

KeepsRunning == g_running

LoopCheck ==
    /\ pc = "while"
    /\ pc' = IF KeepsRunning THEN "consume" ELSE "exited"
    /\ UNCHANGED <<file, loaded, config_, runtimeVars, flags, handlers, sleep_in, history>>

(***************************************************************************)
(* consume_reload_if_needed() clears the flag before it calls reload().    *)
(***************************************************************************)
NoReloadAsked ==
    /\ pc = "consume" /\ ~g_reload
    /\ pc' = "loop"
    /\ UNCHANGED <<file, loaded, config_, runtimeVars, flags, handlers, sleep_in, history>>

ConsumeReload ==
    /\ pc = "consume" /\ g_reload
    /\ g_reload' = FALSE
    /\ pc' = "reload"
    /\ UNCHANGED <<file, loaded, config_, runtimeVars, g_running, handlers, sleep_in, history>>

(***************************************************************************)
(* EdgeService::reload(): read the file, then apply what was read.  No     *)
(* caller catches an exception.                                            *)
(***************************************************************************)
ReloadReads ==
    /\ pc = "reload"
    /\ loaded' = IF load_config[file] = "pass" THEN Parsed(file) ELSE None
    /\ pc' = CASE load_config[file] = "pass"  -> "apply"
               [] load_config[file] = "fail"  -> "loop"
               [] load_config[file] = "throw" -> "exited"
    /\ UNCHANGED <<file, config_, runtimeVars, flags, handlers, sleep_in, history>>

\* Mutant: the flag is cleared when the reload is over.
FlagAfterReloadCleared == g_reload' = FALSE

FlagAfterReload == UNCHANGED g_reload

ReloadApplies ==
    /\ pc = "apply"
    /\ config_' = loaded /\ loaded' = None
    /\ configure(loaded)
    /\ FlagAfterReload
    /\ pc' = "loop"
    /\ UNCHANGED <<file, g_running, handlers, sleep_in, history>>
-----------------------------------------------------------------------------
(***************************************************************************)
(* EdgeService::loop().                                                    *)
(***************************************************************************)
LoopHeartbeat ==
    /\ pc = "loop" /\ config_.channels = <<>>
    /\ sleep_in' = Heartbeat
    /\ spun' = FALSE
    /\ pc' = "sleep"
    /\ UNCHANGED <<file, loaded, config_, runtimeVars, flags, handlers, term, asked>>

(***************************************************************************)
(* tick(): without bound channels nothing is dispatched; otherwise every   *)
(* due entry gets a deadline at most one period ahead.                     *)
(***************************************************************************)
Due == {n \in DOMAIN schedule : schedule[n].due_in = 0}

LoopTick ==
    /\ pc = "loop" /\ config_.channels # <<>>
    /\ IF channels_ = {} THEN UNCHANGED schedule
       ELSE \E left \in [Due -> UNION {1..schedule[n].period : n \in Due}] :
               /\ \A n \in Due : left[n] <= schedule[n].period
               /\ schedule' = [n \in DOMAIN schedule |->
                                 IF n \in Due THEN [schedule[n] EXCEPT !.due_in = left[n]]
                                              ELSE schedule[n]]
    /\ spun' = (channels_ = {})
    /\ pc' = "wake"
    /\ UNCHANGED <<file, loaded, config_, channels_, uploader_, store_open_, flags,
                   handlers, sleep_in, term, asked>>

(***************************************************************************)
(* next_wake() and the sleep that follows.  The earliest deadline bounds   *)
(* the sleep; with a store and an uploader a retry of the backlog may be   *)
(* due before it.  A wake time that has passed means no sleep.             *)
(***************************************************************************)
NextWake == Min({schedule[n].due_in : n \in DOMAIN schedule})

RetryMayWait == store_open_ /\ uploader_

LoopSleeps ==
    /\ pc = "wake"
    /\ \/ schedule = <<>> /\ sleep_in' = Nap
       \/ /\ schedule # <<>> /\ NextWake > 0
          /\ sleep_in' \in IF RetryMayWait THEN 1..NextWake ELSE {NextWake}
    /\ spun' = FALSE
    /\ pc' = "sleep"
    /\ UNCHANGED <<file, loaded, config_, runtimeVars, flags, handlers, term, asked>>

LoopGoesOn ==
    /\ pc = "wake"
    /\ schedule # <<>>
    /\ NextWake = 0 \/ RetryMayWait
    /\ pc' = "while"
    /\ UNCHANGED <<file, loaded, config_, runtimeVars, flags, handlers, sleep_in, history>>

WakeUp ==
    /\ pc = "sleep" /\ sleep_in = 0
    /\ pc' = "while"
    /\ UNCHANGED <<file, loaded, config_, runtimeVars, flags, handlers, sleep_in, history>>

(***************************************************************************)
(* The clock advances; a signal does not cut a sleep short (the standard   *)
(* library's sleeps resume after EINTR).                                   *)
(***************************************************************************)
Less(n) == IF n = 0 THEN 0 ELSE n - 1

ClockTicks ==
    /\ ~Exited
    /\ sleep_in' = Less(sleep_in)
    /\ schedule' = [n \in DOMAIN schedule |-> [schedule[n] EXCEPT !.due_in = Less(@)]]
    /\ UNCHANGED <<file, loaded, config_, channels_, uploader_, store_open_, flags,
                   handlers, pc, history>>
-----------------------------------------------------------------------------
(***************************************************************************)
(* signal_handler(); before the handlers are installed a signal kills.     *)
(***************************************************************************)
SigTerm ==
    /\ ~Exited
    /\ IF handlers THEN g_running' = FALSE /\ term' = TRUE /\ UNCHANGED pc
                   ELSE pc' = "exited" /\ UNCHANGED <<g_running, term>>
    /\ UNCHANGED <<file, loaded, config_, runtimeVars, g_reload, handlers,
                   sleep_in, asked, spun>>

SigHup ==
    /\ ~Exited
    /\ IF handlers THEN g_reload' = TRUE /\ asked' = TRUE /\ UNCHANGED pc
                   ELSE pc' = "exited" /\ UNCHANGED <<g_reload, asked>>
    /\ UNCHANGED <<file, loaded, config_, runtimeVars, g_running, handlers,
                   sleep_in, term, spun>>

(***************************************************************************)
(* The operator edits the file.                                            *)
(***************************************************************************)
EditFile ==
    /\ ~Exited
    /\ file' \in Documents \ {file}
    /\ asked' = FALSE
    /\ UNCHANGED <<loaded, config_, runtimeVars, flags, handlers, pc, sleep_in,
                   term, spun>>

ThreadStep ==
    \/ MainRefuses \/ MainConfigures \/ StartResetsFlags \/ daemonize
    \/ install_signal_handlers \/ InstallFails
    \/ LoopCheck \/ NoReloadAsked \/ ConsumeReload \/ ReloadReads \/ ReloadApplies
    \/ LoopHeartbeat \/ LoopTick \/ LoopSleeps \/ LoopGoesOn \/ WakeUp

Next == ThreadStep \/ ClockTicks \/ SigTerm \/ SigHup \/ EditFile

Spec == Init /\ [][Next]_vars

(***************************************************************************)
(* The thread runs and time passes; nothing is assumed of signals or of    *)
(* the operator.                                                           *)
(***************************************************************************)
FairSpec == Spec /\ WF_vars(ThreadStep) /\ WF_vars(ClockTicks)
-----------------------------------------------------------------------------
(***************************************************************************)
(* No deadline is more than a period away; the flags, the sleep and the    *)
(* position in main() and start() stay in their ranges.                    *)
(***************************************************************************)
TypeOK ==
    /\ file \in Documents
    /\ {loaded, config_} \subseteq {None} \cup {Parsed(d) : d \in Documents}
    /\ channels_ \subseteq Ids(config_)
    /\ \A n \in DOMAIN schedule : schedule[n].due_in \in 0..schedule[n].period
    /\ {uploader_, store_open_, g_running, g_reload, handlers} \subseteq BOOLEAN
    /\ {term, asked, spun} \subseteq BOOLEAN
    /\ sleep_in \in Nat
    /\ pc \in {"main", "start", "daemonize", "install", "while", "consume", "reload", "apply",
              "loop", "wake", "sleep", "exited"}

(***************************************************************************)
(* Whatever sequence of good and failing reloads led here, an uploader     *)
(* exists only for a runtime configured as a whole: every channel of       *)
(* config_ bound to its driver, and scheduled at its own period            *)
(* (telemetry_runtime.cpp, configure).                                     *)
(***************************************************************************)
UploaderMeansConfigured ==
    uploader_ => /\ channels_ = Ids(config_)
                 /\ Len(schedule) = Len(config_.channels)
                 /\ \A n \in DOMAIN schedule :
                      /\ schedule[n].id = config_.channels[n].id
                      /\ schedule[n].period = Period(config_.channels[n])

(***************************************************************************)
(* What the scheduler, the policy and the ring rely on: whatever files     *)
(* were loaded or refused, the configuration held polls every channel at a *)
(* positive rate, uploads at a positive interval, knows its mode and       *)
(* priority, has a store and has room for a batch (config.cpp).            *)
(***************************************************************************)
HeldIsUsable ==
    config_ # None =>
       /\ config_.max_batch_size > 0 /\ config_.path \in {"text", "default"}
       /\ \A n \in DOMAIN config_.channels :
             LET ch == config_.channels[n] IN
             /\ ch.id # "" /\ ch.rate > 0 /\ ch.interval > 0
             /\ ch.priority \in {"low", "normal", "critical"}
             /\ ch.mode \in {"batch", "realtime", "on_change"}

(***************************************************************************)
(* A SIGHUP sent after the file was edited is not lost, not even when it   *)
(* arrives during another reload: the daemon comes to run with that        *)
(* content, unless the file does not load, is edited again, or the process *)
(* ends (service.cpp, consume_reload_if_needed).                           *)
(***************************************************************************)
ReloadNotLost ==
    asked ~> (config_ = Parsed(file) \/ ~asked \/ load_config[file] # "pass" \/ Exited)

(***************************************************************************)
(* A handled SIGTERM ends the process, whatever else is going on: sleeps,  *)
(* failed reloads, further SIGHUPs (service.cpp, start).                   *)
(***************************************************************************)
StopHonoured == term ~> Exited

(***************************************************************************)
(* docs/guidelines.md: "avoid busy-waiting".  An iteration of the loop     *)
(* that had no channel to poll is followed by a sleep.                     *)
(***************************************************************************)
NoBusyWait == ~(pc = "while" /\ spun)

(***************************************************************************)
(* core/config.hpp: load_config() "Uses an explicit success/failure type   *)
(* instead of exceptions".  A running daemon ends only when it is told to, *)
(* whatever it reloads.                                                    *)
(***************************************************************************)
ReloadSurvived == handlers /\ Exited => term
=============================================================================
