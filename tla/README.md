# TLA+ specifications of bossa

bossa samples sensors on an edge node (C++), buffers the samples, and uploads
them to a Cloudflare Worker. These modules model the part of it that keeps
state and can go wrong over time: the buffer, the scheduler, the upload
pipeline with its offline backlog, the life of the daemon and its configuration
file, the hardware drivers, and the Worker with its dashboard.

Paths below are relative to the repository, which `PROJECT.json` finds under
`src/`.

## 1. Inventory

| Component | State | Operations | Called by / talks to |
|---|---|---|---|
| Ring buffer (`src/telemetry/ring_buffer.cpp`) | `slots_`, `head_`, `size_`, `drop_count_` | `enqueue`, `dequeue` | runtime, under a mutex |
| Scheduler (`src/telemetry/scheduler.cpp`) | period and deadline per channel | `configure`, `dispatch_due`, `next_deadline` | runtime; calls back `poll_channel` |
| Upload policy (`src/sync/upload_policy.cpp`) | per channel: last value uploaded, last flush, pending flags; two summary flags | `configure_channel`, `clear`, `on_sample`, `should_flush`, `mark_flushed` | runtime |
| Local store (`src/storage/local_store.cpp`) | SQLite table `pending_uploads` | `open`, `enqueue`, `peek_batch`, `acknowledge`, `pending_count` | uploader, runtime; survives the process |
| HTTP uploader (`src/sync/http_uploader.cpp`, `curl_http_client.cpp`) | none of its own | `upload`, `retry_pending` | runtime; server, store |
| Telemetry runtime (`src/runtime/telemetry_runtime.cpp`) | ring, policy, drivers, backoff, counters | `configure`, `tick`, `next_wake` | service loop |
| Service and daemon (`src/core/service.cpp`, `src/daemon_main.cpp`) | `g_running`, `g_reload`, the configuration | `start`, `reload`, `loop`, the signal handler | the operating system |
| Configuration (`src/core/config.cpp`) | the file; the configuration held | `load_config` | `main`, `reload` |
| BME280 driver, I2C bus (`drivers/bme280`, `src/io/linux_i2c_bus.cpp`) | descriptor, calibration, `configured_` | `configure`, `read` | runtime; the sensor |
| GPIO (`src/io/libgpiod_gpio.cpp`) | a chip and a line handle per offset | `request_line`, `read_line`, `write_line`, destructor | nothing in the daemon yet; libgpiod |
| Worker, ingest (`workers/bossa-worker`) | tables `edge_nodes`, `telemetry_points` | `handleTelemetry` | uploader, over HTTP |
| Worker, queries and dashboard | the page's table and chart | `/api/v1/nodes`, `/api/v1/data`, `fetchData` every 5 s | browsers |
| Driver registry (`src/drivers/registry.cpp`) | names and factories | filled before `main`, then read | runtime |
| Simulated and fake drivers, smoke tool | - | - | - |

One thread runs everything on the node; what is concurrent with it are signals,
the clock, the sensor, the server and the network, the operator editing the
file, the death of the process and the loss of power. In the Worker, requests
run concurrently, each interrupted at its awaits.

**What is hard here.** A request that times out may have been, or may yet be,
carried out by the server. A failure may hit any row of a batch that is being
persisted or acknowledged. The process may be reloaded or die with samples in
the ring or in flight. `configure()` drops the old state before it knows that
the new one works. Signals arrive at any moment, also during a reload. Polls
take time, so deadlines pass while others are served. The ring is exactly one
batch long. What SQLite has written is on the disk only some time later. A
measurement is read before it is over. An isolate may die between two
statements, and the same request may be handled twice at a time.

**What makes each part correct.**

* Ring: a bounded priority queue. A drop takes the oldest of the least
  important residents, order is kept, drops are counted.
* Scheduler: no burst after a delay, no slot skipped beyond the next, no drift,
  and `dispatch_due` returns.
* Pipeline: no sample disappears except where the code gives it up, none is
  held twice, a stored row goes only when delivered, backlog and ring drain,
  urgent samples leave in the tick that read them, and a tick ends after two
  exchanges at most, however long the backlog is.
* Daemon: a requested reload happens, a requested stop happens, uploads only
  start from a whole configuration.
* Configuration: what is held is usable.
* Devices: no samples from partial calibration, no overflow in the compensation,
  results in the sensor's range and in the unit they claim, no leaked descriptor.
* Worker: 202 means stored, a point has its node, requests are idempotent and
  atomic; the dashboard comes to show what the tables hold.

## 2. Modules

| Module | Models | Composes |
|---|---|---|
| `PriorityQueueOps` | what an `enqueue` does to the sequence of residents | - |
| `BoundedPriorityQueue` | abstract specification of the ring | `PriorityQueueOps` |
| `RingBuffer` | `ring_buffer.cpp`, one step per iteration of the scan and of the shift | refines `BoundedPriorityQueue` |
| `RingBufferProofs` | theorems about it | `RingBuffer` |
| `Scheduler` | `scheduler.cpp`, one step per channel and per skipped slot; the clock moves between any two | - |
| `SchedulerProofs` | theorems about it | `Scheduler` |
| `UploadPolicy` | `upload_policy.cpp` | used by `TelemetryRuntime` |
| `LocalStore` | `local_store.cpp`: rows with increasing ids, and the table as it last reached the disk | used by `TelemetryRuntime` |
| `IngestWorker` | abstract specification of `handleTelemetry`: what an accepted request leaves in the table | used by `TelemetryRuntime` |
| `SampleLife` | abstract specification of a node: a sample is held, stored, delivered or given up | - |
| `TelemetryRuntime` | `tick()` and all it calls, the uploader, the HTTP exchange, reload, crash and loss of power | `UploadPolicy`, `LocalStore`, `IngestWorker`, `PriorityQueueOps`; refines `SampleLife` |
| `Config` | `load_config`: its checks in their order, and the configuration it returns | used by `EdgeService` |
| `EdgeService` | `main`, `Service::start`, signals, `reload`, `loop`, `configure()` with its failures | `Config` |
| `Bme280Compensation` | the driver's integer arithmetic, at its width | used by `Bme280` |
| `Bme280` | the driver, one step per bus transaction, and the sensor | `Bme280Compensation` |
| `Gpio` | `libgpiod_gpio.cpp` | - |
| `Devices` | driver and GPIO in one process, with a bounded table of descriptors | `Bme280`, `Gpio` |
| `Worker` | `index.ts` at the grain of its awaits: ingest, queries, the page's refreshes | refines `IngestWorker` |
| `BasicLemmas` | lemmas: induction over a set of numbers, functions defined by recursion, members of sequences | - |
| `RuntimeLemmas` | lemmas about the operators of the pipeline: the queue, the policy, the table, the server | `TelemetryRuntime`, `BasicLemmas` |
| `TelemetryRuntimeProofs` | theorems about the pipeline | `RuntimeLemmas` |
| `EdgeServiceProofs` | theorems about configuration and daemon | `EdgeService`, `BasicLemmas` |
| `DevicesProofs` | theorems about driver, bus and GPIO | `Devices` |
| `WorkerProofs` | theorems about the Worker | `Worker`, `BasicLemmas` |
| `MC*` | the constants of the runs | |

### How state and actions correspond to the code

*Names.* Variables and operators keep the code's names (`buffer`,
`retry_attempt_`, `should_flush`, `mark_flushed`...). Definitions whose comment
begins "Mutant:" are not part of any specification: each is a way the definition
after it could have been written wrongly. The map in `PROJECT.json` gives the
lines of each definition.

*Ring.* `slots`, `head`, `size`, `drop_count` are the members. An enqueue into a
full ring is `EnqueueFull`, then `ScanStep`s, then `RejectIncoming`, `EvictHead`
or `StartShift` and `ShiftStep`s, and `AppendIncoming`. `arrived` and `taken` are
history. The refinement mapping `Queue` shows the newcomer as queued from the
moment its victim is chosen, and skips the gap while it is being closed.

*Scheduler.* `t` is the clock reading at the start of a dispatch, `c` and `next`
are its locals. A rate is a fraction; `period_from_hz` truncates the period to
whole ticks, as `duration_cast` does.

*Pipeline.* In `TelemetryRuntime`, `pc` is the place in the tick. The ring appears
as the sequence that `RingBuffer` is proved to implement; `poll_channel` offers
it all samples of a read. An HTTP exchange has a step for the request, one for
what the server does and one for the answer; `TransferFails` is the timeout, before
or after the server acted, and `LateRequest` the request that arrives after the
client gave up. `PersistRow` and `AckRow` handle one row each and may fail.
`peek_batch` may fail at once or after some rows. `Reload` and `Crash` drop what
is in memory. `configure()` may give up half-way in a reload: `bound` channels go
on being polled, and there is no uploader until a later reload succeeds
(`Uploading`). Deadlines are kept as ticks left, so
that runs need no bound on time. A sample is its channel, its place in the read,
which decides its series (`Reads`), and its time stamp; `format_time` maps the
stamp to the second, and the server's key is made of series and second. The
series in `Unitless` come without a unit (the sim driver takes its unit from the
file, which may leave it empty): the Worker passes their samples over and answers 202 all the
same. The history `skipped` has them, so that the node's loss properties see it.

*Power.* `open()` sets `journal_mode=WAL` and `synchronous=NORMAL`, under which
SQLite keeps the database consistent but not every committed statement through a
loss of power. `LocalStore.synced` is the table as on the disk, `LogReachesDisk`
brings it up to date at any moment, and `PowerLoss` goes back to it: rows not yet
on the disk are lost, rows deleted since return and are sent again.

*Life of a sample.* `Life` maps ring and batch in hand to `held`, the rows to
`stored`, the samples whose key the server has, or which it passed over, to
`delivered`, and the history `lost` to itself. A crash is a `GiveUp`; a poll that overflows the ring a `Read`
that gives something up; the skipped row of `persist_all` a `GiveUp` too.

*Daemon.* `EdgeService` splits `reload` into the read of the file and its
application, so that the operator and signals come in between. `configure` is
modelled by what it leaves behind at each point where it may give up: the store,
or a channel whose driver is not registered or throws (`Outcomes`). `Registered`
is `kForceLinkDrivers`, the drivers the linker keeps. A tick only moves deadlines
here.

*Configuration.* A document is a record of the fields, each abstracted to the
values a check tells apart (absent, empty, junk, a number). `load_config` runs
the checks of the sections in their order; `verdict` is that of the first one not
passed, an error or an exception.

*Devices.* Each bus transaction is a step that succeeds or fails. The sensor is
its calibration memory and its data registers; `MeasureControl` starts a
measurement and `Measured` ends it whenever it likes, so `read_raw` may find the
one before. The compensation is evaluated as written, with `Undefined` for a
result that does not fit 32 bits. Values are hundredths, before the division
by 100. A GPIO request is made of the calls into the library: open the chip
(`ChipOpens`, `ChipRefused`), find the line (`LineFound`, `LineMissing`), ask for it
(`LineGranted`, `LineTaken`); `asked` is the request under way, and from its second
call on a failure has a chip to close. Opening a bus or a chip needs a free
descriptor (`Room`).

*Worker.* A handler advances from await to await: the node's upsert, the batch,
the answer. `DB.batch` is one transaction, as D1 documents. `HandlerFails` is an
exception of D1 or the end of the isolate; a sample whose value is `null` makes
the batch fail (`NOT NULL` in `schema.sql`). A refresh is `both`, then the two
queries in either order, then `Render`; two refreshes may overlap.

## 3. Runs

Passing:

| Run | Bounds | What it shows |
|---|---|---|
| `ring_buffer` | 3 slots, 4 samples (two of equal priority), 7 arrivals | implements the queue; drops counted; importance kept; operations return, after at most two passes |
| `scheduler` | 2 channels, periods 2, 3, 4, 8 ticks, 8 ticks of time, 2 configures | no catch-up storm, no drift, no overskip, dispatch returns |
| `runtime` | a realtime, a batch and two on_change channels, one of them a BME280 with two quantities; the batch channel without a unit; batch of 2, 3 reads, 2 failures of any kind (2.1 M states) | accounting, single holding, room, urgency, flags, quiet on_change channel of one quantity |
| `runtime_backlog` | the realtime and the batch channel, 2 reads, 2 failures, losses of power among them; fair (94 k) | implements `SampleLife`; rows leave only when delivered; a tick makes at most two POSTs; backlog and ring drain |
| `edge_service` | 13 files: six load, five are refused, two throw; up to 2 channels (92 k) | uploader means configured; what is held is usable; reload not lost; stop honoured |
| `devices` | 2 drivers, 2 chips and no chip, 2 lines, 3 descriptors, 2 calibrations, 5 measurements (219 k) | complete calibration, no overflow, temperatures and humidities in range, no leak |
| `worker` | 5 bodies, 2 handlers, 2 refreshes, 1 row per query, 1 failing refresh (341 k) | 202 means stored; points have their node; implements `IngestWorker`; the dashboard catches up |

Why these bounds suffice for what is asked: three slots are the fewest in which a
victim can be first, middle and last, and seven arrivals let the head wrap around
twice. Eight ticks with periods of two miss several slots during one dispatch.
Two failures let a transfer fail and the persist or the acknowledge that follows
fail too, or a crash strike after a timeout; three reads overflow a ring of two.
Losses of power need the two reads of `runtime_backlog` only: one row on the disk
and one not. The files of `edge_service` make each kind of check, each default and
each place where `configure()` can give up decide once; files are edited and
reloaded without bound. The measurements of `devices` lie near the ends of the sensor's
range, -40 and 85 degrees, with the driest and the wettest reading, and that of
the driver's unit test. Its calibrations are the unit test's and one with every
coefficient other than zero. In `worker`, two of the bodies share a key with
different values, one has a `null` and two are refused; one row per query is fewer
than the points there are.

Violations, each a disagreement between the code and what the repository says of
it (details in `PROJECT.json`, findings):

| Run | Says | Does |
|---|---|---|
| `runtime_rejected` | 400: "edge logs and drops batch" | a stored batch is retried for ever |
| `runtime_same_second` | 202: "Rows persisted" | samples within a second share a key; one is kept |
| `edge_service_busy_wait` | "avoid busy-waiting" | the loop spins after a failed reload |
| `edge_service_mistyped` | errors by value "instead of exceptions" | text for a number ends the daemon at reload |
| `devices_humidity` | unit "percent" | 1024ths of a percent are divided by 100: 50 % is reported as 512 |

Further disagreements met while modelling. Each fails on a single step, so no run
is spent on it; the hazards in `PROJECT.json` list those that show at run time at
their lines:

* `docs/specification.md` 6.3: ids unique within a node (not checked), a rate of 0
  allowed (refused), an upload interval of at least a sampling period (not checked);
* `README.md`: a minimum interval between uploads per channel (the first interval
  that is over flushes all channels);
* `telemetry_runtime.hpp`: the accepted count is of successful uploads (a failing
  `SELECT` counts, action `PeekFails`);
* `docs/specification.md` 9.1: on_change compares with the value uploaded last (the
  samples of a driver with two quantities are compared with each other: a steady
  BME280 asks for an upload at every read, in the run `runtime` the channel
  `climate`. `SteadyReadingsQuiet` is about channels of one quantity; without that
  condition the run fails);
* `docs/specification.md` 9.2: 202 means persisted (the Worker skips samples
  without a unit: `NoSilentLoss` counts them apart, `AcceptedIsStored` excepts them);
* `README.md` on destinations: `remote` is the Worker (a flush takes whatever the
  ring holds, samples of local-only channels included);
* `docs/specification.md` 4: SQLite "survives power loss" (the file does; with
  `synchronous=NORMAL` the last rows may not, which `RowsLeaveDelivered` excepts);
* `docs/tutorial.md`: a demo with the fake drivers (nothing makes the linker keep
  them, so `configure()` ends with "unknown driver"; the smoke tool, likewise,
  references no driver);
* `gpio_controller.hpp`: "Request exclusive access" (a held line is granted again,
  for any chip and direction, action `RequestHeld`);
* `bme280_driver.cpp:162`: `dig_h5` is read without its sign (with a sensor whose
  coefficient is negative, `CompensationInRange` fails);
* `scheduler.cpp:60`: the branch for a period that does not advance (a period of 0
  never leaves the loop before it: with a rate above the clock's,
  `DispatchReturns` fails);
* `driver.hpp`: `read()` returns current samples (the BME280 driver does not wait
  for the measurement it started).

`CHECK_DEADLOCK FALSE` is set where the system may stop: for the daemon, which exits.

### Fairness

* `RingBuffer`, `Scheduler`: weak fairness of the steps inside an operation, that
  is, a thread inside `enqueue` or `dispatch_due` is scheduled. Nothing makes
  anybody call.
* `TelemetryRuntime`: the daemon's thread runs, and a server that has not failed
  answers (weak); the clock advances again and again (strong, since the model lets
  time pass only while the thread sleeps or waits). Failures are bounded by
  `MaxFaults`, so "drains" reads: once failures cease.
* `EdgeService`: the thread runs and time passes. Signals and edits are free.
* `Worker`: the page's timer fires and the browser carries out what a refresh
  started (weak, per refresh). Nothing is assumed of requests and isolates.
  Failing refreshes are bounded by `MaxFailures`: "catches up" reads: once
  refreshes succeed.

Curl's timeout (`CURLOPT_TIMEOUT`) is what justifies that an exchange ends; the
loop in `Service::start` that the thread keeps taking steps.

## 4. Proofs

All proofs are for every value of the constants, under the assumptions named in
the modules, which TLC evaluates on the runs' instances. They say what kind of
thing a constant is and no more than the code ensures: a capacity of at least one
and priorities in 0..2 (`CapacityAssumption`, `PriorityAssumption`), rates that are
fractions of natural numbers (`RateAssumption`), every channel in the order of the
configuration and readings of the declared width (`RuntimeAssumption`), integer
thresholds and values (`SyncAssumption`), documents of the abstracted fields
(`DocumentAssumption`), requests whose samples carry their request's node
(`RequestAssumption`), a value for "undefined" that is no integer
(`UndefinedAssumption`). Where a theorem needs more of a node, its statement says so
(`KeysDiffer`, `SensorsCovered`, `MeasurementsCovered` below).

The inductive invariants also hold, by TLC, on the runs' instances (`RuntimeInv` and
`ReadingsRemembered` on that of `runtime_backlog`). `PROJECT.json` lists the theorems with the properties they state.

*Induction.* The provers cannot instantiate a theorem whose parameter is an
operator. `BasicLemmas` states induction for the *set* of the numbers that have a
property (`InductionOnSet`, from the well-foundedness of the numbers), and the
existence of functions defined by recursion likewise. This is how the loops that
the models write as recursive functions are reasoned about: the samples of one read
offered to the ring and shown to the policy, the inserts of one batch, the entries
of a schedule.

*Ring.* `RingInv` = `TypeOK`, `ResidentsAreSamples`, `EnqueueInProgress` and
`DropsAccounted`. The type alone does not say that the slots between head and
head + size hold samples, which a dequeue needs, nor that the scan's local knows
the oldest of the least important so far, which the refinement needs; hence the
second and third conjunct. `SlotWraps` reduces the modulo to one subtraction, and
`SlotFacts` derives from it that slots of distinct offsets are distinct and that
advancing the head shifts offsets by one. From `RingInvHolds` follow the four
invariants, and `RingImplementsQueue`: every step of the ring is a step of
`BoundedPriorityQueue` or a stutter. Scan and shift steps stutter; the step that
ends the scan is the `Put`. `RingImportanceKept` (no step but a dequeue lowers the
number of residents of a priority or above) rests on the refinement: the residents that count
before the step are mapped one to one into those after it. `RingEnqueueBounded`
gives what safety can of termination: `Work`, a natural number, falls with every
step of an enqueue, so that the mutex is held for at most `2 * Capacity + 2` steps.

*Scheduler.* `SchedulerInv` = `TypeOK`, `DispatchInProgress` (the channel being
advanced was due, and the dispatch's clock reading is not ahead of the clock),
`PassedChannels` and `NoSlotOverskipped`. It gives `SchedulerNoCatchUpStorm`,
`SchedulerNoSlotOverskipped`, `SchedulerTypeOK`. `SchedulerNoDrift` needs a
further invariant: the local `next`, too, is on the grid. The proofs hold for
periods of 0 as well; what fails there is termination.

*Pipeline.* `RuntimeInv` is the conjunction of

| Part | Says | Needed for |
|---|---|---|
| `PlainTypeOK`, `QueueTypeOK`, `PolicyTypeOK` | the types | everything |
| `FlagsAgree` | the flags over all channels agree with the channels' own | urgency |
| `InHand` | the place in the tick tells what it holds: a batch, peeked rows, an exchange | that `Reload` and a new tick drop nothing in hand |
| `Flushed` | after the flush of a tick nothing in the ring asks for one | `RingHasRoom`, `UrgentNotHeld` |
| `RealtimeFlagged` | a realtime sample in the ring has raised the flag | `UrgentNotHeld` |
| `Known` | every place holds samples that were read | that a new sample is nowhere yet |
| `Apart` | memory, disk and the given-up samples are disjoint, without repetition | `HeldOnce` |
| `Table` | ids are unique and below the next one, and a peeked row is the row of its id | that `AckRow` deletes the row it sent |
| `Accounted` | what was read is in memory, stored, delivered (taken in or passed over by the server) or given up; what is only on the disk was delivered | `NoSilentLoss` |
| `AnswerTrue` | a 202 is for what the server has, or has passed over | `Accounted` when a batch or a row is let go |

From it follow `TypeCorrect`, `PolicyFlagsAgree`, `RoomAfterTick`,
`UrgentSentInTick` and `SampleHeldOnce`. `NoSampleUnaccounted` is the loss
theorem without a hypothesis: where two samples share their key, the server has one
for both. `NoSampleLost` concludes `NoSilentLoss` for a node whose samples have
different keys (`KeysDiffer`), which a node that reads no series twice in a second has, the
instances of `runtime` and `runtime_backlog` among them; `runtime_same_second` shows
that it is needed. Samples without a unit are the third place where `NoSilentLoss`
lets a sample end, next to the server and the given-up ones; `TypeCorrect` says that
the server passes over no others. `RowsKeptUntilDelivered` proves `RowsLeaveDelivered`,
and `RuntimeImplementsLife` the refinement of `SampleLife`: `LettingGo`,
`PersistMoves` and `PowerLossMoves` say what the steps that move samples do to the
mapped variables, and `StillSteps` that all others stutter. `SteadyChannelsQuiet`
proves `SteadyReadingsQuiet` with a second invariant, `ReadingsRemembered` (the
last reading of an on_change channel is within the threshold of the remembered
value), for every channel that measures one quantity, on any node (`OneQuantity`
in the invariant and in the property); the policy compares the quantities of one
read with each other, so for other channels it is false. `TickIsBounded` proves `TickBounded`: from
`InHand` and the lengths of batch and peeked rows, `StepsLeft` is a natural number that
falls with every step of a tick (`Countdown`), and only two of its values belong to
a request on its way, one for the ring and one for the backlog. That each exchange
ends at all is curl's timeout, and remains an assumption of fairness.

*Daemon and configuration.* `ServiceInv` = `TypeOK`, `UploaderMeansConfigured`,
`Configurations` (what is held, or about to be applied, was parsed from an
accepted file) and the type of the schedule. The lemmas before it show that a file
`load_config` accepts passed each of its checks. `UploadsWhenConfigured`,
`ConfigurationUsable` and `TypeCorrect` follow.

*Devices.* `DevicesInv` = `TypeOK`, `NoDescriptorLeak`, `DriverStages` and
`LineHandles`. `DriverStages` says which coefficients a driver holds at each stage
of `configure()`: none, one block, all; `AlwaysCalibrated` needs it because a
failing transaction leaves a driver in the middle. `LineHandles` says that a GPIO
request under way asks for a line that is not held, so that the chip a failure
closes is not one that a line needs (`GpioStepKeepsLines`). `NoLeak` and
`TypeCorrect` are conjuncts.

`CompensationBounded` proves `CompensationInRange` for the sensors and measurements
its two hypotheses cover. `SensorsCovered`: coefficients in an envelope (`t1` in
24000..36000, `t2` in 0..32767, `t3` in -4096..4096, `h1` up to 128, `h2` up to 511,
`h3` up to 64, `h4` up to 1023, `h5` up to 2047, any `h6`), with two inequalities
that keep the reading at either end below the largest number whose square fits.
`MeasurementsCovered`: the temperature, computed in exact integers, is between -40
and 85 degrees; the humidity register may hold anything. Both are true, by TLC, on
the instance of `devices`; the values of the data registers after power-on are
covered by the proof itself. The argument: `FineIsExact` (the driver's 32-bit
operations give the exact value, since `AddFits`, `SubFits`, `MulFits` and `ShrIs`
apply at each of them), then `HumidityOffset`, `HumidityScale` and `HumidityFits`
(bounds of the factors of the humidity, of their product and of its square), for
`read()` in any order of failures and reloads. No envelope can contain all
calibrations: `h5` up to 2047 leaves out what a negative `dig_h5` is read as
(`bme280_driver.cpp:162`), for which the product does overflow.

*Worker.* `WorkerInv` = `TypeOK`, `PointsHaveNode`, `HandlerStates`, `NodeWritten`
(from the batch on, the node is in its table), `AnsweredIsStored` (from the answer on,
the samples are stored) and `RefreshStates`. `NodeBeforePoints` and `Accepted202`
follow. `WorkerImplementsIngest` needs that the inserts of a batch, one after the
other, leave the table that `IngestWorker` states at once, by induction on their
number.

*Only model-checked.* Liveness (`OperationReturns`, `DispatchReturns`,
`BacklogDrains`, `RingDrains`, `ReloadNotLost`, `StopHonoured`,
`DashboardCatchesUp`), which is out of this prover's reach. Every invariant, action
property and refinement that a passing run checks is also proved.

## 5. Not modelled

* The Worker's health endpoints: they keep no state. Colours and axes of the chart.
* Registration of drivers: done before `main`, under a mutex nobody contends for;
  the result is `Registered`.
* Simulated and fake drivers: waveforms; the runtime sees samples.
* The smoke tool: a single pass over what `Bme280` models.
* The duration of a BME280 measurement, which the repository does not state: it
  may be over before or after the registers are read.
* An empty API key (a key file that cannot be read): the Worker answers 401 to
  everything, which to the pipeline is any other failing status.
* A reload that moves the store to another path: the rows of the old file stay
  there. `TelemetryRuntime` reloads with the same path.
* SQL text, JSON and YAML syntax, logging.
* `max_size_megabytes`, `retention_hours`: read but used nowhere.
* The floating-point side of rates and thresholds: fractions and integers here.

## 6. Plan

1. (done) Ring and its abstract queue; scheduler; pipeline; daemon;
   configuration; driver. Proofs for ring and scheduler.
2. (done) The life of a sample and the refinement; losses of power; reloads that
   fail half-way; `Config` inside `EdgeService`; the compensation; GPIO and the
   shared descriptors; the Worker, its dashboard, and the refinement of
   `IngestWorker`.
3. (done) Proofs for pipeline, daemon, configuration, devices and Worker: every
   invariant and every refinement the runs check, and the action properties.
4. (done) Bounds of the compensation for an envelope of calibrations and all
   raw values, in place of the listed ones; the bounds on an enqueue and on a tick,
   the part of their termination that is safety. Liveness remains with TLC.
5. Open: a model of the floating-point side of rates and thresholds; what the
   scheduler's deadlines give the daemon's reading rate when exchanges block.
