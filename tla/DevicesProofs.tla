--------------------------- MODULE DevicesProofs ----------------------------
(***************************************************************************)
(* Proofs about Devices for any number of drivers, chips and lines, any    *)
(* table of descriptors and any sensor: wherever a call fails, no sample   *)
(* is computed from partial calibration and no descriptor leaks.  For      *)
(* sensors whose coefficients lie in an envelope, no 32-bit operation of   *)
(* the compensation overflows.                                             *)
(***************************************************************************)
EXTENDS Devices, TLAPS

(***************************************************************************)
(* The two blocks of the sensor, and the stages of load_calibration():     *)
(* nothing, the first block, both.                                         *)
(***************************************************************************)
FirstBlock == TemperatureBlock(nvm.temperature)

SecondBlock == HumidityBlock(nvm.humidity)

HalfLoaded == [temperature |-> FirstBlock, humidity |-> Uncalibrated.humidity]

Loaded == [temperature |-> FirstBlock, humidity |-> SecondBlock]

Configuring == {"open", "chip_id", "calibrate", "calibrate_humidity"}

Reading == {"ctrl_hum", "ctrl_meas", "read_raw"}

(***************************************************************************)
(* What a driver holds: all coefficients once it is configured, one block  *)
(* between the two transactions of its configure(), none otherwise.        *)
(***************************************************************************)
Stage(d) ==
    IF configured_[d] THEN Loaded
    ELSE IF pc = "calibrate_humidity" /\ self = d THEN HalfLoaded
    ELSE Uncalibrated

DriverStages ==
    /\ fd_ \in [Driver -> BOOLEAN] /\ configured_ \in [Driver -> BOOLEAN]
    /\ calibration_ = [d \in Driver |-> Stage(d)]
    /\ \A d \in Driver : configured_[d] => fd_[d]
    /\ pc \in Configuring => ~configured_[self]
    /\ pc \in Reading => configured_[self]

(***************************************************************************)
(* What the handles of lines hold, and that request_line() asks only for   *)
(* lines that are not held.                                                *)
(***************************************************************************)
Direction == {"input", "output"}

Call == [stage : {"opened", "found"}, chip : Chip, offset : Offset, direction : Direction]

LineHandles ==
    /\ lines_ \in [Offset -> [chip : Chip, direction : Direction] \cup {NoLine}]
    /\ asked = NoCall \/ (asked \in Call /\ asked.offset \notin Held)

LinesInv ==
    /\ LineHandles
    /\ chips \subseteq [chip : Chip, offset : Offset]
    /\ chips = HeldChips \cup AskedChip
    /\ asked # NoCall => pc = "idle"
    /\ reply \in BOOLEAN

(***************************************************************************)
(* The inductive invariant.                                                *)
(***************************************************************************)
DevicesInv == TypeOK /\ NoDescriptorLeak /\ DriverStages /\ LineHandles
-----------------------------------------------------------------------------
(***************************************************************************)
(* Before the first call nothing is open, configured or held.              *)
(***************************************************************************)
LEMMA InitEstablishes == Init => DevicesInv
  <1> SUFFICES ASSUME Init PROVE DevicesInv
    OBVIOUS
  <1> USE DEF Init, BusInit, GpioInit
  <1>1. BusTypeOK
    BY DEF BusTypeOK, NoSamples
  <1>2. Held = {} /\ HeldChips = {} /\ AskedChip = {}
    BY DEF Held, HeldChips, AskedChip
  <1>3. TypeOK /\ NoDescriptorLeak /\ LineHandles
    BY <1>1, <1>2 DEF TypeOK, NoDescriptorLeak, LineHandles, NoCall
  <1>4. DriverStages
    BY DEF DriverStages, Stage, Configuring, Reading
  <1> QED
    BY <1>3, <1>4 DEF DevicesInv

(***************************************************************************)
(* configure() that throws, at whatever step: the destructor of the        *)
(* dropped driver closes its bus, and a driver made anew starts without    *)
(* calibration.                                                            *)
(***************************************************************************)
LEMMA ThrowsPreserves ==
    ASSUME DevicesInv, pc \in Configuring, Throws, UNCHANGED gpioVars
    PROVE  DevicesInv'
  <1> USE DEF DevicesInv, TypeOK, BusTypeOK, Throws, BusAfterDrop, sensorVars, gpioVars
  <1>1. TypeOK'
    BY DEF DriverStages
  <1>2. NoDescriptorLeak'
    BY DEF NoDescriptorLeak, DriverStages, Held, HeldChips, AskedChip, Configuring
  <1>3. DriverStages'
    <2>1. FirstBlock' = FirstBlock /\ SecondBlock' = SecondBlock
      BY DEF FirstBlock, SecondBlock
    <2>2. calibration_' = [d \in Driver |-> Stage(d)']
      BY <2>1 DEF DriverStages, Stage, Loaded, HalfLoaded
    <2> QED
      BY <2>2 DEF DriverStages, Configuring, Reading
  <1>4. LineHandles'
    BY DEF LineHandles, Held
  <1> QED
    BY <1>1, <1>2, <1>3, <1>4

(***************************************************************************)
(* A step that leaves the drivers and their progress towards calibration   *)
(* alone: what the drivers hold is what it was.                            *)
(***************************************************************************)
LEMMA SameStages ==
    ASSUME DriverStages, UNCHANGED <<driverVars, nvm>>,
           pc # "calibrate_humidity", pc' # "calibrate_humidity"
    PROVE  calibration_' = [d \in Driver |-> Stage(d)']
  BY DEF DriverStages, Stage, driverVars, FirstBlock, SecondBlock, Loaded, HalfLoaded

(***************************************************************************)
(* Every transaction of configure() and of read(), and every reload.       *)
(***************************************************************************)
LEMMA BusStepPreserves == DevicesInv /\ BusStep /\ UNCHANGED gpioVars => DevicesInv'
  <1> SUFFICES ASSUME DevicesInv, BusStep, UNCHANGED gpioVars PROVE DevicesInv'
    OBVIOUS
  <1>0. LineHandles'
    BY DEF DevicesInv, LineHandles, Held, gpioVars
  <1> USE <1>0 DEF DevicesInv, TypeOK, BusTypeOK, sensorVars, driverVars, gpioVars
  <1>1. ASSUME asked = NoCall, NEW d \in Driver, Configure(d) PROVE DevicesInv'
    <2> USE <1>1 DEF Configure
    <2>1. TypeOK'
      OBVIOUS
    <2>2. NoDescriptorLeak'
      BY DEF NoDescriptorLeak, Held, HeldChips, AskedChip
    <2>3. DriverStages'
      BY SameStages DEF DriverStages, Configuring, Reading
    <2> QED BY <2>1, <2>2, <2>3
  <1>2. ASSUME asked = NoCall, NEW d \in Driver, ReadUnconfigured(d) PROVE DevicesInv'
    <2> USE <1>2 DEF ReadUnconfigured, Returns, NoSamples
    <2>1. TypeOK'
      OBVIOUS
    <2>2. NoDescriptorLeak'
      BY DEF NoDescriptorLeak, Held, HeldChips, AskedChip
    <2>3. DriverStages'
      BY SameStages DEF DriverStages, Configuring, Reading
    <2> QED BY <2>1, <2>2, <2>3
  <1>3. ASSUME asked = NoCall, NEW d \in Driver, Read(d) PROVE DevicesInv'
    <2> USE <1>3 DEF Read
    <2>1. TypeOK'
      BY DEF DriverStages
    <2>2. NoDescriptorLeak'
      BY DEF NoDescriptorLeak, Held, HeldChips, AskedChip
    <2>3. DriverStages'
      BY SameStages DEF DriverStages, Configuring, Reading
    <2> QED BY <2>1, <2>2, <2>3
  <1>4. CASE Opens
    <2> USE <1>4 DEF Opens, Goes
    <2>1. TypeOK'
      BY DEF DriverStages
    <2>2. NoDescriptorLeak'
      BY DEF NoDescriptorLeak, Held, HeldChips, AskedChip, DriverStages
    <2>3. DriverStages'
      <3>1. calibration_' = [d \in Driver |-> Stage(d)']
        BY DEF DriverStages, Stage, FirstBlock, SecondBlock, Loaded, HalfLoaded
      <3> QED
        BY <3>1 DEF DriverStages, Configuring, Reading
    <2> QED BY <2>1, <2>2, <2>3
  <1>5. CASE OpenFails \/ ChipIdRefused \/ CalibrationFails
    BY <1>5, ThrowsPreserves DEF OpenFails, ChipIdRefused, CalibrationFails, Configuring
  <1>6. CASE ChipIdMatches
    <2> USE <1>6 DEF ChipIdMatches, Goes, Transfers
    <2>1. TypeOK'
      OBVIOUS
    <2>2. NoDescriptorLeak'
      BY DEF NoDescriptorLeak, Held, HeldChips, AskedChip
    <2>3. DriverStages'
      BY SameStages DEF DriverStages, Configuring, Reading
    <2> QED BY <2>1, <2>2, <2>3
  <1>7. CASE LoadTemperature
    <2> USE <1>7 DEF LoadTemperature, Goes, Transfers
    <2>1. TypeOK'
      OBVIOUS
    <2>2. NoDescriptorLeak'
      BY DEF NoDescriptorLeak, Held, HeldChips, AskedChip
    <2>3. DriverStages'
      <3>1. FirstBlock' = FirstBlock /\ SecondBlock' = SecondBlock
        BY DEF FirstBlock, SecondBlock
      <3>2. ~configured_[self] /\ calibration_[self] = Uncalibrated
        BY DEF DriverStages, Configuring, Stage
      <3>3. calibration_' = [calibration_ EXCEPT ![self] = HalfLoaded]
        <4>1. [Uncalibrated EXCEPT !.temperature = FirstBlock] = HalfLoaded
          BY DEF HalfLoaded, Uncalibrated
        <4> QED
          BY <3>2, <4>1 DEF FirstBlock
      <3>4. calibration_' = [d \in Driver |-> Stage(d)']
        BY <3>1, <3>2, <3>3 DEF DriverStages, Stage, Loaded, HalfLoaded
      <3> QED
        BY <3>4 DEF DriverStages, Configuring, Reading
    <2> QED BY <2>1, <2>2, <2>3
  <1>8. CASE LoadHumidity
    <2> USE <1>8 DEF LoadHumidity, Goes, Transfers
    <2>1. TypeOK'
      BY DEF DriverStages
    <2>2. NoDescriptorLeak'
      BY DEF NoDescriptorLeak, Held, HeldChips, AskedChip, DriverStages
    <2>3. DriverStages'
      <3>1. FirstBlock' = FirstBlock /\ SecondBlock' = SecondBlock
        BY DEF FirstBlock, SecondBlock
      <3>2. ~configured_[self] /\ calibration_[self] = HalfLoaded
        BY DEF DriverStages, Configuring, Stage
      <3>3. calibration_' = [calibration_ EXCEPT ![self] = Loaded]
        <4>1. [HalfLoaded EXCEPT !.humidity = SecondBlock] = Loaded
          BY DEF HalfLoaded, Loaded
        <4> QED
          BY <3>2, <4>1 DEF SecondBlock
      <3>4. calibration_' = [d \in Driver |-> Stage(d)']
        BY <3>1, <3>2, <3>3 DEF DriverStages, Stage, Loaded, HalfLoaded
      <3> QED
        BY <3>4 DEF DriverStages, Configuring, Reading
    <2> QED BY <2>1, <2>2, <2>3
  <1>9. CASE HumidityControl \/ MeasureControl
    <2> USE <1>9 DEF HumidityControl, MeasureControl, Goes, Transfers
    <2>1. TypeOK'
      OBVIOUS
    <2>2. NoDescriptorLeak'
      BY DEF NoDescriptorLeak, Held, HeldChips, AskedChip
    <2>3. DriverStages'
      BY SameStages DEF DriverStages, Configuring, Reading
    <2> QED BY <2>1, <2>2, <2>3
  <1>10. CASE ReadFails \/ read_raw
    <2> USE <1>10 DEF ReadFails, read_raw, Returns, Transfers
    <2>1. ret'.count \in {0, 2}
      BY DEF NoSamples, Compensated
    <2>2. TypeOK'
      BY <2>1
    <2>3. NoDescriptorLeak'
      BY DEF NoDescriptorLeak, Held, HeldChips, AskedChip, DriverStages, Reading
    <2>4. DriverStages'
      BY SameStages DEF DriverStages, Configuring, Reading
    <2> QED BY <2>2, <2>3, <2>4
  <1>11. CASE Measured
    <2> USE <1>11 DEF Measured
    <2>1. TypeOK'
      OBVIOUS
    <2>2. NoDescriptorLeak'
      BY DEF NoDescriptorLeak, Held, HeldChips, AskedChip
    <2>3. DriverStages'
      BY DEF DriverStages, Stage, FirstBlock, SecondBlock, Loaded, HalfLoaded
    <2> QED BY <2>1, <2>2, <2>3
  <1>12. CASE Reload
    <2> USE <1>12 DEF Reload
    <2>1. TypeOK'
      OBVIOUS
    <2>2. NoDescriptorLeak'
      BY DEF NoDescriptorLeak, Held, HeldChips, AskedChip
    <2>3. DriverStages'
      BY DEF DriverStages, Stage, Configuring, Reading
    <2> QED BY <2>1, <2>2, <2>3
  <1> QED
    BY <1>1, <1>2, <1>3, <1>4, <1>5, <1>6, <1>7, <1>8, <1>9, <1>10, <1>11, <1>12
       DEF BusStep

(***************************************************************************)
(* Every call on the lines, granted or refused at whatever stage, and the  *)
(* destructor: the chips that are open are those of the lines held and of  *)
(* the line being asked for.                                               *)
(***************************************************************************)
LEMMA GpioStepKeepsLines ==
    ASSUME LinesInv, GpioStep, pc' = pc
    PROVE  LinesInv'
  <1> DEFINE Lines == [chip : Chip, direction : Direction]
  <1>t. /\ lines_ \in [Offset -> Lines \cup {NoLine}]
        /\ chips \subseteq [chip : Chip, offset : Offset]
        /\ chips = HeldChips \cup AskedChip
        /\ asked = NoCall \/ (asked \in Call /\ asked.offset \notin Held)
        /\ asked # NoCall => pc = "idle"
        /\ reply \in BOOLEAN
        /\ Held \subseteq Offset
    BY DEF LinesInv, LineHandles, Held
  <1>1. CASE UNCHANGED <<lines_, chips, asked>> /\ reply' \in BOOLEAN
    BY <1>1 DEF LinesInv, LineHandles, Held, HeldChips, AskedChip
  <1>2. ASSUME NEW chip \in Chip, NEW o \in Offset, NEW direction \in Direction,
               asked = NoCall, pc = "idle", ChipOpens(chip, o, direction)
        PROVE  LinesInv'
    <2> DEFINE call == [stage |-> "opened", chip |-> chip, offset |-> o,
                        direction |-> direction]
    <2>1. /\ o \notin Held /\ chips' = chips \cup {[chip |-> chip, offset |-> o]}
          /\ asked' = call /\ lines_' = lines_ /\ reply' = reply
      BY <1>2 DEF ChipOpens
    <2>2. call \in Call /\ call # NoCall
      BY DEF Call, NoCall
    <2>3. Held' = Held /\ HeldChips' = HeldChips
      BY <2>1 DEF Held, HeldChips
    <2>4. AskedChip = {} /\ AskedChip' = {[chip |-> chip, offset |-> o]}
      BY <1>2, <2>1, <2>2 DEF AskedChip
    <2>5. LineHandles'
      BY <1>t, <2>1, <2>2, <2>3 DEF LineHandles
    <2> QED
      BY <1>2, <1>t, <2>1, <2>3, <2>4, <2>5 DEF LinesInv
  <1>3. ASSUME asked.stage \in {"opened", "found"}
        PROVE  /\ asked \in Call /\ asked # NoCall /\ asked.offset \notin Held
               /\ AskedChip = {[chip |-> asked.chip, offset |-> asked.offset]}
               /\ AskedChip \cap HeldChips = {}
               /\ asked.offset \in Offset /\ asked.chip \in Chip
               /\ asked.direction \in Direction
    <2>1. asked # NoCall
      BY <1>3 DEF NoCall
    <2>2. asked \in Call /\ asked.offset \notin Held
      BY <1>t, <2>1
    <2>3. AskedChip = {[chip |-> asked.chip, offset |-> asked.offset]}
      BY <2>1 DEF AskedChip
    <2>4. AskedChip \cap HeldChips = {}
      BY <2>2, <2>3 DEF HeldChips
    <2> QED
      BY <2>1, <2>2, <2>3, <2>4 DEF Call
  <1>4. CASE LineFound
    <2>1. asked \in Call /\ asked.offset \notin Held /\ asked # NoCall
      BY <1>3, <1>4 DEF LineFound
    <2>2. /\ asked' \in Call /\ asked'.offset = asked.offset /\ asked'.chip = asked.chip
          /\ asked'.stage = "found"
      BY <1>4, <2>1 DEF LineFound, Call
    <2>3. asked' # NoCall
      BY <2>2 DEF NoCall
    <2>4. lines_' = lines_ /\ chips' = chips /\ reply' = reply
      BY <1>4 DEF LineFound
    <2>5. Held' = Held /\ HeldChips' = HeldChips /\ AskedChip' = AskedChip
      BY <2>1, <2>2, <2>3, <2>4 DEF Held, HeldChips, AskedChip
    <2>6. LineHandles'
      BY <1>t, <2>1, <2>2, <2>4, <2>5 DEF LineHandles
    <2> QED
      BY <1>t, <2>1, <2>4, <2>5, <2>6 DEF LinesInv
  <1>5. CASE LineMissing \/ LineTaken
    <2>1. /\ chips' = chips \ AskedChip /\ asked' = NoCall /\ reply' = FALSE
          /\ lines_' = lines_ /\ AskedChip \cap HeldChips = {}
      BY <1>3, <1>5 DEF LineMissing, LineTaken
    <2>2. Held' = Held /\ HeldChips' = HeldChips /\ AskedChip' = {}
      BY <2>1 DEF Held, HeldChips, AskedChip
    <2>3. LineHandles'
      BY <1>t, <2>1 DEF LineHandles
    <2> QED
      BY <1>t, <2>1, <2>2, <2>3 DEF LinesInv
  <1>6. CASE LineGranted
    <2> DEFINE o == asked.offset
               new == [chip |-> asked.chip, direction |-> asked.direction]
    <2>1. /\ o \in Offset /\ o \notin Held /\ new \in Lines
          /\ AskedChip = {[chip |-> asked.chip, offset |-> o]}
      BY <1>3, <1>6 DEF LineGranted
    <2>2. /\ lines_' = [lines_ EXCEPT ![o] = new] /\ asked' = NoCall /\ reply' = TRUE
          /\ chips' = chips
      BY <1>6 DEF LineGranted
    <2>3. new # NoLine /\ new.chip = asked.chip
      BY <2>1 DEF NoLine, Direction
    <2> HIDE DEF new, o
    <2>4. /\ lines_' \in [Offset -> Lines \cup {NoLine}]
          /\ lines_'[o] = new /\ \A k \in Offset \ {o} : lines_'[k] = lines_[k]
      BY <1>t, <2>1, <2>2
    <2>5. Held' = Held \cup {o}
      BY <2>1, <2>3, <2>4 DEF Held
    <2>6. HeldChips' = HeldChips \cup {[chip |-> asked.chip, offset |-> o]}
      <3>1. \A k \in Held : lines_'[k].chip = lines_[k].chip
        BY <1>t, <2>1, <2>4
      <3>2. lines_'[o].chip = asked.chip
        BY <2>3, <2>4
      <3> QED
        BY <2>5, <3>1, <3>2 DEF HeldChips
    <2>7. AskedChip' = {}
      BY <2>2 DEF AskedChip
    <2>8. LineHandles'
      BY <2>2, <2>4 DEF LineHandles
    <2> QED
      BY <1>t, <2>1, <2>2, <2>6, <2>7, <2>8 DEF LinesInv
  <1>7. CASE Destroyed /\ asked = NoCall
    <2>1. /\ lines_' = [k \in Offset |-> NoLine] /\ chips' = {} /\ asked' = NoCall
          /\ reply' = FALSE
      BY <1>7, <1>t DEF Destroyed, AskedChip
    <2>2. HeldChips' = {} /\ AskedChip' = {}
      BY <2>1 DEF HeldChips, Held, AskedChip
    <2>3. LineHandles'
      BY <2>1 DEF LineHandles
    <2> QED
      BY <2>1, <2>2, <2>3 DEF LinesInv
  <1>8. ASSUME NEW chip \in Chip, NEW o \in Offset,
               RequestUnnamed(chip) \/ RequestHeld(chip, o) \/ ChipRefused(chip, o)
        PROVE  UNCHANGED <<lines_, chips, asked>> /\ reply' \in BOOLEAN
    BY <1>8 DEF RequestUnnamed, RequestHeld, ChipRefused
  <1>9. ASSUME NEW o \in Offset, read_line(o) \/ write_line(o)
        PROVE  UNCHANGED <<lines_, chips, asked>> /\ reply' \in BOOLEAN
    BY <1>9 DEF read_line, write_line
  <1> QED
    BY <1>1, <1>2, <1>4, <1>5, <1>6, <1>7, <1>8, <1>9 DEF GpioStep, GpioCall, Direction

(***************************************************************************)
(* They leave the drivers alone.                                           *)
(***************************************************************************)
LEMMA GpioStepPreserves == DevicesInv /\ GpioStep /\ UNCHANGED busVars => DevicesInv'
  <1> SUFFICES ASSUME DevicesInv, GpioStep, UNCHANGED busVars PROVE DevicesInv'
    OBVIOUS
  <1>1. BusTypeOK'
    BY DEF DevicesInv, TypeOK, BusTypeOK, busVars, driverVars, sensorVars
  <1>2. DriverStages'
    BY DEF DevicesInv, DriverStages, Stage, FirstBlock, SecondBlock, Loaded, HalfLoaded,
           busVars, driverVars, sensorVars
  <1>3. /\ \A d \in Driver : fd_'[d] => configured_'[d] \/ (pc' # "idle" /\ self' = d)
        /\ pc' = pc
    BY DEF DevicesInv, NoDescriptorLeak, busVars, driverVars
  <1>4. LinesInv'
    <2>1. LinesInv
      BY DEF DevicesInv, TypeOK, NoDescriptorLeak, LinesInv
    <2> QED
      BY <1>3, <2>1, GpioStepKeepsLines
  <1>5. asked'.stage \in {"none", "opened", "found"}
    BY <1>4 DEF LinesInv, LineHandles, NoCall, Call
  <1>6. \A o \in Offset : lines_'[o] = NoLine \/ lines_'[o].chip \in Chip
    BY <1>4 DEF LinesInv, LineHandles
  <1> QED
    BY <1>1, <1>2, <1>3, <1>4, <1>5, <1>6
    DEF DevicesInv, TypeOK, NoDescriptorLeak, LinesInv

(***************************************************************************)
(* Every step of the device layer preserves the invariant.                 *)
(***************************************************************************)
LEMMA StepPreserves == DevicesInv /\ [Next]_vars => DevicesInv'
  <1> SUFFICES ASSUME DevicesInv, [Next]_vars PROVE DevicesInv'
    OBVIOUS
  <1>1. CASE UNCHANGED vars
    BY <1>1 DEF vars, busVars, gpioVars, driverVars, sensorVars, DevicesInv, TypeOK, BusTypeOK,
                NoDescriptorLeak, Held, HeldChips, AskedChip, DriverStages, Stage, FirstBlock, SecondBlock, Loaded,
                HalfLoaded, LineHandles
  <1> QED
    BY <1>1, BusStepPreserves, GpioStepPreserves DEF Next

(***************************************************************************)
(* The invariant of the devices holds in every state.                      *)
(***************************************************************************)
LEMMA InvHolds == Spec => []DevicesInv
  BY InitEstablishes, StepPreserves, PTL DEF Spec
-----------------------------------------------------------------------------
(***************************************************************************)
(* A transaction happens only on a bus that its driver has open            *)
(* (Bme280Driver, LinuxI2cBus).                                            *)
(***************************************************************************)
THEOREM TypeCorrect == Spec => []TypeOK
  <1>1. DevicesInv => TypeOK
    BY DEF DevicesInv
  <1> QED
    BY <1>1, InvHolds, PTL

(***************************************************************************)
(* A read() that gets as far as the bus works with all the coefficients of *)
(* the sensor: no failure in configure(), and no reload, leaves a driver   *)
(* that answers with partial calibration.                                  *)
(***************************************************************************)
THEOREM AlwaysCalibrated == Spec => []SamplesCalibrated
  <1>1. DevicesInv => SamplesCalibrated
    BY DEF DevicesInv, TypeOK, BusTypeOK, DriverStages, Stage, Reading, Loaded, FirstBlock,
           SecondBlock, SamplesCalibrated
  <1> QED
    BY <1>1, InvHolds, PTL

(***************************************************************************)
(* An open bus belongs to a driver in use and an open chip to a line that  *)
(* is held, so a failed call can be repeated for ever without running out  *)
(* of descriptors.                                                         *)
(***************************************************************************)
THEOREM NoLeak == Spec => []NoDescriptorLeak
  <1>1. DevicesInv => NoDescriptorLeak
    BY DEF DevicesInv
  <1> QED
    BY <1>1, InvHolds, PTL
-----------------------------------------------------------------------------
(***************************************************************************)
(* Numbers within limits. Intervals with limits as wide as these are       *)
(* written with inequalities.                                              *)
(***************************************************************************)
Between(n, low, high) == n \in Int /\ low <= n /\ n <= high

Fits(n) == Between(n, -MaxInt, MaxInt)

(***************************************************************************)
(* The operators of the 32-bit arithmetic are those of the integers        *)
(* wherever the exact result fits.                                         *)
(***************************************************************************)
LEMMA AddFits ==
    ASSUME NEW a \in Int, NEW b \in Int, Fits(a + b)
    PROVE  Add(a, b) = a + b
  <1>1. Undefined \notin {a, b}
    BY UndefinedAssumption
  <1>2. IF a >= 0 THEN b <= MaxInt - a ELSE b >= -MaxInt - a
    BY SMT DEF Fits, Between, MaxInt
  <1> QED
    BY <1>1, <1>2, Zenon DEF Add

(***************************************************************************)
(* The same of a difference.                                               *)
(***************************************************************************)
LEMMA SubFits ==
    ASSUME NEW a \in Int, NEW b \in Int, Fits(a - b)
    PROVE  Sub(a, b) = a - b
  <1>1. b # Undefined /\ -b \in Int /\ a + (-b) = a - b
    BY UndefinedAssumption
  <1> QED
    BY <1>1, AddFits, SMT DEF Sub

(***************************************************************************)
(* A factor is at most the quotient of a bound on the product, which is    *)
(* how Mul looks for overflow without computing the product.               *)
(***************************************************************************)
LEMMA QuotientBound ==
    ASSUME NEW a \in Nat \ {0}, NEW b \in Nat, NEW m \in Nat, a * b <= m
    PROVE  b <= m \div a
  BY SMT

(***************************************************************************)
(* The same of a product.                                                  *)
(***************************************************************************)
LEMMA MulFits ==
    ASSUME NEW a \in Int, NEW b \in Int, Fits(a * b)
    PROVE  Mul(a, b) = a * b
  <1>1. Undefined \notin {a, b}
    BY UndefinedAssumption
  <1>2. ASSUME a # 0 PROVE Abs(b) <= MaxInt \div Abs(a)
    <2>1. Abs(a) \in Nat \ {0} /\ Abs(b) \in Nat
      BY <1>2 DEF Abs
    <2>2. Abs(a) * Abs(b) <= MaxInt
      BY SMT DEF Abs, Fits, Between, MaxInt
    <2>3. MaxInt \in Nat
      BY SMT DEF MaxInt
    <2> QED
      BY <2>1, <2>2, <2>3, QuotientBound
  <1> QED
    BY <1>1, <1>2, Zenon DEF Mul

(***************************************************************************)
(* A shift to the right is the quotient rounded down, for the widths in    *)
(* use.                                                                    *)
(***************************************************************************)
LEMMA ShrIs ==
    ASSUME NEW n \in Int
    PROVE  /\ Shr(n, 3) = n \div 8 /\ Shr(n, 4) = n \div 16 /\ Shr(n, 7) = n \div 128
           /\ Shr(n, 8) = n \div 256 /\ Shr(n, 10) = n \div 1024 /\ Shr(n, 11) = n \div 2048
           /\ Shr(n, 12) = n \div 4096 /\ Shr(n, 14) = n \div 16384
           /\ Shr(n, 15) = n \div 32768
  BY UndefinedAssumption, SMT DEF Shr

(***************************************************************************)
(* Bounds on the magnitudes of two factors bound the product.              *)
(***************************************************************************)
LEMMA ProductBound ==
    ASSUME NEW A \in Nat, NEW B \in Nat, NEW a \in Int, NEW b \in Int,
           -A <= a, a <= A, -B <= b, b <= B
    PROVE  -(A * B) <= a * b /\ a * b <= A * B
  <1>1. a * b <= A * B
    BY SMT
  <1>2. -(A * B) <= a * b
    BY SMT
  <1> QED
    BY <1>1, <1>2

(***************************************************************************)
(* The calibrations the proof covers: a range of each coefficient, wide    *)
(* around those of the unit test, and for humidity that the driest or the  *)
(* wettest reading, at either end of the temperatures, stays below         *)
(* 46340 * 32768, beyond which the square that compensate_humidity() takes *)
(* overflows.  32768 - 32 * h4 + 9 * h5 bounds var2 from above,            *)
(* 32 * h4 + 11 * h5 from below, and Gain what it is multiplied with.      *)
(***************************************************************************)
TemperatureEnvelope(t) ==
    /\ Between(t.t1, 24000, 36000)
    /\ Between(t.t2, 0, 32767)
    /\ Between(t.t3, -4096, 4096)
    /\ Between(t.h1, 0, 128)

Gain(h) == h.h2 * (128 + Abs(h.h6))

HumidityEnvelope(h) ==
    /\ Between(h.h2, 0, 511)
    /\ Between(h.h3, 0, 64)
    /\ Between(h.h4, 0, 1023)
    /\ Between(h.h5, 0, 2047)
    /\ Between(h.h6, -128, 127)
    /\ (32768 - 32 * h.h4 + 9 * h.h5) * Gain(h) <= 46340 * 32768
    /\ (32 * h.h4 + 11 * h.h5) * Gain(h) <= 46340 * 32768

(***************************************************************************)
(* The fine temperature in integers without a width, the readings of the   *)
(* two registers, and the fine temperatures of -40 and 85 degrees.         *)
(***************************************************************************)
ExactFine(t, raw) ==
    ((raw \div 8 - 2 * t.t1) * t.t2) \div 2048
    + (((((raw \div 16) - t.t1) * ((raw \div 16) - t.t1)) \div 4096) * t.t3) \div 16384

Reading20(raw) == Between(raw, 0, 1048575)

WithinRange(fine) == Between(fine, -204800, 435200)

(***************************************************************************)
(* compensate_temperature(): the fine temperature is computed without      *)
(* overflow if its exact value is one of the sensor's range, whatever the  *)
(* intermediate values.                                                    *)
(***************************************************************************)
LEMMA FineIsExact ==
    ASSUME NEW t, TemperatureEnvelope(t), NEW raw, Reading20(raw), WithinRange(ExactFine(t, raw))
    PROVE  FineTemperature(t, raw) = ExactFine(t, raw)
  <1> DEFINE coarse == raw \div 16
             finer  == raw \div 8
             twice  == 2 * t.t1
             offset == coarse - t.t1
             slope  == finer - twice
             square == offset * offset
             scaled == square \div 4096
             bent   == scaled * t.t3
             line   == slope * t.t2
  <1>0. ExactFine(t, raw) = line \div 2048 + bent \div 16384
    BY SMT DEF ExactFine
  <1>1. /\ t.t1 \in Int /\ 24000 <= t.t1 /\ t.t1 <= 36000
        /\ t.t2 \in Int /\ t.t3 \in Int /\ -4096 <= t.t3 /\ t.t3 <= 4096
    BY SMT DEF TemperatureEnvelope, Between
  <1>2. raw \in Int /\ Between(coarse, 0, 65535) /\ Between(finer, 0, 131071)
    BY SMT DEF Reading20, Between
  <1>3. Between(twice, 48000, 72000)
    BY <1>1, SMT DEF Between
  <1>4. Between(offset, -41535, 41535) /\ Between(slope, -83071, 83071)
    <2> HIDE DEF coarse, finer, twice
    <2> QED BY <1>1, <1>2, <1>3, SMT DEF Between
  <1>5. Between(square, 0, 41535 * 41535)
    <2> HIDE DEF offset
    <2> QED BY <1>4, SMT DEF Between
  <1>6. Between(scaled, 0, 421181)
    <2> HIDE DEF square
    <2> QED BY <1>5, SMT DEF Between
  <1>7. Between(bent, -1725157376, 1725157376)
    <2> HIDE DEF scaled
    <2>1. -(421181 * 4096) <= scaled * t.t3 /\ scaled * t.t3 <= 421181 * 4096
      BY <1>1, <1>6, ProductBound, SMT DEF Between
    <2> QED BY <1>1, <1>6, <2>1, SMT DEF Between
  <1>8. Between(bent \div 16384, -105296, 105296)
    <2> HIDE DEF bent
    <2> QED BY <1>7, SMT DEF Between
  <1>9. line \in Int
    <2> HIDE DEF slope
    <2> QED BY <1>1, <1>4 DEF Between
  <1>10. Fits(line) /\ line \div 2048 \in Int /\ bent \div 16384 \in Int
    <2> HIDE DEF line, bent
    <2> QED BY <1>0, <1>7, <1>8, <1>9, SMT DEF Fits, WithinRange, Between, MaxInt
  <1>11. /\ Fits(offset) /\ Fits(slope) /\ Fits(square) /\ Fits(bent)
         /\ Fits(line \div 2048 + bent \div 16384)
    <2> HIDE DEF offset, slope, square, bent, line
    <2> QED BY <1>0, <1>4, <1>5, <1>7, SMT DEF Fits, WithinRange, Between, MaxInt
  <1>12. /\ {raw, coarse, finer, twice, offset, slope, square, scaled, bent, line} \subseteq Int
         /\ {t.t1, t.t2, t.t3} \subseteq Int
    <2> HIDE DEF coarse, finer, twice, offset, slope, square, scaled, bent, line
    <2> QED BY <1>1, <1>2, <1>3, <1>4, <1>5, <1>6, <1>7, <1>9 DEF Between
  <1>13. Shr(raw, 4) = coarse /\ Shr(raw, 3) = finer
    BY <1>2, ShrIs
  <1>14. Sub(coarse, t.t1) = offset /\ Sub(finer, twice) = slope
    <2> HIDE DEF coarse, finer, twice
    <2> QED BY <1>11, <1>12, SubFits
  <1>15. Mul(offset, offset) = square /\ Mul(slope, t.t2) = line
    <2> HIDE DEF offset, slope
    <2> QED BY <1>10, <1>11, <1>12, MulFits
  <1>16. Shr(square, 12) = scaled
    <2> HIDE DEF square
    <2> QED BY <1>12, ShrIs
  <1>17. Mul(scaled, t.t3) = bent
    <2> HIDE DEF scaled
    <2> QED BY <1>11, <1>12, MulFits
  <1>18. Add(Shr(line, 11), Shr(bent, 14)) = ExactFine(t, raw)
    <2> HIDE DEF line, bent
    <2> QED BY <1>0, <1>10, <1>11, <1>12, ShrIs, AddFits
  <1>19. FineTemperature(t, raw) =
           Add(Shr(Mul(Sub(Shr(raw, 3), twice), t.t2), 11),
               Shr(Mul(Shr(Mul(Sub(Shr(raw, 4), t.t1), Sub(Shr(raw, 4), t.t1)), 12), t.t3), 14))
    BY Zenon DEF FineTemperature
  <1> HIDE DEF coarse, finer, twice, offset, slope, square, scaled, bent, line
  <1> QED
    BY <1>13, <1>14, <1>15, <1>16, <1>17, <1>18, <1>19

(***************************************************************************)
(* A bound on a number bounds its multiples.                               *)
(***************************************************************************)
LEMMA ScaledBound ==
    ASSUME NEW k \in Nat, NEW low \in Int, NEW high \in Int, NEW n \in Int,
           low <= n, n <= high
    PROVE  low * k <= n * k /\ n * k <= high * k
  BY SMT

(***************************************************************************)
(* Bounds of a product whose second factor is not negative.                *)
(***************************************************************************)
LEMMA NonNegativeProduct ==
    ASSUME NEW A \in Nat, NEW B \in Nat, NEW C \in Nat, NEW a \in Int, NEW b \in Nat,
           -A <= a, a <= B, b <= C
    PROVE  -(A * C) <= a * b /\ a * b <= B * C
  <1>1. a * b <= B * C
    <2>1. CASE a <= 0
      BY <2>1, SMT
    <2>2. CASE a > 0
      BY <2>2, SMT
    <2> QED BY <2>1, <2>2
  <1>2. -(A * C) <= a * b
    <2>1. CASE a <= 0
      BY <2>1, SMT
    <2>2. CASE a > 0
      BY <2>2, SMT
    <2> QED BY <2>1, <2>2
  <1> QED
    BY <1>1, <1>2

(***************************************************************************)
(* The 16 bits of a reading of humidity.                                   *)
(***************************************************************************)
Reading16(raw) == Between(raw, 0, 65535)

(***************************************************************************)
(* compensate_humidity(): var2 does not overflow, and lies within the      *)
(* bounds the envelope names.                                              *)
(***************************************************************************)
LEMMA HumidityOffset ==
    ASSUME NEW h, HumidityEnvelope(h), NEW raw, Reading16(raw),
           NEW v, Between(v, -281600, 358400)
    PROVE  LET var2 == Shr(Add(Sub(Sub(raw * 2^14, Signed(h.h4, 12) * 2^20), Mul(h.h5, v)),
                               16384), 15)
           IN  Between(var2, -(32 * h.h4 + 11 * h.h5), 32768 - 32 * h.h4 + 9 * h.h5)
  <1> DEFINE p    == raw * 16384
             q    == h.h4 * 1048576
             r    == h.h5 * v
             dry  == p - q
             cold == dry - r
             sum  == cold + 16384
  <1>1. /\ h.h4 \in Int /\ 0 <= h.h4 /\ h.h4 <= 1023
        /\ h.h5 \in Nat /\ h.h5 <= 2047
        /\ raw \in Int /\ 0 <= raw /\ raw <= 65535
        /\ v \in Int /\ -281600 <= v /\ v <= 358400
    BY SMT DEF HumidityEnvelope, Reading16, Between
  <1>2. raw * 2^14 = p /\ Signed(h.h4, 12) * 2^20 = q
    <2>1. 2^14 = 16384 /\ 2^20 = 1048576 /\ 2^11 = 2048 /\ 12 - 1 = 11
      BY SMT
    <2>2. Signed(h.h4, 12) = h.h4
      BY <1>1, <2>1, SMT DEF Signed
    <2> QED BY <2>1, <2>2, SMT
  <1>3. /\ p \in Int /\ 0 <= p /\ p <= 65535 * 16384
        /\ q \in Int /\ q = 1048576 * h.h4
    BY <1>1, SMT
  <1>4. r \in Int /\ -281600 * h.h5 <= r /\ r <= 358400 * h.h5
    BY <1>1, ScaledBound, SMT
  <1>5. {dry, cold, sum} \subseteq Int /\ Fits(r) /\ Fits(dry) /\ Fits(cold) /\ Fits(sum)
    <2> HIDE DEF p, q, r
    <2> QED BY <1>1, <1>3, <1>4, SMT DEF Fits, Between, MaxInt
  <1>6. Between(sum \div 32768, -(32 * h.h4 + 11 * h.h5), 32768 - 32 * h.h4 + 9 * h.h5)
    <2>1. /\ sum <= 32768 * (32768 - 32 * h.h4 + 9 * h.h5)
          /\ 32768 * (-(32 * h.h4 + 11 * h.h5)) <= sum
      <3> HIDE DEF p, q, r
      <3> QED BY <1>1, <1>3, <1>4, SMT
    <2> HIDE DEF sum
    <2> QED BY <1>1, <1>5, <2>1, SMT DEF Between
  <1>7. Mul(h.h5, v) = r
    BY <1>1, <1>5, MulFits
  <1>8. Sub(p, q) = dry
    <2> HIDE DEF p, q
    <2> QED BY <1>3, <1>5, SubFits
  <1>9. Sub(dry, r) = cold
    <2> HIDE DEF dry, r
    <2> QED BY <1>4, <1>5, SubFits
  <1>10. Add(cold, 16384) = sum
    <2> HIDE DEF cold
    <2> QED BY <1>5, AddFits, SMT
  <1> HIDE DEF p, q, r, dry, cold, sum
  <1>11. Shr(sum, 15) = sum \div 32768
    BY <1>5, ShrIs
  <1> QED
    BY <1>2, <1>6, <1>7, <1>8, <1>9, <1>10, <1>11

(***************************************************************************)
(* compensate_humidity(): var3 does not overflow, and what var2 is         *)
(* multiplied with is at most the gain.                                    *)
(***************************************************************************)
LEMMA HumidityScale ==
    ASSUME NEW h, HumidityEnvelope(h), NEW v, Between(v, -281600, 358400)
    PROVE  LET low  == Shr(Mul(v, h.h6), 10)
               high == Add(Shr(Mul(v, h.h3), 11), 32768)
               var3 == Add(Mul(Add(Shr(Mul(low, high), 10), 2097152), h.h2), 8192)
           IN  Between(Shr(var3, 14), 0, Gain(h))
  <1> DEFINE a    == Abs(h.h6)
             m6   == v * h.h6
             low  == m6 \div 1024
             m3   == v * h.h3
             c3   == m3 \div 2048
             high == c3 + 32768
             lh   == low * high
             x    == lh \div 1024
             y    == x + 2097152
             z    == y * h.h2
             var3 == z + 8192
             g    == h.h2 * (128 + a)
  <1>1. /\ h.h6 \in Int /\ -128 <= h.h6 /\ h.h6 <= 127
        /\ h.h3 \in Int /\ 0 <= h.h3 /\ h.h3 <= 64
        /\ h.h2 \in Nat /\ h.h2 <= 511
        /\ v \in Int /\ -358400 <= v /\ v <= 358400
    BY SMT DEF HumidityEnvelope, Between
  <1>2. a \in Nat /\ a <= 128 /\ -a <= h.h6 /\ h.h6 <= a
    BY <1>1, SMT DEF Abs
  <1> HIDE DEF a
  <1>3. m6 \in Int /\ -(358400 * a) <= m6 /\ m6 <= 358400 * a
    BY <1>1, <1>2, ProductBound, SMT
  <1>4. low \in Int /\ -(350 * a) <= low /\ low <= 350 * a
    <2> HIDE DEF m6
    <2> QED BY <1>2, <1>3, SMT
  <1>5. m3 \in Int /\ -(358400 * 64) <= m3 /\ m3 <= 358400 * 64
    BY <1>1, ProductBound, SMT
  <1>6. c3 \in Int /\ -11200 <= c3 /\ c3 <= 11200
    <2> HIDE DEF m3
    <2> QED BY <1>5, SMT
  <1>7. high \in Int /\ 21568 <= high /\ high <= 43968
    <2> HIDE DEF c3
    <2> QED BY <1>6, SMT
  <1>8. lh \in Int /\ -((350 * a) * 43968) <= lh /\ lh <= (350 * a) * 43968
    <2> DEFINE A == 350 * a
    <2>1. A \in Nat
      BY <1>2, SMT
    <2> HIDE DEF low, high, A
    <2>2. -A <= low /\ low <= A
      BY <1>4 DEF A
    <2>3. -(A * 43968) <= low * high /\ low * high <= A * 43968
      BY <1>4, <1>7, <2>1, <2>2, ProductBound, SMT
    <2>4. low * high \in Int
      BY <1>4, <1>7
    <2> QED
      BY <2>3, <2>4 DEF A
  <1>9. x \in Int /\ -(15029 * a) <= x /\ x <= 15029 * a
    <2> HIDE DEF lh
    <2> QED BY <1>2, <1>8, SMT
  <1>10. y \in Nat /\ y <= 16384 * (128 + a)
    <2> HIDE DEF x
    <2> QED BY <1>2, <1>9, SMT
  <1>11. g \in Nat /\ g <= 130816
    <2>1. 128 + a \in Nat /\ 128 + a <= 256
      BY <1>2, SMT
    <2> DEFINE b == 128 + a
    <2> HIDE DEF b
    <2>2. b \in Nat /\ b <= 256
      BY <2>1 DEF b
    <2>3. h.h2 * b \in Nat /\ h.h2 * b <= 511 * 256
      BY <1>1, <2>2, SMT
    <2> QED BY <2>3, SMT DEF b
  <1>12. z \in Nat /\ z <= 16384 * g
    <2> HIDE DEF y
    <2>1. y * h.h2 \in Nat /\ y * h.h2 <= (16384 * (128 + a)) * h.h2
      <3> DEFINE Y == 16384 * (128 + a)
      <3>1. Y \in Nat /\ y <= Y
        BY <1>2, <1>10, SMT
      <3> HIDE DEF Y
      <3>2. y * h.h2 <= Y * h.h2
        BY <1>1, <1>10, <3>1, ScaledBound, SMT
      <3>3. y * h.h2 \in Nat
        BY <1>1, <1>10, SMT
      <3> QED BY <3>2, <3>3 DEF Y
    <2>2. (16384 * (128 + a)) * h.h2 = 16384 * g
      BY <1>1, <1>2, SMT
    <2> QED BY <2>1, <2>2
  <1>13. var3 \in Int /\ 0 <= var3 /\ var3 <= 16384 * g + 8192
    <2> HIDE DEF z, g
    <2> QED BY <1>11, <1>12, SMT
  <1>14. Between(var3 \div 16384, 0, g)
    <2> HIDE DEF var3, g
    <2> QED BY <1>11, <1>13, SMT DEF Between
  <1>15. /\ Fits(m6) /\ Fits(m3) /\ Fits(high) /\ Fits(lh)
         /\ Fits(y) /\ Fits(z) /\ Fits(var3)
    <2> HIDE DEF m6, low, m3, c3, high, lh, x, y, z, var3, g
    <2>1. Fits(m6) /\ Fits(m3) /\ Fits(high) /\ Fits(lh)
      BY <1>2, <1>3, <1>5, <1>7, <1>8, SMT DEF Fits, Between, MaxInt
    <2>2. Fits(y) /\ Fits(z) /\ Fits(var3)
      BY <1>2, <1>10, <1>11, <1>12, <1>13, SMT DEF Fits, Between, MaxInt
    <2> QED BY <2>1, <2>2
  <1>16. Mul(v, h.h6) = m6 /\ Mul(v, h.h3) = m3
    BY <1>1, <1>15, MulFits
  <1>17. Shr(m6, 10) = low /\ Shr(m3, 11) = c3
    <2> HIDE DEF m6, m3
    <2> QED BY <1>3, <1>5, ShrIs
  <1>18. Add(c3, 32768) = high
    <2> HIDE DEF c3
    <2> QED BY <1>6, <1>15, AddFits, SMT
  <1>19. Mul(low, high) = lh
    <2> HIDE DEF low, high
    <2> QED BY <1>4, <1>7, <1>15, MulFits
  <1>20. Shr(lh, 10) = x
    <2> HIDE DEF lh
    <2> QED BY <1>8, ShrIs
  <1>21. Add(x, 2097152) = y
    <2> HIDE DEF x
    <2> QED BY <1>9, <1>15, AddFits, SMT
  <1>22. Mul(y, h.h2) = z
    <2> HIDE DEF y
    <2> QED BY <1>1, <1>10, <1>15, MulFits
  <1>23. Add(z, 8192) = var3
    <2> HIDE DEF z
    <2> QED BY <1>12, <1>15, AddFits, SMT
  <1>24. Shr(var3, 14) = var3 \div 16384
    <2> HIDE DEF var3
    <2> QED BY <1>13, ShrIs
  <1>25. g = Gain(h)
    BY DEF Gain, a
  <1> HIDE DEF m6, low, m3, c3, high, lh, x, y, z, var3, g
  <1> QED
    BY <1>14, <1>16, <1>17, <1>18, <1>19, <1>20, <1>21, <1>22, <1>23, <1>24, <1>25

(***************************************************************************)
(* compensate_humidity(): for every reading of humidity at every           *)
(* temperature in range no step overflows, and the result is between none  *)
(* and all.                                                                *)
(***************************************************************************)
LEMMA HumidityFits ==
    ASSUME NEW t, TemperatureEnvelope(t), NEW h, HumidityEnvelope(h),
           NEW raw, Reading16(raw), NEW fine, WithinRange(fine)
    PROVE  Between(compensate_humidity(t, h, raw, fine), 0, 102400)
  <1> DEFINE v     == fine - 76800
             var2  == Shr(Add(Sub(Sub(raw * 2^14, Signed(h.h4, 12) * 2^20), Mul(h.h5, v)),
                              16384), 15)
             low   == Shr(Mul(v, h.h6), 10)
             high  == Add(Shr(Mul(v, h.h3), 11), 32768)
             var3  == Add(Mul(Add(Shr(Mul(low, high), 10), 2097152), h.h2), 8192)
             scale == Shr(var3, 14)
             wet   == var2 * scale
             w     == wet \div 32768
             ww    == w * w
             s     == ww \div 128
             sh    == s * t.h1
             bend  == sh \div 16
             all   == wet - bend
  <1>1. Between(v, -281600, 358400) /\ Sub(fine, 76800) = v
    <2>1. fine \in Int /\ Between(v, -281600, 358400) /\ Fits(fine - 76800)
      BY SMT DEF WithinRange, Between, Fits, MaxInt
    <2> QED BY <2>1, SubFits, SMT
  <1> HIDE DEF v
  <1>2. Between(var2, -(32 * h.h4 + 11 * h.h5), 32768 - 32 * h.h4 + 9 * h.h5)
    BY <1>1, HumidityOffset
  <1>3. Between(scale, 0, Gain(h))
    BY <1>1, HumidityScale
  <1> HIDE DEF var2, low, high, var3, scale
  <1>4. wet \in Int /\ -(46340 * 32768) <= wet /\ wet <= 46340 * 32768
    <2> DEFINE down == 32 * h.h4 + 11 * h.h5
               up   == 32768 - 32 * h.h4 + 9 * h.h5
               gain == Gain(h)
    <2>1. down \in Nat /\ up \in Nat
      BY SMT DEF HumidityEnvelope, Between
    <2>2. up * gain <= 46340 * 32768 /\ down * gain <= 46340 * 32768
      BY SMT DEF HumidityEnvelope
    <2>3. h.h2 \in Nat /\ h.h6 \in Int
      BY SMT DEF HumidityEnvelope, Between
    <2>4. gain \in Nat
      BY <2>3, SMT DEF Gain, Abs
    <2>5. -down <= var2 /\ var2 <= up /\ var2 \in Int
      BY <1>2, SMT DEF Between
    <2> HIDE DEF down, up, gain
    <2>6. scale \in Nat /\ scale <= gain
      BY <1>3, <2>4, SMT DEF Between, gain
    <2>7. -(down * gain) <= wet /\ wet <= up * gain
      BY <2>1, <2>4, <2>5, <2>6, NonNegativeProduct
    <2>8. wet \in Int /\ down * gain \in Int /\ up * gain \in Int
      BY <2>1, <2>4, <2>5, <2>6
    <2> HIDE DEF wet
    <2> QED BY <2>2, <2>7, <2>8, SMT
  <1>5. w \in Int /\ -46340 <= w /\ w <= 46340
    <2> HIDE DEF wet
    <2> QED BY <1>4, SMT
  <1>6. ww \in Int /\ 0 <= ww /\ ww <= 46340 * 46340
    <2> HIDE DEF w
    <2> QED BY <1>5, SMT
  <1>7. s \in Int /\ 0 <= s /\ s <= 16776528
    <2> HIDE DEF ww
    <2> QED BY <1>6, SMT
  <1>8. t.h1 \in Int /\ 0 <= t.h1 /\ t.h1 <= 128
    BY SMT DEF TemperatureEnvelope, Between
  <1>9. sh \in Int /\ 0 <= sh /\ sh <= 16776528 * 128
    <2> HIDE DEF s
    <2> QED BY <1>7, <1>8, SMT
  <1>10. bend \in Int /\ 0 <= bend /\ bend <= 16776528 * 8
    <2> HIDE DEF sh
    <2> QED BY <1>9, SMT
  <1>11. Fits(wet) /\ Fits(ww) /\ Fits(sh) /\ all \in Int /\ Fits(all)
    <2> HIDE DEF wet, ww, sh, bend
    <2> QED BY <1>4, <1>6, <1>9, <1>10, SMT DEF Fits, Between, MaxInt
  <1>12. Mul(var2, scale) = wet
    BY <1>2, <1>3, <1>11, MulFits DEF Between
  <1>13. Shr(wet, 15) = w
    <2> HIDE DEF wet
    <2> QED BY <1>4, ShrIs
  <1>14. Mul(w, w) = ww
    <2> HIDE DEF w
    <2> QED BY <1>5, <1>11, MulFits
  <1>15. Shr(ww, 7) = s
    <2> HIDE DEF ww
    <2> QED BY <1>6, ShrIs
  <1>16. Mul(s, t.h1) = sh
    <2> HIDE DEF s
    <2> QED BY <1>7, <1>8, <1>11, MulFits
  <1>17. Shr(sh, 4) = bend
    <2> HIDE DEF sh
    <2> QED BY <1>9, ShrIs
  <1>18. Sub(wet, bend) = all
    <2> HIDE DEF wet, bend
    <2> QED BY <1>4, <1>10, <1>11, SubFits
  <1> HIDE DEF wet, w, ww, s, sh, bend, all
  <1>19. Clamped(all) \in Int /\ 0 <= Clamped(all) /\ Clamped(all) <= 419430400
    <2>1. all # Undefined
      BY <1>11, UndefinedAssumption
    <2> QED BY <1>11, <2>1, SMT DEF Clamped
  <1>20. Between(Shr(Clamped(all), 12), 0, 102400)
    <2> DEFINE n == Clamped(all)
    <2> HIDE DEF n
    <2>1. n \in Int /\ 0 <= n /\ n <= 419430400
      BY <1>19, SMT DEF n
    <2>2. Shr(n, 12) = n \div 4096
      BY <2>1, ShrIs
    <2>3. Between(n \div 4096, 0, 102400)
      BY <2>1, SMT DEF Between
    <2> QED BY <2>2, <2>3, SMT DEF n
  <1>21. compensate_humidity(t, h, raw, fine) = Shr(Clamped(all), 12)
    <2>1. compensate_humidity(t, h, raw, fine) =
            LET wt == Mul(var2, scale)
                bd == Shr(Mul(Shr(Mul(Shr(wt, 15), Shr(wt, 15)), 7), t.h1), 4)
            IN  Shr(Clamped(Sub(wt, bd)), 12)
      BY <1>1 DEF compensate_humidity, var2, scale, var3, low, high
    <2> QED
      BY <1>12, <1>13, <1>14, <1>15, <1>16, <1>17, <1>18, <2>1
  <1> QED
    BY <1>20, <1>21

(***************************************************************************)
(* What read_raw() makes of the eight bytes has 20 and 16 bits.            *)
(***************************************************************************)
Byte == 0..255

LEMMA ReadingsHaveWidth ==
    ASSUME NEW m \in [1..8 -> Byte]
    PROVE  Reading20(RawTemperature(m)) /\ Reading16(RawHumidity(m))
  <1>0. \A b \in Byte : b \in Int /\ 0 <= b /\ b <= 255
    BY DEF Byte
  <1>1. {m[4], m[5], m[6], m[7], m[8]} \subseteq Byte
    OBVIOUS
  <1>2. Reading20(RawTemperature(m))
    BY <1>0, <1>1, SMT DEF RawTemperature, Reading20, Between
  <1>3. Reading16(RawHumidity(m))
    BY <1>0, <1>1, SMT DEF RawHumidity, Reading16, Between
  <1> QED
    BY <1>2, <1>3

(***************************************************************************)
(* What the registers hold before the first measurement is over reads as a *)
(* temperature within the range, for every calibration covered.            *)
(***************************************************************************)
LEMMA ResetWithinRange ==
    ASSUME NEW t, TemperatureEnvelope(t)
    PROVE  WithinRange(ExactFine(t, RawTemperature(ResetData)))
  <1> DEFINE offset == 32768 - t.t1
             slope  == 65536 - 2 * t.t1
             square == offset * offset
             scaled == square \div 4096
             bent   == scaled * t.t3
             line   == slope * t.t2
  <1>1. /\ t.t1 \in Int /\ 24000 <= t.t1 /\ t.t1 <= 36000
        /\ t.t2 \in Nat /\ t.t2 <= 32767
        /\ t.t3 \in Int /\ -4096 <= t.t3 /\ t.t3 <= 4096
    BY SMT DEF TemperatureEnvelope, Between
  <1>2. RawTemperature(ResetData) = 524288
    BY SMT DEF RawTemperature, ResetData
  <1>3. ExactFine(t, 524288) = line \div 2048 + bent \div 16384
    <2>1. 524288 \div 16 = 32768 /\ 524288 \div 8 = 65536
      BY SMT
    <2> QED BY <1>1, <2>1, SMT DEF ExactFine
  <1>4. /\ offset \in Int /\ -8768 <= offset /\ offset <= 8768
        /\ slope \in Int /\ -6464 <= slope /\ slope <= 17536
    BY <1>1, SMT
  <1>5. square \in Int /\ 0 <= square /\ square <= 8768 * 8768
    <2> HIDE DEF offset
    <2> QED BY <1>4, SMT
  <1>6. scaled \in Int /\ 0 <= scaled /\ scaled <= 18769
    <2> HIDE DEF square
    <2> QED BY <1>5, SMT
  <1>7. bent \in Int /\ -(18769 * 4096) <= bent /\ bent <= 18769 * 4096
    <2> HIDE DEF scaled
    <2> QED BY <1>1, <1>6, ProductBound, SMT
  <1>8. line \in Int /\ -(6464 * 32767) <= line /\ line <= 17536 * 32767
    <2> HIDE DEF slope
    <2> QED BY <1>1, <1>4, NonNegativeProduct, SMT
  <1> HIDE DEF line, bent
  <1> QED
    BY <1>2, <1>3, <1>7, <1>8, SMT DEF WithinRange, Between

(***************************************************************************)
(* The sensors and measurements the bound is proved for: calibrations in   *)
(* the envelope, and measurements whose temperature, in exact arithmetic,  *)
(* is one of the sensor's range, -40 to 85 degrees, with any reading of    *)
(* humidity.                                                               *)
(***************************************************************************)
SensorsCovered ==
    \A s \in Sensors : /\ TemperatureEnvelope(TemperatureBlock(s.temperature))
                       /\ HumidityEnvelope(HumidityBlock(s.humidity))

MeasurementsCovered ==
    \A m \in Measurements :
       /\ m \in [1..8 -> Byte]
       /\ \A s \in Sensors :
             WithinRange(ExactFine(TemperatureBlock(s.temperature), RawTemperature(m)))

InRange(r) ==
    /\ Between(r.temperature, -4000, 8500)
    /\ Between(r.humidity, 0, 102400)

(***************************************************************************)
(* What read() returns for such a sensor and such registers, the values    *)
(* they have after power-on included.                                      *)
(***************************************************************************)
LEMMA CompensatedInRange ==
    ASSUME SensorsCovered, MeasurementsCovered,
           NEW s \in Sensors, NEW m \in Measurements \cup {ResetData}
    PROVE  InRange(Compensated([temperature |-> TemperatureBlock(s.temperature),
                                humidity |-> HumidityBlock(s.humidity)], m))
  <1> DEFINE t    == TemperatureBlock(s.temperature)
             h    == HumidityBlock(s.humidity)
             fine == ExactFine(t, RawTemperature(m))
             r    == Compensated([temperature |-> t, humidity |-> h], m)
  <1>1. TemperatureEnvelope(t) /\ HumidityEnvelope(h)
    BY DEF SensorsCovered
  <1>2. Reading20(RawTemperature(m)) /\ Reading16(RawHumidity(m)) /\ WithinRange(fine)
    <2>1. CASE m \in Measurements
      BY <2>1, ReadingsHaveWidth DEF MeasurementsCovered
    <2>2. CASE m = ResetData
      <3>1. ResetData \in [1..8 -> Byte]
        BY SMT DEF ResetData, Byte
      <3> HIDE DEF t
      <3> QED BY <1>1, <2>2, <3>1, ReadingsHaveWidth, ResetWithinRange
    <2> QED BY <2>1, <2>2
  <1> HIDE DEF t, h, fine
  <1>3. FineTemperature(t, RawTemperature(m)) = fine
    BY <1>1, <1>2, FineIsExact DEF fine
  <1>4. r.temperature = compensate_temperature(fine)
    BY <1>3 DEF Compensated
  <1>5. r.humidity = compensate_humidity(t, h, RawHumidity(m), fine)
    BY <1>3 DEF Compensated
  <1>6. Between(compensate_temperature(fine), -4000, 8500)
    <2>1. fine \in Int /\ -204800 <= fine /\ fine <= 435200
      BY <1>2, SMT DEF WithinRange, Between
    <2>2. fine * 5 \in Int /\ Fits(fine * 5) /\ Fits(fine * 5 + 128)
      BY <2>1, SMT DEF Fits, Between, MaxInt
    <2>3. Mul(fine, 5) = fine * 5
      BY <2>1, <2>2, MulFits, SMT
    <2> DEFINE five == fine * 5
    <2>4. five \in Int /\ Fits(five + 128) /\ -1024000 <= five /\ five <= 2176000
      BY <2>1, <2>2, SMT
    <2> HIDE DEF five
    <2>5. Add(five, 128) = five + 128
      BY <2>4, AddFits, SMT
    <2>6. Shr(five + 128, 8) = (five + 128) \div 256
      BY <2>4, ShrIs, SMT
    <2>7. Between((five + 128) \div 256, -4000, 8500)
      BY <2>4, SMT DEF Between
    <2>8. compensate_temperature(fine) = (five + 128) \div 256
      BY <2>3, <2>5, <2>6 DEF compensate_temperature, five
    <2> QED BY <2>7, <2>8
  <1>7. Between(compensate_humidity(t, h, RawHumidity(m), fine), 0, 102400)
    BY <1>1, <1>2, HumidityFits
  <1>8. InRange(r)
    BY <1>4, <1>5, <1>6, <1>7 DEF InRange
  <1> QED
    BY <1>8 DEF t, h

(***************************************************************************)
(* Every read() keeps within the range: it compensates with all of the     *)
(* sensor's coefficients what a measurement, or the reset, left in the     *)
(* registers.                                                              *)
(***************************************************************************)
LEMMA ReadsInRange ==
    ASSUME SensorsCovered, MeasurementsCovered, DevicesInv, InRange(ret), [Next]_vars
    PROVE  InRange(ret')
  <1>1. InRange(NoSamples)
    BY SMT DEF InRange, NoSamples, Between
  <1>2. CASE read_raw
    <2>1. /\ nvm \in Sensors /\ data \in Measurements \cup {ResetData}
          /\ calibration_[self] = [temperature |-> TemperatureBlock(nvm.temperature),
                                   humidity |-> HumidityBlock(nvm.humidity)]
      BY <1>2 DEF read_raw, DevicesInv, TypeOK, BusTypeOK, DriverStages, Stage, Reading, Loaded,
                  FirstBlock, SecondBlock
    <2>2. ret' = Compensated(calibration_[self], data)
      BY <1>2 DEF read_raw, Returns
    <2> QED
      BY <2>1, <2>2, CompensatedInRange
  <1>3. CASE UNCHANGED ret
    BY <1>3
  <1>4. CASE ret' = NoSamples
    BY <1>1, <1>4
  <1>5. read_raw \/ ret' = NoSamples \/ UNCHANGED ret
    <2>1. CASE UNCHANGED vars
      BY <2>1 DEF vars, busVars
    <2>2. CASE BusStep
      BY <2>2 DEF BusStep, Configure, ReadUnconfigured, Read, Opens, OpenFails, ChipIdRefused,
                  ChipIdMatches, LoadTemperature, LoadHumidity, CalibrationFails,
                  HumidityControl, MeasureControl, ReadFails, Measured, Reload, Throws, Goes,
                  Returns
    <2>3. CASE UNCHANGED busVars
      BY <2>3 DEF busVars
    <2> QED BY <2>1, <2>2, <2>3 DEF Next
  <1> QED
    BY <1>2, <1>3, <1>4, <1>5

(***************************************************************************)
(* No overflow in the driver's arithmetic: for every calibration in the    *)
(* envelope, every temperature of the sensor's range and every reading of  *)
(* humidity, before the first measurement and after any failure, what      *)
(* read() returns was computed within 32 bits and is a temperature between *)
(* -40 and 85 degrees and a humidity between none and all.                 *)
(***************************************************************************)
THEOREM CompensationBounded ==
    ASSUME SensorsCovered, MeasurementsCovered
    PROVE  Spec => []CompensationInRange
  <1>1. Init => InRange(ret)
    BY SMT DEF Init, BusInit, InRange, NoSamples, Between
  <1>2. DevicesInv /\ InRange(ret) /\ [Next]_vars => InRange(ret)'
    BY ReadsInRange
  <1>3. InRange(ret) => CompensationInRange
    BY UndefinedAssumption, SMT DEF InRange, Between, CompensationInRange
  <1> QED
    BY <1>1, <1>2, <1>3, InvHolds, PTL DEF Spec
=============================================================================
