------------------------------- MODULE Bme280 -------------------------------
(***************************************************************************)
(* The BME280 driver over i2c-dev (drivers/bme280, io/linux_i2c_bus.cpp):  *)
(* one action per bus transaction, each of which may fail.  The channels   *)
(* bound to the same sensor have a driver each; the service thread calls   *)
(* them one at a time.                                                     *)
(***************************************************************************)
EXTENDS Bme280Compensation, FiniteSets

CONSTANTS Driver,           \* driver instances, one per channel
          Sensors,          \* calibration memories: [temperature, humidity]
          Measurements      \* contents of the data registers after a measurement

VARIABLES fd_,              \* fd_[d]: the bus is open
          calibration_,     \* calibration_[d]: [temperature, humidity]
          configured_,
          pc, self,         \* the call in progress, and whose it is
          ret,              \* what the last read() returned
          nvm, data,        \* the sensor: its memory and its data registers
          measuring         \* the sensor: a forced measurement is under way

driverVars == <<fd_, calibration_, configured_>>
sensorVars == <<nvm, data, measuring>>
busVars    == <<driverVars, pc, self, ret, sensorVars>>

Uncalibrated ==
    [temperature |-> [t1 |-> 0, t2 |-> 0, t3 |-> 0, h1 |-> 0],
     humidity |-> [h2 |-> 0, h3 |-> 0, h4 |-> 0, h5 |-> 0, h6 |-> 0]]

ResetData == <<128, 0, 0, 128, 0, 0, 128, 0>>

NoSamples == [count |-> 0, temperature |-> 0, humidity |-> 0]

BusInit ==
    /\ fd_ = [d \in Driver |-> FALSE]
    /\ calibration_ = [d \in Driver |-> Uncalibrated]
    /\ configured_ = [d \in Driver |-> FALSE]
    /\ pc = "idle" /\ self \in Driver
    /\ ret = NoSamples
    /\ nvm \in Sensors /\ data = ResetData /\ measuring = FALSE

(***************************************************************************)
(* configure() throws: the runtime drops the driver, whose destructor      *)
(* closes the bus.                                                         *)
(***************************************************************************)
\* Mutant: the bus of a failed driver stays open.
BusAfterDropLeft(d) == UNCHANGED fd_

BusAfterDrop(d) == fd_' = [fd_ EXCEPT ![d] = FALSE]

Throws ==
    /\ BusAfterDrop(self)
    /\ calibration_' = [calibration_ EXCEPT ![self] = Uncalibrated]
    /\ configured_' = [configured_ EXCEPT ![self] = FALSE]
    /\ pc' = "idle"
    /\ UNCHANGED <<self, ret, sensorVars>>

Goes(step) == pc' = step /\ UNCHANGED <<self, ret, nvm, data>>
-----------------------------------------------------------------------------
(***************************************************************************)
(* configure(): parameters, bus, chip id, the two blocks of calibration.   *)
(***************************************************************************)
Configure(d) ==
    /\ pc = "idle" /\ ~configured_[d]
    /\ self' = d
    /\ pc' = "open"
    /\ UNCHANGED <<driverVars, ret, sensorVars>>

\* A parameter is missing or of the wrong kind, or the bus does not open.
OpenFails == pc = "open" /\ Throws

\* Mutant: the result of open() is not looked at.
OpensUnchecked ==
    /\ pc = "open"
    /\ Goes("chip_id")
    /\ UNCHANGED <<driverVars, measuring>>

Opens ==
    /\ pc = "open"
    /\ fd_' = [fd_ EXCEPT ![self] = TRUE]
    /\ Goes("chip_id")
    /\ UNCHANGED <<calibration_, configured_, measuring>>

(***************************************************************************)
(* write_read() and write() fail without an open bus, and may fail with    *)
(* one.                                                                    *)
(***************************************************************************)
Transfers == fd_[self]

ChipIdRefused == pc = "chip_id" /\ Throws

ChipIdMatches ==
    /\ pc = "chip_id" /\ Transfers
    /\ Goes("calibrate")
    /\ UNCHANGED <<driverVars, measuring>>

LoadTemperature ==
    /\ pc = "calibrate" /\ Transfers
    /\ calibration_' = [calibration_ EXCEPT
                          ![self].temperature = TemperatureBlock(nvm.temperature)]
    /\ Goes("calibrate_humidity")
    /\ UNCHANGED <<fd_, configured_, measuring>>

LoadHumidity ==
    /\ pc = "calibrate_humidity" /\ Transfers
    /\ calibration_' = [calibration_ EXCEPT ![self].humidity = HumidityBlock(nvm.humidity)]
    /\ configured_' = [configured_ EXCEPT ![self] = TRUE]
    /\ Goes("idle")
    /\ UNCHANGED <<fd_, measuring>>

\* Mutant: the result of the humidity block is not looked at.
CalibrationFailsIgnored ==
    \/ pc = "calibrate" /\ Throws
    \/ /\ pc = "calibrate_humidity"
       /\ configured_' = [configured_ EXCEPT ![self] = TRUE]
       /\ Goes("idle")
       /\ UNCHANGED <<fd_, calibration_, measuring>>

CalibrationFails == pc \in {"calibrate", "calibrate_humidity"} /\ Throws
-----------------------------------------------------------------------------
(***************************************************************************)
(* read(): two control writes start a forced measurement, and the data     *)
(* registers are read straight away, whether or not it is over.            *)
(***************************************************************************)
Returns(r) ==
    /\ ret' = r
    /\ pc' = "idle"
    /\ UNCHANGED <<driverVars, self, sensorVars>>

ReadUnconfigured(d) ==
    /\ pc = "idle" /\ ~configured_[d]
    /\ Returns(NoSamples)

Read(d) ==
    /\ pc = "idle" /\ configured_[d]
    /\ self' = d
    /\ pc' = "ctrl_hum"
    /\ UNCHANGED <<driverVars, ret, sensorVars>>

HumidityControl ==
    /\ pc = "ctrl_hum" /\ Transfers
    /\ Goes("ctrl_meas")
    /\ UNCHANGED <<driverVars, measuring>>

MeasureControl ==
    /\ pc = "ctrl_meas" /\ Transfers
    /\ measuring' = TRUE
    /\ Goes("read_raw")
    /\ UNCHANGED driverVars

ReadFails ==
    /\ pc \in {"ctrl_hum", "ctrl_meas", "read_raw"}
    /\ Returns(NoSamples)

Compensated(cal, block) ==
    LET fine == FineTemperature(cal.temperature, RawTemperature(block))
    IN  [count |-> 2,
         temperature |-> compensate_temperature(fine),
         humidity |-> compensate_humidity(cal.temperature, cal.humidity,
                                          RawHumidity(block), fine)]

read_raw ==
    /\ pc = "read_raw" /\ Transfers
    /\ Returns(Compensated(calibration_[self], data))

(***************************************************************************)
(* The sensor finishes a measurement, at a time of its own.                *)
(***************************************************************************)
Measured ==
    /\ measuring
    /\ measuring' = FALSE
    /\ data' \in Measurements
    /\ UNCHANGED <<driverVars, pc, self, ret, nvm>>

(***************************************************************************)
(* A reload drops every driver between two ticks.                          *)
(***************************************************************************)
Reload ==
    /\ pc = "idle"
    /\ fd_' = [d \in Driver |-> FALSE]
    /\ calibration_' = [d \in Driver |-> Uncalibrated]
    /\ configured_' = [d \in Driver |-> FALSE]
    /\ UNCHANGED <<pc, self, ret, sensorVars>>

BusTypeOK ==
    /\ \A d \in Driver : {fd_[d], configured_[d]} \subseteq BOOLEAN
    /\ self \in Driver
    /\ pc \in {"idle", "open", "chip_id", "calibrate", "calibrate_humidity",
               "ctrl_hum", "ctrl_meas", "read_raw"}
    /\ pc \in {"idle", "open"} \/ fd_[self]
    /\ ret.count \in {0, 2}
    /\ nvm \in Sensors /\ data \in Measurements \cup {ResetData} /\ measuring \in BOOLEAN
-----------------------------------------------------------------------------
(***************************************************************************)
(* Samples are compensated with the coefficients of the sensor, all of     *)
(* them: wherever the bus fails during configure() or a reload, no read()  *)
(* works with calibration that was not loaded completely.                  *)
(***************************************************************************)
SamplesCalibrated ==
    pc \in {"ctrl_hum", "ctrl_meas", "read_raw"} =>
       calibration_[self] = [temperature |-> TemperatureBlock(nvm.temperature),
                             humidity |-> HumidityBlock(nvm.humidity)]

(***************************************************************************)
(* What a measurement within the sensor's range, -40 to 85 degrees, leaves *)
(* in the registers, and what they hold before the first one is over, is   *)
(* compensated without overflow of the 32-bit arithmetic, to a temperature *)
(* within that range and a humidity between none and all, in the driver's  *)
(* 1024ths (compensate_temperature, compensate_humidity).                  *)
(***************************************************************************)
CompensationInRange ==
    /\ Undefined \notin {ret.temperature, ret.humidity}
    /\ -4000 <= ret.temperature /\ ret.temperature <= 8500
    /\ 0 <= ret.humidity /\ ret.humidity <= 102400

(***************************************************************************)
(* docs/specification.md 8 and the smoke test: the unit of humidity is     *)
(* "percent".                                                              *)
(***************************************************************************)
HumidityIsPercent == ret.humidity \in 0..10000
=============================================================================
